------------------------------ MODULE MCTextField ------------------------------
(* Texts of up to three octets and those of four that may be one scalar,    *)
(* then two scalars in a row; of the octets at the boundaries of the ranges *)
(* of a first and a second, then at those of the others; then extents that  *)
(* begin or end outside the array, as far as the bounds of a field permit.  *)
EXTENDS TextField, SequencesExt

Boundary ==
  {0, 127, 128, 143, 144, 159, 160, 191, 192, 193, 194, 223, 224, 225, 236, 237, 238, 239,
   240, 241, 243, 244, 245, 255}
Trailing == {0, 127, 128, 191, 192, 255}
Lead == {239, 240, 241, 243, 244, 245}

Whole(array) == [array |-> array, region |-> Extent(0, Len(array))]
MCInputs ==
  {Whole(t) : t \in BoundedSeq(Boundary, 2)}
    \cup {Whole(<<a, b, c>>) : a, b \in Boundary, c \in Trailing}
    \cup {Whole(<<a, b, c, d>>) : a \in Lead, b \in Boundary, c, d \in Trailing}
    \cup {Whole(<<a, 160, 159, b, c>>) : a \in {225, 240, 244}, b \in Boundary, c \in Trailing}
    \cup {[array |-> t, region |-> Extent(s, n)] :
             t \in [1 .. 3 -> {0, 194, 128}], s \in {1, 4}, n \in 0 .. 3 \cup {7}}

Between(a, b, c, d) ==
  [minimum_octets |-> a, maximum_octets |-> b, minimum_scalars |-> c, maximum_scalars |-> d, capacity |-> b]
MCBounds == {Between(0, 7, 0, 7), [Between(2, 4, 1, 2) EXCEPT !.capacity = 5]}
=============================================================================
