------------------------------- MODULE TextField -------------------------------
(***************************************************************************)
(* What a generated codec asks of the octets of a text field: their number,*)
(* Validate_UTF_8 of the tagged profile, one scalar a turn, and the number *)
(* of the scalars.  Radix is 128 here: octets are octets.                  *)
(***************************************************************************)
EXTENDS TaggedProfile

CONSTANTS
  Inputs,    (* arrays, each with an extent of it *)
  Bounds     (* of text values: of octets and of scalars, and the component's capacity *)

ASSUME TextAssumption ==
  /\ Radix = 128
  /\ \A i \in Inputs : i.array \in Seq(Octet)
  /\ \A b \in Bounds :
       /\ b.minimum_octets <= b.maximum_octets /\ b.minimum_scalars <= b.maximum_scalars
       /\ b.minimum_octets <= 4 * b.maximum_scalars /\ b.minimum_scalars <= b.maximum_octets
       /\ b.maximum_octets <= b.capacity   (* or the codec does not compile *)

VARIABLES
  input, region, bounds,
  status,       (* where the call is, or what came of it *)
  cursor,
  count,        (* scalars so far *)
  Scalar_Count  (* the out parameter *)

vars == <<input, region, bounds, status, cursor, count, Scalar_Count>>

Init ==
  /\ \E i \in Inputs : input = i.array /\ region = i.region
  /\ bounds \in Bounds /\ status = "Header" /\ cursor = Cursor(0, 0, 0) /\ count = 0 /\ Scalar_Count = 0

Continuation == 128 .. 191   (* 16#80# .. 16#BF# *)

(* Mutant: the second octet of a three-octet scalar may be any. *)
Surrogate_Following(first) ==
  IF first <= 127 THEN {<<>>}
  ELSE IF first \in 194 .. 223 THEN {<<Continuation>>}
  ELSE IF first = 224 THEN {<<160 .. 191, Continuation>>}
  ELSE IF first \in 225 .. 239 THEN {<<Continuation, Continuation>>}
  ELSE IF first = 240 THEN {<<144 .. 191, Continuation, Continuation>>}
  ELSE IF first \in 241 .. 243 THEN {<<Continuation, Continuation, Continuation>>}
  ELSE IF first = 244 THEN {<<128 .. 143, Continuation, Continuation>>}
  ELSE {}

(* The ranges of the octets that follow a first one, if it may be first. *)
Following(first) ==
  IF first <= 127 THEN {<<>>}
  ELSE IF first \in 194 .. 223 THEN {<<Continuation>>}
  ELSE IF first = 224 THEN {<<160 .. 191, Continuation>>}
  ELSE IF first \in 225 .. 236 \cup 238 .. 239 THEN {<<Continuation, Continuation>>}
  ELSE IF first = 237 THEN {<<128 .. 159, Continuation>>}
  ELSE IF first = 240 THEN {<<144 .. 191, Continuation, Continuation>>}
  ELSE IF first \in 241 .. 243 THEN {<<Continuation, Continuation, Continuation>>}
  ELSE IF first = 244 THEN {<<128 .. 143, Continuation, Continuation>>}
  ELSE {}

(* Ada's offset k is element k+1. *)
Whole_Scalar(ranges) ==
  /\ Len(ranges) + 1 <= cursor.limit - cursor.next
  /\ \A i \in DOMAIN ranges : input[cursor.next + 1 + i] \in ranges[i]

Return(result) == status' = result /\ UNCHANGED <<input, region, bounds, cursor, count, Scalar_Count>>

(* An extent comes from a header that was read from the array; others may  *)
(* be passed to Validate_UTF_8 as well.                                    *)
Octets_Bounded ==
  /\ status = "Header"
  /\ Return(IF \/ region.length < bounds.minimum_octets
               \/ region.length > bounds.maximum_octets
               \/ region.length > bounds.capacity
              THEN "Invalid_Value" ELSE "Validate_UTF_8")

Validate_UTF_8 ==
  /\ status = "Validate_UTF_8"
  /\ \E result \in {Initialize(input, region)} :
       /\ cursor' = result.cursor
       /\ status' = IF result.status = "Cursor_Ready" THEN "Scalars" ELSE "Invalid_UTF_8_Extent"
  /\ UNCHANGED <<input, region, bounds, count, Scalar_Count>>

Next_Scalar ==
  /\ status = "Scalars" /\ ~ At_End(cursor)
  /\ \E ranges \in Following(input[cursor.next + 1]) :
       /\ Whole_Scalar(ranges)
       /\ cursor' = Advance(cursor, Len(ranges) + 1) /\ count' = count + 1
       /\ UNCHANGED <<input, region, bounds, status, Scalar_Count>>

(* The cursor is a variable of the call: where it stops does not matter. *)
No_Scalar ==
  /\ status = "Scalars" /\ ~ At_End(cursor)
  /\ \A ranges \in Following(input[cursor.next + 1]) : ~ Whole_Scalar(ranges)
  /\ Return("Invalid_UTF_8")

Valid_UTF_8 ==
  /\ status = "Scalars" /\ At_End(cursor)
  /\ Scalar_Count' = count /\ status' = "Valid_UTF_8"
  /\ UNCHANGED <<input, region, bounds, cursor, count>>

(* The generator leaves out a comparison that the octets make needless. *)
Scalars_Bounded ==
  /\ status \in {"Valid_UTF_8", "Invalid_UTF_8", "Invalid_UTF_8_Extent"}
  /\ Return(IF \/ status # "Valid_UTF_8"
               \/ Scalar_Count < bounds.minimum_scalars
               \/ bounds.maximum_scalars < bounds.maximum_octets /\ Scalar_Count > bounds.maximum_scalars
              THEN "Invalid_Value" ELSE "Decoded")

Next ==
  \/ Octets_Bounded
  \/ Validate_UTF_8
  \/ Next_Scalar
  \/ No_Scalar
  \/ Valid_UTF_8
  \/ Scalars_Bounded

Spec == Init /\ [][Next]_vars

-----------------------------------------------------------------------------

(* Unicode's scalar values: no surrogates. *)
Scalar_Value(v) == v \in 0 .. 1114111 /\ v \notin 55296 .. 57343

(* The shortest form of a value, by its bits. *)
Trail(v, n) == ((v \div 64 ^ n) % 64) + 128
Shortest(v) ==
  IF v < 128 THEN <<v>>
  ELSE IF v < 2048 THEN <<192 + v \div 64, Trail(v, 0)>>
  ELSE IF v < 65536 THEN <<224 + v \div 4096, Trail(v, 1), Trail(v, 0)>>
  ELSE <<240 + v \div 262144, Trail(v, 2), Trail(v, 1), Trail(v, 0)>>

(* The value whose bits are in a form of n octets, shortest or not. *)
Bits(octets) ==
  LET low(i) == octets[i] % 64
  IN  CASE Len(octets) = 1 -> octets[1]
        [] Len(octets) = 2 -> (octets[1] % 32) * 64 + low(2)
        [] Len(octets) = 3 -> (octets[1] % 16) * 4096 + low(2) * 64 + low(3)
        [] OTHER           -> (octets[1] % 8) * 262144 + low(2) * 4096 + low(3) * 64 + low(4)

(* The scalars octets encode, if they do. *)
Scalars(octets) ==
  LET one(i, n) == SubSeq(octets, i - n + 1, i)
      counts[i \in 0 .. Len(octets)] ==
        IF i = 0 THEN {0}
        ELSE UNION {{c + 1 : c \in counts[i - n]} :
                      n \in {m \in 1 .. 4 : m <= i /\ Scalar_Value(Bits(one(i, m)))
                                                   /\ Shortest(Bits(one(i, m))) = one(i, m)}}
  IN  counts[Len(octets)]

Octets_Of(r) == SubSeq(input, r.start + 1, r.start + r.length)

(* The octets are the shortest forms of scalar values one after the other, *)
(* as many as are counted, or they are not valid; a text is decoded exactly*)
(* if there are as many octets and scalars as its schema says, and nothing *)
(* is counted of one that is not valid.                                    *)
ValidIsScalars ==
  /\ status = "Valid_UTF_8" => Inside(region, input) /\ Scalars(Octets_Of(region)) = {Scalar_Count}
  /\ status \in {"Invalid_UTF_8", "Invalid_UTF_8_Extent"} =>
       /\ Scalar_Count = 0
       /\ Inside(region, input) => Scalars(Octets_Of(region)) = {} /\ status = "Invalid_UTF_8"
  /\ status \in {"Decoded", "Invalid_Value"} =>
       (status = "Decoded" <=>
          /\ Inside(region, input)
          /\ region.length \in bounds.minimum_octets .. bounds.maximum_octets
          /\ Scalars(Octets_Of(region)) \cap bounds.minimum_scalars .. bounds.maximum_scalars # {})

=============================================================================
