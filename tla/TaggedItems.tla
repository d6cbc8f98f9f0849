------------------------------ MODULE TaggedItems ------------------------------
(***************************************************************************)
(* What the specifications of a writing and of a reading caller record of  *)
(* the octets that have been given a meaning: one item per header or       *)
(* scalar, with the half-open range of offsets at .. upto-1 that holds it. *)
(***************************************************************************)
EXTENDS TaggedProfile

Item(kind, at, upto, tag, after, extent, content) ==
  [kind |-> kind, at |-> at, upto |-> upto, tag |-> tag, after |-> after,
   extent |-> extent, content |-> content]

(* A header ends where the extent it reserves starts; after is the tag of  *)
(* the field before it.                                                    *)
Header(kind, at, tag, after, extent) ==
  Item(kind, at, extent.start, tag, after, extent, 0)

Scalar(kind, at, upto, content) ==
  Item(kind, at, upto, No_Tag, No_Tag, Empty_Extent, content)

(* A cursor variable nobody uses. *)
Closed == Cursor(0, 0, 0)

End(region) == region.start + region.length

(* Two half-open ranges of offsets do not overlap. *)
Apart(lo1, hi1, lo2, hi2) == hi1 <= lo2 \/ hi2 <= lo1

Bit(value) == IF value THEN 1 ELSE 0

=============================================================================
