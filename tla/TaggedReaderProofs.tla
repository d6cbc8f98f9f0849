--------------------------- MODULE TaggedReaderProofs ---------------------------
(***************************************************************************)
(* For every input array, every set of cursors and every capacity: cursors *)
(* stay in bounds, every octet has one meaning, what was accepted is what  *)
(* the writers would have written, a read that fails consumes nothing, and *)
(* no input is read forever.                                               *)
(***************************************************************************)
EXTENDS TaggedReader, TaggedProfileProofs

(***************************************************************************)
(* Writing back what was read.                                             *)
(***************************************************************************)

(* Storing an integer where the array holds it already. *)
LEMMA PutHeld ==
  ASSUME NEW buffer \in Seq(Octet), NEW k \in Nat, NEW v \in Unsigned, Encodes(buffer, k, v)
  PROVE  Put_Unsigned(buffer, k, v) = buffer
<1> DEFINE size == Unsigned_Size(v)
           at(i) == IF i \in k + 1 .. k + size THEN Group(v, i - k - 1) ELSE buffer[i]
<1>1. size \in Nat
  BY SizeOfUnsigned
<1>2. \A i \in 1 .. Len(buffer) : at(i) = buffer[i]
  <2> SUFFICES ASSUME NEW i \in 1 .. Len(buffer), i \in k + 1 .. k + size
               PROVE  Group(v, i - k - 1) = buffer[i]
    OBVIOUS
  <2>1. i - k - 1 \in 0 .. size - 1 /\ k + (i - k - 1) + 1 = i
    BY <1>1
  <2> QED BY <2>1 DEF Encodes
<1>3. Put_Unsigned(buffer, k, v) = [i \in 1 .. Len(buffer) |-> at(i)]
  BY DEF Put_Unsigned
<1> HIDE DEF at
<1>4. [i \in 1 .. Len(buffer) |-> at(i)] = [i \in 1 .. Len(buffer) |-> buffer[i]]
  BY <1>2
<1>5. [i \in 1 .. Len(buffer) |-> buffer[i]] = buffer
  OBVIOUS
<1> QED BY <1>3, <1>4, <1>5

(* The cursor AcceptedIsCanonical writes through. *)
LEMMA Rewriting ==
  ASSUME NEW at \in Nat, NEW size \in Nat, NEW count \in Nat, size <= count, at + count <= Len(input),
         Len(input) \in Nat
  PROVE  LET c == Cursor(at, at, Len(input))
         IN  /\ Is_Valid(c, Len(input))
             /\ c.next = at
             /\ Remaining(c) = Len(input) - at
             /\ count <= Remaining(c)
             /\ ~ Overruns(input, at, size)
             /\ Advance(c, count) = [c EXCEPT !.next = at + count]
BY DEF Cursor, Is_Valid, Remaining, Overruns, Advance

LEMMA UnsignedRewritten ==
  ASSUME input \in Seq(Octet), NEW at \in Nat, NEW v \in Unsigned, Encodes(input, at, v),
         at + Unsigned_Size(v) <= Len(input)
  PROVE  LET c == Cursor(at, at, Len(input))
         IN  Write_Unsigned(input, c, v) =
               [status |-> "Wrote", output |-> input,
                cursor |-> [c EXCEPT !.next = at + Unsigned_Size(v)]]
<1> DEFINE c == Cursor(at, at, Len(input))
           size == Unsigned_Size(v)
<1>1. size \in Nat /\ Len(input) \in Nat /\ size <= size
  BY SizeOfUnsigned
<1>2. Put_Unsigned(input, at, v) = input
  BY PutHeld
<1>3. /\ Is_Valid(c, Len(input)) /\ c.next = at /\ size <= Remaining(c) /\ Remaining(c) = Len(input) - at
      /\ ~ Overruns(input, at, size)
      /\ Advance(c, size) = [c EXCEPT !.next = at + size]
  BY <1>1, Rewriting
<1> HIDE DEF c, size
<1>4. ~ (size > Remaining(c))
  BY <1>1, <1>3
<1>5. Write_Unsigned(input, c, v) = [status |-> "Wrote", output |-> input, cursor |-> Advance(c, size)]
  BY <1>2, <1>3, <1>4 DEF Write_Unsigned, size
<1> QED BY <1>3, <1>5 DEF c, size

LEMMA BooleanRewritten ==
  ASSUME input \in Seq(Octet), NEW at \in Nat, NEW value \in BOOLEAN, input[at + 1] = Bit(value),
         at + 1 <= Len(input)
  PROVE  LET c == Cursor(at, at, Len(input))
         IN  Write_Boolean(input, c, value) =
               [status |-> "Wrote", output |-> input, cursor |-> [c EXCEPT !.next = at + 1]]
<1> DEFINE c == Cursor(at, at, Len(input))
           bit == IF value THEN 1 ELSE 0
           after == [i \in 1 .. Len(input) |-> IF i = c.next + 1 THEN bit ELSE input[i]]
<1>1. Len(input) \in Nat /\ 1 \in Nat /\ 1 <= 1
  OBVIOUS
<1>2. /\ Is_Valid(c, Len(input)) /\ c.next = at /\ 1 <= Remaining(c) /\ Remaining(c) = Len(input) - at
      /\ ~ Overruns(input, at, 1)
      /\ Advance(c, 1) = [c EXCEPT !.next = at + 1]
  BY <1>1, Rewriting
<1>3. input[at + 1] = bit
  BY DEF Bit
<1> HIDE DEF c, bit
<1>4. after = input
  <2>1. \A i \in 1 .. Len(input) : (IF i = c.next + 1 THEN bit ELSE input[i]) = input[i]
    BY <1>2, <1>3
  <2>2. after = [i \in 1 .. Len(input) |-> input[i]]
    BY <2>1
  <2> QED BY <2>2
<1>5. ~ (~ Is_Valid(c, Len(input)) \/ Remaining(c) = 0)
  BY <1>1, <1>2
<1>6. Write_Boolean(input, c, value) =
        [status |-> IF Overruns(input, c.next, 1) THEN "Constraint_Error" ELSE "Wrote",
         output |-> after, cursor |-> Advance(c, 1)]
  BY <1>5, Zenon DEF Write_Boolean, bit
<1> HIDE DEF after
<1> QED BY <1>2, <1>4, <1>6 DEF c

LEMMA DelimitedRewritten ==
  ASSUME input \in Seq(Octet), NEW at \in Nat, NEW region \in Regions,
         HoldsExtent(input, at, region), End(region) <= Len(input)
  PROVE  LET c == Cursor(at, at, Len(input))
         IN  Write_Length_Delimited(input, c, region.length) =
               [status |-> "Wrote", output |-> input, cursor |-> [c EXCEPT !.next = End(region)],
                value |-> region]
<1> DEFINE c == Cursor(at, at, Len(input))
           v == region.length
           size == Unsigned_Size(v)
           count == size + v
<1>1. /\ v \in Unsigned /\ region.start \in Nat /\ region = [start |-> region.start, length |-> v]
      /\ region.start = at + size /\ Encodes(input, at, v) /\ Len(input) \in Nat
  BY DEF Regions, HoldsExtent
<1>2. v \in Nat /\ size \in Nat
  BY <1>1, SizeOfUnsigned
<1> HIDE DEF v, size
<1>3. /\ count \in Nat /\ size <= count /\ at + count = End(region) /\ at + count <= Len(input)
  BY <1>1, <1>2 DEF End, v
<1>4. Put_Unsigned(input, at, v) = input
  BY <1>1, PutHeld
<1>5. /\ Is_Valid(c, Len(input)) /\ c.next = at /\ count <= Remaining(c) /\ Remaining(c) = Len(input) - at
      /\ ~ Overruns(input, at, size)
      /\ Advance(c, count) = [c EXCEPT !.next = at + count]
  BY <1>1, <1>2, <1>3, Rewriting
<1> HIDE DEF c
<1>6. Has_Room(input, c, size, v)
  BY <1>1, <1>2, <1>5 DEF Has_Room
<1>7. Write_Length_Delimited(input, c, v) =
        [status |-> "Wrote", output |-> input, cursor |-> Advance(c, count), value |-> Extent(at + size, v)]
  BY <1>4, <1>5, <1>6 DEF Write_Length_Delimited, size
<1>8. Extent(at + size, v) = region
  BY <1>1 DEF Extent
<1> QED BY <1>3, <1>5, <1>7, <1>8 DEF c, v

LEMMA FieldRewritten ==
  ASSUME input \in Seq(Octet), NEW at \in Nat, NEW tag \in Field_Tag \cap Unsigned,
         NEW after \in Nat, tag > after, NEW region \in Regions,
         HoldsHeader(input, at, tag, region), End(region) <= Len(input)
  PROVE  LET c == Cursor(at, at, Len(input))
         IN  Write_Field_Header(input, c, after, tag, region.length) =
               [status |-> "Wrote", output |-> input, cursor |-> [c EXCEPT !.next = End(region)],
                previous |-> tag, value |-> region]
<1> DEFINE c == Cursor(at, at, Len(input))
           v == region.length
           first == Unsigned_Size(tag)
           size == first + Unsigned_Size(v)
           count == size + v
<1>1. /\ v \in Unsigned /\ region.start \in Nat /\ region = [start |-> region.start, length |-> v]
      /\ region.start = at + first + Unsigned_Size(v)
      /\ Encodes(input, at, tag) /\ Encodes(input, at + first, v) /\ Len(input) \in Nat
  BY DEF Regions, HoldsHeader, HoldsExtent
<1>2. v \in Nat /\ Unsigned_Size(v) \in Nat /\ first \in Nat /\ tag \in Nat /\ tag >= 1
  BY <1>1, SizeOfUnsigned, Limits DEF Field_Tag
<1> HIDE DEF v, first
<1>3. /\ size \in Nat /\ count \in Nat /\ size <= count
      /\ at + count = End(region) /\ at + count <= Len(input) /\ at + first \in Nat
      /\ region.start = at + size
  <2>1. End(region) = region.start + v
    BY DEF End, v
  <2>2. region.start = at + first + Unsigned_Size(v)
    BY <1>1
  <2> QED BY <1>2, <2>1, <2>2, SMTT(60)
<1>4. Put_Unsigned(input, at, tag) = input /\ Put_Unsigned(input, at + first, v) = input
  BY <1>1, <1>3, PutHeld
<1> HIDE DEF size
<1>5. /\ Is_Valid(c, Len(input)) /\ c.next = at /\ count <= Remaining(c) /\ Remaining(c) = Len(input) - at
      /\ ~ Overruns(input, at, size)
      /\ Advance(c, count) = [c EXCEPT !.next = at + count]
  BY <1>1, <1>3, Rewriting
<1> HIDE DEF c
<1>6. Has_Room(input, c, size, v)
  <2>1. Len(input) \in Nat /\ count = size + v
    BY <1>1
  <2>2. size <= Remaining(c) /\ v <= Remaining(c) - size
    BY <1>2, <1>3, <1>5, <2>1, SMTT(60)
  <2> QED BY <1>5, <2>2 DEF Has_Room
<1>7. ~ (tag = No_Tag) /\ ~ (tag <= after)
  BY <1>2 DEF No_Tag
<1>8. Write_Field_Header(input, c, after, tag, v) =
        [status |-> "Wrote", output |-> input, cursor |-> Advance(c, count),
         previous |-> tag, value |-> Extent(at + size, v)]
  BY <1>4, <1>5, <1>6, <1>7 DEF Write_Field_Header, size, first
<1>9. Extent(at + size, v) = region
  BY <1>1, <1>3 DEF Extent
<1> QED BY <1>3, <1>5, <1>8, <1>9 DEF c, v

-----------------------------------------------------------------------------

(***************************************************************************)
(* The invariant.  AcceptedIsCanonical follows from what each item is      *)
(* known to be in the input, which no later step can change; that every    *)
(* octet has one owner needs the extents to lie in the array; that a       *)
(* failed read changes nothing needs that the caller does not go on after  *)
(* a failure.                                                              *)
(***************************************************************************)
ItemHolds(m) ==
  /\ m.at \in Nat /\ m.upto \in Nat
  /\ \/ /\ m.kind = "field"
        /\ m.tag \in Field_Tag \cap Unsigned /\ m.after \in Nat /\ m.tag > m.after
        /\ m.extent \in Regions /\ End(m.extent) <= Len(input)
        /\ HoldsHeader(input, m.at, m.tag, m.extent)
     \/ /\ m.kind = "delimited"
        /\ m.extent \in Regions /\ End(m.extent) <= Len(input)
        /\ HoldsExtent(input, m.at, m.extent)
     \/ /\ m.kind = "unsigned"
        /\ m.content \in Unsigned /\ Encodes(input, m.at, m.content)
        /\ m.upto = m.at + Unsigned_Size(m.content) /\ m.upto <= Len(input)
     \/ /\ m.kind = "signed"
        /\ m.content \in Integer_64 /\ Encodes(input, m.at, ZigZag_Encode(m.content))
        /\ m.upto = m.at + Unsigned_Size(ZigZag_Encode(m.content)) /\ m.upto <= Len(input)
     \/ /\ m.kind = "boolean"
        /\ m.content \in {0, 1} /\ input[m.at + 1] = m.content
        /\ m.upto = m.at + 1 /\ m.upto <= Len(input)
     \/ /\ m.kind = "octets"
        /\ m.upto = m.at + m.content

ItemsAt(k) == {m \in items : k \in m.at .. m.upto - 1}
UnreadAt(k) == {e \in unread : k \in e.start .. End(e) - 1}
OpenAt(k) == {r \in open : k \in cursor[r].next .. cursor[r].limit - 1}

(* Exactly one item, extent or cursor has octet k. *)
OneOwner(k) ==
  \/ (\E m : ItemsAt(k) = {m}) /\ UnreadAt(k) = {} /\ OpenAt(k) = {}
  \/ ItemsAt(k) = {} /\ (\E e : UnreadAt(k) = {e}) /\ OpenAt(k) = {}
  \/ ItemsAt(k) = {} /\ UnreadAt(k) = {} /\ (\E r : OpenAt(k) = {r})

Offsets == 0 .. Len(input) - 1

ExtentsInside == \A e \in unread : e \in Regions /\ End(e) <= Len(input)
EachOwned == \A k \in Offsets : OneOwner(k)
ItemsHold == \A m \in items : ItemHolds(m)
Working == phase = "reading" => status \in {"Read", "Cursor_Ready"}
FewAtATime == IsFiniteSet(unread) /\ IsFiniteSet(open)

IInv ==
  TypeOK /\ CursorsInBounds /\ ExtentsInside /\ EachOwned /\ ItemsHold /\ Working /\ FewAtATime

LEMMA EachOwnedOnce == EachOwned => EveryOctetOnce
<1> SUFFICES ASSUME EachOwned, NEW k \in Offsets
             PROVE  Cardinality(ItemsAt(k)) + Cardinality(UnreadAt(k)) + Cardinality(OpenAt(k)) = 1
  BY DEF EveryOctetOnce, ItemsAt, UnreadAt, OpenAt, Offsets
<1>1. Cardinality({}) = 0 /\ \A x : Cardinality({x}) = 1
  BY FS_EmptySet, FS_Singleton
<1>2. OneOwner(k)
  BY DEF EachOwned
<1> DEFINE i == Cardinality(ItemsAt(k))
           u == Cardinality(UnreadAt(k))
           o == Cardinality(OpenAt(k))
<1>3. \/ i = 1 /\ u = 0 /\ o = 0
      \/ i = 0 /\ u = 1 /\ o = 0
      \/ i = 0 /\ u = 0 /\ o = 1
  BY <1>1, <1>2, Zenon DEF OneOwner
<1> HIDE DEF i, u, o
<1>4. i + u + o = 1
  BY <1>3
<1> QED BY <1>4 DEF i, u, o

LEMMA ItemsAreCanonical == input \in Seq(Octet) /\ ItemsHold => AcceptedIsCanonical
<1> SUFFICES ASSUME input \in Seq(Octet), NEW m \in items, ItemHolds(m)
             PROVE
    LET c == Cursor(m.at, m.at, Len(input))
    IN  CASE m.kind = "field" ->
               Write_Field_Header(input, c, m.after, m.tag, m.extent.length) =
                 [status |-> "Wrote", output |-> input, cursor |-> [c EXCEPT !.next = End(m.extent)],
                  previous |-> m.tag, value |-> m.extent]
          [] m.kind = "delimited" ->
               Write_Length_Delimited(input, c, m.extent.length) =
                 [status |-> "Wrote", output |-> input, cursor |-> [c EXCEPT !.next = End(m.extent)],
                  value |-> m.extent]
          [] m.kind = "unsigned" ->
               Write_Unsigned(input, c, m.content) =
                 [status |-> "Wrote", output |-> input, cursor |-> [c EXCEPT !.next = m.upto]]
          [] m.kind = "signed" ->
               /\ m.content \in Integer_64
               /\ Write_Signed(input, c, m.content) =
                    [status |-> "Wrote", output |-> input, cursor |-> [c EXCEPT !.next = m.upto]]
          [] m.kind = "boolean" ->
               Write_Boolean(input, c, m.content = 1) =
                 [status |-> "Wrote", output |-> input, cursor |-> [c EXCEPT !.next = m.upto]]
          [] m.kind = "octets" -> m.upto = m.at + m.content
  BY DEF ItemsHold, AcceptedIsCanonical
<1> DEFINE c == Cursor(m.at, m.at, Len(input))
<1>1. CASE m.kind = "field"
  <2>1. Write_Field_Header(input, c, m.after, m.tag, m.extent.length) =
          [status |-> "Wrote", output |-> input, cursor |-> [c EXCEPT !.next = End(m.extent)],
           previous |-> m.tag, value |-> m.extent]
    BY <1>1, FieldRewritten DEF ItemHolds
  <2> QED BY <1>1, <2>1
<1>2. CASE m.kind = "delimited"
  <2>1. Write_Length_Delimited(input, c, m.extent.length) =
          [status |-> "Wrote", output |-> input, cursor |-> [c EXCEPT !.next = End(m.extent)],
           value |-> m.extent]
    BY <1>2, DelimitedRewritten DEF ItemHolds
  <2> QED BY <1>2, <2>1
<1>3. CASE m.kind = "unsigned"
  <2>1. Write_Unsigned(input, c, m.content) =
          [status |-> "Wrote", output |-> input, cursor |-> [c EXCEPT !.next = m.upto]]
    BY <1>3, UnsignedRewritten DEF ItemHolds
  <2> QED BY <1>3, <2>1
<1>4. CASE m.kind = "signed"
  <2>1. m.content \in Integer_64 /\ ZigZag_Encode(m.content) \in Unsigned
    BY <1>4, ZigZagEncoded DEF ItemHolds
  <2>2. Write_Signed(input, c, m.content) =
          [status |-> "Wrote", output |-> input, cursor |-> [c EXCEPT !.next = m.upto]]
    BY <1>4, <2>1, UnsignedRewritten DEF ItemHolds, Write_Signed
  <2> QED BY <1>4, <2>1, <2>2
<1>5. CASE m.kind = "boolean"
  <2>1. (m.content = 1) \in BOOLEAN /\ input[m.at + 1] = Bit(m.content = 1)
    BY <1>5 DEF ItemHolds, Bit
  <2>2. m.at \in Nat /\ m.upto = m.at + 1 /\ m.at + 1 <= Len(input)
    BY <1>5 DEF ItemHolds
  <2> DEFINE value == m.content = 1
  <2> HIDE DEF value
  <2>3. Write_Boolean(input, c, value) =
          [status |-> "Wrote", output |-> input, cursor |-> [c EXCEPT !.next = m.at + 1]]
    BY <2>1, <2>2, BooleanRewritten DEF value
  <2> QED BY <1>5, <2>2, <2>3 DEF value
<1>6. CASE m.kind = "octets"
  BY <1>6 DEF ItemHolds
<1> QED BY <1>1, <1>2, <1>3, <1>4, <1>5, <1>6 DEF ItemHolds

-----------------------------------------------------------------------------

(***************************************************************************)
(* What a step may never do: the bodies of the two action properties.      *)
(***************************************************************************)
Failure == status' \in Read_Status \ {"Read"} => UNCHANGED <<cursor, previous, unread, items>>

Progress == Work' < Work \/ UNCHANGED <<cursor, previous, open, unread, items, phase>>

(* Work counts the octets nobody has read, and they are finitely many.     *)
Left == {k \in Offsets : OpenAt(k) # {} \/ UnreadAt(k) # {}}

LEMMA CountingWork ==
  ASSUME input \in Seq(Octet), FewAtATime
  PROVE  /\ Work = 3 * Cardinality(Left) + 2 * Cardinality(unread) + Cardinality(open)
                   + (IF phase = "reading" THEN 1 ELSE 0)
         /\ IsFiniteSet(Left)
         /\ Cardinality(Left) \in Nat /\ Cardinality(unread) \in Nat /\ Cardinality(open) \in Nat
<1>1. Len(input) - 1 \in Int /\ 0 \in Int
  OBVIOUS
<1>2. IsFiniteSet(Offsets)
  BY <1>1, FS_Interval DEF Offsets
<1>3. IsFiniteSet(Left)
  BY <1>2, FS_Subset DEF Left
<1>4. Left = {k \in 0 .. Len(input) - 1 :
                \/ \E r \in open : k \in cursor[r].next .. cursor[r].limit - 1
                \/ \E e \in unread : k \in e.start .. End(e) - 1}
  BY DEF Left, OpenAt, UnreadAt, Offsets
<1>5. Work = 3 * Cardinality(Left) + 2 * Cardinality(unread) + Cardinality(open)
             + (IF phase = "reading" THEN 1 ELSE 0)
  BY <1>4, Zenon DEF Work
<1> QED BY <1>3, <1>5, FS_CardinalityType DEF FewAtATime

LEMMA CountingWorkAfter ==
  ASSUME input' \in Seq(Octet), FewAtATime'
  PROVE  /\ Work' = 3 * Cardinality(Left') + 2 * Cardinality(unread') + Cardinality(open')
                    + (IF phase' = "reading" THEN 1 ELSE 0)
         /\ IsFiniteSet(Left')
         /\ Cardinality(Left') \in Nat /\ Cardinality(unread') \in Nat /\ Cardinality(open') \in Nat
<1>1. Len(input') - 1 \in Int /\ 0 \in Int
  OBVIOUS
<1>2. IsFiniteSet(Offsets')
  BY <1>1, FS_Interval DEF Offsets
<1>3. IsFiniteSet(Left')
  BY <1>2, FS_Subset DEF Left
<1>4. Left' = {k \in 0 .. Len(input') - 1 :
                \/ \E r \in open' : k \in cursor'[r].next .. cursor'[r].limit - 1
                \/ \E e \in unread' : k \in e.start .. End(e) - 1}
  BY DEF Left, OpenAt, UnreadAt, Offsets
<1>5. Work' = 3 * Cardinality(Left') + 2 * Cardinality(unread') + Cardinality(open')
             + (IF phase' = "reading" THEN 1 ELSE 0)
  BY <1>4, Zenon DEF Work
<1> QED BY <1>3, <1>5, FS_CardinalityType DEF FewAtATime

-----------------------------------------------------------------------------

(***************************************************************************)
(* A read that succeeds takes count octets from its cursor: the first size *)
(* of them are an item, the rest is an extent for another cursor.          *)
(***************************************************************************)
Consumes(r, size, count, item, yielded) ==
  LET n == cursor[r].next
  IN  /\ phase = "reading" /\ phase' = "reading" /\ status' = "Read"
      /\ UNCHANGED <<input, open>>
      /\ size <= count /\ count <= Remaining(cursor[r])
      /\ cursor' = [cursor EXCEPT ![r] = MovedTo(cursor[r], n + count)]
      /\ previous' \in [Readers -> Tag_Number]
      /\ items' = IF 0 < size THEN items \cup {item} ELSE items
      /\ unread' = unread \cup yielded
      /\ 0 < size => item.at = n /\ item.upto = n + size /\ ItemHolds(item)
      /\ \/ size = count /\ yielded = {}
         \/ /\ 0 < size
            /\ \E e \in Regions : yielded = {e} /\ e.start = n + size /\ End(e) = n + count
      /\ size = 0 => previous' = previous

(* A range that is taken apart in three. *)
LEMMA Parts ==
  ASSUME NEW n \in Nat, NEW mid \in Nat, NEW end \in Nat, NEW limit \in Nat,
         n <= mid, mid <= end, end <= limit, NEW k \in Int
  PROVE  /\ k \in n .. mid - 1 <=> k \in n .. limit - 1 /\ k < mid
         /\ k \in mid .. end - 1 <=> k \in n .. limit - 1 /\ mid <= k /\ k < end
         /\ k \in end .. limit - 1 <=> k \in n .. limit - 1 /\ end <= k
OBVIOUS

LEMMA SameRange ==
  ASSUME NEW a \in Int, NEW b \in Int, NEW c, NEW d, c = a, d = b
  PROVE  c .. d - 1 = a .. b - 1
OBVIOUS

LEMMA BelowTheEnd ==
  ASSUME NEW n \in Nat, NEW limit \in Nat, NEW length \in Nat,
         n <= limit - 1, limit <= length
  PROVE  n \in 0 .. length - 1
OBVIOUS

LEMMA ConsumingStep ==
  ASSUME IInv, NEW r \in open, NEW size \in Nat, NEW count \in Nat, NEW item, NEW yielded,
         Consumes(r, size, count, item, yielded)
  PROVE  IInv' /\ Failure /\ Progress
<1> PICK n : n = cursor[r].next
  OBVIOUS
<1> PICK limit : limit = cursor[r].limit
  OBVIOUS
<1> PICK moved : moved = MovedTo(cursor[r], n + count)
  OBVIOUS
<1>1. /\ input \in Seq(Octet) /\ Len(input) \in Nat
      /\ cursor \in [Readers -> Cursor_Record]
      /\ open \subseteq Readers
      /\ \A v \in Readers : Is_Valid(cursor[v], Len(input))
      /\ \A e \in unread : e \in Regions /\ End(e) <= Len(input)
      /\ FewAtATime
  BY DEF IInv, TypeOK, CursorsInBounds, ExtentsInside, Cursor_Record
<1>2. /\ phase = "reading" /\ phase' = "reading" /\ status' = "Read"
      /\ input' = input /\ open' = open
      /\ size <= count /\ count <= Remaining(cursor[r])
      /\ cursor' = [cursor EXCEPT ![r] = moved]
      /\ previous' \in [Readers -> Tag_Number]
      /\ items' = IF 0 < size THEN items \cup {item} ELSE items
      /\ unread' = unread \cup yielded
      /\ 0 < size => item.at = n /\ item.upto = n + size /\ ItemHolds(item)
      /\ \/ size = count /\ yielded = {}
         \/ /\ 0 < size
            /\ \E e \in Regions : yielded = {e} /\ e.start = n + size /\ End(e) = n + count
      /\ size = 0 => previous' = previous
  BY DEF Consumes
<1>3. /\ r \in Readers
      /\ cursor[r].first \in Nat /\ n \in Nat /\ limit \in Nat
      /\ Remaining(cursor[r]) = limit - n
      /\ cursor[r].first <= n /\ n <= limit /\ limit <= Len(input)
  BY <1>1, CursorFields DEF Is_Valid
<1>4. /\ n + size \in Nat /\ n + count \in Nat
      /\ n + size <= n + count /\ n + count <= limit
  <2>1. count <= limit - n
    BY <1>2, <1>3
  <2>2. n \in Nat /\ limit \in Nat /\ size <= count
    BY <1>2, <1>3
  <2> QED BY <2>1, <2>2
<1>5. /\ moved \in Cursor_Record /\ Is_Valid(moved, Len(input))
      /\ moved.next = n + count /\ moved.limit = limit
  BY <1>3, <1>4, SMTT(60) DEF MovedTo, Cursor, Cursor_Record, Is_Valid
<1>6. /\ cursor' \in [Readers -> Cursor_Record]
      /\ cursor'[r] = moved
      /\ \A v \in Readers \ {r} : cursor'[v] = cursor[v]
  BY <1>1, <1>2, <1>3, <1>5
<1>7. TypeOK'
  BY <1>1, <1>2, <1>6 DEF IInv, TypeOK, Cursor_Record, Read_Status
<1>8. CursorsInBounds'
  BY <1>1, <1>2, <1>5, <1>6 DEF CursorsInBounds
<1>9. \A e \in yielded : e \in Regions /\ e.start = n + size /\ End(e) = n + count /\ 0 < size
  BY <1>2
<1>10. ExtentsInside'
  BY <1>1, <1>2, <1>3, <1>4, <1>9, SMTT(60) DEF ExtentsInside
<1>11. ItemsHold'
  <2> SUFFICES ASSUME NEW m \in items' PROVE ItemHolds(m)'
    BY DEF ItemsHold
  <2>1. ItemHolds(m)
    BY <1>2 DEF IInv, ItemsHold
  <2> QED BY <1>2, <2>1 DEF ItemHolds
<1>12. Working' /\ Failure
  BY <1>2 DEF Working, Failure
<1>13. FewAtATime'
  <2>1. \E e : yielded = {} \/ yielded = {e}
    BY <1>2
  <2>2. IsFiniteSet(yielded)
    BY <2>1, FS_EmptySet, FS_Singleton
  <2> QED BY <1>1, <1>2, <2>2, FS_Union DEF FewAtATime
(* Who has octet k afterwards. *)
<1> PICK mid : mid = n + size
  OBVIOUS
<1> PICK end : end = n + count
  OBVIOUS
<1>20. /\ n \in Nat /\ mid \in Nat /\ end \in Nat /\ limit \in Nat
       /\ n <= mid /\ mid <= end /\ end <= limit
       /\ 0 < size => n <= mid - 1
  BY <1>3, <1>4, SMTT(60)
<1>14. ASSUME NEW k \in Offsets
       PROVE  /\ ItemsAt(k)' = ItemsAt(k) \cup {m \in {item} : 0 < size /\ k \in n .. mid - 1}
              /\ UnreadAt(k)' = UnreadAt(k) \cup {e \in yielded : k \in mid .. end - 1}
              /\ OpenAt(k)' = {v \in OpenAt(k) : v # r} \cup {v \in {r} : k \in end .. limit - 1}
  <2>1. ItemsAt(k)' = ItemsAt(k) \cup {m \in {item} : 0 < size /\ k \in n .. mid - 1}
    <3>1. CASE 0 < size
      <4>1. item.at = n /\ item.upto = mid /\ items' = items \cup {item}
        BY <1>2, <3>1
      <4>2. k \in item.at .. item.upto - 1 <=> k \in n .. mid - 1
        <5>1. item.at = n /\ item.upto = mid
          BY <4>1
        <5> QED BY <1>20, <5>1, SameRange
      <4>3. ItemsAt(k)' = {m \in items \cup {item} : k \in m.at .. m.upto - 1}
        BY <4>1, Zenon DEF ItemsAt
      <4> QED BY <3>1, <4>2, <4>3, Zenon DEF ItemsAt
    <3>2. CASE ~ (0 < size)
      <4>1. items' = items
        BY <1>2, <3>2
      <4> QED BY <3>2, <4>1 DEF ItemsAt
    <3> QED BY <3>1, <3>2
  <2>2. UnreadAt(k)' = UnreadAt(k) \cup {e \in yielded : k \in mid .. end - 1}
    <3>1. \A e \in yielded : e.start .. End(e) - 1 = mid .. end - 1
      <4> SUFFICES ASSUME NEW e \in yielded
                   PROVE  e.start .. End(e) - 1 = mid .. end - 1
        OBVIOUS
      <4>1. e.start = mid /\ End(e) = end
        BY <1>9
      <4> QED BY <1>20, <4>1, SameRange
    <3>2. unread' = unread \cup yielded
      BY <1>2
    <3> QED BY <3>1, <3>2 DEF UnreadAt
  <2>3. \A v \in open : v # r => cursor'[v] = cursor[v]
    BY <1>1, <1>6
  <2>4. OpenAt(k)' = {v \in OpenAt(k) : v # r} \cup {v \in {r} : k \in end .. limit - 1}
    BY <1>2, <1>5, <1>6, <2>3 DEF OpenAt
  <2> QED BY <2>1, <2>2, <2>4
<1>15. \A k \in Offsets : r \in OpenAt(k) <=> k \in n .. limit - 1
  BY DEF OpenAt
<1>16. Offsets' = Offsets
  BY <1>2 DEF Offsets
<1>17. EachOwned'
  <2> SUFFICES ASSUME NEW k \in Offsets PROVE OneOwner(k)'
    BY <1>16 DEF EachOwned
  <2>1. OneOwner(k) /\ k \in Int
    BY DEF IInv, EachOwned, Offsets
  <2>2. CASE k \in n .. limit - 1
    <3>1. ItemsAt(k) = {} /\ UnreadAt(k) = {} /\ OpenAt(k) = {r}
      <4>1. r \in OpenAt(k)
        BY <1>15, <2>2
      <4> QED BY <2>1, <4>1 DEF OneOwner
    <3> HIDE DEF ItemsAt, UnreadAt, OpenAt
    <3>2. CASE k < mid
      <4>1. /\ 0 < size /\ k \in n .. mid - 1
            /\ k \notin mid .. end - 1 /\ k \notin end .. limit - 1
        BY <1>20, <2>1, <2>2, <3>2, Parts
      <4>2. ItemsAt(k)' = {item}
        BY <1>14, <3>1, <4>1
      <4>3. UnreadAt(k)' = {} /\ OpenAt(k)' = {}
        BY <1>14, <3>1, <4>1
      <4> QED BY <4>2, <4>3 DEF OneOwner
    <3>3. CASE mid <= k /\ k < end
      <4>1. PICK e \in Regions : yielded = {e}
        BY <1>2, <1>20, <2>1, <3>3
      <4>2. /\ k \notin n .. mid - 1
            /\ k \in mid .. end - 1 /\ k \notin end .. limit - 1
        BY <1>20, <2>1, <2>2, <3>3, Parts
      <4>3. UnreadAt(k)' = {e}
        BY <1>14, <3>1, <4>1, <4>2
      <4>4. ItemsAt(k)' = {} /\ OpenAt(k)' = {}
        BY <1>14, <3>1, <4>2
      <4> QED BY <4>3, <4>4 DEF OneOwner
    <3>4. CASE end <= k
      <4>1. /\ k \notin n .. mid - 1
            /\ k \notin mid .. end - 1 /\ k \in end .. limit - 1
        BY <1>20, <2>1, <2>2, <3>4, Parts
      <4>2. OpenAt(k)' = {r}
        BY <1>14, <3>1, <4>1
      <4>3. ItemsAt(k)' = {} /\ UnreadAt(k)' = {}
        BY <1>14, <3>1, <4>1
      <4> QED BY <4>2, <4>3 DEF OneOwner
    <3> QED BY <1>20, <2>1, <3>2, <3>3, <3>4
  <2>3. CASE k \notin n .. limit - 1
    <3>1. r \notin OpenAt(k)
      BY <1>15, <2>3
    <3>2. /\ k \notin n .. mid - 1
          /\ k \notin mid .. end - 1
          /\ k \notin end .. limit - 1
      BY <1>20, <2>1, <2>3, Parts
    <3>3. ItemsAt(k)' = ItemsAt(k)
      BY <1>14, <3>2
    <3>4. UnreadAt(k)' = UnreadAt(k)
      BY <1>14, <3>2
    <3>5. OpenAt(k)' = OpenAt(k)
      <4>1. {v \in OpenAt(k) : v # r} = OpenAt(k)
        BY <3>1
      <4>2. {v \in {r} : k \in end .. limit - 1} = {}
        BY <3>2
      <4>3. OpenAt(k)' = {v \in OpenAt(k) : v # r} \cup {v \in {r} : k \in end .. limit - 1}
        BY <1>14
      <4> QED BY <4>1, <4>2, <4>3, Zenon
    <3> QED BY <2>1, <3>3, <3>4, <3>5 DEF OneOwner
  <2> QED BY <2>2, <2>3
<1>18. Progress
  <2>1. CASE size = 0
    <3>1. count = 0 /\ yielded = {}
      BY <1>2, <2>1
    <3>2. moved = cursor[r]
      <4>1. n + 0 = n
        BY <1>3
      <4>2. cursor[r] = [first |-> cursor[r].first, next |-> n, limit |-> limit]
        BY <1>1, <1>3 DEF Cursor_Record
      <4> QED BY <3>1, <4>1, <4>2 DEF MovedTo, Cursor
    <3>3. cursor' = cursor
      BY <1>1, <1>2, <3>2
    <3>4. UNCHANGED <<cursor, previous, open, unread, items, phase>>
      BY <1>2, <2>1, <3>1, <3>3
    <3> QED BY <3>4 DEF Progress
  <2>2. CASE 0 < size
    <3>1. n \in Offsets /\ n \in n .. limit - 1 /\ n \in n .. mid - 1
      <4>1. n <= mid - 1
        BY <1>20, <2>2
      <4>2. n <= limit - 1
        BY <1>20, <4>1
      <4> PICK length : length = Len(input)
        OBVIOUS
      <4>3. length \in Nat /\ limit <= length
        BY <1>1, <1>3
      <4>4. n \in 0 .. length - 1
        <5>1. n \in Nat /\ limit \in Nat
          BY <1>20
        <5>2. length \in Nat
          BY <4>3
        <5>3. limit <= length
          BY <4>3
        <5> QED BY <4>2, <5>1, <5>2, <5>3, BelowTheEnd, Zenon
      <4>5. n \in n .. limit - 1 /\ n \in n .. mid - 1
        BY <1>20, <4>1, <4>2
      <4> QED BY <4>4, <4>5 DEF Offsets
    <3>2. n \in Left
      <4>1. r \in OpenAt(n)
        BY <1>15, <3>1
      <4> QED BY <3>1, <4>1 DEF Left
    <3>3. n \notin Left'
      <4>1. item \in ItemsAt(n)'
        BY <1>14, <2>2, <3>1
      <4>2. OneOwner(n)'
        BY <1>16, <1>17, <3>1 DEF EachOwned
      <4>3. UnreadAt(n)' = {} /\ OpenAt(n)' = {}
        BY <4>1, <4>2 DEF OneOwner
      <4> QED BY <4>3 DEF Left
    <3>4. Left' \subseteq Left
      <4> SUFFICES ASSUME NEW k \in Offsets, OpenAt(k)' # {} \/ UnreadAt(k)' # {}
                   PROVE  OpenAt(k) # {} \/ UnreadAt(k) # {}
        BY <1>16 DEF Left
      <4>1. k \in Int
        BY DEF Offsets
      <4>2. CASE k \in n .. limit - 1
        BY <1>15, <4>2
      <4>3. CASE k \notin n .. limit - 1
        <5>1. k \notin mid .. end - 1 /\ k \notin end .. limit - 1
          BY <1>20, <4>1, <4>3, Parts
        <5> QED BY <1>14, <5>1
      <4> QED BY <4>2, <4>3
    <3> DEFINE a == Cardinality(Left)
               b == Cardinality(Left')
               u == Cardinality(unread)
               w == Cardinality(unread')
               o == Cardinality(open)
    <3>5. /\ IsFiniteSet(Left) /\ a \in Nat /\ u \in Nat /\ o \in Nat
          /\ Work = 3 * a + 2 * u + o + 1
      BY <1>1, <1>2, CountingWork
    <3>6. /\ b \in Nat /\ w \in Nat
          /\ Work' = 3 * b + 2 * w + o + 1
      BY <1>1, <1>2, <1>13, CountingWorkAfter
    <3>7. b <= a - 1
      <4>1. Left' \in SUBSET (Left \ {n})
        BY <3>3, <3>4
      <4>2. IsFiniteSet(Left \ {n}) /\ Cardinality(Left \ {n}) = a - 1
        BY <3>2, <3>5, FS_RemoveElement
      <4> QED BY <4>1, <4>2, FS_Subset
    <3>8. w <= u + 1
      <4>1. CASE yielded = {}
        <5>1. unread' = unread
          BY <1>2, <4>1
        <5> QED BY <3>5, <5>1
      <4>2. CASE \E e : yielded = {e}
        <5>1. PICK e : yielded = {e}
          BY <4>2
        <5>2. unread' = unread \cup {e}
          BY <1>2, <5>1
        <5>3. Cardinality(unread \cup {e}) = IF e \in unread THEN u ELSE u + 1
          BY <1>1, FS_AddElement DEF FewAtATime
        <5> HIDE DEF u
        <5> QED BY <3>5, <5>2, <5>3
      <4> QED BY <1>2, <4>1, <4>2
    <3> HIDE DEF a, b, u, w, o
    <3>9. Work' < Work
      BY <3>5, <3>6, <3>7, <3>8
    <3> QED BY <3>9 DEF Progress
  <2> QED BY <2>1, <2>2
<1> QED
  BY <1>7, <1>8, <1>10, <1>11, <1>12, <1>13, <1>17, <1>18 DEF IInv

-----------------------------------------------------------------------------

(* A read is refused, a nested cursor is left before its end, or all has   *)
(* been read: only the status and the phase change.                        *)
LEMMA StoppingStep ==
  ASSUME IInv, phase = "reading", phase' \in {"failed", "done"},
         UNCHANGED <<input, cursor, previous, open, unread, items>>,
         status' \in Read_Refusal \cup {"Read", "Cursor_Ready"}
  PROVE  IInv' /\ Failure /\ Progress
<1>1. TypeOK'
  BY DEF IInv, TypeOK, Read_Refusal, Read_Status
<1>2. CursorsInBounds' /\ ExtentsInside' /\ Working' /\ FewAtATime'
  BY DEF IInv, CursorsInBounds, ExtentsInside, Working, FewAtATime, Read_Refusal
<1>3. EachOwned'
  <2>1. \A k : ItemsAt(k)' = ItemsAt(k) /\ UnreadAt(k)' = UnreadAt(k) /\ OpenAt(k)' = OpenAt(k)
    BY DEF ItemsAt, UnreadAt, OpenAt
  <2> QED BY <2>1 DEF IInv, EachOwned, OneOwner, Offsets
<1>4. ItemsHold'
  BY DEF IInv, ItemsHold, ItemHolds
<1>5. Failure
  BY DEF Failure
<1>6. Progress
  <2>1. input \in Seq(Octet) /\ FewAtATime
    BY DEF IInv, TypeOK
  <2>2. Left' = Left
    BY DEF Left, OpenAt, UnreadAt, Offsets
  <2> DEFINE work == 3 * Cardinality(Left) + 2 * Cardinality(unread) + Cardinality(open)
  <2>3. work \in Nat /\ Work = work + 1
    BY <2>1, CountingWork
  <2>4. Work' = work + 0
    BY <1>2, <2>1, <2>2, CountingWorkAfter
  <2> HIDE DEF work
  <2>5. Work' < Work
    BY <2>3, <2>4
  <2> QED BY <2>5 DEF Progress
<1> QED BY <1>1, <1>2, <1>3, <1>4, <1>5, <1>6 DEF IInv

LEMMA OpenStep ==
  ASSUME IInv, NEW r \in Readers, NEW region \in unread, Open(r, region)
  PROVE  IInv' /\ Failure /\ Progress
<1> PICK start : start = Cursor(region.start, region.start, region.start + region.length)
  OBVIOUS
<1>1. /\ input \in Seq(Octet) /\ Len(input) \in Nat
      /\ cursor \in [Readers -> Cursor_Record] /\ previous \in [Readers -> Tag_Number]
      /\ open \subseteq Readers
      /\ \A v \in Readers : Is_Valid(cursor[v], Len(input))
      /\ \A e \in unread : e \in Regions /\ End(e) <= Len(input)
      /\ FewAtATime
  BY DEF IInv, TypeOK, CursorsInBounds, ExtentsInside, Cursor_Record
<1>2. /\ region.start \in Nat /\ region.length \in Nat /\ End(region) = region.start + region.length
      /\ End(region) \in Nat /\ End(region) <= Len(input)
  <2>1. region.start \in Nat /\ region.length \in Unsigned /\ End(region) <= Len(input)
    BY <1>1 DEF Regions
  <2>2. region.length \in Nat
    BY <2>1, SizeOfUnsigned
  <2> QED BY <2>1, <2>2 DEF End
<1>3. Inside(region, input)
  BY <1>1, <1>2 DEF Inside
<1>4. Initialize(input, region) = [status |-> "Cursor_Ready", cursor |-> start]
  BY <1>3 DEF Initialize
<1>5. /\ phase = "reading" /\ phase' = "reading" /\ status' = "Cursor_Ready" /\ r \notin open
      /\ cursor' = [cursor EXCEPT ![r] = start]
      /\ previous' = [previous EXCEPT ![r] = No_Tag]
      /\ open' = open \cup {r} /\ unread' = unread \ {region}
      /\ input' = input /\ items' = items
  BY <1>4 DEF Open
<1>6. /\ start \in Cursor_Record /\ Is_Valid(start, Len(input))
      /\ start.next = region.start /\ start.limit = End(region)
  BY <1>2 DEF Cursor, Cursor_Record, Is_Valid
<1>7. /\ cursor' \in [Readers -> Cursor_Record]
      /\ cursor'[r] = start
      /\ \A v \in Readers \ {r} : cursor'[v] = cursor[v]
  BY <1>1, <1>5, <1>6
<1>8. TypeOK'
  <2>1. previous' \in [Readers -> Tag_Number]
    BY <1>1, <1>5, Limits DEF No_Tag, Tag_Number
  <2> QED BY <1>1, <1>5, <1>7, <2>1 DEF TypeOK, Cursor_Record
<1>9. CursorsInBounds' /\ ExtentsInside' /\ Working'
  BY <1>1, <1>5, <1>6, <1>7 DEF CursorsInBounds, ExtentsInside, Working
<1>10. ItemsHold'
  BY <1>5 DEF IInv, ItemsHold, ItemHolds
<1>11. FewAtATime'
  BY <1>1, <1>5, FS_AddElement, FS_RemoveElement DEF FewAtATime
<1>12. Failure
  BY <1>5 DEF Failure, Read_Status
<1>13. Offsets' = Offsets
  BY <1>5 DEF Offsets
<1>14. ASSUME NEW k \in Offsets
       PROVE  /\ ItemsAt(k)' = ItemsAt(k)
              /\ UnreadAt(k)' = UnreadAt(k) \ {region}
              /\ region \in UnreadAt(k) <=> k \in region.start .. End(region) - 1
              /\ OpenAt(k)' = OpenAt(k) \cup {v \in {r} : k \in region.start .. End(region) - 1}
  <2>1. ItemsAt(k)' = ItemsAt(k) /\ UnreadAt(k)' = UnreadAt(k) \ {region}
    BY <1>5 DEF ItemsAt, UnreadAt
  <2>2. region \in UnreadAt(k) <=> k \in region.start .. End(region) - 1
    BY DEF UnreadAt
  <2>3. \A v \in open : cursor'[v] = cursor[v]
    BY <1>1, <1>5, <1>7
  <2>4. k \in cursor'[r].next .. cursor'[r].limit - 1 <=> k \in region.start .. End(region) - 1
    BY <1>6, <1>7
  <2>5. OpenAt(k)' = OpenAt(k) \cup {v \in {r} : k \in region.start .. End(region) - 1}
    BY <1>5, <2>3, <2>4 DEF OpenAt
  <2> QED BY <2>1, <2>2, <2>5
<1>15. ASSUME NEW k \in Offsets
       PROVE  /\ OneOwner(k)'
              /\ (OpenAt(k) # {} \/ UnreadAt(k) # {}) <=> (OpenAt(k)' # {} \/ UnreadAt(k)' # {})
  <2>1. OneOwner(k)
    BY DEF IInv, EachOwned
  <2>2. CASE region \in UnreadAt(k)
    <3>1. ItemsAt(k) = {} /\ UnreadAt(k) = {region} /\ OpenAt(k) = {}
      BY <2>1, <2>2 DEF OneOwner
    <3>2. ItemsAt(k)' = {} /\ UnreadAt(k)' = {} /\ OpenAt(k)' = {r}
      BY <1>14, <2>2, <3>1
    <3> QED BY <3>1, <3>2 DEF OneOwner
  <2>3. CASE region \notin UnreadAt(k)
    <3>1. ItemsAt(k)' = ItemsAt(k) /\ UnreadAt(k)' = UnreadAt(k)
      BY <1>14, <2>3
    <3>2. OpenAt(k)' = OpenAt(k)
      BY <1>14, <2>3
    <3> QED BY <2>1, <3>1, <3>2 DEF OneOwner
  <2> QED BY <2>2, <2>3
<1>16. EachOwned' /\ Left' = Left
  <2>1. EachOwned'
    BY <1>13, <1>15 DEF EachOwned
  <2>2. Left' = Left
    BY <1>13, <1>15, Zenon DEF Left
  <2> QED BY <2>1, <2>2
<1>17. Progress
  <2> PICK a : a = Cardinality(Left)
    OBVIOUS
  <2> PICK u : u = Cardinality(unread)
    OBVIOUS
  <2> PICK o : o = Cardinality(open)
    OBVIOUS
  <2>1. a \in Nat /\ u \in Nat /\ o \in Nat /\ Work = 3 * a + 2 * u + o + 1
    BY <1>1, <1>5, CountingWork
  <2>2. Cardinality(unread') = u - 1
    BY <1>1, <1>5, FS_RemoveElement DEF FewAtATime
  <2>3. Cardinality(open') = o + 1
    BY <1>1, <1>5, FS_AddElement DEF FewAtATime
  <2>4. Work' = 3 * a + 2 * (u - 1) + (o + 1) + 1
    BY <1>1, <1>5, <1>11, <1>16, <2>2, <2>3, CountingWorkAfter
  <2>5. Work' < Work
    BY <2>1, <2>4
  <2> QED BY <2>5 DEF Progress
<1> QED
  BY <1>8, <1>9, <1>10, <1>11, <1>12, <1>16, <1>17 DEF IInv

LEMMA CloseStep ==
  ASSUME IInv, NEW r \in Readers, Close(r)
  PROVE  IInv' /\ Failure /\ Progress
<1>1. /\ input \in Seq(Octet) /\ Len(input) \in Nat
      /\ cursor \in [Readers -> Cursor_Record] /\ previous \in [Readers -> Tag_Number]
      /\ open \subseteq Readers
      /\ \A v \in Readers : Is_Valid(cursor[v], Len(input))
      /\ FewAtATime
  BY DEF IInv, TypeOK, CursorsInBounds, Cursor_Record
<1>2. /\ phase = "reading" /\ r \in open
      /\ input' = input /\ unread' = unread /\ items' = items /\ status' = status
  BY DEF Close
<1>3. status \in {"Read", "Cursor_Ready"}
  BY <1>2 DEF IInv, Working
<1>4. CASE ~ At_End(cursor[r])
  <2>1. /\ phase' \in {"failed", "done"}
        /\ UNCHANGED <<input, cursor, previous, open, unread, items>>
        /\ status' \in Read_Refusal \cup {"Read", "Cursor_Ready"}
    BY <1>2, <1>3, <1>4 DEF Close
  <2> QED BY <1>2, <2>1, StoppingStep
<1>5. CASE At_End(cursor[r])
  <2>1. /\ phase' = "reading" /\ open' = open \ {r}
        /\ cursor' = [cursor EXCEPT ![r] = Closed]
        /\ previous' = [previous EXCEPT ![r] = No_Tag]
    BY <1>2, <1>5 DEF Close
  <2>2. Closed \in Cursor_Record /\ Is_Valid(Closed, Len(input))
    BY <1>1 DEF Closed, Cursor, Cursor_Record, Is_Valid
  <2>3. /\ cursor' \in [Readers -> Cursor_Record]
        /\ cursor'[r] = Closed
        /\ \A v \in Readers \ {r} : cursor'[v] = cursor[v]
    BY <1>1, <2>1, <2>2
  <2>4. TypeOK'
    <3>1. previous' \in [Readers -> Tag_Number]
      BY <1>1, <2>1, Limits DEF No_Tag, Tag_Number
    <3> QED BY <1>1, <1>2, <1>3, <2>1, <2>3, <3>1 DEF TypeOK, Cursor_Record, Read_Status
  <2>5. CursorsInBounds' /\ ExtentsInside' /\ Working'
    BY <1>1, <1>2, <1>3, <2>1, <2>2, <2>3 DEF IInv, CursorsInBounds, ExtentsInside, Working
  <2>6. ItemsHold'
    BY <1>2 DEF IInv, ItemsHold, ItemHolds
  <2>7. FewAtATime'
    BY <1>1, <1>2, <2>1, FS_RemoveElement DEF FewAtATime
  <2>8. Failure
    BY <1>2, <1>3 DEF Failure, Read_Status
  <2>9. Offsets' = Offsets
    BY <1>2 DEF Offsets
  <2>10. ASSUME NEW k \in Offsets
         PROVE  ItemsAt(k)' = ItemsAt(k) /\ UnreadAt(k)' = UnreadAt(k) /\ OpenAt(k)' = OpenAt(k)
    <3>1. ItemsAt(k)' = ItemsAt(k) /\ UnreadAt(k)' = UnreadAt(k)
      BY <1>2 DEF ItemsAt, UnreadAt
    <3>2. \A v \in open \ {r} : cursor'[v] = cursor[v]
      BY <1>1, <2>3
    <3>3. k \notin cursor[r].next .. cursor[r].limit - 1
      <4> PICK n, limit : n = cursor[r].next /\ limit = cursor[r].limit
        OBVIOUS
      <4>1. n \in Nat /\ limit = n /\ k \in Int
        BY <1>1, <1>2, <1>5, CursorFields DEF At_End, Offsets
      <4>2. k \notin n .. n - 1
        BY <4>1
      <4> QED BY <4>1, <4>2
    <3>4. OpenAt(k)' = OpenAt(k)
      BY <2>1, <3>2, <3>3 DEF OpenAt
    <3> QED BY <3>1, <3>4
  <2>11. EachOwned'
    BY <2>9, <2>10 DEF IInv, EachOwned, OneOwner
  <2>12. Left' = Left
    BY <2>9, <2>10, Zenon DEF Left
  <2>13. Progress
    <3> PICK a : a = Cardinality(Left)
      OBVIOUS
    <3> PICK u : u = Cardinality(unread)
      OBVIOUS
    <3> PICK o : o = Cardinality(open)
      OBVIOUS
    <3>1. a \in Nat /\ u \in Nat /\ o \in Nat /\ Work = 3 * a + 2 * u + o + 1
      BY <1>1, <1>2, CountingWork
    <3>2. Cardinality(open') = o - 1
      BY <1>1, <1>2, <2>1, FS_RemoveElement DEF FewAtATime
    <3>3. Work' = 3 * a + 2 * u + (o - 1) + 1
      BY <1>1, <1>2, <2>1, <2>7, <2>12, <3>2, CountingWorkAfter
    <3>4. Work' < Work
      BY <3>1, <3>3
    <3> QED BY <3>4 DEF Progress
  <2> QED BY <2>4, <2>5, <2>6, <2>7, <2>8, <2>11, <2>13 DEF IInv
<1> QED BY <1>4, <1>5

(* What Take, Yield and their callers do with a result, in the two cases.  *)
LEMMA RefusedStep ==
  ASSUME IInv, NEW r \in Readers, NEW result, NEW item,
         Take(r, result, item), ReadRefused(cursor[r], result),
         UNCHANGED <<previous, unread>>
  PROVE  IInv' /\ Failure /\ Progress
<1>1. /\ phase = "reading" /\ phase' = "failed" /\ status' \in Read_Refusal
      /\ input' = input /\ open' = open /\ items' = items
      /\ cursor' = [cursor EXCEPT ![r] = cursor[r]]
  BY DEF Take, ReadRefused, Read_Refusal
<1>2. cursor' = cursor
  BY <1>1 DEF IInv, TypeOK
<1> QED BY <1>1, <1>2, StoppingStep

LEMMA Reading ==
  ASSUME IInv, NEW r \in open
  PROVE  /\ input \in Seq(Octet) /\ cursor[r] \in Cursor_Record /\ Is_Valid(cursor[r], Len(input))
         /\ r \in Readers /\ previous[r] \in Tag_Number /\ previous[r] \in Nat
         /\ cursor[r].next \in Nat /\ cursor[r].limit \in Nat
         /\ Remaining(cursor[r]) = cursor[r].limit - cursor[r].next
         /\ cursor[r].limit <= Len(input) /\ Len(input) \in Nat
         /\ cursor \in [Readers -> Cursor_Record] /\ previous \in [Readers -> Tag_Number]
<1>1. /\ input \in Seq(Octet) /\ cursor[r] \in Cursor_Record /\ Is_Valid(cursor[r], Len(input))
      /\ r \in Readers /\ previous[r] \in Tag_Number /\ Len(input) \in Nat
      /\ cursor \in [Readers -> Cursor_Record] /\ previous \in [Readers -> Tag_Number]
  BY DEF IInv, TypeOK, CursorsInBounds, Cursor_Record
<1>2. previous[r] \in Nat
  BY <1>1, Limits DEF Tag_Number
<1>3. cursor[r].limit <= Len(input)
  BY <1>1 DEF Is_Valid
<1> QED BY <1>1, <1>2, <1>3, CursorFields

(* A header at n of the extent start .. end-1, in numbers of octets.       *)
LEMMA HeaderSizes ==
  ASSUME NEW n \in Nat, NEW limit \in Nat, NEW width \in Nat \ {0}, NEW length \in Nat,
         NEW start, start = n + width, NEW end, end = start + length, end <= limit,
         NEW size, size = start - n, NEW count, count = end - n
  PROVE  /\ size \in Nat /\ count \in Nat /\ 0 < size /\ size <= count
         /\ n + size = start /\ n + count = end /\ end \in Nat
         /\ n < start /\ count <= limit - n
<1>1. start \in Nat /\ end \in Nat /\ size = width /\ count = width + length
  OBVIOUS
<1> QED BY <1>1

LEMMA ReadFieldStep ==
  ASSUME IInv, NEW r \in Readers, ReadField(r)
  PROVE  IInv' /\ Failure /\ Progress
<1> PICK result : result = Read_Field_Header(input, cursor[r], previous[r])
  OBVIOUS
<1> PICK n : n = cursor[r].next
  OBVIOUS
<1> PICK item : item = Header("field", n, result.tag, previous[r], result.value)
  OBVIOUS
<1>1. /\ r \in open /\ Take(r, result, item) /\ Yield(result)
      /\ previous' = [previous EXCEPT ![r] = result.previous]
  BY DEF ReadField, Take
<1>2. /\ input \in Seq(Octet) /\ cursor[r] \in Cursor_Record /\ Is_Valid(cursor[r], Len(input))
      /\ previous[r] \in Nat /\ n \in Nat /\ cursor[r].limit \in Nat
      /\ Remaining(cursor[r]) = cursor[r].limit - n /\ cursor[r].limit <= Len(input) /\ Len(input) \in Nat
      /\ previous \in [Readers -> Tag_Number]
  BY <1>1, Reading
<1>3. \/ ReadRefused(cursor[r], result) /\ result.previous = previous[r]
      \/ TakesHeader(input, cursor[r], previous[r], result)
  BY <1>2, HeaderRead
<1>4. CASE ReadRefused(cursor[r], result) /\ result.previous = previous[r]
  <2>1. previous' = previous
    BY <1>1, <1>2, <1>4
  <2>2. unread' = unread
    BY <1>1, <1>4 DEF Yield, ReadRefused, Read_Refusal
  <2> QED BY <1>1, <1>4, <2>1, <2>2, RefusedStep
<1>5. CASE TakesHeader(input, cursor[r], previous[r], result)
  <2> PICK e : e = result.value
    OBVIOUS
  <2> PICK tag : tag = result.tag
    OBVIOUS
  <2>1. /\ result.status = "Read" /\ tag \in Field_Tag \cap Unsigned /\ tag > previous[r]
        /\ result.previous = tag /\ e \in Regions /\ HoldsHeader(input, n, tag, e)
        /\ End(e) <= cursor[r].limit /\ result.cursor = MovedTo(cursor[r], End(e))
    BY <1>5 DEF TakesHeader
  <2>2. /\ e.start \in Nat /\ e.length \in Nat /\ End(e) = e.start + e.length
        /\ \E width \in Nat \ {0} : e.start = n + width
    <3>1. /\ e.start \in Nat /\ e.length \in Unsigned
          /\ e.start = n + Unsigned_Size(tag) + Unsigned_Size(e.length)
      BY <2>1 DEF Regions, HoldsHeader, HoldsExtent
    <3>2. e.length \in Nat /\ Unsigned_Size(e.length) \in Nat \ {0} /\ Unsigned_Size(tag) \in Nat \ {0}
      BY <2>1, <3>1, SizeOfUnsigned
    <3> PICK a \in Nat \ {0}, b \in Nat \ {0} : a = Unsigned_Size(tag) /\ b = Unsigned_Size(e.length)
      BY <3>2
    <3>3. e.start = n + (a + b) /\ a + b \in Nat \ {0}
      <4>1. e.start = n + a + b
        BY <3>1
      <4> QED BY <1>2, <4>1
    <3> QED BY <3>1, <3>2, <3>3 DEF End
  <2> PICK size : size = e.start - n
    OBVIOUS
  <2> PICK count : count = End(e) - n
    OBVIOUS
  <2>3. /\ size \in Nat /\ count \in Nat /\ 0 < size /\ size <= count
        /\ n + size = e.start /\ n + count = End(e) /\ End(e) \in Nat
        /\ n < e.start /\ count <= cursor[r].limit - n
    <3> PICK width \in Nat \ {0} : e.start = n + width
      BY <2>2
    <3> PICK limit : limit = cursor[r].limit
      OBVIOUS
    <3> PICK end : end = End(e)
      OBVIOUS
    <3>1. limit \in Nat /\ n \in Nat /\ end = e.start + e.length /\ end <= limit /\ e.length \in Nat
      BY <1>2, <2>1, <2>2
    <3>2. /\ size \in Nat /\ count \in Nat /\ 0 < size /\ size <= count
          /\ n + size = e.start /\ n + count = end /\ end \in Nat
          /\ n < e.start /\ count <= limit - n
      BY <3>1, HeaderSizes, SMTT(60)
    <3> QED BY <3>2
  <2>4. count <= Remaining(cursor[r])
    BY <1>2, <2>3
  <2>5. /\ item.at = n /\ item.upto = e.start /\ item.kind = "field" /\ item.tag = tag
        /\ item.after = previous[r] /\ item.extent = e
    BY DEF Header, Item
  <2>6. End(e) <= Len(input)
    BY <1>2, <2>1, <2>3, SMTT(60)
  <2>7. ItemHolds(item)
    BY <1>2, <2>1, <2>2, <2>5, <2>6, ZenonT(60) DEF ItemHolds
  <2>8. /\ phase = "reading" /\ phase' = "reading" /\ status' = "Read"
        /\ input' = input /\ open' = open
        /\ cursor' = [cursor EXCEPT ![r] = MovedTo(cursor[r], n + count)]
        /\ items' = items \cup {item} /\ unread' = unread \cup {e}
    BY <1>1, <2>1, <2>3, <2>5 DEF Take, Yield
  <2>9. previous' \in [Readers -> Tag_Number]
    <3>1. tag \in Tag_Number
      BY <2>1, Limits DEF Field_Tag, Tag_Number
    <3> QED BY <1>1, <1>2, <2>1, <3>1
  <2>10. \E x \in Regions : {e} = {x} /\ x.start = n + size /\ End(x) = n + count
    BY <2>1, <2>3
  <2>11. 0 < size => item.at = n /\ item.upto = n + size /\ ItemHolds(item)
    BY <2>3, <2>5, <2>7
  <2>12. ~ (size = 0)
    BY <2>3, SMTT(60)
  <2>13. Consumes(r, size, count, item, {e})
    BY <2>3, <2>4, <2>8, <2>9, <2>10, <2>11, <2>12 DEF Consumes
  <2> QED BY <1>1, <2>3, <2>13, ConsumingStep
<1> QED BY <1>3, <1>4, <1>5

LEMMA ReadDelimitedStep ==
  ASSUME IInv, NEW r \in Readers, ReadDelimited(r)
  PROVE  IInv' /\ Failure /\ Progress
<1> PICK result : result = Read_Extent(input, cursor[r])
  OBVIOUS
<1> PICK n : n = cursor[r].next
  OBVIOUS
<1> PICK item : item = Header("delimited", n, No_Tag, No_Tag, result.value)
  OBVIOUS
<1>1. r \in open /\ Take(r, result, item) /\ Yield(result) /\ previous' = previous
  BY DEF ReadDelimited, Read_Length_Delimited, Take
<1>2. /\ input \in Seq(Octet) /\ cursor[r] \in Cursor_Record /\ Is_Valid(cursor[r], Len(input))
      /\ n \in Nat /\ cursor[r].limit \in Nat
      /\ Remaining(cursor[r]) = cursor[r].limit - n /\ cursor[r].limit <= Len(input) /\ Len(input) \in Nat
      /\ previous \in [Readers -> Tag_Number]
  BY <1>1, Reading
<1>3. ReadRefused(cursor[r], result) \/ TakesExtent(input, cursor[r], result)
  BY <1>2, ExtentRead
<1>4. CASE ReadRefused(cursor[r], result)
  <2>1. unread' = unread
    BY <1>1, <1>4 DEF Yield, ReadRefused, Read_Refusal
  <2> QED BY <1>1, <1>4, <2>1, RefusedStep
<1>5. CASE TakesExtent(input, cursor[r], result)
  <2> PICK e : e = result.value
    OBVIOUS
  <2>1. /\ result.status = "Read" /\ e \in Regions /\ HoldsExtent(input, n, e)
        /\ End(e) <= cursor[r].limit /\ result.cursor = MovedTo(cursor[r], End(e))
    BY <1>5 DEF TakesExtent
  <2>2. /\ e.start \in Nat /\ e.length \in Nat /\ End(e) = e.start + e.length
        /\ \E width \in Nat \ {0} : e.start = n + width
    <3>1. e.start \in Nat /\ e.length \in Unsigned /\ e.start = n + Unsigned_Size(e.length)
      BY <2>1 DEF Regions, HoldsExtent
    <3>2. e.length \in Nat /\ Unsigned_Size(e.length) \in Nat \ {0}
      BY <3>1, SizeOfUnsigned
    <3> QED BY <3>1, <3>2 DEF End
  <2> PICK size : size = e.start - n
    OBVIOUS
  <2> PICK count : count = End(e) - n
    OBVIOUS
  <2>3. /\ size \in Nat /\ count \in Nat /\ 0 < size /\ size <= count
        /\ n + size = e.start /\ n + count = End(e) /\ End(e) \in Nat
        /\ n < e.start /\ count <= cursor[r].limit - n
    <3> PICK width \in Nat \ {0} : e.start = n + width
      BY <2>2
    <3> PICK limit : limit = cursor[r].limit
      OBVIOUS
    <3> PICK end : end = End(e)
      OBVIOUS
    <3>1. limit \in Nat /\ n \in Nat /\ end = e.start + e.length /\ end <= limit /\ e.length \in Nat
      BY <1>2, <2>1, <2>2
    <3>2. /\ size \in Nat /\ count \in Nat /\ 0 < size /\ size <= count
          /\ n + size = e.start /\ n + count = end /\ end \in Nat
          /\ n < e.start /\ count <= limit - n
      BY <3>1, HeaderSizes
    <3> QED BY <3>2
  <2>4. count <= Remaining(cursor[r])
    BY <1>2, <2>3
  <2>5. item.at = n /\ item.upto = e.start /\ item.kind = "delimited" /\ item.extent = e
    BY DEF Header, Item
  <2>6. End(e) <= Len(input)
    BY <1>2, <2>1, <2>3, SMTT(60)
  <2>7. ItemHolds(item)
    BY <1>2, <2>1, <2>2, <2>5, <2>6, SMTT(60) DEF ItemHolds
  <2>8. /\ phase = "reading" /\ phase' = "reading" /\ status' = "Read"
        /\ input' = input /\ open' = open
        /\ cursor' = [cursor EXCEPT ![r] = MovedTo(cursor[r], n + count)]
        /\ items' = items \cup {item} /\ unread' = unread \cup {e}
    BY <1>1, <2>1, <2>3, <2>5 DEF Take, Yield
  <2>9. Consumes(r, size, count, item, {e})
    BY <1>1, <1>2, <2>1, <2>3, <2>4, <2>5, <2>7, <2>8 DEF Consumes
  <2> QED BY <1>1, <2>3, <2>9, ConsumingStep
<1> QED BY <1>3, <1>4, <1>5

(* The value of a scalar fills the octets it is read from. *)
LEMMA ScalarStep ==
  ASSUME IInv, NEW r \in Readers, NEW kind, NEW result, NEW content,
         ReadScalar(r, kind, result, content),
         \/ ReadRefused(cursor[r], result)
         \/ \E size \in Nat :
              /\ result.status = "Read"
              /\ size <= Remaining(cursor[r])
              /\ result.cursor = Advance(cursor[r], size)
              /\ 0 < size => ItemHolds(Scalar(kind, cursor[r].next, cursor[r].next + size, content))
  PROVE  IInv' /\ Failure /\ Progress
<1> PICK n : n = cursor[r].next
  OBVIOUS
<1> PICK item : item = Scalar(kind, n, result.cursor.next, content)
  OBVIOUS
<1>1. r \in open /\ Take(r, result, item) /\ previous' = previous /\ unread' = unread
  BY DEF ReadScalar, Take
<1>2. /\ cursor[r] \in Cursor_Record /\ n \in Nat /\ previous \in [Readers -> Tag_Number]
  BY <1>1, Reading
<1>3. CASE ReadRefused(cursor[r], result)
  BY <1>1, <1>3, RefusedStep
<1>4. CASE \E size \in Nat :
              /\ result.status = "Read"
              /\ size <= Remaining(cursor[r])
              /\ result.cursor = Advance(cursor[r], size)
              /\ 0 < size => ItemHolds(Scalar(kind, cursor[r].next, cursor[r].next + size, content))
  <2> PICK size \in Nat :
              /\ result.status = "Read"
              /\ size <= Remaining(cursor[r])
              /\ result.cursor = Advance(cursor[r], size)
              /\ 0 < size => ItemHolds(Scalar(kind, cursor[r].next, cursor[r].next + size, content))
    BY <1>4
  <2> PICK end : end = n + size
    OBVIOUS
  <2>1. n < end <=> 0 < size
    BY <1>2
  <2>2. result.cursor = MovedTo(cursor[r], end) /\ result.cursor.next = end
    BY DEF Advance, MovedTo, Cursor
  <2>3. item.at = n /\ item.upto = end
    BY <2>2 DEF Scalar, Item
  <2>4. 0 < size => ItemHolds(item)
    BY <2>2
  <2>5. /\ phase = "reading" /\ phase' = "reading" /\ status' = "Read"
        /\ input' = input /\ open' = open
        /\ cursor' = [cursor EXCEPT ![r] = MovedTo(cursor[r], end)]
        /\ items' = IF n < end THEN items \cup {item} ELSE items
    BY <1>1, <2>2, <2>3 DEF Take
  <2>6. /\ items' = IF 0 < size THEN items \cup {item} ELSE items
        /\ cursor' = [cursor EXCEPT ![r] = MovedTo(cursor[r], n + size)]
    BY <2>1, <2>5
  <2>8. unread' = unread \cup {} /\ size <= size
    BY <1>1
  <2>7. Consumes(r, size, size, item, {})
    BY <1>1, <1>2, <2>3, <2>4, <2>5, <2>6, <2>8 DEF Consumes
  <2> QED BY <1>1, <2>7, ConsumingStep
<1> QED BY <1>3, <1>4

LEMMA ScalarHolds ==
  ASSUME NEW kind, NEW at \in Nat, NEW size \in Nat, NEW content
  PROVE  LET m == Scalar(kind, at, at + size, content)
         IN  m.kind = kind /\ m.at = at /\ m.upto = at + size /\ m.content = content /\ m.upto \in Nat
BY DEF Scalar, Item

LEMMA ReadUnsignedStep ==
  ASSUME IInv, NEW r \in Readers, ReadUnsigned(r)
  PROVE  IInv' /\ Failure /\ Progress
<1> PICK result : result = Read_Unsigned(input, cursor[r])
  OBVIOUS
<1> PICK n : n = cursor[r].next
  OBVIOUS
<1>1. r \in open /\ ReadScalar(r, "unsigned", result, result.value)
  BY DEF ReadUnsigned, ReadScalar, Take
<1>2. /\ input \in Seq(Octet) /\ cursor[r] \in Cursor_Record /\ Is_Valid(cursor[r], Len(input))
      /\ n \in Nat /\ cursor[r].limit \in Nat
      /\ Remaining(cursor[r]) = cursor[r].limit - n /\ cursor[r].limit <= Len(input) /\ Len(input) \in Nat
  BY <1>1, Reading
<1>3. ReadRefused(cursor[r], result) \/ Takes(input, cursor[r], result.value, 0, result)
  BY <1>2, UnsignedRead
<1>4. CASE Takes(input, cursor[r], result.value, 0, result)
  <2> PICK v : v = result.value
    OBVIOUS
  <2> PICK size : size = Unsigned_Size(v)
    OBVIOUS
  <2>1. /\ result.status = "Read" /\ v \in Unsigned /\ Encodes(input, n, v)
        /\ size + 0 <= Remaining(cursor[r]) /\ result.cursor = Advance(cursor[r], size + 0)
    BY <1>4 DEF Takes
  <2>2. size \in Nat /\ size + 0 = size
    BY <2>1, SizeOfUnsigned
  <2>3. n + size <= Len(input)
    BY <1>2, <2>1, <2>2, SMTT(60)
  <2>4. ItemHolds(Scalar("unsigned", n, n + size, v))
    BY <1>2, <2>1, <2>2, <2>3, ScalarHolds, SMTT(60) DEF ItemHolds
  <2> QED BY <1>1, <2>1, <2>2, <2>4, ScalarStep
<1> QED BY <1>1, <1>3, <1>4, ScalarStep

LEMMA ReadSignedStep ==
  ASSUME IInv, NEW r \in Readers, ReadSigned(r)
  PROVE  IInv' /\ Failure /\ Progress
<1> PICK result : result = Read_Signed(input, cursor[r])
  OBVIOUS
<1> PICK n : n = cursor[r].next
  OBVIOUS
<1>1. r \in open /\ ReadScalar(r, "signed", result, result.value)
  BY DEF ReadSigned, ReadScalar, Take
<1>2. /\ input \in Seq(Octet) /\ cursor[r] \in Cursor_Record /\ Is_Valid(cursor[r], Len(input))
      /\ n \in Nat /\ cursor[r].limit \in Nat
      /\ Remaining(cursor[r]) = cursor[r].limit - n /\ cursor[r].limit <= Len(input) /\ Len(input) \in Nat
  BY <1>1, Reading
<1>3. \/ ReadRefused(cursor[r], result)
      \/ /\ result.value \in Integer_64
         /\ Takes(input, cursor[r], ZigZag_Encode(result.value), 0, result)
  BY <1>2, SignedRead
<1>4. CASE /\ result.value \in Integer_64
           /\ Takes(input, cursor[r], ZigZag_Encode(result.value), 0, result)
  <2> PICK v : v = result.value
    OBVIOUS
  <2> PICK size : size = Unsigned_Size(ZigZag_Encode(v))
    OBVIOUS
  <2>1. /\ result.status = "Read" /\ v \in Integer_64 /\ ZigZag_Encode(v) \in Unsigned
        /\ Encodes(input, n, ZigZag_Encode(v))
        /\ size + 0 <= Remaining(cursor[r]) /\ result.cursor = Advance(cursor[r], size + 0)
    BY <1>4 DEF Takes
  <2>2. size \in Nat /\ size + 0 = size
    BY <2>1, SizeOfUnsigned
  <2>3. n + size <= Len(input)
    BY <1>2, <2>1, <2>2, SMTT(60)
  <2>4. ItemHolds(Scalar("signed", n, n + size, v))
    BY <1>2, <2>1, <2>2, <2>3, ScalarHolds, SMTT(60) DEF ItemHolds
  <2> QED BY <1>1, <2>1, <2>2, <2>4, ScalarStep
<1> QED BY <1>1, <1>3, <1>4, ScalarStep

LEMMA ReadBooleanStep ==
  ASSUME IInv, NEW r \in Readers, ReadBoolean(r)
  PROVE  IInv' /\ Failure /\ Progress
<1> PICK result : result = Read_Boolean(input, cursor[r])
  OBVIOUS
<1> PICK n : n = cursor[r].next
  OBVIOUS
<1> PICK bit : bit = Bit(result.value)
  OBVIOUS
<1>1. r \in open /\ ReadScalar(r, "boolean", result, bit)
  BY DEF ReadBoolean, ReadScalar, Take
<1>2. /\ input \in Seq(Octet) /\ cursor[r] \in Cursor_Record /\ Is_Valid(cursor[r], Len(input))
      /\ n \in Nat /\ cursor[r].limit \in Nat
      /\ Remaining(cursor[r]) = cursor[r].limit - n /\ cursor[r].limit <= Len(input) /\ Len(input) \in Nat
  BY <1>1, Reading
<1>3. \/ ReadRefused(cursor[r], result)
      \/ /\ result.status = "Read" /\ input[n + 1] = bit
         /\ 1 <= Remaining(cursor[r]) /\ result.cursor = Advance(cursor[r], 1)
  BY <1>2, BooleanRead
<1>4. CASE /\ result.status = "Read" /\ input[n + 1] = bit
           /\ 1 <= Remaining(cursor[r]) /\ result.cursor = Advance(cursor[r], 1)
  <2>1. n + 1 <= Len(input)
    BY <1>2, <1>4
  <2>2. bit \in {0, 1}
    BY SMTT(60) DEF Bit
  <2>3. ItemHolds(Scalar("boolean", n, n + 1, bit))
    BY <1>2, <1>4, <2>1, <2>2, ScalarHolds DEF ItemHolds
  <2> QED BY <1>1, <1>4, <2>3, ScalarStep
<1> QED BY <1>1, <1>3, <1>4, ScalarStep

LEMMA ReadOctetsStep ==
  ASSUME IInv, NEW r \in Readers, NEW count \in Counts, ReadOctets(r, count)
  PROVE  IInv' /\ Failure /\ Progress
<1> PICK result : result = Read_Octets(input, cursor[r], Destination, count)
  OBVIOUS
<1> PICK n : n = cursor[r].next
  OBVIOUS
<1>1. r \in open /\ ReadScalar(r, "octets", result, count)
  BY DEF ReadOctets, ReadScalar, Take
<1>2. /\ input \in Seq(Octet) /\ cursor[r] \in Cursor_Record /\ Is_Valid(cursor[r], Len(input))
      /\ n \in Nat /\ count \in Nat
  BY <1>1, Reading, ReaderAssumption
<1>3. Len(Destination) \in Nat
  BY ReaderAssumption DEF Destination
<1>4. \/ ReadRefused(cursor[r], result)
      \/ /\ result.status = "Read" /\ count <= Remaining(cursor[r])
         /\ result.cursor = Advance(cursor[r], count)
  BY <1>2, <1>3, OctetsRead
<1>5. ItemHolds(Scalar("octets", n, n + count, count))
  BY <1>2, ScalarHolds DEF ItemHolds
<1> QED BY <1>1, <1>2, <1>4, <1>5, ScalarStep

LEMMA FinishStep ==
  ASSUME IInv, Finish
  PROVE  IInv' /\ Failure /\ Progress
<1>1. /\ phase = "reading" /\ phase' = "done"
      /\ UNCHANGED <<input, cursor, previous, open, unread, items>> /\ status' = status
  BY DEF Finish
<1>2. status \in {"Read", "Cursor_Ready"}
  BY <1>1 DEF IInv, Working
<1> QED BY <1>1, <1>2, StoppingStep

LEMMA NextStep == IInv /\ Next => IInv' /\ Failure /\ Progress
BY OpenStep, CloseStep, ReadFieldStep, ReadDelimitedStep, ReadUnsignedStep, ReadSignedStep,
   ReadBooleanStep, ReadOctetsStep, FinishStep DEF Next

LEMMA Stutter == IInv /\ UNCHANGED vars => IInv'
<1> SUFFICES ASSUME IInv, UNCHANGED vars PROVE IInv'
  OBVIOUS
<1>1. /\ input' = input /\ cursor' = cursor /\ previous' = previous /\ open' = open
      /\ unread' = unread /\ items' = items /\ status' = status /\ phase' = phase
  BY DEF vars
<1>2. TypeOK' /\ CursorsInBounds' /\ ExtentsInside' /\ Working' /\ FewAtATime'
  BY <1>1 DEF IInv, TypeOK, CursorsInBounds, ExtentsInside, Working, FewAtATime
<1>3. \A k : ItemsAt(k)' = ItemsAt(k) /\ UnreadAt(k)' = UnreadAt(k) /\ OpenAt(k)' = OpenAt(k)
  BY <1>1 DEF ItemsAt, UnreadAt, OpenAt
<1>4. EachOwned'
  BY <1>1, <1>3 DEF IInv, EachOwned, OneOwner, Offsets
<1>5. ItemsHold'
  BY <1>1 DEF IInv, ItemsHold, ItemHolds
<1> QED BY <1>2, <1>4, <1>5 DEF IInv

LEMMA InitIInv == Init => IInv
<1> SUFFICES ASSUME Init PROVE IInv
  OBVIOUS
<1>1. /\ input \in Seq(Octet) /\ Len(input) \in Nat /\ Root \in Readers
      /\ open = {Root} /\ unread = {} /\ items = {}
      /\ status = "Cursor_Ready" /\ phase = "reading"
  BY ReaderAssumption DEF Init
<1>2. /\ Closed \in Cursor_Record /\ Is_Valid(Closed, Len(input))
      /\ Initialize_Whole(input) = [first |-> 0, next |-> 0, limit |-> Len(input)]
      /\ Initialize_Whole(input) \in Cursor_Record /\ Is_Valid(Initialize_Whole(input), Len(input))
  BY <1>1 DEF Closed, Initialize_Whole, Cursor, Cursor_Record, Is_Valid
<1>3. /\ cursor \in [Readers -> Cursor_Record]
      /\ cursor[Root] = [first |-> 0, next |-> 0, limit |-> Len(input)]
      /\ \A r \in Readers : Is_Valid(cursor[r], Len(input))
  BY <1>1, <1>2 DEF Init
<1>4. previous \in [Readers -> Tag_Number]
  BY Limits DEF Init, No_Tag, Tag_Number
<1>5. TypeOK /\ CursorsInBounds /\ ExtentsInside /\ ItemsHold /\ Working
  BY <1>1, <1>3, <1>4 DEF TypeOK, CursorsInBounds, ExtentsInside, ItemsHold, Working, Cursor_Record
<1>6. FewAtATime
  BY <1>1, FS_EmptySet, FS_Singleton DEF FewAtATime
<1>7. EachOwned
  <2> SUFFICES ASSUME NEW k \in Offsets PROVE OneOwner(k)
    BY DEF EachOwned
  <2>1. ItemsAt(k) = {} /\ UnreadAt(k) = {} /\ OpenAt(k) = {Root}
    BY <1>1, <1>3 DEF ItemsAt, UnreadAt, OpenAt, Offsets
  <2> QED BY <2>1 DEF OneOwner
<1> QED BY <1>5, <1>6, <1>7 DEF IInv

LEMMA Behaviours == Spec => []IInv
<1>1. IInv /\ [Next]_vars => IInv'
  BY NextStep, Stutter
<1> QED BY InitIInv, <1>1, PTL DEF Spec

(* Every variable keeps its shape, whatever the input is. *)
THEOREM Types == Spec => []TypeOK
<1>1. IInv => TypeOK
  BY DEF IInv
<1> QED BY <1>1, Behaviours, PTL

(* No input takes a cursor out of its container or the array, or makes a   *)
(* reader look outside of it.                                              *)
THEOREM InBounds == Spec => []CursorsInBounds
<1>1. IInv => CursorsInBounds
  BY DEF IInv
<1> QED BY <1>1, Behaviours, PTL

(* Every octet belongs to one item, one unread extent or one cursor.       *)
THEOREM OneMeaning == Spec => []EveryOctetOnce
<1>1. IInv => EveryOctetOnce
  BY EachOwnedOnce DEF IInv
<1> QED BY <1>1, Behaviours, PTL

(* What is accepted is the one encoding of what was read.                  *)
THEOREM Canonical == Spec => []AcceptedIsCanonical
<1>1. IInv => AcceptedIsCanonical
  BY ItemsAreCanonical DEF IInv, TypeOK
<1> QED BY <1>1, Behaviours, PTL

(* A read that does not return Read leaves the cursor, the previous tag    *)
(* and all that was read as they were.                                     *)
THEOREM RefusalsConsumeNothing == Spec => FailedReadsConsumeNothing
<1>1. IInv /\ [Next]_vars =>
        [status' \in Read_Status \ {"Read"} => UNCHANGED <<cursor, previous, unread, items>>]_vars
  BY NextStep DEF Failure
<1> QED BY <1>1, Behaviours, PTL DEF Spec, FailedReadsConsumeNothing

(* Every step leaves less to do, or changes the status only: no input is   *)
(* read forever.                                                           *)
THEOREM Terminates == Spec => EveryReadMakesProgress
<1>1. IInv /\ [Next]_vars =>
        [Work' < Work \/ UNCHANGED <<cursor, previous, open, unread, items, phase>>]_vars
  BY NextStep DEF Progress
<1> QED BY <1>1, Behaviours, PTL DEF Spec, EveryReadMakesProgress

=============================================================================
