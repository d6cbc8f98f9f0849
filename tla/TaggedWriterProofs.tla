-------------------------- MODULE TaggedWriterProofs --------------------------
(***************************************************************************)
(* For every array length, every set of cursors, and whatever the caller   *)
(* writes: cursors stay in bounds, the regions they may still write to     *)
(* stay apart from each other and from everything stored, stored octets    *)
(* stay, and a write that fails changes nothing.                           *)
(***************************************************************************)
EXTENDS TaggedWriter, TaggedProfileProofs

(* An array has at most as many octets as Byte_Count counts. *)
LEMMA SizeOfArray == Size \in Nat /\ Size \in Unsigned /\ Size <= MaxUnsigned
BY WriterAssumption, Limits DEF Byte_Count, Unsigned

(* The length of an array of Size octets. *)
LEMMA LengthOfArray ==
  ASSUME NEW array, NEW S, array \in [1 .. Size -> S]
  PROVE  Len(array) = Size
  BY SizeOfArray

-----------------------------------------------------------------------------

(***************************************************************************)
(* RegionsApart is not inductive by itself: a write through a cursor must  *)
(* be known to stay inside the room of that cursor, and that room inside   *)
(* the array.                                                              *)
(***************************************************************************)
IInv == TypeOK /\ CursorsInBounds /\ RegionsApart

(* A successful write takes the octets n .. n+count-1 of cursor w and      *)
(* stores in the first size of them; the rest is a reserved extent.        *)
Grants(w, size, count, item, reserved) ==
  LET n == cursor[w].next
  IN  /\ count <= Remaining(cursor[w])
      /\ size <= count
      /\ cursor' = [cursor EXCEPT ![w] = Advance(@, count)]
      /\ open' = open
      /\ item.at = n /\ item.upto = n + size
      /\ items' = IF 0 < size THEN items \cup {item} ELSE items
      /\ vacant' = vacant \cup reserved
      /\ \A e \in reserved : e = Extent(n + size, count - size)

(* A part of a range is apart from whatever the range is apart from. *)
LEMMA PartIsApart ==
  ASSUME NEW lo \in Nat, NEW hi \in Nat, NEW x \in Nat, NEW y \in Nat,
         NEW a \in Nat, NEW b \in Nat,
         lo <= x, y <= hi, Apart(lo, hi, a, b) \/ Apart(a, b, lo, hi)
  PROVE  Apart(x, y, a, b) /\ Apart(a, b, x, y)
  BY DEF Apart

(* What a successful write does to the regions, whichever write it is. *)
LEMMA GrantKeepsRegions ==
  ASSUME IInv, NEW w \in open, NEW size \in Nat, NEW count \in Nat, NEW item, NEW reserved,
         Grants(w, size, count, item, reserved)
  PROVE  /\ cursor' \in [Writers -> [first : Nat, next : Nat, limit : Nat]]
         /\ vacant' \subseteq [start : Nat, length : Nat]
         /\ \A m \in items' : m.at \in Nat /\ m.upto \in Nat
         /\ \A v \in Writers : Is_Valid(cursor'[v], Size)
         /\ \A e \in vacant' : End(e) <= Size
         /\ \A m \in items' : m.at < m.upto /\ m.upto <= Size
         /\ RegionsApart'
<1> DEFINE n     == cursor[w].next
           limit == cursor[w].limit
           moved == [first |-> cursor[w].first, next |-> n + count, limit |-> limit]
<1> Size \in Nat
  BY SizeOfArray
<1>1. /\ cursor \in [Writers -> [first : Nat, next : Nat, limit : Nat]]
      /\ vacant \subseteq [start : Nat, length : Nat]
      /\ \A m \in items : m.at \in Nat /\ m.upto \in Nat
      /\ open \subseteq Writers
      /\ \A v \in Writers : Is_Valid(cursor[v], Size)
      /\ \A e \in vacant : End(e) <= Size
      /\ \A m \in items : m.at < m.upto /\ m.upto <= Size
      /\ RegionsApart
  BY DEF IInv, TypeOK, CursorsInBounds
<1>2. /\ count <= limit - n
      /\ size <= count
      /\ open' = open
      /\ cursor' = [cursor EXCEPT ![w] = moved]
      /\ item.at = n /\ item.upto = n + size
      /\ items' = IF 0 < size THEN items \cup {item} ELSE items
      /\ vacant' = vacant \cup reserved
      /\ \A e \in reserved : e = [start |-> n + size, length |-> count - size]
  BY DEF Grants, Remaining, Extent, Advance, Cursor
<1>3. /\ w \in Writers
      /\ cursor[w].first \in Nat /\ n \in Nat /\ limit \in Nat
  <2>1. w \in Writers
    BY <1>1
  <2>2. cursor[w] \in [first : Nat, next : Nat, limit : Nat]
    BY <1>1, <2>1
  <2> QED
    BY <2>1, <2>2, CursorFields
<1>4. cursor[w].first <= n /\ n <= limit /\ limit <= Size
  BY <1>1, <1>3 DEF Is_Valid
<1>5. n + count \in Nat /\ n + size \in Nat /\ n + size <= n + count /\ n + count <= limit
  BY <1>2, <1>3
<1>6. moved \in [first : Nat, next : Nat, limit : Nat]
  BY <1>3, <1>5
<1>7. /\ cursor' \in [Writers -> [first : Nat, next : Nat, limit : Nat]]
      /\ cursor'[w] = moved
      /\ \A v \in Writers \ {w} : cursor'[v] = cursor[v]
  <2> HIDE DEF moved
  <2> QED
    BY <1>1, <1>2, <1>3, <1>6
<1>8. /\ cursor'[w].first = cursor[w].first
      /\ cursor'[w].next = n + count
      /\ cursor'[w].limit = limit
  BY <1>7
<1>9. \A v \in Writers : Is_Valid(cursor'[v], Size)
  <2> HIDE DEF n, limit, moved
  <2> SUFFICES ASSUME NEW v \in Writers PROVE Is_Valid(cursor'[v], Size)
    OBVIOUS
  <2>1. CASE v = w
    BY <1>3, <1>4, <1>5, <1>8, <2>1 DEF Is_Valid
  <2>2. CASE v # w
    BY <1>1, <1>7, <2>2
  <2> QED
    BY <2>1, <2>2
<1>10. \A e \in reserved : /\ e \in [start : Nat, length : Nat]
                            /\ e.start = n + size
                            /\ End(e) = n + count
  <2> SUFFICES ASSUME NEW e \in reserved
               PROVE  /\ e \in [start : Nat, length : Nat]
                      /\ e.start = n + size
                      /\ End(e) = n + count
    OBVIOUS
  <2>1. e = [start |-> n + size, length |-> count - size]
    BY <1>2
  <2>2. n + size \in Nat /\ count - size \in Nat /\ n + size + (count - size) = n + count
    BY <1>2, <1>3
  <2> QED
    BY <2>1, <2>2 DEF End
<1> HIDE DEF n, limit, moved
<1>11. /\ vacant' \subseteq [start : Nat, length : Nat]
       /\ \A e \in vacant' : End(e) <= Size
  BY <1>1, <1>2, <1>3, <1>4, <1>5, <1>10
<1>12. \A m \in items' : /\ m.at \in Nat /\ m.upto \in Nat
                          /\ m.at < m.upto /\ m.upto <= Size
  BY <1>1, <1>2, <1>3, <1>4, <1>5
<1>13. /\ \A e \in vacant : e.start \in Nat /\ End(e) \in Nat
       /\ \A v \in Writers : cursor[v].next \in Nat /\ cursor[v].limit \in Nat
       /\ \A m \in items : m.at \in Nat /\ m.upto \in Nat
  BY <1>1 DEF End
<1>14. /\ \A v \in open : v # w => Apart(n, limit, cursor[v].next, cursor[v].limit)
       /\ \A e \in vacant : Apart(n, limit, e.start, End(e))
       /\ \A m \in items : Apart(n, limit, m.at, m.upto)
  BY <1>1 DEF RegionsApart, n, limit
<1>15. RegionsApart'
  (* The new regions are parts of the room cursor w had. *)
  <2>1. ASSUME NEW x \in Nat, NEW y \in Nat, n <= x, y <= limit
        PROVE  /\ \A v \in open : v # w => /\ Apart(x, y, cursor'[v].next, cursor'[v].limit)
                                          /\ Apart(cursor'[v].next, cursor'[v].limit, x, y)
               /\ \A e \in vacant : Apart(x, y, e.start, End(e)) /\ Apart(e.start, End(e), x, y)
               /\ \A m \in items : Apart(x, y, m.at, m.upto)
    <3>1. \A v \in open \ {w} : cursor'[v] = cursor[v] /\ v \in Writers
      BY <1>1, <1>7
    <3> QED
      BY <1>3, <1>13, <1>14, <2>1, <3>1, PartIsApart
  <2>2. /\ n <= n /\ n + size <= limit /\ n <= n + size /\ n + count <= limit /\ n <= n + count
        /\ limit <= limit
    BY <1>3, <1>5
  <2>3. /\ \A v \in open : v # w =>
             /\ Apart(n, n + size, cursor'[v].next, cursor'[v].limit)
             /\ Apart(cursor'[v].next, cursor'[v].limit, n, n + size)
        /\ \A e \in vacant : Apart(e.start, End(e), n, n + size)
    BY <1>3, <1>5, <2>1, <2>2
  <2>4. /\ \A v \in open : v # w => Apart(cursor'[v].next, cursor'[v].limit, n + size, n + count)
        /\ \A e \in vacant : /\ Apart(e.start, End(e), n + size, n + count)
                             /\ Apart(n + size, n + count, e.start, End(e))
        /\ \A m \in items : Apart(n + size, n + count, m.at, m.upto)
    BY <1>3, <1>5, <2>1, <2>2
  <2>5. /\ \A v \in open : v # w =>
             /\ Apart(n + count, limit, cursor'[v].next, cursor'[v].limit)
             /\ Apart(cursor'[v].next, cursor'[v].limit, n + count, limit)
        /\ \A e \in vacant : Apart(n + count, limit, e.start, End(e))
        /\ \A m \in items : Apart(n + count, limit, m.at, m.upto)
    BY <1>3, <1>5, <2>1, <2>2
  <2>6. /\ Apart(n + count, limit, n, n + size)
        /\ Apart(n + count, limit, n + size, n + count)
        /\ Apart(n + size, n + count, n, n + size)
    BY <1>3, <1>5 DEF Apart
  <2>7. \A d, e \in reserved : d = e
    BY <1>2
  <2>8. \A v \in open \ {w} : cursor'[v] = cursor[v]
    BY <1>1, <1>7
  <2>9. \A u, v \in open' :
          u # v => Apart(cursor'[u].next, cursor'[u].limit, cursor'[v].next, cursor'[v].limit)
    BY <1>1, <1>2, <1>8, <2>5, <2>8 DEF RegionsApart
  <2>10. \A v \in open', e \in vacant' : Apart(cursor'[v].next, cursor'[v].limit, e.start, End(e))
    BY <1>1, <1>2, <1>8, <1>10, <2>4, <2>5, <2>6, <2>8 DEF RegionsApart
  <2>11. \A d, e \in vacant' : d # e => Apart(d.start, End(d), e.start, End(e))
    BY <1>1, <1>2, <1>10, <2>4, <2>7 DEF RegionsApart
  <2>12. \A m \in items', v \in open' : Apart(cursor'[v].next, cursor'[v].limit, m.at, m.upto)
    BY <1>1, <1>2, <1>8, <2>3, <2>5, <2>6, <2>8 DEF RegionsApart
  <2>13. \A m \in items', e \in vacant' : Apart(e.start, End(e), m.at, m.upto)
    BY <1>1, <1>2, <1>10, <2>3, <2>4, <2>6 DEF RegionsApart
  <2> QED
    BY <2>9, <2>10, <2>11, <2>12, <2>13 DEF RegionsApart
<1> QED
  BY <1>7, <1>9, <1>11, <1>12, <1>15

-----------------------------------------------------------------------------

(***************************************************************************)
(* Every write either refuses or stores.                                   *)
(***************************************************************************)
Refuses(before, c, result) ==
  /\ result.status \in Write_Status \ {"Wrote"}
  /\ result.output = before
  /\ result.cursor = c

LEMMA UnsignedOutcome ==
  ASSUME NEW before \in [1 .. Size -> Octet], NEW c \in Cursor_Record, Is_Valid(c, Size),
         NEW value \in Nat, NEW result, result = Write_Unsigned(before, c, value)
  PROVE  \/ Refuses(before, c, result)
         \/ Stores(Size, before, c, result, Unsigned_Size(value), Unsigned_Size(value))
<1>1. Unsigned_Size(value) \in Nat /\ Remaining(c) \in Int
  BY SizeOfAny, ProfileAssumption, CursorFields DEF Cursor_Record
<1>2. CASE Unsigned_Size(value) > Remaining(c)
  <2>1. result = Write_Refused("Destination_Too_Small", before, c)
    BY <1>2 DEF Write_Unsigned
  <2> QED
    BY <2>1 DEF Write_Refused, Refuses, Write_Status
<1>3. CASE Unsigned_Size(value) <= Remaining(c)
  BY <1>3, UnsignedStored, SizeOfArray
<1> QED
  BY <1>1, <1>2, <1>3

LEMMA BooleanOutcome ==
  ASSUME NEW before \in [1 .. Size -> Octet], NEW c \in Cursor_Record, Is_Valid(c, Size),
         NEW value \in BOOLEAN, NEW result, result = Write_Boolean(before, c, value)
  PROVE  Refuses(before, c, result) \/ Stores(Size, before, c, result, 1, 1)
<1>1. CASE Remaining(c) = 0
  <2>1. result = Write_Refused("Destination_Too_Small", before, c)
    BY <1>1 DEF Write_Boolean
  <2> QED
    BY <2>1 DEF Write_Refused, Refuses, Write_Status
<1>2. CASE Remaining(c) # 0
  BY <1>2, BooleanStored, SizeOfArray
<1> QED
  BY <1>1, <1>2

LEMMA OctetsOutcome ==
  ASSUME NEW before \in [1 .. Size -> Octet], NEW c \in Cursor_Record, Is_Valid(c, Size),
         NEW count \in Nat, NEW result, result = Write_Octets(before, c, Raw, count)
  PROVE  Refuses(before, c, result) \/ Stores(Size, before, c, result, count, count)
<1>1. Remaining(c) \in Int /\ Len(Raw) \in Nat /\ Raw \in Seq(Octet)
  BY CursorFields, WriterAssumption DEF Cursor_Record
<1>2. CASE count > Remaining(c) \/ count > Len(Raw)
  <2> DEFINE after == [i \in 1 .. Size |-> IF i \in c.next + 1 .. c.next + 0 THEN Raw[i - c.next] ELSE before[i]]
  <2>1. result = [status |-> "Destination_Too_Small", output |-> after, cursor |-> c]
    BY <1>2, LengthOfArray DEF Write_Octets
  <2>2. after = before
    BY CursorFields
  <2> HIDE DEF after
  <2> QED
    BY <2>1, <2>2 DEF Refuses, Write_Status
<1>3. CASE count <= Remaining(c) /\ count <= Len(Raw)
  BY <1>1, <1>3, OctetsStored, SizeOfArray
<1> QED
  BY <1>1, <1>2, <1>3

(* A header stores itself and takes the room of its value as well. *)
LEMMA DelimitedOutcome ==
  ASSUME NEW before \in [1 .. Size -> Octet], NEW c \in Cursor_Record, Is_Valid(c, Size),
         NEW length \in Nat, NEW result, result = Write_Length_Delimited(before, c, length)
  PROVE  \/ Refuses(before, c, result)
         \/ \E size \in Nat :
              /\ 0 < size
              /\ Stores(Size, before, c, result, size, size + length)
              /\ result.value = Extent(c.next + size, length)
<1>1. PICK size \in Nat : size = Unsigned_Size(length) /\ 0 < size
  BY SizeOfAny, ProfileAssumption
<1>2. Remaining(c) \in Int
  BY CursorFields DEF Cursor_Record
<1>3. CASE size + length > Remaining(c)
  <2>1. ~ Has_Room(before, c, size, length)
    BY <1>2, <1>3 DEF Has_Room
  <2>2. result = [status |-> "Destination_Too_Small", output |-> before,
                  cursor |-> c, value |-> Empty_Extent]
    BY <1>1, <2>1 DEF Write_Length_Delimited
  <2> QED
    BY <2>2 DEF Refuses, Write_Status
<1>4. CASE size + length <= Remaining(c)
  BY <1>1, <1>4, DelimitedStored, SizeOfArray
<1> QED
  BY <1>2, <1>3, <1>4

LEMMA FieldOutcome ==
  ASSUME NEW before \in [1 .. Size -> Octet], NEW c \in Cursor_Record, Is_Valid(c, Size),
         NEW after \in Nat, NEW tag \in Nat, NEW length \in Nat,
         NEW result, result = Write_Field_Header(before, c, after, tag, length)
  PROVE  \/ Refuses(before, c, result) /\ result.previous = after
         \/ \E size \in Nat :
              /\ 0 < size
              /\ Stores(Size, before, c, result, size, size + length)
              /\ result.value = Extent(c.next + size, length)
              /\ result.previous = tag
<1>1. PICK size \in Nat : size = Unsigned_Size(tag) + Unsigned_Size(length) /\ 0 < size
  BY SizeOfAny, ProfileAssumption
<1>2. Remaining(c) \in Int
  BY CursorFields DEF Cursor_Record
<1>3. CASE tag = No_Tag \/ tag <= after \/ size + length > Remaining(c)
  <2> DEFINE Refused(reason) == [status |-> reason, output |-> before, cursor |-> c,
                                 previous |-> after, value |-> Empty_Extent]
  <2>1. size + length > Remaining(c) => ~ Has_Room(before, c, size, length)
    BY <1>2 DEF Has_Room
  <2>2. \/ result = Refused("Invalid_Tag")
        \/ result = Refused("Tag_Order_Error")
        \/ result = Refused("Destination_Too_Small")
    BY <1>1, <1>3, <2>1 DEF Write_Field_Header
  <2>3. Refuses(before, c, result) /\ result.previous = after
    BY <2>2 DEF Refuses, Write_Status
  <2> QED
    BY <2>3
<1>4. CASE after < tag /\ size + length <= Remaining(c)
  BY <1>1, <1>4, FieldStored, SizeOfArray
<1> QED
  BY <1>2, <1>3, <1>4

-----------------------------------------------------------------------------

(***************************************************************************)
(* What a step may never do: the bodies of the two action properties.      *)
(***************************************************************************)
Failure == status' \in Write_Status \ {"Wrote"} => UNCHANGED <<output, cursor, previous, vacant, items>>

Stability == \A m \in items : \A k \in m.at .. m.upto - 1 : output'[k + 1] = output[k + 1]

(* A write that refuses. *)
LEMMA RefusalStep ==
  ASSUME IInv, NEW w \in open, NEW result, NEW item, Store(w, result, item),
         Refuses(output, cursor[w], result), UNCHANGED <<previous, vacant>>
  PROVE  IInv' /\ Failure /\ Stability
<1>1. /\ output' = output
      /\ status' \in Write_Status \ {"Wrote"}
      /\ items' = items
      /\ open' = open
      /\ UNCHANGED <<previous, vacant>>
  BY DEF Store, Refuses
<1>2. cursor' = [cursor EXCEPT ![w] = cursor[w]]
  BY DEF Store, Refuses
<1>3. cursor \in [Writers -> Cursor_Record]
  BY DEF IInv, TypeOK, Cursor_Record
<1>4. cursor' = cursor
  BY <1>2, <1>3
<1>5. TypeOK'
  BY <1>1, <1>4 DEF IInv, TypeOK
<1>6. CursorsInBounds'
  BY <1>1, <1>4 DEF IInv, CursorsInBounds, Write_Status
<1>7. RegionsApart'
  BY <1>1, <1>4 DEF IInv, RegionsApart
<1> QED
  BY <1>1, <1>4, <1>5, <1>6, <1>7 DEF IInv, Failure, Stability

(* A write that stores size octets and takes count. *)
LEMMA StoringStep ==
  ASSUME IInv, NEW w \in open, NEW result, NEW item, Store(w, result, item),
         NEW size \in Nat, NEW count \in Nat, NEW reserved,
         Stores(Size, output, cursor[w], result, size, count),
         item.at = cursor[w].next, item.upto = cursor[w].next + size,
         vacant' = vacant \cup reserved,
         \A e \in reserved : e = Extent(cursor[w].next + size, count - size),
         previous' \in [Writers -> Tag_Number]
  PROVE  IInv' /\ Failure /\ Stability
<1> DEFINE n == cursor[w].next
<1>1. /\ cursor[w] \in Cursor_Record
      /\ w \in Writers
      /\ open \subseteq Writers
      /\ cursor \in [Writers -> Cursor_Record]
  BY DEF IInv, TypeOK, Cursor_Record
<1>2. n \in Nat /\ Size \in Nat
  BY <1>1, CursorFields, SizeOfArray DEF Cursor_Record
<1>3. item.at < item.upto <=> 0 < size
  BY <1>2
<1>4. /\ status' = "Wrote"
      /\ output' \in [1 .. Size -> Octet]
      /\ Keeps(Size, output, output', n, size)
      /\ open' = open
      /\ items' = IF 0 < size THEN items \cup {item} ELSE items
      /\ size <= count /\ count <= Remaining(cursor[w])
      /\ cursor' = [cursor EXCEPT ![w] = Advance(cursor[w], count)]
  <2>1. /\ status' = result.status
        /\ output' = result.output
        /\ open' = open
        /\ items' = IF result.status = "Wrote" /\ item.at < item.upto THEN items \cup {item} ELSE items
        /\ cursor' = [cursor EXCEPT ![w] = result.cursor]
    BY DEF Store
  <2>2. /\ result.status = "Wrote"
        /\ result.output \in [1 .. Size -> Octet]
        /\ Keeps(Size, output, result.output, n, size)
        /\ size <= count /\ count <= Remaining(cursor[w])
        /\ result.cursor = Advance(cursor[w], count)
    BY DEF Stores
  <2> HIDE DEF n
  <2> QED
    BY <1>3, <2>1, <2>2
<1> HIDE DEF n
<1>6. Grants(w, size, count, item, reserved)
  BY <1>1, <1>4 DEF Grants, n
<1>7. /\ cursor' \in [Writers -> [first : Nat, next : Nat, limit : Nat]]
      /\ vacant' \subseteq [start : Nat, length : Nat]
      /\ \A m \in items' : m.at \in Nat /\ m.upto \in Nat
      /\ \A v \in Writers : Is_Valid(cursor'[v], Size)
      /\ \A e \in vacant' : End(e) <= Size
      /\ \A m \in items' : m.at < m.upto /\ m.upto <= Size
      /\ RegionsApart'
  BY <1>6, GrantKeepsRegions
<1>8. TypeOK'
  BY <1>1, <1>4, <1>7 DEF TypeOK, Write_Status
<1>9. CursorsInBounds'
  BY <1>4, <1>7 DEF CursorsInBounds
<1>10. Failure
  BY <1>4 DEF Failure
<1>11. Stability
  <2> SUFFICES ASSUME NEW m \in items, NEW k \in m.at .. m.upto - 1
               PROVE  output'[k + 1] = output[k + 1]
    BY DEF Stability
  <2>1. /\ m.at \in Nat /\ m.upto \in Nat /\ m.upto <= Size
        /\ Apart(n, cursor[w].limit, m.at, m.upto)
    <3>1. RegionsApart /\ \A l \in items : l.at \in Nat /\ l.upto \in Nat /\ l.upto <= Size
      BY DEF IInv, TypeOK, CursorsInBounds
    <3> QED
      BY <3>1 DEF RegionsApart, n
  <2>2. n + size <= cursor[w].limit /\ cursor[w].limit \in Nat
    BY <1>1, <1>2, <1>4, CursorFields DEF Remaining, Cursor_Record, n
  <2>3. k + 1 \in 1 .. Size /\ k + 1 \notin n + 1 .. n + size
    BY <1>2, <2>1, <2>2 DEF Apart
  <2> QED
    BY <1>4, <2>3 DEF Keeps
<1> QED
  BY <1>7, <1>8, <1>9, <1>10, <1>11 DEF IInv

(* A scalar write, whichever it is. *)
LEMMA ScalarStep ==
  ASSUME IInv, NEW w \in open, NEW result, NEW item, Store(w, result, item),
         NEW size \in Nat,
         \/ Refuses(output, cursor[w], result)
         \/ Stores(Size, output, cursor[w], result, size, size),
         item.at = cursor[w].next, item.upto = result.cursor.next,
         UNCHANGED <<previous, vacant>>
  PROVE  IInv' /\ Failure /\ Stability
<1>1. CASE Refuses(output, cursor[w], result)
  BY <1>1, RefusalStep
<1>2. CASE Stores(Size, output, cursor[w], result, size, size)
  <2>1. item.upto = cursor[w].next + size
    BY <1>2 DEF Stores, Advance, Cursor
  <2> DEFINE reserved == {}
  <2>2. /\ vacant' = vacant \cup reserved
        /\ \A e \in reserved : e = Extent(cursor[w].next + size, size - size)
    OBVIOUS
  <2>3. previous' \in [Writers -> Tag_Number]
    BY DEF IInv, TypeOK
  <2> HIDE DEF reserved
  <2> QED
    BY <1>2, <2>1, <2>2, <2>3, StoringStep
<1> QED
  BY <1>1, <1>2

(* A header write, whichever it is. *)
LEMMA HeaderStep ==
  ASSUME IInv, NEW w \in open, NEW result, NEW item, Store(w, result, item), Reserve(result),
         NEW length \in Nat,
         \/ Refuses(output, cursor[w], result) /\ previous' = previous
         \/ \E size \in Nat : /\ Stores(Size, output, cursor[w], result, size, size + length)
                              /\ result.value = Extent(cursor[w].next + size, length),
         item.at = cursor[w].next, item.upto = result.value.start,
         previous' \in [Writers -> Tag_Number]
  PROVE  IInv' /\ Failure /\ Stability
<1>1. CASE Refuses(output, cursor[w], result) /\ previous' = previous
  <2>1. vacant' = vacant
    BY <1>1 DEF Reserve, Refuses
  <2> QED
    BY <1>1, <2>1, RefusalStep
<1>2. ASSUME NEW size \in Nat,
             Stores(Size, output, cursor[w], result, size, size + length),
             result.value = Extent(cursor[w].next + size, length)
      PROVE  IInv' /\ Failure /\ Stability
  <2> DEFINE reserved == {result.value}
             count    == size + length
  <2>1. vacant' = vacant \cup reserved
    BY <1>2 DEF Reserve, Stores
  <2>2. item.upto = cursor[w].next + size
    BY <1>2 DEF Extent
  <2>3. count \in Nat /\ count - size = length
    BY <1>2
  <2>4. \A e \in reserved : e = Extent(cursor[w].next + size, count - size)
    BY <1>2, <2>3
  <2> HIDE DEF reserved, count
  <2>5. Stores(Size, output, cursor[w], result, size, count)
    BY <1>2 DEF count
  <2> QED
    BY <2>1, <2>2, <2>3, <2>4, <2>5, StoringStep
<1> QED
  BY <1>1, <1>2

(* A cursor given to a reserved extent takes its place. *)
LEMMA OpenStep ==
  ASSUME IInv, NEW w \in Writers, NEW region \in vacant, Open(w, region)
  PROVE  IInv' /\ Failure /\ Stability
<1> DEFINE start == region.start
           fresh == Cursor(start, start, start + region.length)
<1>1. /\ start \in Nat /\ region.length \in Nat /\ start + region.length <= Size
      /\ Size \in Nat
      /\ cursor \in [Writers -> [first : Nat, next : Nat, limit : Nat]]
      /\ previous \in [Writers -> Tag_Number]
      /\ open \subseteq Writers
  BY SizeOfArray DEF IInv, TypeOK, CursorsInBounds, End
<1>2. Len(output) = Size
  BY LengthOfArray DEF IInv, TypeOK
<1>3. Inside(region, output)
  BY <1>1, <1>2 DEF Inside
<1>4. Initialize(output, region) = [status |-> "Cursor_Ready", cursor |-> fresh]
  BY <1>3 DEF Initialize
<1>5. /\ w \notin open
      /\ status' = "Cursor_Ready"
      /\ cursor' = [cursor EXCEPT ![w] = fresh]
      /\ previous' = [previous EXCEPT ![w] = No_Tag]
      /\ open' = open \cup {w}
      /\ vacant' = vacant \ {region}
      /\ UNCHANGED <<output, items>>
  BY <1>4 DEF Open
<1>6. /\ fresh \in [first : Nat, next : Nat, limit : Nat]
      /\ Is_Valid(fresh, Size)
      /\ fresh.next = start /\ fresh.limit = End(region)
  BY <1>1 DEF Cursor, Is_Valid, End
<1> HIDE DEF start, fresh
<1>7. /\ cursor' \in [Writers -> [first : Nat, next : Nat, limit : Nat]]
      /\ cursor'[w] = fresh
      /\ \A v \in Writers \ {w} : cursor'[v] = cursor[v]
  BY <1>1, <1>5, <1>6
<1>8. previous' \in [Writers -> Tag_Number]
  BY <1>1, <1>5, ProfileAssumption DEF No_Tag, Tag_Number
<1>9. TypeOK'
  BY <1>5, <1>7, <1>8 DEF IInv, TypeOK
<1>10. CursorsInBounds'
  BY <1>5, <1>6, <1>7 DEF IInv, CursorsInBounds
<1>11. RegionsApart'
  <2>1. RegionsApart
    BY DEF IInv
  <2>2. /\ cursor'[w].next = start /\ cursor'[w].limit = End(region)
        /\ \A v \in open : v # w /\ cursor'[v] = cursor[v]
        /\ \A v \in open' : v = w \/ v \in open
        /\ vacant' \subseteq vacant /\ region \notin vacant'
        /\ items' = items
    BY <1>1, <1>5, <1>6, <1>7
  <2>3. /\ \A v \in open : Apart(cursor'[v].next, cursor'[v].limit, start, End(region))
        /\ \A e \in vacant' : Apart(start, End(region), e.start, End(e))
        /\ \A m \in items : Apart(start, End(region), m.at, m.upto)
    BY <2>1, <2>2 DEF RegionsApart, start
  <2>4. \A v \in open : Apart(start, End(region), cursor'[v].next, cursor'[v].limit)
    BY <2>3 DEF Apart
  <2>5. \A u, v \in open' :
          u # v => Apart(cursor'[u].next, cursor'[u].limit, cursor'[v].next, cursor'[v].limit)
    BY <2>1, <2>2, <2>3, <2>4 DEF RegionsApart
  <2>6. \A v \in open', e \in vacant' : Apart(cursor'[v].next, cursor'[v].limit, e.start, End(e))
    BY <2>1, <2>2, <2>3 DEF RegionsApart
  <2>7. \A v \in open', m \in items' : Apart(cursor'[v].next, cursor'[v].limit, m.at, m.upto)
    BY <2>1, <2>2, <2>3 DEF RegionsApart
  <2>8. /\ \A d, e \in vacant' : d # e => Apart(d.start, End(d), e.start, End(e))
        /\ \A m \in items', e \in vacant' : Apart(e.start, End(e), m.at, m.upto)
    BY <2>1, <2>2 DEF RegionsApart
  <2> QED
    BY <2>5, <2>6, <2>7, <2>8 DEF RegionsApart
<1>12. Failure /\ Stability
  BY <1>5 DEF Failure, Stability, Write_Status
<1> QED
  BY <1>9, <1>10, <1>11, <1>12 DEF IInv

LEMMA CloseStep ==
  ASSUME IInv, NEW w \in Writers, Close(w)
  PROVE  IInv' /\ Failure /\ Stability
<1>1. /\ cursor \in [Writers -> [first : Nat, next : Nat, limit : Nat]]
      /\ previous \in [Writers -> Tag_Number]
      /\ Closed \in [first : Nat, next : Nat, limit : Nat]
      /\ Is_Valid(Closed, Size)
  BY SizeOfArray DEF IInv, TypeOK, Closed, Cursor, Is_Valid
<1>2. /\ status' = "Cursor_Ready"
      /\ cursor' = [cursor EXCEPT ![w] = Closed]
      /\ previous' = [previous EXCEPT ![w] = No_Tag]
      /\ open' = open \ {w}
      /\ UNCHANGED <<output, vacant, items>>
  BY DEF Close
<1>3. /\ cursor' \in [Writers -> [first : Nat, next : Nat, limit : Nat]]
      /\ cursor'[w] = Closed
      /\ \A v \in Writers \ {w} : cursor'[v] = cursor[v]
  BY <1>1, <1>2
<1>4. previous' \in [Writers -> Tag_Number]
  BY <1>1, <1>2, ProfileAssumption DEF No_Tag, Tag_Number
<1>5. TypeOK'
  BY <1>2, <1>3, <1>4 DEF IInv, TypeOK
<1>6. CursorsInBounds'
  BY <1>1, <1>2, <1>3 DEF IInv, CursorsInBounds
<1>7. RegionsApart'
  <2>1. open' \subseteq open /\ \A v \in open' : cursor'[v] = cursor[v]
    BY <1>2, <1>3 DEF IInv, TypeOK
  <2> QED
    BY <1>2, <2>1 DEF IInv, RegionsApart
<1>8. Failure /\ Stability
  BY <1>2 DEF Failure, Stability, Write_Status
<1> QED
  BY <1>5, <1>6, <1>7, <1>8 DEF IInv

(* Every step keeps the invariant, and is one of those allowed. *)
LEMMA NextStep == IInv /\ Next => IInv' /\ Failure /\ Stability
<1> SUFFICES ASSUME IInv, NEW w \in Writers,
                    \/ \E region \in vacant : Open(w, region)
                    \/ Close(w)
                    \/ \E tag \in Tags, length \in Lengths : WriteField(w, tag, length)
                    \/ \E length \in Lengths : WriteDelimited(w, length)
                    \/ \E value \in Numbers : WriteUnsigned(w, value)
                    \/ \E value \in Integers_64 : WriteSigned(w, value)
                    \/ \E value \in BOOLEAN : WriteBoolean(w, value)
                    \/ \E count \in Counts : WriteOctets(w, count)
             PROVE  IInv' /\ Failure /\ Stability
  BY DEF Next
<1>1. /\ output \in [1 .. Size -> Octet]
      /\ cursor[w] \in Cursor_Record
      /\ Is_Valid(cursor[w], Size)
      /\ previous \in [Writers -> Tag_Number]
  BY DEF IInv, TypeOK, CursorsInBounds, Cursor_Record
<1>2. MaxUnsigned \in Nat /\ Tag_Number \subseteq Nat /\ Byte_Count \subseteq Nat
  BY PowerAssumption, ProfileAssumption DEF MaxUnsigned, Tag_Number, Byte_Count, Unsigned
<1>3. CASE \E region \in vacant : Open(w, region)
  BY <1>3, OpenStep
<1>4. CASE Close(w)
  BY <1>4, CloseStep
<1>5. ASSUME NEW tag \in Tags, NEW length \in Lengths, WriteField(w, tag, length)
      PROVE  IInv' /\ Failure /\ Stability
  <2> DEFINE result == Write_Field_Header(output, cursor[w], previous[w], tag, length)
             item   == Header("field", cursor[w].next, tag, previous[w], result.value)
  <2>1. /\ Store(w, result, item)
        /\ Reserve(result)
        /\ previous' = [previous EXCEPT ![w] = result.previous]
    BY <1>5 DEF WriteField
  <2>2. w \in open /\ item.at = cursor[w].next /\ item.upto = result.value.start
    BY <2>1 DEF Store, Header, Item
  <2>3. tag \in Nat /\ tag \in Tag_Number /\ length \in Nat
    BY <1>2, WriterAssumption
  <2> HIDE DEF item
  <2>4. \/ Refuses(output, cursor[w], result) /\ result.previous = previous[w]
        \/ \E size \in Nat :
             /\ 0 < size
             /\ Stores(Size, output, cursor[w], result, size, size + length)
             /\ result.value = Extent(cursor[w].next + size, length)
             /\ result.previous = tag
    <3>1. /\ output \in [1 .. Size -> Octet] /\ cursor[w] \in Cursor_Record /\ Is_Valid(cursor[w], Size)
          /\ previous[w] \in Nat
      BY <1>1, <2>2 DEF Tag_Number
    <3> HIDE DEF result
    <3>2. result = Write_Field_Header(output, cursor[w], previous[w], tag, length)
      BY DEF result
    <3> QED
      BY <2>3, <3>1, <3>2, FieldOutcome
  <2> HIDE DEF result
  <2>5. previous' \in [Writers -> Tag_Number]
    BY <1>1, <2>1, <2>3, <2>4
  <2>6. result.previous = previous[w] => previous' = previous
    BY <1>1, <2>1
  <2>7. \/ Refuses(output, cursor[w], result) /\ previous' = previous
        \/ \E size \in Nat : /\ Stores(Size, output, cursor[w], result, size, size + length)
                             /\ result.value = Extent(cursor[w].next + size, length)
    BY <2>4, <2>6
  <2> QED
    BY <2>1, <2>2, <2>3, <2>5, <2>7, HeaderStep
<1>6. ASSUME NEW length \in Lengths, WriteDelimited(w, length)
      PROVE  IInv' /\ Failure /\ Stability
  <2> DEFINE result == Write_Length_Delimited(output, cursor[w], length)
             item   == Header("delimited", cursor[w].next, No_Tag, No_Tag, result.value)
  <2>1. Store(w, result, item) /\ Reserve(result) /\ previous' = previous
    BY <1>6 DEF WriteDelimited
  <2>2. w \in open /\ item.at = cursor[w].next /\ item.upto = result.value.start
    BY <2>1 DEF Store, Header, Item
  <2>3. length \in Nat
    BY <1>2, WriterAssumption
  <2> HIDE DEF item
  <2> DEFINE Outcome(r) == \/ Refuses(output, cursor[w], r)
                           \/ \E size \in Nat :
                                /\ 0 < size
                                /\ Stores(Size, output, cursor[w], r, size, size + length)
                                /\ r.value = Extent(cursor[w].next + size, length)
  <2>4. \A r : r = Write_Length_Delimited(output, cursor[w], length) => Outcome(r)
    BY <1>1, <2>3, DelimitedOutcome
  <2> HIDE DEF Outcome
  <2>5. Outcome(result)
    BY <2>4
  <2> HIDE DEF result
  <2>6. \/ Refuses(output, cursor[w], result) /\ previous' = previous
        \/ \E size \in Nat : /\ Stores(Size, output, cursor[w], result, size, size + length)
                             /\ result.value = Extent(cursor[w].next + size, length)
    BY <2>1, <2>5 DEF Outcome
  <2>7. previous' \in [Writers -> Tag_Number]
    BY <1>1, <2>1
  <2> QED
    BY <2>1, <2>2, <2>3, <2>6, <2>7, HeaderStep
<1>7. ASSUME NEW value \in Nat, NEW kind, NEW content, NEW result,
             result = Write_Unsigned(output, cursor[w], value),
             Store(w, result, Scalar(kind, cursor[w].next, result.cursor.next, content)),
             UNCHANGED <<previous, vacant>>
      PROVE  IInv' /\ Failure /\ Stability
  <2> DEFINE item == Scalar(kind, cursor[w].next, result.cursor.next, content)
             size == Unsigned_Size(value)
  <2>1. w \in open /\ item.at = cursor[w].next /\ item.upto = result.cursor.next
    BY <1>7 DEF Store, Scalar, Item
  <2>2. size \in Nat
    BY SizeOfAny, ProfileAssumption
  <2>3. Refuses(output, cursor[w], result) \/ Stores(Size, output, cursor[w], result, size, size)
    BY <1>1, <1>7, UnsignedOutcome
  <2>4. Store(w, result, item)
    BY <1>7
  <2> HIDE DEF item, size
  <2> QED
    BY <1>7, <2>1, <2>2, <2>3, <2>4, ScalarStep
<1>8. CASE \E value \in Numbers : WriteUnsigned(w, value)
  <2>1. PICK value \in Numbers : WriteUnsigned(w, value)
    BY <1>8
  <2>2. value \in Nat
    BY <1>2, WriterAssumption DEF Byte_Count
  <2> QED
    BY <1>7, <2>1, <2>2 DEF WriteUnsigned
<1>9. CASE \E value \in Integers_64 : WriteSigned(w, value)
  <2>1. PICK value \in Integers_64 : WriteSigned(w, value)
    BY <1>9
  <2>2. value \in Int
    BY WriterAssumption, PowerAssumption, ProfileAssumption DEF Integer_64
  <2>3. ZigZag_Encode(value) \in Nat
    BY <2>2 DEF ZigZag_Encode
  <2> QED
    BY <1>7, <2>1, <2>3 DEF WriteSigned, Write_Signed
<1>10. CASE \E value \in BOOLEAN : WriteBoolean(w, value)
  <2>1. PICK value \in BOOLEAN : WriteBoolean(w, value)
    BY <1>10
  <2> DEFINE result == Write_Boolean(output, cursor[w], value)
             item   == Scalar("boolean", cursor[w].next, result.cursor.next, Bit(value))
  <2>2. Store(w, result, item) /\ UNCHANGED <<previous, vacant>>
    BY <2>1 DEF WriteBoolean
  <2>3. w \in open /\ item.at = cursor[w].next /\ item.upto = result.cursor.next
    BY <2>2 DEF Store, Scalar, Item
  <2>4. Refuses(output, cursor[w], result) \/ Stores(Size, output, cursor[w], result, 1, 1)
    BY <1>1, BooleanOutcome
  <2> HIDE DEF result, item
  <2> QED
    BY <2>2, <2>3, <2>4, ScalarStep
<1>11. CASE \E count \in Counts : WriteOctets(w, count)
  <2>1. PICK count \in Counts : WriteOctets(w, count)
    BY <1>11
  <2> DEFINE result == Write_Octets(output, cursor[w], Raw, count)
             item   == Scalar("octets", cursor[w].next, result.cursor.next, count)
  <2>2. Store(w, result, item) /\ UNCHANGED <<previous, vacant>>
    BY <2>1 DEF WriteOctets
  <2>3. w \in open /\ item.at = cursor[w].next /\ item.upto = result.cursor.next
    BY <2>2 DEF Store, Scalar, Item
  <2>4. count \in Nat
    BY WriterAssumption
  <2>5. Refuses(output, cursor[w], result) \/ Stores(Size, output, cursor[w], result, count, count)
    BY <1>1, <2>4, OctetsOutcome
  <2> HIDE DEF result, item
  <2> QED
    BY <2>2, <2>3, <2>4, <2>5, ScalarStep
<1> QED
  BY <1>3, <1>4, <1>5, <1>6, <1>8, <1>9, <1>10, <1>11

LEMMA InitIInv == Init => IInv
<1> SUFFICES ASSUME Init PROVE IInv
  OBVIOUS
<1>1. /\ output \in [1 .. Size -> Octet]
      /\ cursor = [w \in Writers |-> IF w = Root THEN Initialize_Whole(output) ELSE Closed]
      /\ previous = [w \in Writers |-> No_Tag]
      /\ open = {Root} /\ vacant = {} /\ items = {} /\ status = "Cursor_Ready"
  BY WriterAssumption, SizeOfArray DEF Init
<1>2. Root \in Writers /\ Size \in Nat /\ Len(output) = Size
  BY <1>1, LengthOfArray, WriterAssumption, SizeOfArray
<1>3. /\ Initialize_Whole(output) \in [first : Nat, next : Nat, limit : Nat]
      /\ Closed \in [first : Nat, next : Nat, limit : Nat]
      /\ Is_Valid(Initialize_Whole(output), Size)
      /\ Is_Valid(Closed, Size)
  BY <1>2 DEF Initialize_Whole, Closed, Cursor, Is_Valid
<1>4. TypeOK
  BY <1>1, <1>2, <1>3, ProfileAssumption DEF TypeOK, No_Tag, Tag_Number
<1>5. CursorsInBounds
  BY <1>1, <1>3 DEF CursorsInBounds
<1>6. RegionsApart
  BY <1>1 DEF RegionsApart
<1> QED
  BY <1>4, <1>5, <1>6 DEF IInv

(* The invariant and the two step properties, for every behaviour. *)
LEMMA Behaviours == Spec => [](IInv) /\ [][Failure /\ Stability]_vars
<1>1. Init => IInv
  BY InitIInv
<1>2. IInv /\ [Next]_vars => IInv' /\ [Failure /\ Stability]_vars
  <2> SUFFICES ASSUME IInv, [Next]_vars PROVE IInv' /\ [Failure /\ Stability]_vars
    OBVIOUS
  <2>1. CASE Next
    BY <2>1, NextStep
  <2>2. CASE UNCHANGED vars
    <3>1. /\ UNCHANGED <<output, cursor, previous, open>>
          /\ UNCHANGED <<vacant, items, status>>
      BY <2>2 DEF vars
    <3>2. TypeOK'
      BY <3>1 DEF IInv, TypeOK
    <3>3. CursorsInBounds'
      BY <3>1 DEF IInv, CursorsInBounds
    <3>4. RegionsApart'
      BY <3>1 DEF IInv, RegionsApart
    <3> QED
      BY <2>2, <3>2, <3>3, <3>4 DEF IInv
  <2> QED
    BY <2>1, <2>2
<1> QED
  BY <1>1, <1>2, PTL DEF Spec

(* Output arrays hold octets and cursors offsets, whatever is written. *)
THEOREM Types == Spec => []TypeOK
<1>1. IInv => TypeOK
  BY DEF IInv
<1> QED
  BY <1>1, Behaviours, PTL

(* No cursor ever leaves the array, no reserved extent is outside it, and  *)
(* no write ends in Constraint_Error.                                      *)
THEOREM InBounds == Spec => []CursorsInBounds
<1>1. IInv => CursorsInBounds
  BY DEF IInv
<1> QED
  BY <1>1, Behaviours, PTL

(* Two cursors never have room in common, nor does a cursor or a reserved  *)
(* extent with anything already stored.                                    *)
THEOREM Disjointness == Spec => []RegionsApart
<1>1. IInv => RegionsApart
  BY DEF IInv
<1> QED
  BY <1>1, Behaviours, PTL

(* A refused write is without effect. *)
THEOREM RefusalsAreClean == Spec => FailedWritesChangeNothing
<1>1. [Failure /\ Stability]_vars => [Failure]_vars
  OBVIOUS
<1> QED
  BY <1>1, Behaviours, PTL DEF FailedWritesChangeNothing, Failure

(* What has been stored stays, whatever other cursors write afterwards. *)
THEOREM StoredForGood == Spec => StoredOctetsStay
<1>1. [Failure /\ Stability]_vars => [Stability]_vars
  OBVIOUS
<1> QED
  BY <1>1, Behaviours, PTL DEF StoredOctetsStay, Stability

-----------------------------------------------------------------------------

(***************************************************************************)
(* What is in the octets of an item.  IInv does not say it: that the items *)
(* still hold what was written needs, beside the stability of the stored   *)
(* octets, that each write left its value there in the first place.        *)
(***************************************************************************)
ItemHolds(m, array) ==
  \/ /\ m.kind = "field"
     /\ m.tag \in Field_Tag \cap Unsigned /\ m.after \in Nat /\ m.tag > m.after
     /\ m.extent \in Regions /\ m.upto = m.extent.start /\ End(m.extent) <= Size
     /\ HoldsHeader(array, m.at, m.tag, m.extent)
  \/ /\ m.kind = "delimited"
     /\ m.extent \in Regions /\ m.upto = m.extent.start /\ End(m.extent) <= Size
     /\ HoldsExtent(array, m.at, m.extent)
  \/ /\ m.kind = "unsigned"
     /\ m.content \in Unsigned /\ Encodes(array, m.at, m.content)
     /\ m.upto = m.at + Unsigned_Size(m.content)
  \/ /\ m.kind = "signed"
     /\ m.content \in Integer_64 /\ Encodes(array, m.at, ZigZag_Encode(m.content))
     /\ m.upto = m.at + Unsigned_Size(ZigZag_Encode(m.content))
  \/ /\ m.kind = "boolean"
     /\ m.content \in {0, 1} /\ array[m.at + 1] = m.content /\ m.upto = m.at + 1
  \/ /\ m.kind = "octets"
     /\ m.content \in 0 .. Len(Raw) /\ m.upto = m.at + m.content
     /\ \A i \in 1 .. m.content : array[m.at + i] = Raw[i]

ItemsHold == \A m \in items : ItemHolds(m, output)

(* Equal octets encode the same integer. *)
LEMMA SameOctets ==
  ASSUME NEW before, NEW after, NEW at \in Nat, NEW upto \in Nat,
         \A k \in at .. upto - 1 : after[k + 1] = before[k + 1],
         NEW n \in Nat, at <= n, NEW v \in Unsigned, n + Unsigned_Size(v) <= upto,
         Encodes(before, n, v)
  PROVE  Encodes(after, n, v)
<1> PICK size : size = Unsigned_Size(v)
  OBVIOUS
<1>1. size \in Nat
  BY SizeOfUnsigned
<1> SUFFICES ASSUME NEW g \in 0 .. size - 1 PROVE after[n + g + 1] = Group(v, g)
  BY DEF Encodes
<1>2. n + g \in at .. upto - 1
  BY <1>1
<1>3. after[n + g + 1] = before[n + g + 1]
  BY <1>2
<1> QED BY <1>3 DEF Encodes

(* Where the octets of an item stay, it stays. *)
LEMMA HeldStays ==
  ASSUME NEW before, NEW after, NEW m, m.at \in Nat, m.upto \in Nat,
         \A k \in m.at .. m.upto - 1 : after[k + 1] = before[k + 1],
         ItemHolds(m, before)
  PROVE  ItemHolds(m, after)
<1> PICK at \in Nat, upto \in Nat : at = m.at /\ upto = m.upto
  OBVIOUS
<1>0. \A k \in at .. upto - 1 : after[k + 1] = before[k + 1]
  OBVIOUS
<1>7. ASSUME NEW v \in Unsigned, upto = at + Unsigned_Size(v), Encodes(before, at, v)
      PROVE  Encodes(after, at, v)
  <2> PICK size \in Nat : size = Unsigned_Size(v)
    BY SizeOfUnsigned
  <2>1. at <= at /\ at + size <= upto
    BY <1>7
  <2> QED BY <1>0, <1>7, <2>1, SameOctets
<1>1. CASE m.kind = "field"
  <2> PICK a, b : a = Unsigned_Size(m.tag) /\ b = Unsigned_Size(m.extent.length)
    OBVIOUS
  <2>1. /\ m.tag \in Unsigned /\ m.extent.length \in Unsigned
        /\ upto = at + a + b
        /\ Encodes(before, at, m.tag) /\ Encodes(before, at + a, m.extent.length)
    BY <1>1 DEF ItemHolds, HoldsHeader, HoldsExtent, Regions
  <2>2. a \in Nat /\ b \in Nat
    BY <2>1, SizeOfUnsigned
  <2>3. at <= at /\ at <= at + a /\ at + a \in Nat /\ at + a <= upto /\ at + a + b <= upto
    BY <2>1, <2>2
  <2>4. Encodes(after, at, m.tag)
    BY <1>0, <2>1, <2>3, SameOctets
  <2>5. Encodes(after, at + a, m.extent.length)
    BY <1>0, <2>1, <2>3, SameOctets
  <2> QED BY <1>1, <2>4, <2>5 DEF ItemHolds, HoldsHeader, HoldsExtent
<1>2. CASE m.kind = "delimited"
  <2>1. /\ m.extent.length \in Unsigned
        /\ upto = at + Unsigned_Size(m.extent.length) /\ Encodes(before, at, m.extent.length)
    BY <1>2 DEF ItemHolds, HoldsExtent, Regions
  <2>2. Encodes(after, at, m.extent.length)
    BY <1>7, <2>1
  <2> QED BY <1>2, <2>2 DEF ItemHolds, HoldsExtent
<1>3. CASE m.kind = "unsigned"
  <2>1. m.content \in Unsigned /\ upto = at + Unsigned_Size(m.content) /\ Encodes(before, at, m.content)
    BY <1>3 DEF ItemHolds
  <2>2. Encodes(after, at, m.content)
    BY <1>7, <2>1
  <2> QED BY <1>3, <2>2 DEF ItemHolds
<1>4. CASE m.kind = "signed"
  <2> PICK v : v = ZigZag_Encode(m.content)
    OBVIOUS
  <2>1. m.content \in Integer_64 /\ upto = at + Unsigned_Size(v) /\ Encodes(before, at, v)
    BY <1>4 DEF ItemHolds
  <2>2. v \in Unsigned
    BY <2>1, ZigZagEncoded
  <2>3. Encodes(after, at, v)
    BY <1>7, <2>1, <2>2
  <2> QED BY <1>4, <2>3 DEF ItemHolds
<1>5. CASE m.kind = "boolean"
  <2>1. upto = at + 1
    BY <1>5 DEF ItemHolds
  <2>2. after[at + 1] = before[at + 1]
    BY <1>0, <2>1
  <2> QED BY <1>5, <2>2 DEF ItemHolds
<1>6. CASE m.kind = "octets"
  <2> PICK count : count = m.content
    OBVIOUS
  <2>1. count \in Nat /\ upto = at + count /\ \A i \in 1 .. count : before[at + i] = Raw[i]
    BY <1>6 DEF ItemHolds
  <2>2. ASSUME NEW i \in 1 .. count PROVE after[at + i] = Raw[i]
    <3>1. at + (i - 1) \in at .. upto - 1 /\ (at + (i - 1)) + 1 = at + i
      BY <2>1
    <3>2. after[at + i] = before[at + i]
      BY <1>0, <3>1
    <3> QED BY <2>1, <3>2
  <2> QED BY <1>6, <2>2 DEF ItemHolds
<1> QED BY <1>1, <1>2, <1>3, <1>4, <1>5, <1>6 DEF ItemHolds

(* An integer that is stored is there. *)
LEMMA PutIsThere ==
  ASSUME NEW before \in [1 .. Size -> Octet], NEW k \in Nat, NEW v \in Unsigned,
         k + Unsigned_Size(v) <= Size
  PROVE  Encodes(Put_Unsigned(before, k, v), k, v)
<1> PICK size : size = Unsigned_Size(v)
  OBVIOUS
<1>1. size \in Nat /\ Size \in Nat /\ Len(before) = Size
  BY SizeOfUnsigned, SizeOfArray, LengthOfArray
<1>2. Put_Unsigned(before, k, v) =
        [i \in 1 .. Size |-> IF i \in k + 1 .. k + size THEN Group(v, i - k - 1) ELSE before[i]]
  BY <1>1 DEF Put_Unsigned
<1> SUFFICES ASSUME NEW g \in 0 .. size - 1 PROVE Put_Unsigned(before, k, v)[k + g + 1] = Group(v, g)
  BY DEF Encodes
<1> PICK i : i = k + g + 1
  OBVIOUS
<1>3. i \in 1 .. Size /\ i \in k + 1 .. k + size /\ i - k - 1 = g
  BY <1>1
<1> QED BY <1>2, <1>3

LEMMA UnsignedWritten ==
  ASSUME NEW before \in [1 .. Size -> Octet], NEW c \in Cursor_Record, Is_Valid(c, Size),
         NEW v \in Unsigned, NEW result, result = Write_Unsigned(before, c, v),
         result.status = "Wrote"
  PROVE  /\ Encodes(result.output, c.next, v)
         /\ result.cursor.next = c.next + Unsigned_Size(v)
<1> PICK size : size = Unsigned_Size(v)
  OBVIOUS
<1>1. /\ size \in Nat /\ c.next \in Nat /\ c.limit \in Nat /\ Remaining(c) = c.limit - c.next
      /\ c.limit <= Size /\ Len(before) = Size /\ Size \in Nat
  BY SizeOfUnsigned, CursorFields, LengthOfArray, SizeOfArray DEF Is_Valid
<1>2. ~ (size > Remaining(c))
  BY DEF Write_Unsigned, Write_Refused
<1>3. c.next + size <= Size
  BY <1>1, <1>2
<1>4. result.output = Put_Unsigned(before, c.next, v) /\ result.cursor = Advance(c, size)
  BY <1>1, <1>2 DEF Write_Unsigned, Write_Refused
<1> QED BY <1>1, <1>3, <1>4, PutIsThere DEF Advance, Cursor

LEMMA DelimitedWritten ==
  ASSUME NEW before \in [1 .. Size -> Octet], NEW c \in Cursor_Record, Is_Valid(c, Size),
         NEW v \in Unsigned, NEW result, result = Write_Length_Delimited(before, c, v),
         result.status = "Wrote"
  PROVE  /\ result.value \in Regions
         /\ HoldsExtent(result.output, c.next, result.value)
         /\ End(result.value) <= Size
<1> PICK size : size = Unsigned_Size(v)
  OBVIOUS
<1>1. /\ size \in Nat /\ v \in Nat
      /\ c.next \in Nat /\ c.limit \in Nat /\ Remaining(c) = c.limit - c.next
      /\ c.limit <= Size /\ Len(before) = Size /\ Size \in Nat
  BY SizeOfUnsigned, CursorFields, LengthOfArray, SizeOfArray DEF Is_Valid
<1>2. Has_Room(before, c, size, v)
  BY DEF Write_Length_Delimited
<1>3. /\ result.output = Put_Unsigned(before, c.next, v)
      /\ result.value = [start |-> c.next + size, length |-> v]
  BY <1>2 DEF Write_Length_Delimited, Extent
<1>4. c.next + size + v <= Size /\ c.next + size <= Size /\ c.next + size \in Nat
  BY <1>1, <1>2, SMTT(60) DEF Has_Room
<1>5. Encodes(result.output, c.next, v)
  BY <1>1, <1>3, <1>4, PutIsThere
<1> QED BY <1>3, <1>4, <1>5 DEF Regions, HoldsExtent, End

(* Where two integers and a value are that fit. *)
LEMMA HeaderRoom ==
  ASSUME NEW n \in Nat, NEW limit \in Nat, NEW a \in Nat, NEW b \in Nat, NEW v \in Nat,
         NEW length \in Nat, limit <= length, a + b <= limit - n, v <= limit - n - (a + b),
         NEW k, k = n + a
  PROVE  /\ k \in Nat /\ k + b = n + (a + b) /\ n + a <= k /\ n <= n /\ n + a = k /\ k <= length
         /\ k + b <= length /\ n + a <= length /\ n + (a + b) \in Nat
         /\ n + (a + b) + v <= length
         /\ \A i \in n .. k - 1 : i + 1 \in 1 .. length /\ i + 1 \notin k + 1 .. k + b
OBVIOUS

LEMMA FieldWritten ==
  ASSUME NEW before \in [1 .. Size -> Octet], NEW c \in Cursor_Record, Is_Valid(c, Size),
         NEW after \in Nat, NEW tag \in Tag_Number, NEW v \in Unsigned,
         NEW result, result = Write_Field_Header(before, c, after, tag, v),
         result.status = "Wrote"
  PROVE  /\ tag \in Field_Tag \cap Unsigned /\ tag > after
         /\ result.value \in Regions
         /\ HoldsHeader(result.output, c.next, tag, result.value)
         /\ End(result.value) <= Size
<1>1. ~ (tag = No_Tag) /\ ~ (tag <= after) /\ Has_Room(before, c, Unsigned_Size(tag) + Unsigned_Size(v), v)
  BY DEF Write_Field_Header
<1>2. tag \in Field_Tag \cap Unsigned /\ tag > after /\ tag \in Nat
  BY <1>1, Limits, TagAssumption DEF Tag_Number, Field_Tag, Unsigned, No_Tag
<1>3. /\ Unsigned_Size(tag) \in Nat /\ Unsigned_Size(v) \in Nat /\ v \in Nat
      /\ c.next \in Nat /\ c.limit \in Nat /\ Remaining(c) = c.limit - c.next
      /\ c.limit <= Size /\ Size \in Nat
  BY <1>2, SizeOfUnsigned, CursorFields, SizeOfArray DEF Is_Valid
<1> PICK a \in Nat, b \in Nat : Unsigned_Size(tag) = a /\ Unsigned_Size(v) = b
  BY <1>3
<1> PICK n \in Nat, limit \in Nat : c.next = n /\ c.limit = limit
  BY <1>3
<1> PICK k \in Nat : k = n + a
  OBVIOUS
<1> PICK tagged : tagged = Put_Unsigned(before, n, tag)
  OBVIOUS
<1>4. /\ result.output = Put_Unsigned(tagged, k, v)
      /\ result.value = [start |-> n + (a + b), length |-> v]
  BY <1>1 DEF Write_Field_Header, Extent
<1>5. a + b <= limit - n /\ v <= limit - n - (a + b)
  <2>1. a + b <= Remaining(c) /\ v <= Remaining(c) - (a + b)
    BY <1>1 DEF Has_Room
  <2> QED BY <1>3, <2>1
<1>6. /\ k \in Nat /\ k + b = n + (a + b) /\ n + a <= k /\ n <= n /\ n + a = k /\ k <= Size
      /\ k + b <= Size /\ n + a <= Size /\ n + (a + b) \in Nat
      /\ n + (a + b) + v <= Size
      /\ \A i \in n .. k - 1 : i + 1 \in 1 .. Size /\ i + 1 \notin k + 1 .. k + b
  <2>1. limit <= Size /\ Size \in Nat /\ v \in Nat
    BY <1>3
  <2> PICK w \in Nat, length \in Nat : v = w /\ Size = length
    BY <2>1
  <2>2. a + b <= limit - n /\ w <= limit - n - (a + b) /\ limit <= length
    BY <1>5, <2>1
  <2>3. k = n + a
    OBVIOUS
  <2>4. /\ k \in Nat /\ k + b = n + (a + b) /\ n + a <= k /\ n <= n /\ n + a = k /\ k <= length
        /\ k + b <= length /\ n + a <= length /\ n + (a + b) \in Nat
        /\ n + (a + b) + w <= length
        /\ \A i \in n .. k - 1 : i + 1 \in 1 .. length /\ i + 1 \notin k + 1 .. k + b
    BY <2>2, <2>3, HeaderRoom
  <2> QED BY <2>4
<1>7. tagged \in [1 .. Size -> Octet] /\ Encodes(tagged, n, tag)
  BY <1>2, <1>3, <1>6, PutUnsigned, PutIsThere
<1>8. Encodes(result.output, k, v)
  BY <1>4, <1>6, <1>7, PutIsThere, SMTT(60)
<1>9. Encodes(result.output, n, tag)
  <2>1. Keeps(Size, tagged, result.output, k, b)
    <3>1. k \in Nat /\ v \in Nat /\ Size \in Nat /\ tagged \in [1 .. Size -> Octet]
      BY <1>3, <1>6, <1>7, SizeOfArray
    <3>2. Keeps(Size, tagged, Put_Unsigned(tagged, k, v), k, Unsigned_Size(v))
      BY <3>1, PutUnsigned
    <3> QED BY <1>4, <3>2
  <2>2. ASSUME NEW i \in n .. k - 1 PROVE result.output[i + 1] = tagged[i + 1]
    <3>1. i + 1 \in 1 .. Size /\ i + 1 \notin k + 1 .. k + b
      BY <1>6
    <3> QED BY <2>1, <3>1 DEF Keeps
  <2> QED BY <1>2, <1>3, <1>6, <1>7, <2>2, SameOctets, ZenonT(60)
<1>10. HoldsHeader(result.output, n, tag, result.value)
  BY <1>4, <1>6, <1>8, <1>9 DEF HoldsHeader, HoldsExtent
<1> QED BY <1>2, <1>4, <1>6, <1>10 DEF Regions, End

(* The item of a write, once it is stored.                                 *)
NewItemHolds(item) ==
  \/ items' = items
  \/ items' = items \cup {item} /\ ItemHolds(item, output')

LEMMA StoreEffect ==
  ASSUME NEW w, NEW result, NEW item, Store(w, result, item),
         result.status = "Wrote" => ItemHolds(item, result.output)
  PROVE  NewItemHolds(item)
BY DEF Store, NewItemHolds

LEMMA ContentOfWriting ==
  ASSUME IInv, NEW w \in open
  PROVE  /\ output \in [1 .. Size -> Octet] /\ cursor[w] \in Cursor_Record
         /\ Is_Valid(cursor[w], Size)
         /\ previous[w] \in Nat /\ cursor[w].next \in Nat
<1>1. /\ output \in [1 .. Size -> Octet] /\ cursor[w] \in Cursor_Record
      /\ Is_Valid(cursor[w], Size) /\ previous[w] \in Tag_Number
  BY DEF IInv, TypeOK, CursorsInBounds, Cursor_Record
<1>2. previous[w] \in Nat
  BY <1>1, Limits DEF Tag_Number
<1> QED BY <1>1, <1>2, CursorFields

LEMMA FieldContent ==
  ASSUME IInv, NEW w \in Writers, NEW tag \in Tags, NEW length \in Lengths, WriteField(w, tag, length)
  PROVE  \E item : NewItemHolds(item)
<1> PICK result : result = Write_Field_Header(output, cursor[w], previous[w], tag, length)
  OBVIOUS
<1> PICK item : item = Header("field", cursor[w].next, tag, previous[w], result.value)
  OBVIOUS
<1>1. Store(w, result, item) /\ w \in open
  BY DEF WriteField, Store
<1>2. tag \in Tag_Number /\ length \in Unsigned
  BY WriterAssumption DEF Byte_Count
<1>3. ASSUME result.status = "Wrote" PROVE ItemHolds(item, result.output)
  <2>1. /\ tag \in Field_Tag \cap Unsigned /\ tag > previous[w]
        /\ result.value \in Regions
        /\ HoldsHeader(result.output, cursor[w].next, tag, result.value)
        /\ End(result.value) <= Size
    BY <1>1, <1>2, <1>3, ContentOfWriting, FieldWritten
  <2>2. /\ item.kind = "field" /\ item.at = cursor[w].next /\ item.upto = result.value.start
        /\ item.tag = tag /\ item.after = previous[w] /\ item.extent = result.value
    BY DEF Header, Item
  <2>3. previous[w] \in Nat
    BY <1>1, ContentOfWriting
  <2> QED BY <2>1, <2>2, <2>3, Zenon DEF ItemHolds
<1> QED BY <1>1, <1>3, StoreEffect

LEMMA DelimitedContent ==
  ASSUME IInv, NEW w \in Writers, NEW length \in Lengths, WriteDelimited(w, length)
  PROVE  \E item : NewItemHolds(item)
<1> PICK result : result = Write_Length_Delimited(output, cursor[w], length)
  OBVIOUS
<1> PICK item : item = Header("delimited", cursor[w].next, No_Tag, No_Tag, result.value)
  OBVIOUS
<1>1. Store(w, result, item) /\ w \in open
  BY DEF WriteDelimited, Store
<1>2. length \in Unsigned
  BY WriterAssumption DEF Byte_Count
<1>3. ASSUME result.status = "Wrote" PROVE ItemHolds(item, result.output)
  <2>1. /\ result.value \in Regions
        /\ HoldsExtent(result.output, cursor[w].next, result.value)
        /\ End(result.value) <= Size
    BY <1>1, <1>2, <1>3, ContentOfWriting, DelimitedWritten
  <2>2. /\ item.kind = "delimited" /\ item.at = cursor[w].next /\ item.upto = result.value.start
        /\ item.extent = result.value
    BY DEF Header, Item
  <2> QED BY <2>1, <2>2, Zenon DEF ItemHolds
<1> QED BY <1>1, <1>3, StoreEffect

LEMMA UnsignedContent ==
  ASSUME IInv, NEW w \in Writers, NEW value \in Numbers, WriteUnsigned(w, value)
  PROVE  \E item : NewItemHolds(item)
<1> PICK result : result = Write_Unsigned(output, cursor[w], value)
  OBVIOUS
<1> PICK item : item = Scalar("unsigned", cursor[w].next, result.cursor.next, value)
  OBVIOUS
<1>1. Store(w, result, item) /\ w \in open /\ value \in Unsigned
  BY WriterAssumption DEF WriteUnsigned, Store
<1>2. ASSUME result.status = "Wrote" PROVE ItemHolds(item, result.output)
  <2>1. /\ Encodes(result.output, cursor[w].next, value)
        /\ result.cursor.next = cursor[w].next + Unsigned_Size(value)
    BY <1>1, <1>2, ContentOfWriting, UnsignedWritten
  <2>2. /\ item.kind = "unsigned" /\ item.at = cursor[w].next /\ item.upto = result.cursor.next
        /\ item.content = value
    BY DEF Scalar, Item
  <2> QED BY <1>1, <2>1, <2>2, Zenon DEF ItemHolds
<1> QED BY <1>1, <1>2, StoreEffect

LEMMA SignedContent ==
  ASSUME IInv, NEW w \in Writers, NEW value \in Integers_64, WriteSigned(w, value)
  PROVE  \E item : NewItemHolds(item)
<1> PICK v : ZigZag_Encode(value) = v
  OBVIOUS
<1> PICK result : result = Write_Unsigned(output, cursor[w], v)
  OBVIOUS
<1> PICK item : item = Scalar("signed", cursor[w].next, result.cursor.next, value)
  OBVIOUS
<1>1. Store(w, result, item) /\ w \in open /\ value \in Integer_64 /\ v \in Unsigned
  BY WriterAssumption, ZigZagEncoded DEF WriteSigned, Write_Signed, Store
<1>2. ASSUME result.status = "Wrote" PROVE ItemHolds(item, result.output)
  <2>1. /\ Encodes(result.output, cursor[w].next, v)
        /\ result.cursor.next = cursor[w].next + Unsigned_Size(v)
    BY <1>1, <1>2, ContentOfWriting, UnsignedWritten
  <2>2. /\ item.kind = "signed" /\ item.at = cursor[w].next /\ item.upto = result.cursor.next
        /\ item.content = value
    BY DEF Scalar, Item
  <2> QED BY <1>1, <2>1, <2>2, Zenon DEF ItemHolds
<1> QED BY <1>1, <1>2, StoreEffect

LEMMA BooleanContent ==
  ASSUME IInv, NEW w \in Writers, NEW value \in BOOLEAN, WriteBoolean(w, value)
  PROVE  \E item : NewItemHolds(item)
<1> PICK result : result = Write_Boolean(output, cursor[w], value)
  OBVIOUS
<1> PICK n : n = cursor[w].next
  OBVIOUS
<1> PICK item : item = Scalar("boolean", n, result.cursor.next, Bit(value))
  OBVIOUS
<1>1. Store(w, result, item) /\ w \in open
  BY DEF WriteBoolean, Store
<1>2. ASSUME result.status = "Wrote" PROVE ItemHolds(item, result.output)
  <2>1. /\ output \in [1 .. Size -> Octet] /\ Len(output) = Size /\ Size \in Nat
        /\ cursor[w] \in Cursor_Record /\ Is_Valid(cursor[w], Size)
    BY <1>1, ContentOfWriting, LengthOfArray, SizeOfArray
  <2>2. ~ (Remaining(cursor[w]) = 0)
    BY <1>2 DEF Write_Boolean, Write_Refused
  <2>3. /\ result.output = [i \in 1 .. Size |-> IF i = n + 1 THEN (IF value THEN 1 ELSE 0) ELSE output[i]]
        /\ result.cursor = Advance(cursor[w], 1)
    BY <2>1, <2>2 DEF Write_Boolean
  <2>4. n \in Nat /\ n + 1 \in 1 .. Size
    <3> PICK limit : cursor[w].limit = limit
      OBVIOUS
    <3>1. n \in Nat /\ limit \in Nat /\ n <= limit /\ limit <= Size /\ limit - n # 0
      BY <2>1, <2>2, CursorFields DEF Is_Valid
    <3> QED BY <2>1, <3>1
  <2>5. result.output[n + 1] = Bit(value) /\ Bit(value) \in {0, 1}
    BY <2>3, <2>4 DEF Bit
  <2>6. result.cursor.next = n + 1
    BY <2>3 DEF Advance, Cursor
  <2>7. /\ item.kind = "boolean" /\ item.at = n /\ item.upto = n + 1 /\ item.content = Bit(value)
    BY <2>6 DEF Scalar, Item
  <2> QED BY <2>5, <2>7, Zenon DEF ItemHolds
<1> QED BY <1>1, <1>2, StoreEffect

LEMMA OctetsContent ==
  ASSUME IInv, NEW w \in Writers, NEW count \in Counts, WriteOctets(w, count)
  PROVE  \E item : NewItemHolds(item)
<1> PICK result : result = Write_Octets(output, cursor[w], Raw, count)
  OBVIOUS
<1> PICK n : n = cursor[w].next
  OBVIOUS
<1> PICK item : item = Scalar("octets", n, result.cursor.next, count)
  OBVIOUS
<1>1. Store(w, result, item) /\ w \in open /\ count \in Nat
  BY WriterAssumption DEF WriteOctets, Store
<1>2. ASSUME result.status = "Wrote" PROVE ItemHolds(item, result.output)
  <2>1. /\ output \in [1 .. Size -> Octet] /\ Len(output) = Size /\ Size \in Nat
        /\ cursor[w] \in Cursor_Record /\ Is_Valid(cursor[w], Size) /\ Len(Raw) \in Nat
    BY <1>1, ContentOfWriting, LengthOfArray, SizeOfArray, WriterAssumption
  <2>2. ~ (count > Remaining(cursor[w])) /\ ~ (count > Len(Raw))
    BY <1>2 DEF Write_Octets
  <2>3. ~ (Copied(output, n, count) < count)
    BY <1>2, <2>2 DEF Write_Octets
  <2>4. /\ result.output = [i \in 1 .. Size |->
                              IF i \in n + 1 .. n + count THEN Raw[i - n] ELSE output[i]]
        /\ result.cursor = Advance(cursor[w], count)
    BY <2>1, <2>2, <2>3 DEF Write_Octets
  <2>5. n \in Nat /\ n + count <= Size
    <3> PICK limit : cursor[w].limit = limit
      OBVIOUS
    <3>1. n \in Nat /\ limit \in Nat /\ limit <= Size /\ ~ (count > limit - n)
      BY <2>1, <2>2, CursorFields DEF Is_Valid
    <3> QED BY <1>1, <2>1, <3>1
  <2>6. ASSUME NEW i \in 1 .. count PROVE result.output[n + i] = Raw[i]
    <3> PICK k : n + i = k
      OBVIOUS
    <3>1. k \in 1 .. Size /\ k \in n + 1 .. n + count /\ k - n = i
      BY <1>1, <2>1, <2>5
    <3> QED BY <2>4, <3>1
  <2>7. result.cursor.next = n + count
    BY <2>4 DEF Advance, Cursor
  <2>8. /\ item.kind = "octets" /\ item.at = n /\ item.upto = n + count /\ item.content = count
    BY <2>7 DEF Scalar, Item
  <2>9. count \in 0 .. Len(Raw)
    BY <1>1, <2>1, <2>2
  <2> QED BY <2>6, <2>8, <2>9, ZenonT(60) DEF ItemHolds
<1> QED BY <1>1, <1>2, StoreEffect

LEMMA ContentStep == IInv /\ ItemsHold /\ [Next]_vars => ItemsHold'
<1>1. ASSUME IInv, ItemsHold, Next PROVE ItemsHold'
  <2>1. (\E item : NewItemHolds(item)) \/ items' = items
    <3> SUFFICES ASSUME NEW w \in Writers,
                    \/ \E region \in vacant : Open(w, region)
                    \/ Close(w)
                    \/ \E tag \in Tags, length \in Lengths : WriteField(w, tag, length)
                    \/ \E length \in Lengths : WriteDelimited(w, length)
                    \/ \E value \in Numbers : WriteUnsigned(w, value)
                    \/ \E value \in Integers_64 : WriteSigned(w, value)
                    \/ \E value \in BOOLEAN : WriteBoolean(w, value)
                    \/ \E count \in Counts : WriteOctets(w, count)
                 PROVE  (\E item : NewItemHolds(item)) \/ items' = items
      BY <1>1 DEF Next
    <3>1. (\E region \in vacant : Open(w, region)) \/ Close(w) => items' = items
      BY DEF Open, Close
    <3> QED
      BY <1>1, <3>1, FieldContent, DelimitedContent, UnsignedContent, SignedContent,
         BooleanContent, OctetsContent
  <2>2. ASSUME NEW m \in items PROVE ItemHolds(m, output')
    <3>1. \A k \in m.at .. m.upto - 1 : output'[k + 1] = output[k + 1]
      BY <1>1, NextStep DEF Stability
    <3>2. m.at \in Nat /\ m.upto \in Nat /\ ItemHolds(m, output)
      BY <1>1 DEF IInv, TypeOK, ItemsHold
    <3> QED BY <3>1, <3>2, HeldStays
  <2>3. \A m \in items' : ItemHolds(m, output')
    BY <2>1, <2>2 DEF NewItemHolds
  <2>4. \A m : ItemHolds(m, output)' <=> ItemHolds(m, output')
    BY DEF ItemHolds
  <2> QED BY <2>3, <2>4 DEF ItemsHold
<1>2. ASSUME ItemsHold, UNCHANGED vars PROVE ItemsHold'
  BY <1>2 DEF vars, ItemsHold, ItemHolds
<1> QED BY <1>1, <1>2

LEMMA Contents == Spec => []ItemsHold
<1>1. Init => ItemsHold
  BY DEF Init, ItemsHold
<1> QED BY <1>1, ContentStep, Behaviours, PTL DEF Spec

-----------------------------------------------------------------------------

(* The cursor StoredReadsBack reads through. *)
LEMMA RereadFrom ==
  ASSUME NEW at \in Nat, at <= Size
  PROVE  LET c == Cursor(at, at, Size)
         IN  /\ c \in Cursor_Record /\ Is_Valid(c, Size)
             /\ c.next = at /\ c.limit = Size /\ Remaining(c) = Size - at
             /\ \A n : Advance(c, n) = [c EXCEPT !.next = at + n]
             /\ \A k : MovedTo(c, k) = [c EXCEPT !.next = k]
BY SizeOfArray DEF Cursor, Cursor_Record, Is_Valid, Remaining, Advance, MovedTo

LEMMA UnsignedReread ==
  ASSUME output \in [1 .. Size -> Octet], NEW at \in Nat, NEW v \in Unsigned,
         Encodes(output, at, v), at + Unsigned_Size(v) <= Size
  PROVE  LET c == Cursor(at, at, Size)
         IN  Read_Unsigned(output, c) =
               [status |-> "Read", value |-> v, cursor |-> [c EXCEPT !.next = at + Unsigned_Size(v)]]
<1> PICK c : Cursor(at, at, Size) = c
  OBVIOUS
<1> PICK size \in Nat : Unsigned_Size(v) = size
  BY SizeOfUnsigned
<1>1. at <= Size /\ size <= Size - at
  BY SizeOfArray
<1>2. /\ c \in Cursor_Record /\ Is_Valid(c, Size) /\ c.next = at /\ Remaining(c) = Size - at
      /\ Advance(c, size) = [c EXCEPT !.next = at + size]
  BY <1>1, RereadFrom, Zenon
<1>3. output \in Seq(Octet) /\ Len(output) = Size
  BY LengthOfArray, SizeOfArray
<1>4. size <= Remaining(c)
  BY <1>1, <1>2
<1>5. Read_Unsigned(output, c) = [status |-> "Read", value |-> v, cursor |-> Advance(c, size)]
  BY <1>2, <1>3, <1>4, EncodedIsRead
<1> QED BY <1>2, <1>5

LEMMA ContentsReadBack == IInv /\ ItemsHold => StoredReadsBack
<1> SUFFICES ASSUME IInv, NEW m \in items, ItemHolds(m, output)
             PROVE
    LET c == Cursor(m.at, m.at, Size)
    IN  CASE m.kind = "field" ->
               Read_Field_Header(output, c, m.after) =
                 [status |-> "Read", tag |-> m.tag, value |-> m.extent,
                  cursor |-> [c EXCEPT !.next = End(m.extent)], previous |-> m.tag]
          [] m.kind = "delimited" ->
               Read_Length_Delimited(output, c) =
                 [status |-> "Read", value |-> m.extent,
                  cursor |-> [c EXCEPT !.next = End(m.extent)]]
          [] m.kind = "unsigned" ->
               Read_Unsigned(output, c) =
                 [status |-> "Read", value |-> m.content, cursor |-> [c EXCEPT !.next = m.upto]]
          [] m.kind = "signed" ->
               Read_Signed(output, c) =
                 [status |-> "Read", value |-> m.content, cursor |-> [c EXCEPT !.next = m.upto]]
          [] m.kind = "boolean" ->
               Read_Boolean(output, c) =
                 [status |-> "Read", value |-> m.content = 1, cursor |-> [c EXCEPT !.next = m.upto]]
          [] m.kind = "octets" -> SubSeq(output, m.at + 1, m.upto) = SubSeq(Raw, 1, m.content)
  BY DEF ItemsHold, StoredReadsBack
<1> PICK at : m.at = at
  OBVIOUS
<1> PICK upto : m.upto = upto
  OBVIOUS
<1> PICK c : Cursor(at, at, Size) = c
  OBVIOUS
<1>0. /\ at \in Nat /\ upto \in Nat /\ at < upto /\ upto <= Size /\ Size \in Nat /\ at <= Size
      /\ output \in [1 .. Size -> Octet]
  <2>1. /\ at \in Nat /\ upto \in Nat /\ at < upto /\ upto <= Size /\ output \in [1 .. Size -> Octet]
    BY DEF IInv, TypeOK, CursorsInBounds
  <2> QED BY <2>1, SizeOfArray
<1>1. output \in Seq(Octet) /\ Len(output) = Size
  BY <1>0, LengthOfArray
<1>2. /\ c \in Cursor_Record /\ Is_Valid(c, Size) /\ c.next = at /\ c.limit = Size
      /\ Remaining(c) = Size - at
      /\ \A n : Advance(c, n) = [c EXCEPT !.next = at + n]
      /\ \A k : MovedTo(c, k) = [c EXCEPT !.next = k]
  BY <1>0, RereadFrom, Zenon
<1>3. CASE m.kind = "field"
  <2>1. Read_Field_Header(output, c, m.after) =
          [status |-> "Read", tag |-> m.tag, value |-> m.extent,
           cursor |-> MovedTo(c, End(m.extent)), previous |-> m.tag]
    BY <1>1, <1>2, <1>3, HeldHeaderIsRead DEF ItemHolds
  <2> QED BY <1>2, <1>3, <2>1
<1>4. CASE m.kind = "delimited"
  <2>1. Read_Length_Delimited(output, c) =
          [status |-> "Read", value |-> m.extent, cursor |-> MovedTo(c, End(m.extent))]
    BY <1>1, <1>2, <1>4, HeldExtentIsRead DEF ItemHolds, Read_Length_Delimited
  <2> QED BY <1>2, <1>4, <2>1
<1>5. CASE m.kind = "unsigned"
  <2>1. Read_Unsigned(output, c) =
          [status |-> "Read", value |-> m.content, cursor |-> [c EXCEPT !.next = upto]]
    BY <1>0, <1>5, UnsignedReread DEF ItemHolds
  <2> QED BY <1>5, <2>1
<1>6. CASE m.kind = "signed"
  <2> PICK v : ZigZag_Encode(m.content) = v
    OBVIOUS
  <2>1. v \in Unsigned /\ ZigZag_Decode(v) = m.content
    BY <1>6, ZigZagEncoded DEF ItemHolds
  <2>2. Read_Unsigned(output, c) = [status |-> "Read", value |-> v, cursor |-> [c EXCEPT !.next = upto]]
    BY <1>0, <1>6, <2>1, UnsignedReread DEF ItemHolds
  <2>3. Read_Signed(output, c) =
          [status |-> "Read", value |-> m.content, cursor |-> [c EXCEPT !.next = upto]]
    BY <2>1, <2>2 DEF Read_Signed
  <2> QED BY <1>6, <2>3
<1>7. CASE m.kind = "boolean"
  <2>1. m.content \in {0, 1} /\ output[at + 1] = m.content /\ upto = at + 1
    BY <1>7 DEF ItemHolds
  <2>2. ~ Exhausted(c, c.next) /\ ~ Faults(output, c.next)
    BY <1>0, <1>1, <1>2, <2>1 DEF Exhausted, Faults
  <2>3. ~ (output[c.next + 1] > 1)
    BY <1>2, <2>1
  <2>4. Read_Boolean(output, c) =
          [status |-> "Read", value |-> output[at + 1] = 1, cursor |-> Advance(c, 1)]
    BY <1>1, <1>2, <2>2, <2>3, Zenon DEF Read_Boolean
  <2>5. Advance(c, 1) = [c EXCEPT !.next = upto]
    <3>1. Advance(c, 1) = [c EXCEPT !.next = at + 1]
      BY <1>2, Zenon
    <3> QED BY <2>1, <3>1
  <2>6. (output[at + 1] = 1) = (m.content = 1)
    BY <2>1, Zenon
  <2>7. Read_Boolean(output, c) =
          [status |-> "Read", value |-> m.content = 1, cursor |-> [c EXCEPT !.next = upto]]
    BY <2>4, <2>5, <2>6, Zenon
  <2> QED BY <1>7, <2>7, Zenon
<1>8. CASE m.kind = "octets"
  <2> PICK count : m.content = count
    OBVIOUS
  <2>1. /\ count \in 0 .. Len(Raw) /\ upto = at + count
        /\ \A i \in 1 .. count : output[at + i] = Raw[i]
    BY <1>8 DEF ItemHolds
  <2>2. Raw \in Seq(Octet) /\ Len(Raw) \in Nat
    BY WriterAssumption
  <2>3. /\ SubSeq(output, at + 1, upto) = [i \in 1 .. upto - (at + 1) + 1 |-> output[i + (at + 1) - 1]]
        /\ SubSeq(Raw, 1, count) = [i \in 1 .. count - 1 + 1 |-> Raw[i + 1 - 1]]
    BY <1>0, <1>1, <2>1, <2>2
  <2>4. SubSeq(output, at + 1, upto) = SubSeq(Raw, 1, count)
    BY <1>0, <2>1, <2>2, <2>3
  <2> QED BY <1>8, <2>4
<1> QED BY <1>3, <1>4, <1>5, <1>6, <1>7, <1>8 DEF ItemHolds

(* Whatever is written, in whatever order and through whatever cursors,    *)
(* every header, integer, boolean and raw octet stored so far is what the  *)
(* readers read back.                                                      *)
THEOREM ReadsBack == Spec => []StoredReadsBack
BY Contents, Behaviours, ContentsReadBack, PTL

LEMMA Accumulating ==
  ASSUME NEW total \in Nat, NEW amount \in Nat, total + amount <= MaxUnsigned
  PROVE  Sizes_Accumulate(total, amount) = [status |-> "Computed", result |-> total + amount]
<1>1. ~ (amount > MaxUnsigned - total)
  BY Limits
<1>2. Sizes_Add(total, amount) = Computed(total + amount)
  BY <1>1 DEF Sizes_Add
<1> QED BY <1>2 DEF Sizes_Accumulate, Computed

LEMMA ContentsMeasured == IInv /\ ItemsHold => MeasuredExactly
<1> SUFFICES ASSUME IInv, NEW m \in items, ItemHolds(m, output)
             PROVE
    /\ m.kind = "field" =>
         Measure_Field(m.tag, m.extent.length) = Computed(End(m.extent) - m.at)
    /\ m.kind = "delimited" =>
         Measure_Length_Delimited(m.extent.length) = Computed(End(m.extent) - m.at)
  BY DEF ItemsHold, MeasuredExactly
<1> PICK at \in Nat : m.at = at
  BY DEF IInv, TypeOK
<1> PICK size \in Nat : Size = size
  BY SizeOfArray
<1> PICK max \in Nat : MaxUnsigned = max
  BY Limits
<1>1. size <= max
  BY SizeOfArray
<1>2. CASE m.kind = "field"
  <2>1. /\ m.tag \in Unsigned /\ m.extent \in Regions /\ End(m.extent) <= Size
        /\ HoldsHeader(output, at, m.tag, m.extent)
    BY <1>2 DEF ItemHolds
  <2> PICK v \in Nat, a \in Nat, b \in Nat :
        m.extent.length = v /\ Unsigned_Size(m.tag) = a /\ Unsigned_Size(v) = b
    <3>1. m.extent.length \in Unsigned
      BY <2>1 DEF Regions
    <3> QED BY <2>1, <3>1, SizeOfUnsigned
  <2>2. End(m.extent) = at + a + b + v
    BY <2>1 DEF HoldsHeader, HoldsExtent, End
  <2>3. /\ v + a \in Nat /\ v + a <= max /\ v + a + b <= max
        /\ at + a + b + v - at = v + a + b
    <3>1. at + a + b + v <= size
      BY <2>1, <2>2
    <3> QED BY <1>1, <3>1
  <2>4. Sizes_Accumulate(v, a) = [status |-> "Computed", result |-> v + a]
    BY <2>3, Accumulating
  <2>5. Sizes_Accumulate(v + a, b) = [status |-> "Computed", result |-> v + a + b]
    BY <2>3, Accumulating
  <2>6. Measure_Field(m.tag, v) = [status |-> "Computed", result |-> v + a + b]
    BY <2>4, <2>5 DEF Measure_Field, Measured
  <2> QED BY <1>2, <2>2, <2>3, <2>6 DEF Computed
<1>3. CASE m.kind = "delimited"
  <2>1. m.extent \in Regions /\ End(m.extent) <= Size /\ HoldsExtent(output, at, m.extent)
    BY <1>3 DEF ItemHolds
  <2> PICK v \in Nat, b \in Nat : m.extent.length = v /\ Unsigned_Size(v) = b
    <3>1. m.extent.length \in Unsigned
      BY <2>1 DEF Regions
    <3> QED BY <2>1, <3>1, SizeOfUnsigned
  <2>2. End(m.extent) = at + b + v
    BY <2>1 DEF HoldsExtent, End
  <2>3. v + b <= max /\ at + b + v - at = v + b
    <3>1. at + b + v <= size
      BY <2>1, <2>2
    <3> QED BY <1>1, <3>1
  <2>4. Sizes_Accumulate(v, b) = [status |-> "Computed", result |-> v + b]
    BY <2>3, Accumulating
  <2>5. Measure_Length_Delimited(v) = [status |-> "Computed", result |-> v + b]
    BY <2>4 DEF Measure_Length_Delimited, Measured
  <2> QED BY <1>3, <2>2, <2>3, <2>5 DEF Computed
<1> QED BY <1>2, <1>3

(* What the measures give is what the header and its value take, to the    *)
(* octet, for every header that was ever stored.                           *)
THEOREM Measures == Spec => []MeasuredExactly
BY Contents, Behaviours, ContentsMeasured, PTL

=============================================================================
