----------------------------- MODULE TaggedWriter -----------------------------
(***************************************************************************)
(* A caller filling one output array through several write cursors.  A     *)
(* header reserves the extent of its value and moves its cursor past it;   *)
(* the caller initializes a nested cursor over that extent and fills it    *)
(* later, in any order with the writes of the other cursors, as the bodies *)
(* of generated Encode procedures do.                                      *)
(*                                                                         *)
(* items and vacant are history: what has been stored where, and the       *)
(* extents that were handed out and not yet given to a cursor.             *)
(***************************************************************************)
EXTENDS TaggedItems

CONSTANTS
  Writers,  (* the cursor variables of the caller *)
  Root,     (* the one initialized over the whole array *)
  Size,     (* Output'Length *)
  Tags,     (* tags the caller passes, No_Tag among them *)
  Lengths,  (* value lengths the caller passes *)
  Numbers,  (* integers the caller writes *)
  Integers_64, (* signed integers the caller writes *)
  Raw,      (* the octets of the caller's Write_Octets source *)
  Counts,   (* how many of them the caller asks to write *)
  Fills     (* what the array may hold at first, everywhere *)

ASSUME WriterAssumption ==
  /\ Root \in Writers
  /\ Size \in Byte_Count
  /\ Tags \subseteq Tag_Number
  /\ Lengths \subseteq Byte_Count
  /\ Numbers \subseteq Unsigned
  /\ Integers_64 \subseteq Integer_64
  /\ Raw \in Seq(Octet)
  /\ Counts \subseteq Nat
  /\ Fills \subseteq Octet

VARIABLES
  output,    (* Output *)
  cursor,    (* Writers -> Write_Cursor *)
  previous,  (* Writers -> Tag_Number *)
  open,      (* the cursors in use *)
  vacant,    (* extents reserved by a header, without a cursor yet *)
  items,     (* what has been stored: one record per write that stored anything *)
  status     (* the last Status returned *)

vars == <<output, cursor, previous, open, vacant, items, status>>

Init ==
  /\ output \in {[i \in 1 .. Size |-> fill] : fill \in Fills}
  /\ cursor = [w \in Writers |-> IF w = Root THEN Initialize_Whole(output) ELSE Closed]
  /\ previous = [w \in Writers |-> No_Tag]
  /\ open = {Root}
  /\ vacant = {}
  /\ items = {}
  /\ status = "Cursor_Ready"

(* The caller initializes a free cursor over a reserved extent. *)
Open(w, region) ==
  LET start == Initialize(output, region)
  IN  /\ w \notin open
      /\ region \in vacant
      /\ status' = start.status
      /\ cursor' = [cursor EXCEPT ![w] = start.cursor]
      /\ previous' = [previous EXCEPT ![w] = No_Tag]
      /\ open' = open \cup {w}
      /\ vacant' = vacant \ {region}
      /\ UNCHANGED <<output, items>>

(* The caller is done with a cursor, whether or not it filled its extent. *)
Close(w) ==
  /\ w \in open \ {Root}
  /\ open' = open \ {w}
  /\ cursor' = [cursor EXCEPT ![w] = Closed]
  /\ previous' = [previous EXCEPT ![w] = No_Tag]
  /\ status' = "Cursor_Ready"
  /\ UNCHANGED <<output, vacant, items>>

(* The part of every write that does not depend on what is written. *)
Store(w, result, item) ==
  /\ w \in open
  /\ output' = result.output
  /\ cursor' = [cursor EXCEPT ![w] = result.cursor]
  /\ status' = result.status
  /\ items' = IF result.status = "Wrote" /\ item.at < item.upto THEN items \cup {item} ELSE items
  /\ UNCHANGED open

(* A header also reserves an extent. *)
Reserve(result) ==
  vacant' = IF result.status = "Wrote" THEN vacant \cup {result.value} ELSE vacant

WriteField(w, tag, length) ==
  LET result == Write_Field_Header(output, cursor[w], previous[w], tag, length)
  IN  /\ Store(w, result, Header("field", cursor[w].next, tag, previous[w], result.value))
      /\ Reserve(result)
      /\ previous' = [previous EXCEPT ![w] = result.previous]

WriteDelimited(w, length) ==
  LET result == Write_Length_Delimited(output, cursor[w], length)
  IN  /\ Store(w, result, Header("delimited", cursor[w].next, No_Tag, No_Tag, result.value))
      /\ Reserve(result)
      /\ UNCHANGED previous

WriteUnsigned(w, value) ==
  LET result == Write_Unsigned(output, cursor[w], value)
  IN  /\ Store(w, result, Scalar("unsigned", cursor[w].next, result.cursor.next, value))
      /\ UNCHANGED <<previous, vacant>>

WriteSigned(w, value) ==
  LET result == Write_Signed(output, cursor[w], value)
  IN  /\ Store(w, result, Scalar("signed", cursor[w].next, result.cursor.next, value))
      /\ UNCHANGED <<previous, vacant>>

WriteBoolean(w, value) ==
  LET result == Write_Boolean(output, cursor[w], value)
  IN  /\ Store(w, result, Scalar("boolean", cursor[w].next, result.cursor.next, Bit(value)))
      /\ UNCHANGED <<previous, vacant>>

WriteOctets(w, count) ==
  LET result == Write_Octets(output, cursor[w], Raw, count)
  IN  /\ Store(w, result, Scalar("octets", cursor[w].next, result.cursor.next, count))
      /\ UNCHANGED <<previous, vacant>>

Next ==
  \E w \in Writers :
    \/ \E region \in vacant : Open(w, region)
    \/ Close(w)
    \/ \E tag \in Tags, length \in Lengths : WriteField(w, tag, length)
    \/ \E length \in Lengths : WriteDelimited(w, length)
    \/ \E value \in Numbers : WriteUnsigned(w, value)
    \/ \E value \in Integers_64 : WriteSigned(w, value)
    \/ \E value \in BOOLEAN : WriteBoolean(w, value)
    \/ \E count \in Counts : WriteOctets(w, count)

Spec == Init /\ [][Next]_vars

-----------------------------------------------------------------------------

Write_Status == {"Wrote", "Destination_Too_Small", "Invalid_Tag", "Tag_Order_Error"}

(* Shapes of the variables. *)
TypeOK ==
  /\ output \in [1 .. Size -> Octet]
  /\ cursor \in [Writers -> [first : Nat, next : Nat, limit : Nat]]
  /\ previous \in [Writers -> Tag_Number]
  /\ open \subseteq Writers
  /\ vacant \subseteq [start : Nat, length : Nat]
  /\ \A m \in items : m.at \in Nat /\ m.upto \in Nat
  /\ status \in Write_Status \cup {"Cursor_Ready", "Invalid_Extent", "Constraint_Error"}

(* Every cursor a caller can reach stays a valid cursor of the array, and  *)
(* every reserved extent lies inside it: no initialization over one is     *)
(* refused and no store falls outside, whatever was written in between.    *)
CursorsInBounds ==
  /\ \A w \in Writers : Is_Valid(cursor[w], Size)
  /\ \A e \in vacant : End(e) <= Size
  /\ \A m \in items : m.at < m.upto /\ m.upto <= Size
  /\ status \notin {"Invalid_Extent", "Constraint_Error"}

(* The room left in two cursors, the extents still to be filled and the    *)
(* octets already stored never overlap, however writes through outer and   *)
(* nested cursors interleave: nobody can write over a header or a value.   *)
RegionsApart ==
  /\ \A v, w \in open :
       v # w => Apart(cursor[v].next, cursor[v].limit, cursor[w].next, cursor[w].limit)
  /\ \A w \in open, e \in vacant : Apart(cursor[w].next, cursor[w].limit, e.start, End(e))
  /\ \A d, e \in vacant : d # e => Apart(d.start, End(d), e.start, End(e))
  /\ \A m \in items :
       /\ \A w \in open : Apart(cursor[w].next, cursor[w].limit, m.at, m.upto)
       /\ \A e \in vacant : Apart(e.start, End(e), m.at, m.upto)

(* Everything stored reads back as what was written: headers with their    *)
(* tag and extent, integers and booleans with their value, in the shortest *)
(* form the readers insist on, whatever was written around them since.     *)
StoredReadsBack ==
  \A m \in items :
    LET c == Cursor(m.at, m.at, Size)
    IN  CASE m.kind = "field" ->
               Read_Field_Header(output, c, m.after) =
                 [status |-> "Read", tag |-> m.tag, value |-> m.extent,
                  cursor |-> [c EXCEPT !.next = End(m.extent)], previous |-> m.tag]
          [] m.kind = "delimited" ->
               Read_Length_Delimited(output, c) =
                 [status |-> "Read", value |-> m.extent,
                  cursor |-> [c EXCEPT !.next = End(m.extent)]]
          [] m.kind = "unsigned" ->
               Read_Unsigned(output, c) =
                 [status |-> "Read", value |-> m.content, cursor |-> [c EXCEPT !.next = m.upto]]
          [] m.kind = "signed" ->
               Read_Signed(output, c) =
                 [status |-> "Read", value |-> m.content, cursor |-> [c EXCEPT !.next = m.upto]]
          [] m.kind = "boolean" ->
               Read_Boolean(output, c) =
                 [status |-> "Read", value |-> m.content = 1, cursor |-> [c EXCEPT !.next = m.upto]]
          [] m.kind = "octets" -> SubSeq(output, m.at + 1, m.upto) = SubSeq(Raw, 1, m.content)

(* Measure_Field and Measure_Length_Delimited give exactly the octets that *)
(* the header and its value take: a caller that sized its array by them    *)
(* needs not one octet more or less.                                       *)
MeasuredExactly ==
  \A m \in items :
    /\ m.kind = "field" =>
         Measure_Field(m.tag, m.extent.length) = Computed(End(m.extent) - m.at)
    /\ m.kind = "delimited" =>
         Measure_Length_Delimited(m.extent.length) = Computed(End(m.extent) - m.at)

(* A write that does not return Wrote has not moved its cursor, its        *)
(* Previous tag or any octet.                                              *)
FailedWritesChangeNothing ==
  [][status' \in Write_Status \ {"Wrote"} => UNCHANGED <<output, cursor, previous, vacant, items>>]_vars

(* An octet that has been stored is never stored again. *)
StoredOctetsStay ==
  [][\A m \in items : \A k \in m.at .. m.upto - 1 : output'[k + 1] = output[k + 1]]_vars

=============================================================================
