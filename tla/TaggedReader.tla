----------------------------- MODULE TaggedReader -----------------------------
(***************************************************************************)
(* A caller taking apart one input array, whatever its octets are, through *)
(* several read cursors: a header yields the extent of its value, which    *)
(* the caller reads through a nested cursor, as the bodies of generated    *)
(* Decode procedures do.  The caller gives up at the first status other    *)
(* than Read and at a nested cursor that is not at its end, and is done    *)
(* when the outer cursor is at its end.                                    *)
(***************************************************************************)
EXTENDS TaggedItems

CONSTANTS
  Readers,  (* the cursor variables of the caller *)
  Root,     (* the one initialized over the whole array *)
  Inputs,   (* the arrays it may be given *)
  Counts,   (* how many raw octets it asks for *)
  Capacity  (* how many its destination holds *)

ASSUME ReaderAssumption ==
  /\ Root \in Readers
  /\ Inputs \subseteq Seq(Octet)
  /\ Counts \subseteq Nat
  /\ Capacity \in Nat

VARIABLES
  input,     (* Input *)
  cursor,    (* Readers -> Read_Cursor *)
  previous,  (* Readers -> Tag_Number *)
  open,      (* the cursors in use *)
  unread,    (* extents a header yielded, without a cursor yet *)
  items,     (* what has been read: one record per successful read *)
  status,    (* the last Status returned *)
  phase      (* the caller: reading, failed, done *)

vars == <<input, cursor, previous, open, unread, items, status, phase>>

Init ==
  /\ input \in Inputs
  /\ cursor = [r \in Readers |-> IF r = Root THEN Initialize_Whole(input) ELSE Closed]
  /\ previous = [r \in Readers |-> No_Tag]
  /\ open = {Root}
  /\ unread = {}
  /\ items = {}
  /\ status = "Cursor_Ready"
  /\ phase = "reading"

Open(r, region) ==
  LET start == Initialize(input, region)
  IN  /\ phase = "reading"
      /\ r \notin open
      /\ region \in unread
      /\ cursor' = [cursor EXCEPT ![r] = start.cursor]
      /\ previous' = [previous EXCEPT ![r] = No_Tag]
      /\ status' = start.status
      /\ phase' = IF start.status = "Cursor_Ready" THEN "reading" ELSE "failed"
      /\ open' = open \cup {r}
      /\ unread' = unread \ {region}
      /\ UNCHANGED <<input, items>>

(* The value behind a nested cursor has to fill its extent exactly. *)
Close(r) ==
  /\ phase = "reading"
  /\ r \in open \ {Root}
  /\ IF At_End(cursor[r])
       THEN /\ open' = open \ {r}
            /\ cursor' = [cursor EXCEPT ![r] = Closed]
            /\ previous' = [previous EXCEPT ![r] = No_Tag]
            /\ UNCHANGED phase
       ELSE /\ phase' = "failed"
            /\ UNCHANGED <<open, cursor, previous>>
  /\ UNCHANGED <<input, unread, items, status>>

(* The part of every read that does not depend on what is read. *)
Take(r, result, item) ==
  /\ phase = "reading"
  /\ r \in open
  /\ cursor' = [cursor EXCEPT ![r] = result.cursor]
  /\ status' = result.status
  /\ phase' = IF result.status = "Read" THEN "reading" ELSE "failed"
  /\ items' = IF result.status = "Read" /\ item.at < item.upto THEN items \cup {item} ELSE items
  /\ UNCHANGED <<input, open>>

Yield(result) ==
  unread' = IF result.status = "Read" THEN unread \cup {result.value} ELSE unread

ReadField(r) ==
  LET result == Read_Field_Header(input, cursor[r], previous[r])
  IN  /\ Take(r, result, Header("field", cursor[r].next, result.tag, previous[r], result.value))
      /\ Yield(result)
      /\ previous' = [previous EXCEPT ![r] = result.previous]

ReadDelimited(r) ==
  LET result == Read_Length_Delimited(input, cursor[r])
  IN  /\ Take(r, result, Header("delimited", cursor[r].next, No_Tag, No_Tag, result.value))
      /\ Yield(result)
      /\ UNCHANGED previous

ReadScalar(r, kind, result, content) ==
  /\ Take(r, result, Scalar(kind, cursor[r].next, result.cursor.next, content))
  /\ UNCHANGED <<previous, unread>>

ReadUnsigned(r) ==
  LET result == Read_Unsigned(input, cursor[r])
  IN  ReadScalar(r, "unsigned", result, result.value)

ReadSigned(r) ==
  LET result == Read_Signed(input, cursor[r])
  IN  ReadScalar(r, "signed", result, result.value)

ReadBoolean(r) ==
  LET result == Read_Boolean(input, cursor[r])
  IN  ReadScalar(r, "boolean", result, Bit(result.value))

Destination == [i \in 1 .. Capacity |-> 0]

ReadOctets(r, count) ==
  LET result == Read_Octets(input, cursor[r], Destination, count)
  IN  ReadScalar(r, "octets", result, count)

Finish ==
  /\ phase = "reading"
  /\ open = {Root}
  /\ At_End(cursor[Root])
  /\ phase' = "done"
  /\ UNCHANGED <<input, cursor, previous, open, unread, items, status>>

Next ==
  \/ \E r \in Readers :
       \/ \E region \in unread : Open(r, region)
       \/ Close(r)
       \/ ReadField(r)
       \/ ReadDelimited(r)
       \/ ReadUnsigned(r)
       \/ ReadSigned(r)
       \/ ReadBoolean(r)
       \/ \E count \in Counts : ReadOctets(r, count)
  \/ Finish

Spec == Init /\ [][Next]_vars

-----------------------------------------------------------------------------

Read_Status ==
  {"Read", "Truncated", "Value_Overflow", "Noncanonical", "Invalid_Boolean",
   "Destination_Too_Small", "Invalid_Tag", "Tag_Order_Error", "Extent_Outside_Container"}

(* Shapes of the variables. *)
TypeOK ==
  /\ input \in Seq(Octet)
  /\ cursor \in [Readers -> [first : Nat, next : Nat, limit : Nat]]
  /\ previous \in [Readers -> Tag_Number]
  /\ open \subseteq Readers
  /\ status \in Read_Status \cup {"Cursor_Ready"}
  /\ phase \in {"reading", "failed", "done"}

(* No input, however malformed, takes a cursor out of its container or     *)
(* makes a reader look outside the array, and every extent a header yields *)
(* can be given to a cursor.                                               *)
CursorsInBounds ==
  /\ \A r \in Readers : Is_Valid(cursor[r], Len(input))
  /\ status # "Invalid_Extent"
  /\ status # "Constraint_Error"

(* Every octet has one meaning: it belongs to one item that was read, to   *)
(* one extent still to be read, or to the rest of one cursor.  Nothing is  *)
(* skipped and nothing is read twice.                                      *)
EveryOctetOnce ==
  \A k \in 0 .. Len(input) - 1 :
    Cardinality({m \in items : k \in m.at .. m.upto - 1})
    + Cardinality({e \in unread : k \in e.start .. End(e) - 1})
    + Cardinality({r \in open : k \in cursor[r].next .. cursor[r].limit - 1}) = 1

(* There is one encoding of everything: writing an item that was read back *)
(* to where it was read from changes no octet of the input.                *)
AcceptedIsCanonical ==
  \A m \in items :
    LET c == Cursor(m.at, m.at, Len(input))
    IN  CASE m.kind = "field" ->
               Write_Field_Header(input, c, m.after, m.tag, m.extent.length) =
                 [status |-> "Wrote", output |-> input, cursor |-> [c EXCEPT !.next = End(m.extent)],
                  previous |-> m.tag, value |-> m.extent]
          [] m.kind = "delimited" ->
               Write_Length_Delimited(input, c, m.extent.length) =
                 [status |-> "Wrote", output |-> input, cursor |-> [c EXCEPT !.next = End(m.extent)],
                  value |-> m.extent]
          [] m.kind = "unsigned" ->
               Write_Unsigned(input, c, m.content) =
                 [status |-> "Wrote", output |-> input, cursor |-> [c EXCEPT !.next = m.upto]]
          [] m.kind = "signed" ->
               /\ m.content \in Integer_64
               /\ Write_Signed(input, c, m.content) =
                    [status |-> "Wrote", output |-> input, cursor |-> [c EXCEPT !.next = m.upto]]
          [] m.kind = "boolean" ->
               Write_Boolean(input, c, m.content = 1) =
                 [status |-> "Wrote", output |-> input, cursor |-> [c EXCEPT !.next = m.upto]]
          [] m.kind = "octets" -> m.upto = m.at + m.content

(* A read that does not return Read has consumed nothing: the cursor and   *)
(* the Previous tag are those from before the call.                        *)
FailedReadsConsumeNothing ==
  [][status' \in Read_Status \ {"Read"} => UNCHANGED <<cursor, previous, unread, items>>]_vars

(* Octets not yet read, extents not yet entered and cursors not yet left:  *)
(* a header costs at least one octet and yields one extent, entering an    *)
(* extent takes one and leaves one cursor.                                 *)
Work ==
  LET Octets == {k \in 0 .. Len(input) - 1 :
                   \/ \E r \in open : k \in cursor[r].next .. cursor[r].limit - 1
                   \/ \E e \in unread : k \in e.start .. End(e) - 1}
  IN  3 * Cardinality(Octets) + 2 * Cardinality(unread) + Cardinality(open)
      + (IF phase = "reading" THEN 1 ELSE 0)

(* No input is read forever: every step that changes more than the status  *)
(* leaves less work, so a decode loop over any input ends.                 *)
EveryReadMakesProgress ==
  [][Work' < Work \/ UNCHANGED <<cursor, previous, open, unread, items, phase>>]_vars

=============================================================================
