------------------------------ MODULE CursorReuse ------------------------------
(***************************************************************************)
(* A caller that owns arrays of different lengths, and one read and one    *)
(* write cursor it initializes over any of them, whole or in part.  Every  *)
(* later call passes a cursor and an array, and nothing makes it the array *)
(* the cursor was initialized over.                                        *)
(***************************************************************************)
EXTENDS TaggedProfile

CONSTANTS
  Arrays,   (* the contents the arrays have at first *)
  Regions,  (* extents it initializes a cursor over *)
  Copies    (* how many raw octets it asks for *)

ASSUME ReuseAssumption ==
  /\ Arrays \subseteq Seq(Octet)
  /\ Copies \subseteq Nat

VARIABLES
  arrays,   (* the arrays, by their length *)
  reader,   (* a Read_Cursor *)
  writer,   (* a Write_Cursor *)
  answer    (* the last Status returned *)

reuse_vars == <<arrays, reader, writer, answer>>

(* An octet array of count equal octets, the other side of a raw copy. *)
Filled(octet, count) == [i \in 1 .. count |-> octet]

Lengths == {Len(a) : a \in Arrays}

Reuse_Init ==
  /\ arrays = [n \in Lengths |-> CHOOSE a \in Arrays : Len(a) = n]
  /\ reader = Cursor(0, 0, 0)
  /\ writer = Cursor(0, 0, 0)
  /\ answer = "Cursor_Ready"

StartReader(n) ==
  /\ \E region \in Regions \cup {Extent(0, n)} :
       /\ reader' = Initialize(arrays[n], region).cursor
       /\ answer' = Initialize(arrays[n], region).status
  /\ UNCHANGED <<arrays, writer>>

StartWriter(n) ==
  /\ \E region \in Regions \cup {Extent(0, n)} :
       /\ writer' = Initialize(arrays[n], region).cursor
       /\ answer' = Initialize(arrays[n], region).status
  /\ UNCHANGED <<arrays, reader>>

Reads(n, result) ==
  /\ reader' = result.cursor
  /\ answer' = result.status
  /\ UNCHANGED <<arrays, writer>>

Writes(n, result) ==
  /\ arrays' = [arrays EXCEPT ![n] = result.output]
  /\ writer' = result.cursor
  /\ answer' = result.status
  /\ UNCHANGED reader

Reuse_Next ==
  \E n \in Lengths :
    \/ StartReader(n)
    \/ StartWriter(n)
    \/ Reads(n, Read_Unsigned(arrays[n], reader))
    \/ Reads(n, Read_Boolean(arrays[n], reader))
    \/ Reads(n, Read_Length_Delimited(arrays[n], reader))
    \/ Reads(n, Read_Field_Header(arrays[n], reader, No_Tag))
    \/ \E count \in Copies :
         Reads(n, Read_Octets(arrays[n], reader, Filled(0, count), count))
    \/ \E value \in {1, Radix} : Writes(n, Write_Unsigned(arrays[n], writer, value))
    \/ Writes(n, Write_Boolean(arrays[n], writer, TRUE))
    \/ Writes(n, Write_Length_Delimited(arrays[n], writer, 1))
    \/ Writes(n, Write_Field_Header(arrays[n], writer, No_Tag, 1, 1))
    \/ \E count \in Copies :
         Writes(n, Write_Octets(arrays[n], writer, Filled(1, count), count))

Reuse_Spec == Reuse_Init /\ [][Reuse_Next]_reuse_vars

-----------------------------------------------------------------------------

(* Whatever array a cursor is used with, the call answers with a status:   *)
(* it never indexes outside the array it was given.                        *)
EveryArrayGetsAStatus == answer # "Constraint_Error"

=============================================================================
