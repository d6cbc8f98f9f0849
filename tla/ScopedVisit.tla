------------------------------ MODULE ScopedVisit ------------------------------
(***************************************************************************)
(* Validate_And_Visit of a generated codec with a borrowed observer: a     *)
(* first pass over the caller's array that calls nobody, a second one that *)
(* calls the application's Visit_X for each field, with a copied scalar or *)
(* with a slice of the array itself.  The caller is to keep the array as   *)
(* it is; a callback, or a task that has the array, may not.               *)
(***************************************************************************)
EXTENDS CanonicalForm

CONSTANTS
  Locks,          (* schemas of codecs generated with an observer *)
  Inputs,         (* arrays that are observed *)
  Changes(_)      (* what becomes of an array somebody writes to *)

ASSUME VisitAssumption ==
  /\ \A l \in Locks :
       /\ Tree(l.root) /\ validate_lock(l) /\ Measurable(l.root) /\ validate_binding(l)
       /\ \A t \in Fields(l) :
            Field(l, t).presence = "required" /\ Field(l, t).kind \in Scalars \cup {"bytes"}
  /\ \A array \in Inputs :
       /\ array \in Seq(Octet)
       /\ \A other \in Changes(array) : other \in Seq(Octet) /\ Len(other) = Len(array)

VARIABLES
  lock,       (* the schema of the codec *)
  input,      (* the caller's array *)
  status,     (* where the call is, or what it returned *)
  reader, previous, seen,
  visits,     (* the callbacks: tag, extent and contents of each *)
  kept        (* the array is still what it was at the call *)

vars == <<lock, input, status, reader, previous, seen, visits, kept>>
locals == <<reader, previous, seen>>

Running == {"Validating", "Visiting", "Calling"}

Init ==
  /\ lock \in Locks /\ input \in Inputs /\ kept = TRUE
  /\ status = "Idle" /\ visits = <<>>
  /\ reader = Initialize_Whole(input) /\ previous = No_Tag /\ seen = {}

(* A writer other than the codec's own is incompatible at once. *)
Validate_And_Visit ==
  /\ status = "Idle"
  /\ status' \in {"Validating", "Incompatible"}
  /\ UNCHANGED <<lock, input, locals, visits, kept>>

Return(result) == status' = result /\ UNCHANGED <<lock, input, visits, kept>>

Field_Header == Read_Field_Header(input, reader, previous)
Taken_Header(header) == reader' = header.cursor /\ previous' = header.previous

(* Mutant: the length of octets is not looked at. *)
Unbounded_Validated(t, region) ==
  IF Field(lock, t).kind = "bytes" THEN "Decoded" ELSE Read_Scalar(Field(lock, t), input, region).status

(* What the first pass makes of a field's value. *)
Validated(t, region) ==
  IF Field(lock, t).kind # "bytes" THEN Read_Scalar(Field(lock, t), input, region).status
  ELSE IF Octets_Within(Field(lock, t), region) THEN "Decoded"
  ELSE "Invalid_Value"

(* One turn of the loop of Validate_For_Visit. *)
Validate_Field ==
  /\ status = "Validating" /\ ~ At_End(reader)
  /\ \E header \in {Field_Header} :
       \/ header.status # "Read" /\ Return(Map_Read_Error(header.status)) /\ UNCHANGED locals
       \/ /\ header.status = "Read" /\ header.tag \notin Fields(lock)
          /\ Return("Noncanonical") /\ UNCHANGED locals
       \/ /\ header.status = "Read" /\ header.tag \in Fields(lock)
          /\ \E result \in {Validated(header.tag, header.value)} :
               \/ result # "Decoded" /\ Return(result) /\ UNCHANGED locals
               \/ /\ result = "Decoded" /\ Return("Validating")
                  /\ Taken_Header(header) /\ seen' = seen \cup {header.tag}

(* The second pass starts again with cursors of its own. *)
Validated_All ==
  /\ status = "Validating" /\ At_End(reader)
  /\ IF seen = Fields(lock)
       THEN Return("Visiting") /\ reader' = Initialize_Whole(input) /\ previous' = No_Tag /\ seen' = {}
       ELSE Return("Invalid_Value") /\ UNCHANGED locals

(* Scalars are read again, but not compared with their bounds again. *)
Observed(t, region) ==
  LET nested == Initialize(input, region)
      result == scalar_read(Field(lock, t), input, nested.cursor)
      lent   == Visit_Extent(input, region)
  IN  IF Field(lock, t).kind = "bytes"
        THEN IF lent.status = "Cursor_Ready"
               THEN [status |-> "Calling", value |-> lent.lent]
               ELSE [status |-> "Malformed", value |-> {}]
      ELSE IF nested.status # "Cursor_Ready" THEN [status |-> "Malformed", value |-> {}]
      ELSE IF result.status # "Read" \/ ~ At_End(result.cursor)
        THEN [status |-> Map_Read_Error(result.status), value |-> {}]
      ELSE [status |-> "Calling", value |-> {<<result.value>>}]

(* One turn of the second loop, up to its callback. *)
Visit_Field ==
  /\ status = "Visiting" /\ ~ At_End(reader)
  /\ \E header \in {Field_Header} :
       \/ header.status # "Read" /\ Return(Map_Read_Error(header.status)) /\ UNCHANGED locals
       \/ /\ header.status = "Read" /\ header.tag \notin Fields(lock)
          /\ Return("Noncanonical") /\ UNCHANGED locals
       \/ /\ header.status = "Read" /\ header.tag \in Fields(lock)
          /\ Taken_Header(header) /\ seen' = seen
          /\ \E observed \in {Observed(header.tag, header.value)} :
               /\ status' = observed.status
               /\ visits' = IF observed.status # "Calling" THEN visits
                            ELSE Append(visits, [tag |-> header.tag, region |-> header.value,
                                                 content |-> CHOOSE c \in observed.value : TRUE])
          /\ UNCHANGED <<lock, input, kept>>

Visited_All ==
  /\ status = "Visiting" /\ At_End(reader)
  /\ Return("Decoded") /\ UNCHANGED locals

Callback_Returns == status = "Calling" /\ Return("Visiting") /\ UNCHANGED locals

(* The exception is the application's; no status is returned. *)
Callback_Raises == status = "Calling" /\ Return("Raised") /\ UNCHANGED locals

(* Somebody writes to the array while the call runs. *)
Change ==
  /\ status \in Running /\ kept
  /\ input' \in Changes(input) /\ kept' = FALSE
  /\ UNCHANGED <<lock, status, locals, visits>>

Next ==
  \/ Validate_And_Visit
  \/ Validate_Field
  \/ Validated_All
  \/ Visit_Field
  \/ Visited_All
  \/ Callback_Returns
  \/ Callback_Raises
  \/ Change

Spec == Init /\ [][Next]_vars

-----------------------------------------------------------------------------

(* What the callbacks were shown, as the octets it takes. *)
Shown ==
  LET content(t) == (CHOOSE v \in {visits[i] : i \in DOMAIN visits} : v.tag = t).content
  IN  Tagged_Octets({visits[i].tag : i \in DOMAIN visits}, LAMBDA t : Value_Octets(lock, t, content(t)))

(* As long as the caller keeps the array, the application is called for    *)
(* nothing unless all of the message is valid; then it is shown the fields *)
(* of the message in their order, and all of them by the time the status   *)
(* says so.  An array that is valid is never refused.                      *)
NothingLentUnlessAllIsValid ==
  kept =>
    /\ visits # <<>> => /\ validate_encoded_value(lock.root, input)
                        /\ Shown = SubSeq(input, 1, Len(Shown))
    /\ status = "Decoded" => Shown = input /\ validate_encoded_value(lock.root, input)
    /\ status \notin Running \cup {"Idle", "Incompatible", "Decoded", "Raised"} =>
         ~ validate_encoded_value(lock.root, input)

(* Even if the array is written to under the second pass, it trusts        *)
(* nothing of the first one: no field is shown twice or out of order, and  *)
(* what is lent is inside the array and apart from all that was lent       *)
(* before, with room for a tag and a length between the two.               *)
LentApart ==
  \A i \in DOMAIN visits :
    /\ visits[i].tag \in Fields(lock)
    /\ Inside(visits[i].region, input)
    /\ \A j \in 1 .. i - 1 :
         /\ visits[j].tag < visits[i].tag
         /\ visits[j].region.start + visits[j].region.length + 2 <= visits[i].region.start

=============================================================================
