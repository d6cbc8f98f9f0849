--------------------------- MODULE ScopedVisitProofs ---------------------------
(***************************************************************************)
(* What a borrowed observer is lent, for every schema, for every array and *)
(* whatever is written to it between two steps of the call: extents inside *)
(* the array, in the order of their tags and apart.                        *)
(***************************************************************************)
EXTENDS ScopedVisit, TaggedProfileProofs

-----------------------------------------------------------------------------

(* The inductive invariant. *)

Reading ==
  /\ input \in Seq(Octet) /\ (kept => input \in Inputs)
  /\ reader \in Cursor_Record /\ Is_Valid(reader, Len(input)) /\ previous \in Nat

(* The passes before the first callback have made none. *)
Unvisited == status \in {"Idle", "Validating"} => visits = <<>>

Visit_List == visits \in Seq({visits[i] : i \in DOMAIN visits})

(* The fields that were shown are behind the cursor of the second pass.    *)
Behind_Reader(visit) ==
  /\ visit.tag \in Nat /\ visit.region \in Regions
  /\ visit.tag <= previous /\ End(visit.region) <= reader.next

Passed == \A i \in DOMAIN visits : Behind_Reader(visits[i])

IInv == Reading /\ Unvisited /\ Visit_List /\ Passed /\ LentApart

-----------------------------------------------------------------------------

LEMMA Room ==
  ASSUME NEW n \in Nat, NEW a \in Nat \ {0}, NEW b \in Nat \ {0}, NEW start \in Nat, start = n + a + b,
         NEW length \in Nat
  PROVE  n + 2 <= start /\ start + length \in Nat /\ n <= start + length
OBVIOUS

(* What reading the next header takes from the array. *)
LEMMA TakesNext ==
  ASSUME Reading, NEW header, header = Field_Header, header.status = "Read"
  PROVE  /\ header.tag \in Nat /\ header.tag > previous /\ header.previous = header.tag
         /\ header.value \in Regions /\ reader.next + 2 <= header.value.start
         /\ header.value.start \in Nat /\ header.value.length \in Nat
         /\ header.cursor \in Cursor_Record /\ Is_Valid(header.cursor, Len(input))
         /\ header.cursor.next = End(header.value) /\ End(header.value) \in Nat
         /\ Inside(header.value, input) /\ reader.next \in Nat /\ reader.next <= header.cursor.next
<1>1. /\ input \in Seq(Octet) /\ reader \in Cursor_Record /\ Is_Valid(reader, Len(input)) /\ previous \in Nat
      /\ reader.first \in Nat /\ reader.next \in Nat /\ reader.limit \in Nat /\ Len(input) \in Nat
  BY CursorFields DEF Reading
<1>2. ReadRefused(reader, header) \/ TakesHeader(input, reader, previous, header)
  BY <1>1, HeaderRead DEF Field_Header
<1>3. ~ ReadRefused(reader, header)
  BY DEF ReadRefused, Read_Refusal
<1> PICK region \in Regions : header.value = region
  BY <1>2, <1>3 DEF TakesHeader
<1> PICK tag \in Nat : header.tag = tag
  BY <1>2, <1>3 DEF TakesHeader, Field_Tag
<1>4. /\ tag \in Field_Tag \cap Unsigned /\ tag > previous /\ header.previous = tag
      /\ HoldsHeader(input, reader.next, tag, region) /\ End(region) <= reader.limit
      /\ header.cursor = Cursor(reader.first, End(region), reader.limit)
  BY <1>2, <1>3 DEF TakesHeader, MovedTo
<1>5. /\ region.start \in Nat /\ region.length \in Unsigned /\ region.length \in Nat
  BY SizeOfUnsigned DEF Regions
<1> PICK a \in Nat \ {0} : Unsigned_Size(tag) = a
  BY <1>4, SizeOfUnsigned
<1> PICK b \in Nat \ {0} : Unsigned_Size(region.length) = b
  BY <1>5, SizeOfUnsigned
<1> PICK n \in Nat, first \in Nat, limit \in Nat, size \in Nat :
       reader.next = n /\ reader.first = first /\ reader.limit = limit /\ Len(input) = size
  BY <1>1
<1> PICK start \in Nat, length \in Nat : region.start = start /\ region.length = length
  BY <1>5
<1>6. start = n + a + b
  BY <1>4 DEF HoldsHeader, HoldsExtent
<1> PICK end \in Nat : start + length = end
  OBVIOUS
<1>7. n + 2 <= start /\ n <= end /\ End(region) = end
  BY <1>6, Room DEF End
<1>8. /\ header.cursor = [first |-> first, next |-> end, limit |-> limit]
      /\ header.cursor \in Cursor_Record
  BY <1>4, <1>7 DEF Cursor, Cursor_Record
<1>9. first <= n /\ limit <= size /\ end <= limit
  BY <1>1, <1>4, <1>7 DEF Is_Valid
<1>10. first <= end /\ end <= size
  BY <1>7, <1>9
<1>11. Is_Valid(header.cursor, Len(input))
  BY <1>8, <1>9, <1>10 DEF Is_Valid
<1>12. start <= size /\ length <= size - start
  BY <1>10
<1>13. Inside(region, input)
  BY <1>12 DEF Inside
<1> QED BY <1>4, <1>7, <1>8, <1>11, <1>13

(* A list of visits, and one more. *)
LEMMA Appended ==
  ASSUME Visit_List, NEW visit, visits' = Append(visits, visit)
  PROVE  /\ Visit_List' /\ Len(visits) \in Nat /\ DOMAIN visits = 1 .. Len(visits)
         /\ DOMAIN visits' = 1 .. Len(visits) + 1 /\ visits'[Len(visits) + 1] = visit
         /\ \A i \in DOMAIN visits : visits'[i] = visits[i]
<1> PICK V : V = {visits[i] : i \in DOMAIN visits} \cup {visit}
  OBVIOUS
<1>1. visits \in Seq(V) /\ visit \in V
  BY DEF Visit_List
<1>2. /\ Len(visits) \in Nat /\ DOMAIN visits = 1 .. Len(visits)
      /\ visits' \in Seq(V) /\ Len(visits') = Len(visits) + 1 /\ DOMAIN visits' = 1 .. Len(visits')
      /\ visits'[Len(visits) + 1] = visit
      /\ \A i \in 1 .. Len(visits) : visits'[i] = visits[i]
  BY <1>1
<1>3. visits' \in Seq({visits'[i] : i \in DOMAIN visits'})
  BY <1>2
<1> QED BY <1>2, <1>3 DEF Visit_List

LEMMA Initially ==
  ASSUME Init
  PROVE  IInv
<1>1. input \in Seq(Octet) /\ input \in Inputs /\ Len(input) \in Nat
  BY VisitAssumption DEF Init
<1>2. reader = [first |-> 0, next |-> 0, limit |-> Len(input)] /\ previous = 0
  BY DEF Init, Initialize_Whole, Cursor, No_Tag
<1>3. reader \in Cursor_Record /\ Is_Valid(reader, Len(input))
  BY <1>1, <1>2 DEF Cursor_Record, Is_Valid
<1>4. visits = <<>> /\ DOMAIN visits = {}
  BY DEF Init
<1>5. Visit_List
  BY <1>4 DEF Visit_List
<1> QED BY <1>1, <1>2, <1>3, <1>4, <1>5 DEF IInv, Reading, Unvisited, Passed, LentApart

(* A step that leaves the array, the cursor and the visits alone. *)
LEMMA StatusStep ==
  ASSUME IInv, UNCHANGED <<lock, input, visits, kept>>, UNCHANGED locals,
         status' \in {"Idle", "Validating"} => status \in {"Idle", "Validating"}
  PROVE  IInv'
BY DEF IInv, Reading, Unvisited, Visit_List, Passed, Behind_Reader, LentApart, locals

(* A step of the first pass. *)
LEMMA ValidateStep ==
  ASSUME IInv, Validate_Field
  PROVE  IInv'
<1> PICK header : header = Field_Header
  OBVIOUS
<1>1. status = "Validating" /\ visits = <<>> /\ UNCHANGED <<lock, input, visits, kept>>
  BY DEF Validate_Field, Return, IInv, Unvisited
<1>2. CASE UNCHANGED locals
  BY <1>1, <1>2, StatusStep
<1>3. CASE header.status = "Read" /\ Taken_Header(header)
  <2>1. /\ reader' \in Cursor_Record /\ Is_Valid(reader', Len(input)) /\ previous' \in Nat
    BY <1>3, TakesNext DEF IInv, Taken_Header
  <2>2. Reading'
    BY <1>1, <2>1 DEF IInv, Reading
  <2>3. visits' = <<>> /\ DOMAIN visits' = {}
    BY <1>1
  <2> QED BY <1>1, <2>2, <2>3 DEF IInv, Unvisited, Visit_List, Passed, LentApart
<1> QED BY <1>2, <1>3 DEF Validate_Field

(* The second pass starts again. *)
LEMMA RestartStep ==
  ASSUME IInv, Validated_All
  PROVE  IInv'
<1>1. status = "Validating" /\ visits = <<>> /\ UNCHANGED <<lock, input, visits, kept>>
  BY DEF Validated_All, Return, IInv, Unvisited
<1>2. CASE UNCHANGED locals
  BY <1>1, <1>2, StatusStep
<1>3. CASE reader' = Initialize_Whole(input) /\ previous' = No_Tag
  <2>1. input \in Seq(Octet) /\ Len(input) \in Nat
    BY DEF IInv, Reading
  <2>2. reader' = [first |-> 0, next |-> 0, limit |-> Len(input)] /\ previous' = 0
    BY <1>3 DEF Initialize_Whole, Cursor, No_Tag
  <2>3. reader' \in Cursor_Record /\ Is_Valid(reader', Len(input))
    BY <2>1, <2>2 DEF Cursor_Record, Is_Valid
  <2>4. Reading'
    BY <1>1, <2>1, <2>2, <2>3 DEF IInv, Reading
  <2>5. visits' = <<>> /\ DOMAIN visits' = {}
    BY <1>1
  <2> QED BY <1>1, <2>4, <2>5 DEF IInv, Unvisited, Visit_List, Passed, LentApart
<1> QED BY <1>2, <1>3 DEF Validated_All

(* A step of the second pass, up to its callback. *)
LEMMA VisitStep ==
  ASSUME IInv, Visit_Field
  PROVE  IInv'
<1> PICK header : header = Field_Header
  OBVIOUS
<1>1. status = "Visiting" /\ UNCHANGED <<lock, input, kept>>
  BY DEF Visit_Field, Return
<1>2. \A s : Map_Read_Error(s) \notin {"Idle", "Validating"}
  BY DEF Map_Read_Error
<1>3. CASE UNCHANGED locals /\ UNCHANGED visits /\ status' \notin {"Idle", "Validating"}
  BY <1>1, <1>3, StatusStep
<1>4. CASE /\ header.status = "Read" /\ header.tag \in Fields(lock) /\ Taken_Header(header)
           /\ \E observed \in {Observed(header.tag, header.value)} :
                /\ status' = observed.status
                /\ visits' = IF observed.status # "Calling" THEN visits
                             ELSE Append(visits, [tag |-> header.tag, region |-> header.value,
                                                  content |-> CHOOSE c \in observed.value : TRUE])
  <2> PICK tag \in Nat, region \in Regions : header.tag = tag /\ header.value = region
    BY <1>4, TakesNext DEF IInv
  <2>1. /\ tag > previous /\ previous' = tag /\ reader' = header.cursor
        /\ reader.next + 2 <= region.start /\ region.start \in Nat /\ region.length \in Nat
        /\ reader' \in Cursor_Record /\ Is_Valid(reader', Len(input))
        /\ reader'.next = End(region) /\ End(region) \in Nat
        /\ Inside(region, input) /\ reader.next \in Nat /\ reader.next <= reader'.next
    BY <1>4, TakesNext DEF IInv, Taken_Header
  <2>2. Reading'
    BY <1>1, <2>1 DEF IInv, Reading
  <2>3. status' \notin {"Idle", "Validating"}
    BY <1>2, <1>4 DEF Observed
  <2>4. \A i \in DOMAIN visits : Behind_Reader(visits[i]) /\ previous \in Nat
    BY DEF IInv, Passed, Reading
  <2>5. \A i \in DOMAIN visits :
          /\ visits[i].tag \in Nat /\ visits[i].region \in Regions /\ visits[i].tag < tag
          /\ End(visits[i].region) \in Nat
          /\ End(visits[i].region) <= reader.next /\ End(visits[i].region) <= reader'.next
    <3> TAKE i \in DOMAIN visits
    <3>1. visits[i].region.start \in Nat /\ visits[i].region.length \in Nat
      BY <2>4, SizeOfUnsigned DEF Behind_Reader, Regions
    <3>2. End(visits[i].region) \in Nat
      BY <3>1 DEF End
    <3> QED BY <2>1, <2>4, <3>2, SMTT(60) DEF Behind_Reader
  <2>6. CASE visits' = visits
    <3>1. Passed'
      BY <2>1, <2>5, <2>6 DEF Passed, Behind_Reader
    <3> QED BY <1>1, <2>2, <2>3, <2>6, <3>1 DEF IInv, Unvisited, Visit_List, LentApart
  <2>7. ASSUME NEW visit, visit.tag = tag, visit.region = region, visits' = Append(visits, visit)
        PROVE  IInv'
    <3> PICK n \in Nat : Len(visits) = n
      BY <2>7, Appended DEF IInv
    <3>1. /\ Visit_List' /\ DOMAIN visits = 1 .. n /\ DOMAIN visits' = 1 .. n + 1 /\ visits'[n + 1] = visit
          /\ \A i \in DOMAIN visits : visits'[i] = visits[i]
      BY <2>7, Appended DEF IInv
    <3>2. Passed'
      <4> SUFFICES ASSUME NEW i \in 1 .. n + 1
                   PROVE  /\ visits'[i].tag \in Nat /\ visits'[i].region \in Regions
                          /\ visits'[i].tag <= tag /\ End(visits'[i].region) <= End(region)
        BY <2>1, <3>1 DEF Passed, Behind_Reader
      <4>1. CASE i = n + 1
        BY <2>1, <2>7, <3>1, <4>1, SMTT(60)
      <4>2. CASE i \in 1 .. n
        BY <2>1, <2>5, <3>1, <4>2, SMTT(60)
      <4> QED BY <4>1, <4>2
    <3>3. LentApart'
      <4> SUFFICES ASSUME NEW i \in 1 .. n + 1
                   PROVE  /\ visits'[i].tag \in Fields(lock)
                          /\ Inside(visits'[i].region, input)
                          /\ \A j \in 1 .. i - 1 :
                               /\ visits'[j].tag < visits'[i].tag
                               /\ visits'[j].region.start + visits'[j].region.length + 2 <= visits'[i].region.start
        BY <1>1, <3>1 DEF LentApart
      <4>1. CASE i = n + 1
        <5>1. \A j \in 1 .. i - 1 :
                /\ visits'[j].tag < tag
                /\ visits'[j].region.start + visits'[j].region.length + 2 <= region.start
          <6> TAKE j \in 1 .. i - 1
          <6>1. j \in DOMAIN visits /\ visits'[j] = visits[j]
            BY <3>1, <4>1
          <6>2. /\ visits[j].tag < tag /\ End(visits[j].region) \in Nat /\ End(visits[j].region) <= reader.next
                /\ End(visits[j].region) = visits[j].region.start + visits[j].region.length
            BY <2>5, <6>1 DEF End
          <6> QED BY <2>1, <6>1, <6>2, SMTT(60)
        <5> QED BY <1>4, <2>1, <2>7, <3>1, <4>1, <5>1, SMTT(60)
      <4>2. CASE i \in 1 .. n
        <5>1. \A j \in 1 .. i - 1 : j \in DOMAIN visits /\ visits'[j] = visits[j]
          BY <3>1, <4>2
        <5>2. visits'[i] = visits[i] /\ i \in DOMAIN visits
          BY <3>1, <4>2
        <5>3. /\ visits[i].tag \in Fields(lock) /\ Inside(visits[i].region, input)
              /\ \A j \in 1 .. i - 1 :
                   /\ visits[j].tag < visits[i].tag
                   /\ visits[j].region.start + visits[j].region.length + 2 <= visits[i].region.start
          BY <5>2 DEF IInv, LentApart
        <5> QED BY <5>1, <5>2, <5>3
      <4> QED BY <4>1, <4>2
    <3> QED BY <2>2, <2>3, <3>1, <3>2, <3>3 DEF IInv, Unvisited
  <2> QED BY <1>4, <2>6, <2>7
<1> QED BY <1>2, <1>3, <1>4 DEF Visit_Field, Return

(* The array is written to. *)
LEMMA ChangeStep ==
  ASSUME IInv, Change
  PROVE  IInv'
<1>1. input' \in Seq(Octet) /\ Len(input') = Len(input) /\ kept' = FALSE
  BY VisitAssumption DEF Change, IInv, Reading
<1>2. UNCHANGED <<lock, status, visits>> /\ UNCHANGED <<reader, previous, seen>>
  BY DEF Change, locals
<1> QED BY <1>1, <1>2 DEF IInv, Reading, Unvisited, Visit_List, Passed, Behind_Reader, LentApart, Inside

LEMMA Preserved ==
  ASSUME IInv, [Next]_vars
  PROVE  IInv'
<1>1. CASE Validate_And_Visit
  BY <1>1, StatusStep DEF Validate_And_Visit
<1>2. CASE Visited_All \/ Callback_Returns \/ Callback_Raises
  BY <1>2, StatusStep DEF Visited_All, Callback_Returns, Callback_Raises, Return
<1>3. CASE UNCHANGED vars
  BY <1>3, StatusStep DEF vars, locals
<1> QED BY <1>1, <1>2, <1>3, ValidateStep, RestartStep, VisitStep, ChangeStep DEF Next

(* Even if the array is written to under the second pass of                *)
(* Validate_And_Visit, no field is shown twice or out of order, and what   *)
(* is lent is inside the array and apart from all that was lent before.    *)
THEOREM Lent == Spec => []LentApart
<1>1. Init => IInv
  BY Initially
<1>2. IInv /\ [Next]_vars => IInv'
  BY Preserved
<1>3. IInv => LentApart
  BY DEF IInv
<1> QED BY <1>1, <1>2, <1>3, PTL DEF Spec

=============================================================================
