--------------------------- MODULE MetadataPreflight ---------------------------
(***************************************************************************)
(* The inside of Decode of flyology_wire_generator-wire_metadata_input:    *)
(* Preflight reads the characters of a metadata document before anything   *)
(* is allocated, and holds them to limits; the JSON library parses them;   *)
(* Convert copies what it makes of them into an arena of values and edges, *)
(* held to the limits again; the format and its version are looked up.     *)
(*                                                                         *)
(* A character is a string, "q" a quotation mark, "t" one of the words of  *)
(* JSON, "~" an octet above 127, "*" any other character.  A value is what *)
(* the library makes of a text: its kind, the characters of a scalar, the  *)
(* members of a container; those of an array have no names.                *)
(***************************************************************************)
EXTENDS Integers, Sequences, SequencesExt

CONSTANTS
  Sources,               (* texts, each with the value it is the text of, if there is one *)
  Decode_Limits,
  Bound, Negative_Bound, (* digits of the largest integer, of the smallest *)
  Format_Key, Format_Value, Version_Key

ASSUME PreflightAssumption ==
  /\ Len(Bound) = Len(Negative_Bound) /\ Bound # <<>>
  /\ \A limits \in Decode_Limits : \A l \in DOMAIN limits : limits[l] \in Nat \ {0}

VARIABLES
  source,     (* the text, and its value *)
  limits,
  status,     (* the stage of the call, "Decoded", or the code of its error *)
  scan,       (* the variables of Preflight *)
  work,       (* work units spent *)
  arena       (* values and edges *)

vars == <<source, limits, status, scan, work, arena>>

Digit == <<"0", "1", "2">>
Is_Digit(c) == \E i \in DOMAIN Digit : Digit[i] = c
Space == " "
Is_Delimiter(c) == c \in {Space, ",", "]", "}"}

Free == [values |-> <<>>, edges |-> <<>>]
Container(kind) == [kind |-> kind, members |-> 0, keys |-> <<>>]

Init ==
  /\ source \in Sources /\ limits \in Decode_Limits
  /\ status = "Preflight" /\ work = 0 /\ arena = Free
  /\ scan = [position |-> 0, bytes |-> 0, nodes |-> 0, in_string |-> FALSE, first |-> 0, open |-> <<>>]

-----------------------------------------------------------------------------

Text == source.text
Item == Text[scan.position + 1]
Scanning == status = "Scanning" /\ scan.position < Len(Text)

Reject(code) == status' = code /\ UNCHANGED <<source, limits, scan, work, arena>>
Proceed(next, spent) ==
  /\ scan' = [next EXCEPT !.position = @ + 1] /\ work' = spent
  /\ UNCHANGED <<source, limits, status, arena>>

(* A node is counted first; then comes the rest. *)
Counted(next) ==
  IF scan.nodes = limits.Maximum_Nodes THEN Reject("Node_Limit_Exceeded")
  ELSE Proceed([next EXCEPT !.nodes = @ + 1], work)

Preflight ==
  /\ status = "Preflight"
  /\ IF Len(Text) > limits.Maximum_Source_Bytes THEN Reject("Source_Too_Large")
     ELSE IF Len(Text) > limits.Maximum_Work_Units THEN Reject("Work_Limit_Exceeded")
     ELSE status' = "Scanning" /\ work' = Len(Text) /\ UNCHANGED <<source, limits, scan, arena>>

Refused_Octet ==
  /\ Scanning /\ Item \in {"~", "\\"}
  /\ Reject(IF Item = "~" THEN "Non_ASCII_Source"
            ELSE IF scan.in_string THEN "String_Escape_Rejected" ELSE "Invalid_JSON")

Open_String ==
  /\ Scanning /\ Item = "q" /\ ~ scan.in_string
  /\ Proceed([scan EXCEPT !.in_string = TRUE, !.first = scan.position + 1], work)

String_Octet ==
  /\ Scanning /\ scan.in_string /\ Item \notin {"q", "~", "\\"}
  /\ IF scan.bytes = limits.Maximum_Total_String_Bytes THEN Reject("String_Limit_Exceeded")
     ELSE Proceed([scan EXCEPT !.bytes = @ + 1], work)

(* Mutant: the colon has to come at once. *)
Adjacent_Is_Name(position) == position + 2 <= Len(Text) /\ Text[position + 2] = ":"

(* A string is a name if a colon comes next, spaces apart. *)
Is_Name(position) ==
  \E k \in position + 2 .. Len(Text) :
    Text[k] = ":" /\ \A i \in position + 2 .. k - 1 : Text[i] = Space

(* What it takes to compare two names; two that are equal never differ. *)
Comparisons(left, right) ==
  IF Len(left) # Len(right) THEN 1
  ELSE 1 + Len(LongestCommonPrefix({left, right})) + IF left = right THEN 0 ELSE 1

(* The names of an object, the latest first, up to one that is the same. *)
Compared(keys, name) ==
  LET same == {i \in DOMAIN keys : keys[i] = name}
  IN  SubSeq(keys, 1, IF same = {} THEN Len(keys) ELSE CHOOSE i \in same : \A j \in same : i <= j)

Register_Key(name, next) ==
  LET top      == Len(scan.open)
      compared == Compared(scan.open[top].keys, name)
      spent    == FoldLeft(LAMBDA sum, key : sum + Comparisons(key, name), work, compared)
  IN  IF spent > limits.Maximum_Work_Units THEN Reject("Work_Limit_Exceeded")
      ELSE IF Contains(compared, name) THEN Reject("Duplicate_Key")
      ELSE Proceed([next EXCEPT !.open[top].keys = <<name>> \o @, !.open[top].members = @ + 1], spent)

Close_String ==
  /\ Scanning /\ Item = "q" /\ scan.in_string
  /\ LET next == [scan EXCEPT !.in_string = FALSE]
         top  == Len(scan.open)
         name == SubSeq(Text, scan.first + 1, scan.position)
     IN  IF ~ Is_Name(scan.position) THEN Counted(next)
         ELSE IF top = 0 \/ (top > 0 /\ scan.open[top].kind # "object") THEN Proceed(next, work)
         ELSE IF scan.open[top].members = limits.Maximum_Object_Members
           THEN Reject("Object_Member_Limit_Exceeded")
         ELSE Register_Key(name, next)

Open_Container ==
  /\ Scanning /\ ~ scan.in_string /\ Item \in {"{", "["}
  /\ IF Len(scan.open) = limits.Maximum_Depth THEN Reject("Depth_Limit_Exceeded")
     ELSE Counted([scan EXCEPT !.open = Append(@, Container(IF Item = "{" THEN "object" ELSE "array"))])

(* Which of the two it closes is for the parser to say. *)
Close_Container ==
  /\ Scanning /\ ~ scan.in_string /\ Item \in {"}", "]"}
  /\ Proceed([scan EXCEPT !.open = IF @ = <<>> THEN @ ELSE Front(@)], work)

(* The digits from an offset on. *)
Digits_From(k) ==
  LET ends == {n \in k .. Len(Text) : \A i \in k + 1 .. n : Is_Digit(Text[i])}
  IN  SubSeq(Text, k + 1, CHOOSE n \in ends : \A m \in ends : m <= n)

Position_Of(c) == CHOOSE i \in DOMAIN Digit : Digit[i] = c
Exceeds(digits, bound) ==
  \/ Len(digits) > Len(bound)
  \/ /\ Len(digits) = Len(bound)
     /\ \E i \in DOMAIN digits :
          /\ Position_Of(digits[i]) > Position_Of(bound[i])
          /\ \A j \in 1 .. i - 1 : digits[j] = bound[j]

Number ==
  /\ Scanning /\ ~ scan.in_string /\ (Item = "-" \/ Is_Digit(Item))
  /\ LET negative == Item = "-"
         digits   == Digits_From(scan.position + IF negative THEN 1 ELSE 0)
         length   == Len(digits) + IF negative THEN 1 ELSE 0
         after    == scan.position + length
     IN  IF \/ digits = <<>>
            \/ digits[1] = "0" /\ (negative \/ Len(digits) > 1)
            \/ after < Len(Text) /\ ~ Is_Delimiter(Text[after + 1])
           THEN Reject("Invalid_Number")
         ELSE IF length > limits.Maximum_Number_Bytes THEN Reject("Number_Limit_Exceeded")
         ELSE IF Exceeds(digits, IF negative THEN Negative_Bound ELSE Bound) THEN Reject("Invalid_Number")
         ELSE Counted([scan EXCEPT !.position = after - 1])

Word == Scanning /\ ~ scan.in_string /\ Item = "t" /\ Counted(scan)

Other ==
  /\ Scanning /\ ~ scan.in_string /\ Item \in {Space, ",", ":", "*"}
  /\ Proceed(scan, work)

-----------------------------------------------------------------------------

(* Convert carries along what it has made and counted, and the code of the *)
(* error it met; once there is one, nothing more is done.                  *)
Spend(made, units) ==
  IF made.code # "None" THEN made
  ELSE IF made.work + units > limits.Maximum_Work_Units THEN [made EXCEPT !.code = "Work_Limit_Exceeded"]
  ELSE [made EXCEPT !.work = @ + units]

Count_String(made, length) ==
  IF made.code # "None" THEN made
  ELSE IF length > limits.Maximum_Total_String_Bytes - made.bytes
    THEN [made EXCEPT !.code = "String_Limit_Exceeded"]
  ELSE [made EXCEPT !.bytes = @ + length]

Add_Value(made, kind, data) ==
  IF made.code # "None" THEN made
  ELSE IF Len(made.values) = limits.Maximum_Nodes THEN [made EXCEPT !.code = "Node_Limit_Exceeded"]
  ELSE [made EXCEPT !.values = Append(@, [kind |-> kind, data |-> data, first |-> 0, last |-> 0, count |-> 0])]

Add_Edge(made, container, name, child) ==
  LET edge   == Len(made.edges) + 1
      parent == made.values[container]
  IN  IF made.code # "None" THEN made
      ELSE [made EXCEPT
              !.edges = Append(IF parent.last = 0 THEN @ ELSE [@ EXCEPT ![parent.last].next = edge],
                               [name |-> name, value |-> child, next |-> 0]),
              !.values[container] = [parent EXCEPT !.first = IF @ = 0 THEN edge ELSE @,
                                                   !.last = edge, !.count = @ + 1]]

(* The value is at the index that follows what was there. *)
RECURSIVE Convert(_, _)
Convert(made, value) ==
  LET index == Len(made.values) + 1
      whole == Len(value.members)
      named(before, member) ==
        IF value.kind # "object" THEN before
        ELSE Spend(Count_String(before, Len(member.name)), whole * (1 + Len(member.name)))
      step(before, member) ==
        LET ready == named(before, member)
        IN  IF ready.code # "None" THEN ready
            ELSE Add_Edge(Convert(ready, member.value), index, member.name, Len(ready.values) + 1)
      counted == IF value.kind = "string" THEN Count_String(made, Len(value.data)) ELSE made
  IN  FoldLeft(step, Add_Value(counted, value.kind, value.data), value.members)

(* The library's parser is told to stop one level below the limit. *)
RECURSIVE Depth(_)
Depth(value) ==
  IF value.kind \notin {"object", "array"} THEN 0
  ELSE 1 + FoldLeft(LAMBDA d, m : IF Depth(m.value) > d THEN Depth(m.value) ELSE d, 0, value.members)

Parse_Source ==
  /\ status = "Scanning" /\ scan.position = Len(Text)
  /\ IF \E value \in source.value : Depth(value) <= limits.Maximum_Depth + 1
       THEN status' = "Converting" /\ UNCHANGED <<source, limits, scan, work, arena>>
       ELSE Reject("Invalid_JSON")

Decode_Value ==
  /\ status = "Converting"
  /\ \E value \in source.value :
       \E made \in {Convert([values |-> <<>>, edges |-> <<>>, bytes |-> 0, work |-> work, code |-> "None"], value)} :
         IF made.code # "None" THEN Reject(made.code)
         ELSE /\ status' = "Validating" /\ work' = made.work
              /\ arena' = [values |-> made.values, edges |-> made.edges]
              /\ UNCHANGED <<source, limits, scan>>

(* The edges of a value, in their order. *)
RECURSIVE Chain(_)
Chain(edge) == IF edge = 0 THEN <<>> ELSE <<edge>> \o Chain(arena.edges[edge].next)

Find_Member(container, name) ==
  LET edges == IF arena.values[container].kind = "object" THEN Chain(arena.values[container].first) ELSE <<>>
      found == {i \in DOMAIN edges : arena.edges[edges[i]].name = name}
  IN  IF found = {} THEN 0 ELSE arena.edges[edges[CHOOSE i \in found : \A j \in found : i <= j]].value

Validate_Metadata ==
  /\ status = "Validating"
  /\ LET format  == Find_Member(1, Format_Key)
         version == Find_Member(1, Version_Key)
     IN  IF /\ format # 0 /\ version # 0
            /\ arena.values[format].kind = "string" /\ arena.values[format].data = Format_Value
            /\ arena.values[version].kind = "integer" /\ arena.values[version].data = <<"1">>
           THEN Reject("Decoded") ELSE Reject("Unsupported_Metadata")

Next ==
  \/ Preflight
  \/ Refused_Octet
  \/ Open_String
  \/ String_Octet
  \/ Close_String
  \/ Open_Container
  \/ Close_Container
  \/ Number
  \/ Word
  \/ Other
  \/ Parse_Source
  \/ Decode_Value
  \/ Validate_Metadata

Spec == Init /\ [][Next]_vars

-----------------------------------------------------------------------------

(* What a value is made of. *)
RECURSIVE Parts(_)
Parts(value) == <<value>> \o FoldLeft(LAMBDA all, m : all \o Parts(m.value), <<>>, value.members)

Bytes(value) ==
  FoldLeft(LAMBDA sum, p : FoldLeft(LAMBDA s, m : s + Len(m.name), sum, p.members)
                             + (IF p.kind = "string" THEN Len(p.data) ELSE 0), 0, Parts(value))

Admissible(value) ==
  LET parts == Parts(value)
  IN  /\ \A i \in DOMAIN Text : Text[i] \notin {"~", "\\"}
      /\ Len(Text) <= limits.Maximum_Source_Bytes /\ Depth(value) <= limits.Maximum_Depth
      /\ Len(parts) <= limits.Maximum_Nodes /\ Bytes(value) <= limits.Maximum_Total_String_Bytes
      /\ \A i \in DOMAIN parts :
           /\ parts[i].kind = "object" =>
                /\ Len(parts[i].members) <= limits.Maximum_Object_Members
                /\ \A m, n \in DOMAIN parts[i].members :
                     parts[i].members[m].name = parts[i].members[n].name => m = n
           /\ parts[i].kind = "integer" =>
                LET negative == parts[i].data[1] = "-"
                    digits   == IF negative THEN Tail(parts[i].data) ELSE parts[i].data
                IN  /\ Len(parts[i].data) <= limits.Maximum_Number_Bytes
                    /\ ~ (negative /\ digits = <<"0">>)
                    /\ ~ Exceeds(digits, IF negative THEN Negative_Bound ELSE Bound)

(* The value that is read from an arena by its cursors. *)
RECURSIVE Stored(_)
Stored(index) ==
  LET edges == Chain(arena.values[index].first)
  IN  [kind |-> arena.values[index].kind, data |-> arena.values[index].data,
       members |-> [i \in DOMAIN edges |->
                      [name |-> arena.edges[edges[i]].name, value |-> Stored(arena.edges[edges[i]].value)]]]

(* Squares of the length are work enough for any text. *)
Ample == limits.Maximum_Work_Units >= 2 * Len(Text) * Len(Text)

(* A document is taken exactly if it is the text of a value within the     *)
(* limits, of ASCII without escapes, that has no name twice and no number  *)
(* of another form, and if there is work enough for it; what is taken      *)
(* reads as that value.  What Convert counts again, Preflight has let      *)
(* through: once the scan is done, only the work can be too much.          *)
TakenExactlyIfAdmissible ==
  /\ status \in {"Validating", "Decoded", "Unsupported_Metadata"} =>
       \E value \in source.value :
         Admissible(value) /\ Stored(1) = value /\ \A i \in DOMAIN arena.values : arena.values[i].count <= Len(Text)
  /\ status \notin {"Preflight", "Scanning", "Converting", "Validating", "Decoded", "Unsupported_Metadata"} =>
       \/ status = "Work_Limit_Exceeded" /\ ~ Ample
       \/ \A value \in source.value : ~ Admissible(value)
  /\ scan.position = Len(Text) =>
       status \in {"Preflight", "Scanning", "Converting", "Validating", "Decoded", "Unsupported_Metadata",
                   "Invalid_JSON", "Work_Limit_Exceeded"}

=============================================================================
