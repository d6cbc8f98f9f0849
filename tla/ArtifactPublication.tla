-------------------------- MODULE ArtifactPublication --------------------------
(***************************************************************************)
(* Runs of the Type IR adapter, which makes a schema lock, a binding and a *)
(* provenance report, and of the Ada generator, which makes a              *)
(* specification and a body of the first two.  A run reads its inputs one  *)
(* after the other while they may be edited, replaces its outputs one      *)
(* after the other, or compares them with those it would write, and may be *)
(* killed or fail between any two of its steps.  Nothing keeps two runs    *)
(* from writing the same outputs: they share the name of a temporary file. *)
(***************************************************************************)
EXTENDS TypeIrLowering

CONSTANTS
  Processes,
  Overlays, Documents,   (* what the inputs of the adapter may be *)
  New_Overlays, New_Documents,   (* what they may be edited to *)
  MaxStarts, MaxEdits    (* bounds: runs that start, edits of an input *)

ASSUME PublicationAssumption ==
  /\ MaxStarts \in Nat /\ MaxEdits \in Nat /\ Fixture \in Documents
  /\ New_Overlays \subseteq Overlays /\ New_Documents \subseteq Documents
  /\ \A o \in Overlays : o.fields \in Seq({o.fields[i] : i \in DOMAIN o.fields})

(* What the facts of a document are to mean, of which the checker admits   *)
(* one: a record without discriminants is its components; a component that *)
(* has its type unrestricted has the values between the bounds of a range  *)
(* to which no predicate is added.                                         *)
ASSUME DocumentAssumption ==
  \A d \in Documents : d.profiles # {} =>
    \A root \in d.declarations : Plain_Record(d, root) =>
      /\ DOMAIN d.program = {c.id : c \in Components(d, root)}
      /\ \A c \in Components(d, root), type \in d.declarations :
           ~ c.conditional /\ ~ c.constrained /\ type.id = c.type /\ Unrefined(type.shape) =>
             \A low \in type.shape.range.low, high \in type.shape.range.high :
               d.program[c.id] = low .. high

VARIABLES
  inputs,      (* the overlay, the document, the checker in the checkout *)
  disk,        (* the outputs *)
  temporary,   (* the temporary file next to each of them *)
  process,     (* what each process is at *)
  starts, edits

vars == <<inputs, disk, temporary, process, starts, edits>>

Checkers == {"reviewed", "other"}

Outputs(program) ==
  IF program = "adapter" THEN <<"schema", "binding", "provenance">> ELSE <<"spec", "body">>
Files == {"schema", "binding", "provenance", "spec", "body"}

(* What a file holds, if it is there: nothing yet, a text with the rest of *)
(* a longer one behind it, or one text.                                    *)
Absent == [state |-> "absent", text |-> {}]
Empty == [state |-> "empty", text |-> {}]
Partial == [state |-> "partial", text |-> {}]
Whole(text) == [state |-> "whole", text |-> {text}]

Idle ==
  [pc |-> "Ended", program |-> "adapter", check |-> FALSE, profile |-> "strict", copied |-> {},
   read |-> {}, made |-> <<>>, next |-> 1, file |-> "none", passed |-> FALSE, held |-> FALSE, crowded |-> FALSE]

(* All the outputs of a process are what it made. *)
Match(p, files) ==
  \A i \in DOMAIN p.made : files[Outputs(p.program)[i]] = Whole(p.made[i])

Published(outputs) == <<outputs.schema, outputs.binding, outputs.provenance>>

Init ==
  /\ \E d \in Documents, o \in Overlays :
       o.semantic = d.semantic /\ inputs = [overlay |-> o, document |-> d, checker |-> "reviewed"]
  /\ disk = [f \in Files |-> Absent] /\ temporary = [f \in Files |-> Absent]
  /\ process = [p \in Processes |-> Idle]
  /\ starts = 0 /\ edits = 0

-----------------------------------------------------------------------------

Local == UNCHANGED <<inputs, disk, temporary, starts, edits>>
Set(self, state) == process' = [process EXCEPT ![self] = state]

Fail(self) == Set(self, Idle) /\ Local

(* The runs under way that write the outputs of a program. *)
Writers(program) ==
  {p \in Processes : process[p].pc # "Ended" /\ process[p].program = program /\ ~ process[p].check}

(* History: runs are crowded while writing runs of their program overlap,  *)
(* and as long as one is left that did.                                    *)
Start(self) ==
  /\ process[self].pc = "Ended" /\ starts < MaxStarts /\ starts' = starts + 1
  /\ \E program \in {"adapter", "generator"}, check \in BOOLEAN, profile \in Profiles :
       LET crowded == \E p \in Writers(program) : check => process[p].crowded
       IN  /\ program = "generator" => profile = "strict"
           /\ process' = [p \in Processes |->
                IF p = self
                  THEN [Idle EXCEPT !.pc = IF program = "adapter" THEN "Attesting" ELSE "Loading_Schema",
                                    !.program = program, !.check = check, !.profile = profile, !.crowded = crowded]
                ELSE IF crowded /\ process[p].pc # "Ended" /\ process[p].program = program
                  THEN [process[p] EXCEPT !.crowded = TRUE]
                ELSE process[p]]
  /\ UNCHANGED <<inputs, disk, temporary, edits>>

(* The checker's octets are read once: those that are attested are those   *)
(* that are copied and run.                                                *)
import_checker(self) ==
  /\ process[self].pc = "Attesting"
  /\ IF inputs.checker = "reviewed"
       THEN Set(self, [process[self] EXCEPT !.pc = "Checking", !.copied = {inputs.checker}]) /\ Local
       ELSE Fail(self)

(* Another checker might let anything pass. *)
Admitted(p, document) ==
  /\ "other" \in p.copied \/ p.profile \in document.profiles
  /\ p.profile = "fixture_shape" => document = Fixture

load_checked(self) ==
  /\ process[self].pc = "Checking"
  /\ IF Admitted(process[self], inputs.document)
       THEN Set(self, [process[self] EXCEPT !.pc = "Lowering", !.read = {inputs.document}]) /\ Local
       ELSE Fail(self)

(* Before its first comparison. *)
Ready(p, made) ==
  LET ready == [p EXCEPT !.pc = IF p.check THEN "Comparing" ELSE "Opening", !.made = made, !.read = {}]
  IN  [ready EXCEPT !.held = p.check /\ Match(ready, disk)]

lower(self) ==
  /\ process[self].pc = "Lowering"
  /\ \E document \in process[self].read :
       LET outputs == IF load_overlay(inputs.overlay)
                        THEN lower_checked(document, process[self].profile, inputs.overlay) ELSE {}
       IN  \/ outputs = {} /\ Fail(self)
           \/ \E o \in outputs : Set(self, Ready(process[self], Published(o))) /\ Local

(* A file that is not there, or not all of it, is an error. *)
load_schema(self) ==
  /\ process[self].pc = "Loading_Schema"
  /\ \/ disk["schema"].state # "whole" /\ Fail(self)
     \/ \E schema \in disk["schema"].text :
          Set(self, [process[self] EXCEPT !.pc = "Loading_Binding", !.read = {schema}]) /\ Local

load_binding(self) ==
  /\ process[self].pc = "Loading_Binding"
  /\ \/ disk["binding"].state # "whole" /\ Fail(self)
     \/ \E schema \in process[self].read, binding \in disk["binding"].text :
          LET made(part) == [part |-> part, schema |-> schema, binding |-> binding]
          IN  IF validate_binding(binding, schema)
                THEN Set(self, Ready(process[self], <<made("spec"), made("body")>>)) /\ Local
                ELSE Fail(self)

-----------------------------------------------------------------------------

Output(self) == Outputs(process[self].program)[process[self].next]
Text(self) == process[self].made[process[self].next]

(* After an output: a run that writes looks at its outputs when it ends. *)
Next_Output(p, files) ==
  IF p.next < Len(p.made)
    THEN [p EXCEPT !.pc = IF p.check THEN "Comparing" ELSE "Opening", !.next = p.next + 1]
    ELSE [Idle EXCEPT !.check = p.check, !.passed = TRUE, !.crowded = p.crowded,
                      !.held = IF p.check THEN p.held ELSE Match(p, files)]

(* Mutant: only that there is a file is asked. *)
Existing_compare(self) ==
  /\ process[self].pc = "Comparing"
  /\ IF disk[Output(self)].state = "whole" THEN Set(self, Next_Output(process[self], disk)) /\ Local ELSE Fail(self)

compare(self) ==
  /\ process[self].pc = "Comparing"
  /\ IF disk[Output(self)] = Whole(Text(self)) THEN Set(self, Next_Output(process[self], disk)) /\ Local ELSE Fail(self)

(* Opening empties what is there, a killed run's or another run's. *)
open_temporary(self) ==
  /\ process[self].pc = "Opening"
  /\ temporary' = [temporary EXCEPT ![Output(self)] = Empty]
  /\ Set(self, [process[self] EXCEPT !.pc = "Writing", !.file = "temporary"])
  /\ UNCHANGED <<inputs, disk, starts, edits>>

(* A text is written over what is there, from the start, in one call. *)
Written(file, text) ==
  IF file \in {Empty, Whole(text)} THEN {Whole(text)} ELSE {Whole(text), Partial}

(* Who compares when a file changes is noted to have seen it. *)
Seeing(p, files) ==
  IF p.pc = "Comparing" THEN [p EXCEPT !.held = @ \/ Match(p, files)] ELSE p

(* What is written goes where the file that was opened is now. *)
write_temporary(self) ==
  /\ process[self].pc = "Writing"
  /\ LET written == [process[self] EXCEPT !.pc = "Replacing", !.file = "none"]
     IN  \/ /\ process[self].file = "temporary"
            /\ \E file \in Written(temporary[Output(self)], Text(self)) :
                 temporary' = [temporary EXCEPT ![Output(self)] = file]
            /\ Set(self, written) /\ UNCHANGED disk
         \/ /\ process[self].file = "disk"
            /\ \E file \in Written(disk[Output(self)], Text(self)) :
                 disk' = [disk EXCEPT ![Output(self)] = file]
            /\ process' = [p \in Processes |-> IF p = self THEN written ELSE Seeing(process[p], disk')]
            /\ UNCHANGED temporary
         \/ /\ process[self].file = "gone"
            /\ Set(self, written) /\ UNCHANGED <<disk, temporary>>
  /\ UNCHANGED <<inputs, starts, edits>>

(* A file that is put in place is so for whoever has it open; the one that *)
(* was there has no name any more.                                         *)
Displaced(p, output) ==
  IF p.pc = "Writing" /\ Outputs(p.program)[p.next] = output
    THEN [p EXCEPT !.file = IF @ = "temporary" THEN "disk" ELSE "gone"]
    ELSE p

replace(self) ==
  /\ process[self].pc = "Replacing"
  /\ \/ temporary[Output(self)] = Absent /\ Fail(self)
     \/ /\ temporary[Output(self)] # Absent
        /\ disk' = [disk EXCEPT ![Output(self)] = temporary[Output(self)]]
        /\ temporary' = [temporary EXCEPT ![Output(self)] = Absent]
        /\ process' = [p \in Processes |->
             IF p = self THEN Next_Output(process[p], disk')
                         ELSE Displaced(Seeing(process[p], disk'), Output(self))]
        /\ UNCHANGED <<inputs, starts, edits>>

(* A full disk, a signal, the end of the machine. *)
Stop(self) == process[self].pc # "Ended" /\ Fail(self)

Edit ==
  /\ edits < MaxEdits /\ edits' = edits + 1
  /\ \/ \E o \in New_Overlays : inputs' = [inputs EXCEPT !.overlay = o]
     \/ \E d \in New_Documents : inputs' = [inputs EXCEPT !.document = d]
     \/ \E c \in Checkers : inputs' = [inputs EXCEPT !.checker = c]
  /\ UNCHANGED <<disk, temporary, process, starts>>

Next ==
  \/ \E self \in Processes :
       \/ Start(self)
       \/ import_checker(self)
       \/ load_checked(self)
       \/ lower(self)
       \/ load_schema(self)
       \/ load_binding(self)
       \/ compare(self)
       \/ open_temporary(self)
       \/ write_temporary(self)
       \/ replace(self)
       \/ Stop(self)
  \/ Edit

Spec == Init /\ [][Next]_vars

-----------------------------------------------------------------------------

Made_Together == {<<Schema(o), Binding(o)>> : o \in Overlays}

(* Whatever run is killed or overlaps another, and whatever is edited      *)
(* while another reads: what a provenance report says is a document the    *)
(* reviewed checker admits, an overlay, and the schema that is made of     *)
(* them; and a specification or a body is of a schema and a binding that   *)
(* were made together.                                                     *)
ArtifactsAreTrue ==
  /\ \A v \in disk["provenance"].text :
       /\ v.type_ir_profile \in v.type_ir.profiles
       /\ v.type_ir_profile = "fixture_shape" => v.type_ir = Fixture
       /\ v.overlay.semantic = v.type_ir.semantic /\ v.wire_schema_fingerprint = Schema(v.overlay)
  /\ \A f \in {"spec", "body"} : \A ada \in disk[f].text :
       ada.part = f /\ <<ada.schema, ada.binding>> \in Made_Together

(* The wire admits the values of the Ada type, of all that makes it up,    *)
(* and no others, unless the overlay is for another record.                *)
LoweredIsExact ==
  \A v \in disk["provenance"].text :
    Exact([schema |-> v.wire_schema_fingerprint, binding |-> Binding(v.overlay)], v.type_ir.program)

(* A run that ends well and was not crowded has not put together outputs   *)
(* of different times.  If it wrote, they are all what it made when it     *)
(* ends; with --check they all were what it says at one moment of it.      *)
UncrowdedRunWasTrue ==
  \A p \in Processes : process[p].passed /\ ~ process[p].crowded => process[p].held

(* The decision on the adapter says of writing through a temporary file    *)
(* and replacing that no artifact is ever partially written.               *)
NeverPartiallyWritten ==
  \A f \in Files : disk[f].state \in {"absent", "whole"}

=============================================================================
