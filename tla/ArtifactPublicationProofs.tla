---------------------- MODULE ArtifactPublicationProofs ----------------------
(***************************************************************************)
(* What is put into the outputs belongs together, and what a run that was  *)
(* not crowded says of them held at one moment: for any number of          *)
(* processes, of runs and of edits, whatever the inputs may be.            *)
(***************************************************************************)
EXTENDS ArtifactPublication, TLAPS

-----------------------------------------------------------------------------

(* The inductive invariant. *)

Programs == {"adapter", "generator"}
Writing == {"Opening", "Writing", "Replacing"}
Publishing == Writing \cup {"Comparing"}

(* A record with the fields of a process. *)
Formed(p) ==
  p = [pc |-> p.pc, program |-> p.program, check |-> p.check, profile |-> p.profile, copied |-> p.copied,
       read |-> p.read, made |-> p.made, next |-> p.next, file |-> p.file, passed |-> p.passed,
       held |-> p.held, crowded |-> p.crowded]

(* A document that the reviewed checker lets a profile have. *)
Reviewed(document, profile) ==
  /\ document \in Documents /\ profile \in document.profiles
  /\ profile = "fixture_shape" => document = Fixture

Lowered(made) ==
  \E o \in Overlays, d \in Documents, profile \in Profiles :
    /\ Reviewed(d, profile) /\ lower_checked(d, profile, o) # {}
    /\ made = <<Schema(o), Binding(o), Provenance(d, profile, o)>>

Ada(part, schema, binding) == [part |-> part, schema |-> schema, binding |-> binding]
Generated(made) ==
  \E o \in Overlays :
    made = <<Ada("spec", Schema(o), Binding(o)), Ada("body", Schema(o), Binding(o))>>

Made(p) == IF p.program = "adapter" THEN Lowered(p.made) ELSE Generated(p.made)

(* Where a process of each program can be. *)
Steps(program) ==
  {"Ended"} \cup Publishing \cup
    IF program = "adapter" THEN {"Attesting", "Checking", "Lowering"} ELSE {"Loading_Schema", "Loading_Binding"}

Well(p) ==
  /\ Formed(p) /\ p.program \in Programs /\ p.pc \in Steps(p.program)
  /\ p.check \in BOOLEAN /\ p.passed \in BOOLEAN /\ p.held \in BOOLEAN /\ p.crowded \in BOOLEAN
  /\ p.profile \in Profiles /\ "other" \notin p.copied
  /\ p.pc = "Lowering" => \A d \in p.read : Reviewed(d, p.profile)
  /\ p.pc \in Publishing => Made(p) /\ p.next \in DOMAIN Outputs(p.program)
  /\ p.pc \in Writing => ~ p.check
  /\ p.pc = "Comparing" => p.check
  /\ p.pc \notin {"Ended", "Comparing"} \cup Writing => p.next = 1
  /\ p.passed => p.pc = "Ended" /\ (p.crowded \/ p.held)

(* What a file may have in it. *)
Proper(f, text) ==
  \/ f = "schema" /\ \E o \in Overlays : text = Schema(o)
  \/ f = "binding" /\ \E o \in Overlays : text = Binding(o)
  \/ /\ f = "provenance"
     /\ \E o \in Overlays, d \in Documents, profile \in Profiles :
          Reviewed(d, profile) /\ lower_checked(d, profile, o) # {} /\ text = Provenance(d, profile, o)
  \/ f \in {"spec", "body"} /\ \E o \in Overlays : text = Ada(f, Schema(o), Binding(o))

Kept(file, f) == \A text \in file.text : Proper(f, text)

Read_Inputs ==
  /\ inputs = [overlay |-> inputs.overlay, document |-> inputs.document, checker |-> inputs.checker]
  /\ inputs.overlay \in Overlays /\ inputs.document \in Documents

Shaped_State ==
  /\ process = [p \in Processes |-> process[p]] /\ \A p \in Processes : Well(process[p])
  /\ disk = [f \in Files |-> disk[f]] /\ temporary = [f \in Files |-> temporary[f]]
  /\ \A f \in Files : Kept(disk[f], f) /\ Kept(temporary[f], f)

(* A run that is not crowded has no other writer beside it, if it writes,  *)
(* and none that is crowded.                                               *)
Alone ==
  \A p, q \in Processes :
    /\ p # q /\ process[p].pc # "Ended" /\ process[q].pc # "Ended" /\ ~ process[p].check
    /\ process[p].program = process[q].program /\ (process[p].crowded \/ ~ process[q].check)
    => process[q].crowded

(* What is put in next, and what was put in before it. *)
Replaced(p, files) ==
  \A i \in 1 .. p.next - 1 : files[Outputs(p.program)[i]] = Whole(p.made[i])

Progress ==
  \A p \in Processes : ~ process[p].crowded =>
    /\ process[p].pc = "Writing" => process[p].file = "temporary" /\ temporary[Output(p)] = Empty
    /\ process[p].pc = "Replacing" => temporary[Output(p)] = Whole(Text(p))
    /\ process[p].pc \in Writing => Replaced(process[p], disk)

(* An output a run with --check has not come to yet is not what it says.   *)
Differs(p, files) ==
  \E i \in DOMAIN Outputs(p.program) :
    i >= p.next /\ files[Outputs(p.program)[i]] # Whole(p.made[i])

Suspicion ==
  \A p \in Processes :
    process[p].pc = "Comparing" /\ ~ process[p].held /\ ~ process[p].crowded => Differs(process[p], disk)

IInv == Read_Inputs /\ Shaped_State /\ Alone /\ Progress /\ Suspicion

-----------------------------------------------------------------------------

(* Processes and files. *)

LEMMA Cases ==
  /\ Files = {"schema", "binding", "provenance", "spec", "body"}
  /\ \A program \in Programs : \A i \in DOMAIN Outputs(program) : Outputs(program)[i] \in Files
  /\ DOMAIN Outputs("adapter") = 1 .. 3 /\ DOMAIN Outputs("generator") = 1 .. 2
  /\ \A x, y \in Programs : \A i \in DOMAIN Outputs(x), j \in DOMAIN Outputs(y) :
       Outputs(x)[i] = Outputs(y)[j] => x = y /\ i = j
BY DEF Files, Outputs, Programs

(* The state of one process is replaced, and of no other. *)
LEMMA SetProcess ==
  ASSUME NEW self \in Processes, NEW state, Set(self, state), process = [p \in Processes |-> process[p]]
  PROVE  /\ process' = [p \in Processes |-> process'[p]]
         /\ process'[self] = state
         /\ \A p \in Processes : p # self => process'[p] = process[p]
BY DEF Set

LEMMA SetFile ==
  ASSUME NEW files, files = [f \in Files |-> files[f]], NEW file \in Files, NEW state,
         NEW after, after = [files EXCEPT ![file] = state]
  PROVE  /\ after = [f \in Files |-> after[f]]
         /\ after[file] = state
         /\ \A f \in Files : f # file => after[f] = files[f]
OBVIOUS

LEMMA IdleIsWell == Well(Idle) /\ Idle.pc = "Ended" /\ ~ Idle.passed
<1>1. Formed(Idle)
  BY DEF Formed, Idle
<1>2. /\ Idle.program \in Programs /\ Idle.pc = "Ended" /\ Idle.check = FALSE /\ Idle.passed = FALSE
      /\ Idle.held = FALSE /\ Idle.crowded = FALSE /\ Idle.profile \in Profiles /\ Idle.copied = {} /\ Idle.next = 1
  BY DEF Idle, Programs, Profiles
<1> QED BY <1>1, <1>2 DEF Well, Steps, Publishing, Writing

(* What is made determines what is made before it. *)
LEMMA MadeTogether ==
  ASSUME NEW p, NEW q, Made(p), Made(q), p.program = q.program, p.program \in Programs,
         NEW k \in DOMAIN Outputs(p.program), p.made[k] = q.made[k],
         NEW j \in DOMAIN Outputs(p.program), j <= k
  PROVE  p.made[j] = q.made[j]
<1>1. CASE p.program = "adapter"
  <2> PICK o \in Overlays, d \in Documents, x \in Profiles :
             p.made = <<Schema(o), Binding(o), Provenance(d, x, o)>>
    BY <1>1 DEF Made, Lowered
  <2> PICK u \in Overlays, e \in Documents, y \in Profiles :
             q.made = <<Schema(u), Binding(u), Provenance(e, y, u)>>
    BY <1>1 DEF Made, Lowered
  <2>1. Binding(o) = Binding(u) => Schema(o) = Schema(u)
    BY DEF Binding
  <2>2. Provenance(d, x, o) = Provenance(e, y, u) => o = u
    BY DEF Provenance
  <2> QED BY <1>1, <2>1, <2>2, Cases
<1>2. CASE p.program = "generator"
  <2> PICK o \in Overlays : p.made = <<Ada("spec", Schema(o), Binding(o)), Ada("body", Schema(o), Binding(o))>>
    BY <1>2 DEF Made, Generated
  <2> PICK u \in Overlays : q.made = <<Ada("spec", Schema(u), Binding(u)), Ada("body", Schema(u), Binding(u))>>
    BY <1>2 DEF Made, Generated
  <2>1. \A part, other : Ada(part, Schema(o), Binding(o)) = Ada(other, Schema(u), Binding(u)) =>
          Schema(o) = Schema(u) /\ Binding(o) = Binding(u)
    BY DEF Ada
  <2> QED BY <1>2, <2>1, Cases
<1> QED BY <1>1, <1>2 DEF Programs

(* What is made is proper where it is put. *)
LEMMA MadeIsProper ==
  ASSUME NEW p, Made(p), p.program \in Programs, NEW i \in DOMAIN Outputs(p.program)
  PROVE  /\ Proper(Outputs(p.program)[i], p.made[i]) /\ DOMAIN p.made = DOMAIN Outputs(p.program)
         /\ Len(p.made) = Len(Outputs(p.program)) /\ DOMAIN Outputs(p.program) = 1 .. Len(p.made)
         /\ Len(p.made) \in Nat
<1>1. CASE p.program = "adapter"
  <2> PICK o \in Overlays, d \in Documents, x \in Profiles :
             /\ Reviewed(d, x) /\ lower_checked(d, x, o) # {}
             /\ p.made = <<Schema(o), Binding(o), Provenance(d, x, o)>>
    BY <1>1 DEF Made, Lowered
  <2> QED BY <1>1 DEF Outputs, Proper
<1>2. CASE p.program = "generator"
  <2> PICK o \in Overlays : p.made = <<Ada("spec", Schema(o), Binding(o)), Ada("body", Schema(o), Binding(o))>>
    BY <1>2 DEF Made, Generated
  <2> QED BY <1>2 DEF Outputs, Proper
<1> QED BY <1>1, <1>2 DEF Programs

-----------------------------------------------------------------------------

(* What an update of a process leaves alone. *)

Keeps(s, p) ==
  /\ Formed(s) /\ s.program = p.program /\ s.check = p.check /\ s.profile = p.profile
  /\ s.passed = p.passed /\ s.crowded = p.crowded

ToFile(p, x, y) == [p EXCEPT !.pc = x, !.file = y]
ToReading(p, x, y) == [p EXCEPT !.pc = x, !.read = y]
ToCopied(p, x, y) == [p EXCEPT !.pc = x, !.copied = y]
ToNext(p, x, y) == [p EXCEPT !.pc = x, !.next = y]
ToMade(p, x, y, z) == [p EXCEPT !.pc = x, !.made = y, !.read = z]
WithHeld(p, x) == [p EXCEPT !.held = x]
WithFile(p, x) == [p EXCEPT !.file = x]
Crowded(p) == [p EXCEPT !.crowded = TRUE]
Done(check, crowded, held) ==
  [Idle EXCEPT !.check = check, !.passed = TRUE, !.crowded = crowded, !.held = held]

LEMMA MovedFile ==
  ASSUME NEW p, Formed(p), NEW x, NEW y, NEW s, s = ToFile(p, x, y)
  PROVE  /\ Keeps(s, p) /\ s.pc = x /\ s.copied = p.copied /\ s.read = p.read
         /\ s.made = p.made /\ s.next = p.next /\ s.file = y /\ s.held = p.held
BY Zenon DEF Keeps, Formed, ToFile

LEMMA MovedReading ==
  ASSUME NEW p, Formed(p), NEW x, NEW y, NEW s, s = ToReading(p, x, y)
  PROVE  /\ Keeps(s, p) /\ s.pc = x /\ s.copied = p.copied /\ s.read = y
         /\ s.made = p.made /\ s.next = p.next /\ s.held = p.held
BY Zenon DEF Keeps, Formed, ToReading

LEMMA MovedCopied ==
  ASSUME NEW p, Formed(p), NEW x, NEW y, NEW s, s = ToCopied(p, x, y)
  PROVE  /\ Keeps(s, p) /\ s.pc = x /\ s.copied = y /\ s.read = p.read
         /\ s.made = p.made /\ s.next = p.next /\ s.held = p.held
BY Zenon DEF Keeps, Formed, ToCopied

LEMMA MovedNext ==
  ASSUME NEW p, Formed(p), NEW x, NEW y, NEW s, s = ToNext(p, x, y)
  PROVE  /\ Keeps(s, p) /\ s.pc = x /\ s.copied = p.copied /\ s.read = p.read
         /\ s.made = p.made /\ s.next = y /\ s.held = p.held
BY Zenon DEF Keeps, Formed, ToNext

LEMMA MovedMade ==
  ASSUME NEW p, Formed(p), NEW x, NEW y, NEW z, NEW s, s = ToMade(p, x, y, z)
  PROVE  /\ Keeps(s, p) /\ s.pc = x /\ s.copied = p.copied /\ s.read = z
         /\ s.made = y /\ s.next = p.next /\ s.held = p.held
BY Zenon DEF Keeps, Formed, ToMade

LEMMA NowHeld ==
  ASSUME NEW p, Formed(p), NEW x, NEW s, s = WithHeld(p, x)
  PROVE  /\ Keeps(s, p) /\ s.pc = p.pc /\ s.copied = p.copied /\ s.read = p.read
         /\ s.made = p.made /\ s.next = p.next /\ s.held = x
BY Zenon DEF Keeps, Formed, WithHeld

LEMMA NowElsewhere ==
  ASSUME NEW p, Formed(p), NEW x, NEW s, s = WithFile(p, x)
  PROVE  /\ Keeps(s, p) /\ s.pc = p.pc /\ s.copied = p.copied /\ s.read = p.read
         /\ s.made = p.made /\ s.next = p.next /\ s.held = p.held
BY Zenon DEF Keeps, Formed, WithFile

LEMMA NowCrowded ==
  ASSUME NEW p, Formed(p), NEW s, s = Crowded(p)
  PROVE  /\ Formed(s) /\ s.program = p.program /\ s.check = p.check /\ s.profile = p.profile
         /\ s.passed = p.passed /\ s.pc = p.pc /\ s.copied = p.copied /\ s.read = p.read
         /\ s.made = p.made /\ s.next = p.next /\ s.held = p.held /\ s.crowded
BY Zenon DEF Formed, Crowded

(* What the step of one process does to another. *)
Similar(s, p) ==
  /\ Formed(s) /\ s.program = p.program /\ s.check = p.check /\ s.profile = p.profile
  /\ s.passed = p.passed /\ s.pc = p.pc /\ s.copied = p.copied /\ s.read = p.read
  /\ s.made = p.made /\ s.next = p.next
  /\ s.held \in BOOLEAN /\ s.crowded \in BOOLEAN /\ (p.held => s.held) /\ (p.crowded => s.crowded)

LEMMA SimilarIsWell ==
  ASSUME NEW p, Well(p), NEW s, Similar(s, p)
  PROVE  Well(s)
<1>1. Made(s) <=> Made(p)
  BY DEF Made, Similar
<1> QED BY <1>1, Zenon DEF Well, Similar

(* A process that sees a file change, or what it has open put in place. *)
LEMMA SeeingIs ==
  ASSUME NEW p, Well(p), NEW files, NEW output, NEW s,
         s \in {Seeing(p, files), Displaced(Seeing(p, files), output)}
  PROVE  /\ Similar(s, p) /\ s.crowded = p.crowded
         /\ p.pc = "Comparing" => s.held = (p.held \/ Match(p, files))
         /\ p.pc # "Comparing" /\ ~ (p.pc = "Writing" /\ Outputs(p.program)[p.next] = output) => s = p
<1>1. Formed(p) /\ p.held \in BOOLEAN /\ p.crowded \in BOOLEAN
  BY DEF Well
<1>2. CASE p.pc = "Comparing"
  <2> PICK h : h = (p.held \/ Match(p, files))
    OBVIOUS
  <2> PICK t : t = WithHeld(p, h)
    OBVIOUS
  <2>1. Seeing(p, files) = t
    BY <1>2 DEF Seeing, WithHeld
  <2>2. /\ Keeps(t, p) /\ t.pc = p.pc /\ t.copied = p.copied /\ t.read = p.read
        /\ t.made = p.made /\ t.next = p.next /\ t.held = h
    BY <1>1, NowHeld
  <2>3. Displaced(t, output) = t
    BY <1>2, <2>2 DEF Displaced
  <2>4. s = t
    BY <2>1, <2>3
  <2>5. h \in BOOLEAN /\ (p.held => h)
    OBVIOUS
  <2> QED BY <1>1, <1>2, <2>2, <2>4, <2>5, Zenon DEF Similar, Keeps
<1>3. CASE p.pc # "Comparing"
  <2>1. Seeing(p, files) = p
    BY <1>3 DEF Seeing
  <2>2. CASE s = p
    BY <1>1, <1>3, <2>2, Zenon DEF Similar
  <2>3. CASE s # p
    <3>1. s = Displaced(p, output) /\ p.pc = "Writing" /\ Outputs(p.program)[p.next] = output
      BY <2>1, <2>3 DEF Displaced
    <3> PICK y : y = IF p.file = "temporary" THEN "disk" ELSE "gone"
      OBVIOUS
    <3>2. s = WithFile(p, y)
      BY <3>1 DEF Displaced, WithFile
    <3>3. /\ Keeps(s, p) /\ s.pc = p.pc /\ s.copied = p.copied /\ s.read = p.read
          /\ s.made = p.made /\ s.next = p.next /\ s.held = p.held
      BY <1>1, <3>2, NowElsewhere
    <3> QED BY <1>1, <1>3, <3>1, <3>3, Zenon DEF Similar, Keeps
  <2> QED BY <2>2, <2>3
<1> QED BY <1>2, <1>3

-----------------------------------------------------------------------------

(* A step of one process that touches no file.                             *)

Continues(s, p) ==
  \/ s.pc = "Ended"
  \/ p.pc # "Ended" /\ s.program = p.program /\ s.check = p.check /\ s.crowded = p.crowded

LEMMA LocalStep ==
  ASSUME IInv, NEW self \in Processes, NEW s, Set(self, s), Local, Well(s),
         Continues(s, process[self]), s.pc \in {"Writing", "Replacing"} => s.crowded,
         s.pc \in Writing /\ ~ s.crowded => Replaced(s, disk),
         s.pc = "Comparing" /\ ~ s.held /\ ~ s.crowded => Differs(s, disk)
  PROVE  IInv'
<1>1. /\ process' = [p \in Processes |-> process'[p]] /\ process'[self] = s
      /\ \A p \in Processes : p # self => process'[p] = process[p]
  BY SetProcess DEF IInv, Shaped_State
<1>2. UNCHANGED <<inputs, disk, temporary>>
  BY DEF Local
<1>3. Read_Inputs'
  BY <1>2 DEF IInv, Read_Inputs
<1>4. Shaped_State'
  <2>1. \A p \in Processes : Well(process'[p])
    BY <1>1 DEF IInv, Shaped_State
  <2>2. /\ disk' = [f \in Files |-> disk'[f]] /\ temporary' = [f \in Files |-> temporary'[f]]
        /\ \A f \in Files : Kept(disk'[f], f) /\ Kept(temporary'[f], f)
    BY <1>2 DEF IInv, Shaped_State
  <2> QED BY <1>1, <2>1, <2>2 DEF Shaped_State
<1>5. Alone'
  <2> SUFFICES ASSUME NEW p \in Processes, NEW q \in Processes, p # q,
                      process'[p].pc # "Ended", process'[q].pc # "Ended", ~ process'[p].check,
                      process'[p].program = process'[q].program,
                      process'[p].crowded \/ ~ process'[q].check
               PROVE  process'[q].crowded
    BY Zenon DEF Alone
  <2> QED BY <1>1 DEF IInv, Alone, Continues
<1>6. Progress'
  <2> SUFFICES ASSUME NEW p \in Processes, ~ process'[p].crowded
               PROVE  /\ process'[p].pc = "Writing" =>
                           process'[p].file = "temporary" /\ temporary'[Output(p)'] = Empty
                      /\ process'[p].pc = "Replacing" => temporary'[Output(p)'] = Whole(Text(p)')
                      /\ process'[p].pc \in Writing => Replaced(process'[p], disk')
    BY Zenon DEF Progress
  <2>1. CASE p = self
    BY <1>1, <1>2, <2>1
  <2>2. CASE p # self
    BY <1>1, <1>2, <2>2 DEF IInv, Progress, Output, Text
  <2> QED BY <2>1, <2>2
<1>7. Suspicion'
  <2> SUFFICES ASSUME NEW p \in Processes, process'[p].pc = "Comparing", ~ process'[p].held, ~ process'[p].crowded
               PROVE  Differs(process'[p], disk')
    BY Zenon DEF Suspicion
  <2> QED BY <1>1, <1>2 DEF IInv, Suspicion
<1> QED BY <1>3, <1>4, <1>5, <1>6, <1>7 DEF IInv

(* Where a process is, by its program. *)
LEMMA OfInvariant ==
  ASSUME IInv, NEW self \in Processes
  PROVE  /\ Well(process[self]) /\ Formed(process[self])
         /\ process[self].program \in Programs /\ process[self].profile \in Profiles
         /\ process[self].pc \in {"Attesting", "Checking", "Lowering"} => process[self].program = "adapter"
         /\ process[self].pc \in {"Loading_Schema", "Loading_Binding"} => process[self].program = "generator"
         /\ process[self].pc \in Publishing => process[self].next \in DOMAIN Outputs(process[self].program)
<1>1. Well(process[self])
  BY DEF IInv, Shaped_State
<1>2. /\ Formed(process[self]) /\ process[self].program \in Programs /\ process[self].profile \in Profiles
      /\ process[self].pc \in Steps(process[self].program)
      /\ process[self].pc \in Publishing => process[self].next \in DOMAIN Outputs(process[self].program)
  BY <1>1 DEF Well
<1> QED BY <1>1, <1>2 DEF Programs, Steps, Publishing, Writing

LEMMA FailStep ==
  ASSUME IInv, NEW self \in Processes, Fail(self)
  PROVE  IInv'
<1>1. Well(Idle) /\ Idle.pc = "Ended"
  BY IdleIsWell
<1>2. Set(self, Idle) /\ Local /\ Continues(Idle, process[self])
  BY <1>1 DEF Fail, Continues
<1>3. Idle.pc \notin Writing /\ Idle.pc # "Comparing" /\ Idle.pc \notin {"Writing", "Replacing"}
  BY <1>1 DEF Writing
<1> QED BY <1>1, <1>2, <1>3, LocalStep, Zenon

(* A step of one process before it publishes. *)
LEMMA ReadingStep ==
  ASSUME IInv, NEW self \in Processes, NEW s, Set(self, s), Local, Keeps(s, process[self]),
         s.held = process[self].held, s.next = process[self].next,
         process[self].pc \in {"Attesting", "Checking", "Loading_Schema"},
         s.pc \in {"Checking", "Lowering", "Loading_Binding"}, s.pc \in Steps(process[self].program),
         "other" \notin s.copied,
         s.pc = "Lowering" => \A d \in s.read : Reviewed(d, process[self].profile)
  PROVE  IInv'
<1>1. Well(process[self])
  BY OfInvariant
<1>2. process[self].next = 1 /\ ~ process[self].passed
  BY <1>1 DEF Well, Writing
<1>3. Well(s)
  BY <1>1, <1>2 DEF Well, Keeps, Publishing, Writing
<1>4. Continues(s, process[self])
  BY DEF Continues, Keeps
<1>5. s.pc \notin Writing /\ s.pc # "Comparing" /\ s.pc \notin {"Writing", "Replacing"}
  BY DEF Writing
<1> QED BY <1>3, <1>4, <1>5, LocalStep, Zenon

LEMMA ImportStep ==
  ASSUME IInv, NEW self \in Processes, import_checker(self)
  PROVE  IInv'
<1>1. CASE inputs.checker = "reviewed"
  <2> PICK s : s = ToCopied(process[self], "Checking", {inputs.checker})
    OBVIOUS
  <2>1. Set(self, s) /\ Local /\ process[self].pc = "Attesting"
    BY <1>1 DEF import_checker, ToCopied
  <2>2. /\ Keeps(s, process[self]) /\ s.pc = "Checking" /\ s.copied = {inputs.checker}
        /\ s.next = process[self].next /\ s.held = process[self].held
    <3>1. Formed(process[self])
      BY OfInvariant
    <3> QED BY <3>1, MovedCopied
  <2>3. "other" \notin s.copied
    BY <1>1, <2>2
  <2>4. s.pc \in Steps(process[self].program)
    BY <2>1, <2>2, OfInvariant DEF Steps
  <2> QED BY <2>1, <2>2, <2>3, <2>4, ReadingStep
<1>2. CASE inputs.checker # "reviewed"
  BY <1>2, FailStep DEF import_checker
<1> QED BY <1>1, <1>2

LEMMA LoadCheckedStep ==
  ASSUME IInv, NEW self \in Processes, load_checked(self)
  PROVE  IInv'
<1>1. CASE Admitted(process[self], inputs.document)
  <2> PICK s : s = ToReading(process[self], "Lowering", {inputs.document})
    OBVIOUS
  <2>1. Set(self, s) /\ Local /\ process[self].pc = "Checking"
    BY <1>1 DEF load_checked, ToReading
  <2>2. /\ Keeps(s, process[self]) /\ s.pc = "Lowering" /\ s.copied = process[self].copied
        /\ s.read = {inputs.document} /\ s.next = process[self].next /\ s.held = process[self].held
    <3>1. Formed(process[self])
      BY OfInvariant
    <3> QED BY <3>1, MovedReading
  <2>3. "other" \notin process[self].copied
    BY OfInvariant DEF Well
  <2>4. Reviewed(inputs.document, process[self].profile)
    BY <1>1, <2>3 DEF Admitted, Reviewed, IInv, Read_Inputs
  <2>5. s.pc \in Steps(process[self].program)
    BY <2>1, <2>2, OfInvariant DEF Steps
  <2> QED BY <2>1, <2>2, <2>3, <2>4, <2>5, ReadingStep
<1>2. CASE ~ Admitted(process[self], inputs.document)
  BY <1>2, FailStep DEF load_checked
<1> QED BY <1>1, <1>2

LEMMA LoadSchemaStep ==
  ASSUME IInv, NEW self \in Processes, load_schema(self)
  PROVE  IInv'
<1>1. CASE Fail(self)
  BY <1>1, FailStep
<1>2. ASSUME NEW schema, Set(self, [process[self] EXCEPT !.pc = "Loading_Binding", !.read = {schema}]), Local
      PROVE  IInv'
  <2> PICK s : s = ToReading(process[self], "Loading_Binding", {schema})
    OBVIOUS
  <2>1. Set(self, s) /\ Local /\ process[self].pc = "Loading_Schema"
    BY <1>2 DEF load_schema, ToReading
  <2>2. /\ Keeps(s, process[self]) /\ s.pc = "Loading_Binding" /\ s.copied = process[self].copied
        /\ s.next = process[self].next /\ s.held = process[self].held
    <3>1. Formed(process[self])
      BY OfInvariant
    <3> QED BY <3>1, MovedReading
  <2>3. "other" \notin process[self].copied
    BY OfInvariant DEF Well
  <2>4. s.pc \in Steps(process[self].program)
    BY <2>1, <2>2, OfInvariant DEF Steps
  <2> QED BY <2>1, <2>2, <2>3, <2>4, ReadingStep
<1> QED BY <1>1, <1>2 DEF load_schema

(* Before the first output. *)
LEMMA ReadyIs ==
  ASSUME NEW p, Formed(p), p.check \in BOOLEAN, NEW made, NEW s, s = Ready(p, made)
  PROVE  /\ Keeps(s, p) /\ s.pc = (IF p.check THEN "Comparing" ELSE "Opening")
         /\ s.copied = p.copied /\ s.made = made /\ s.next = p.next
         /\ s.held \in BOOLEAN /\ s.held = (p.check /\ Match(s, disk))
<1> PICK x : x = IF p.check THEN "Comparing" ELSE "Opening"
  OBVIOUS
<1> PICK r : r = ToMade(p, x, made, {})
  OBVIOUS
<1>1. /\ Keeps(r, p) /\ r.pc = x /\ r.copied = p.copied /\ r.made = made /\ r.next = p.next
      /\ Formed(r)
  BY MovedMade DEF Keeps
<1> PICK held : held = (p.check /\ Match(r, disk))
  OBVIOUS
<1>2. s = WithHeld(r, held)
  BY DEF Ready, ToMade, WithHeld
<1>3. /\ Keeps(s, r) /\ s.pc = r.pc /\ s.copied = r.copied /\ s.made = r.made /\ s.next = r.next
      /\ s.held = held
  BY <1>1, <1>2, NowHeld, SMTT(60)
<1>4. Match(s, disk) = Match(r, disk)
  BY <1>1, <1>3 DEF Match, Keeps
<1>5. held \in BOOLEAN
  OBVIOUS
<1>6. Keeps(s, p)
  BY <1>1, <1>3 DEF Keeps
<1>7. s.held = (p.check /\ Match(s, disk))
  BY <1>3, <1>4, Zenon
<1> QED BY <1>1, <1>3, <1>5, <1>6, <1>7

LEMMA ReadyStep ==
  ASSUME IInv, NEW self \in Processes, NEW made, Set(self, Ready(process[self], made)), Local,
         process[self].pc \in {"Lowering", "Loading_Binding"},
         process[self].program = "adapter" => Lowered(made),
         process[self].program = "generator" => Generated(made)
  PROVE  IInv'
<1> PICK p : p = process[self]
  OBVIOUS
<1> PICK s : s = Ready(p, made)
  OBVIOUS
<1>1. Well(p) /\ Formed(p)
  BY OfInvariant
<1>2. /\ p.check \in BOOLEAN /\ p.next = 1 /\ ~ p.passed /\ p.program \in Programs /\ p.profile \in Profiles
      /\ "other" \notin p.copied /\ p.crowded \in BOOLEAN
  BY <1>1 DEF Well, Writing
<1>3. /\ Keeps(s, p) /\ s.pc = (IF p.check THEN "Comparing" ELSE "Opening")
      /\ s.copied = p.copied /\ s.made = made /\ s.next = 1 /\ s.held \in BOOLEAN
      /\ s.held = (p.check /\ Match(s, disk))
  BY <1>1, <1>2, ReadyIs
<1>4. Made(s) /\ s.program \in Programs /\ s.check = p.check
  BY <1>2, <1>3 DEF Made, Programs, Keeps
<1>5. 1 \in DOMAIN Outputs(s.program)
  BY <1>4, Cases DEF Programs
<1>6. Well(s)
  <2>1. /\ Formed(s) /\ s.pc \in {"Comparing", "Opening"} /\ s.passed = p.passed /\ s.profile = p.profile
        /\ s.crowded \in BOOLEAN
        /\ s.pc = "Comparing" <=> p.check
    BY <1>2, <1>3 DEF Keeps
  <2>2. s.pc \in Steps(s.program) /\ s.pc \in Publishing
    BY <2>1 DEF Steps, Publishing, Writing
  <2>3. s.check \in BOOLEAN /\ s.passed = FALSE /\ p.passed \in BOOLEAN
    BY <1>1, <1>2, <1>4, <2>1 DEF Well
  <2>4. /\ s.pc # "Lowering" /\ s.pc \notin {"Lowering"} /\ s.pc \in {"Ended", "Comparing"} \cup Writing
        /\ s.pc \in Writing => ~ s.check
        /\ s.pc = "Comparing" => s.check
    BY <1>4, <2>1, <2>3 DEF Writing
  <2> QED BY <1>2, <1>3, <1>4, <1>5, <2>1, <2>2, <2>3, <2>4, Zenon DEF Well
<1>7. s.pc \in Writing => Replaced(s, disk)
  BY <1>3 DEF Replaced
<1>8. s.pc = "Comparing" /\ ~ s.held => Differs(s, disk)
  <2> SUFFICES ASSUME s.pc = "Comparing", ~ s.held, ~ Differs(s, disk)
               PROVE  FALSE
    OBVIOUS
  <2>1. ~ Match(s, disk)
    BY <1>2, <1>3, Zenon
  <2>2. \A i \in DOMAIN Outputs(s.program) : i \in Nat /\ i >= 1
    BY <1>4, Cases DEF Programs
  <2>3. \A i \in DOMAIN Outputs(s.program) : disk[Outputs(s.program)[i]] = Whole(s.made[i])
    BY <1>3, <2>2 DEF Differs
  <2>4. DOMAIN s.made = DOMAIN Outputs(s.program)
    BY <1>4, <1>5, MadeIsProper
  <2> QED BY <2>1, <2>3, <2>4 DEF Match
<1>9. Continues(s, p) /\ s.pc \notin {"Writing", "Replacing"}
  BY <1>3 DEF Continues, Keeps
<1> QED BY <1>6, <1>7, <1>8, <1>9, LocalStep

LEMMA LowerStep ==
  ASSUME IInv, NEW self \in Processes, lower(self)
  PROVE  IInv'
<1>1. CASE Fail(self)
  BY <1>1, FailStep
<1>2. ASSUME NEW document \in process[self].read,
             NEW o \in lower_checked(document, process[self].profile, inputs.overlay),
             Set(self, Ready(process[self], Published(o))), Local
      PROVE  IInv'
  <2>1. process[self].pc = "Lowering" /\ process[self].program = "adapter"
    BY OfInvariant DEF lower
  <2>2. Reviewed(document, process[self].profile) /\ process[self].profile \in Profiles
    BY <2>1, OfInvariant DEF Well
  <2>3. /\ lower_checked(document, process[self].profile, inputs.overlay) # {}
        /\ o = [schema |-> Schema(inputs.overlay), binding |-> Binding(inputs.overlay),
                provenance |-> Provenance(document, process[self].profile, inputs.overlay)]
    BY DEF lower_checked
  <2>4. inputs.overlay \in Overlays /\ document \in Documents
    BY <2>2 DEF IInv, Read_Inputs, Reviewed
  <2>5. Lowered(Published(o))
    BY <2>2, <2>3, <2>4 DEF Lowered, Published
  <2> QED BY <1>2, <2>1, <2>5, ReadyStep
<1> QED BY <1>1, <1>2 DEF lower

LEMMA LoadBindingStep ==
  ASSUME IInv, NEW self \in Processes, load_binding(self)
  PROVE  IInv'
<1>1. CASE Fail(self)
  BY <1>1, FailStep
<1>2. ASSUME NEW schema \in process[self].read, NEW binding \in disk["binding"].text,
             validate_binding(binding, schema),
             Set(self, Ready(process[self], <<Ada("spec", schema, binding), Ada("body", schema, binding)>>)), Local
      PROVE  IInv'
  <2>1. process[self].pc = "Loading_Binding" /\ process[self].program = "generator"
    BY OfInvariant DEF load_binding
  <2> PICK o \in Overlays : binding = Binding(o)
    <3>1. Kept(disk["binding"], "binding")
      BY DEF IInv, Shaped_State, Files
    <3> QED BY <3>1 DEF Kept, Proper
  <2>2. schema = Schema(o)
    BY <1>2 DEF validate_binding, Binding
  <2>3. Generated(<<Ada("spec", schema, binding), Ada("body", schema, binding)>>)
    BY <2>2 DEF Generated
  <2> QED BY <1>2, <2>1, <2>3, ReadyStep
<1> QED BY <1>1, <1>2 DEF load_binding, Ada

-----------------------------------------------------------------------------

(* After an output. *)
LEMMA NextIs ==
  ASSUME NEW p, Well(p), p.pc \in {"Comparing", "Replacing"},
         NEW files, NEW s, s = Next_Output(p, files),
         p.next = Len(p.made) /\ ~ p.crowded => IF p.check THEN p.held ELSE Match(p, files)
  PROVE  /\ Well(s) /\ Continues(s, p) /\ s.pc \in {"Ended", "Comparing", "Opening"}
         /\ s.pc # "Ended" => /\ s.pc = (IF p.check THEN "Comparing" ELSE "Opening")
                              /\ s.next = p.next + 1 /\ s.made = p.made /\ s.program = p.program
                              /\ s.held = p.held /\ s.crowded = p.crowded
<1>1. /\ Formed(p) /\ Made(p) /\ p.next \in DOMAIN Outputs(p.program) /\ p.program \in Programs
      /\ p.check \in BOOLEAN /\ p.held \in BOOLEAN /\ p.passed = FALSE /\ p.profile \in Profiles
      /\ "other" \notin p.copied /\ p.crowded \in BOOLEAN
  BY DEF Well, Publishing, Writing
<1>2. DOMAIN Outputs(p.program) = 1 .. Len(p.made) /\ Len(p.made) \in Nat /\ p.next \in Nat
  BY <1>1, MadeIsProper, SMTT(60)
<1>3. CASE p.next < Len(p.made)
  <2> PICK x : x = IF p.check THEN "Comparing" ELSE "Opening"
    OBVIOUS
  <2> PICK y : y = p.next + 1
    OBVIOUS
  <2>1. s = ToNext(p, x, y)
    BY <1>3 DEF Next_Output, ToNext
  <2>2. /\ Keeps(s, p) /\ s.pc = x /\ s.copied = p.copied /\ s.read = p.read
        /\ s.made = p.made /\ s.next = y /\ s.held = p.held
    BY <1>1, <2>1, MovedNext
  <2>3. /\ Formed(s) /\ s.program = p.program /\ s.check = p.check /\ s.profile = p.profile
        /\ s.passed = FALSE /\ s.crowded = p.crowded
    BY <1>1, <2>2 DEF Keeps
  <2>4. s.next \in DOMAIN Outputs(s.program) /\ Made(s)
    BY <1>1, <1>2, <1>3, <2>2, <2>3 DEF Made
  <2>5. /\ s.pc \in Steps(s.program) /\ s.pc \in {"Ended", "Comparing"} \cup Writing /\ s.pc # "Lowering"
        /\ s.pc \in Writing => ~ s.check
        /\ s.pc = "Comparing" => s.check
    BY <1>1, <2>2, <2>3 DEF Steps, Publishing, Writing
  <2>6. Well(s)
    BY <1>1, <2>2, <2>3, <2>4, <2>5, Zenon DEF Well
  <2> QED BY <2>2, <2>3, <2>6 DEF Continues
<1>4. CASE ~ (p.next < Len(p.made))
  <2> PICK held : held = IF p.check THEN p.held ELSE Match(p, files)
    OBVIOUS
  <2>1. s = Done(p.check, p.crowded, held)
    BY <1>4 DEF Next_Output, Done
  <2>2. /\ Formed(s) /\ s.pc = "Ended" /\ s.program = "adapter" /\ s.check = p.check /\ s.profile = "strict"
        /\ s.copied = {} /\ s.next = 1 /\ s.passed = TRUE /\ s.crowded = p.crowded /\ s.held = held
    BY <2>1, ZenonT(60) DEF Done, Idle, Formed
  <2>3. p.next = Len(p.made)
    BY <1>1, <1>2, <1>4
  <2>4. s.crowded \/ s.held
    BY <2>2, <2>3, Zenon
  <2>5. held \in BOOLEAN
    <3>1. Match(p, files) \in BOOLEAN
      BY DEF Match
    <3> QED BY <1>1, <3>1, Zenon
  <2>6. /\ s.program \in Programs /\ s.pc \in Steps(s.program) /\ s.profile \in Profiles /\ s.pc \notin Publishing
        /\ s.pc \notin Writing /\ s.pc \notin {"Lowering", "Comparing"} /\ "other" \notin s.copied
        /\ s.pc \in {"Ended", "Comparing"} \cup Writing
    BY <2>2 DEF Programs, Steps, Publishing, Writing, Profiles
  <2>7. s.held \in BOOLEAN /\ s.passed \in BOOLEAN /\ s.check \in BOOLEAN /\ s.crowded \in BOOLEAN
    BY <1>1, <2>2, <2>5
  <2>8. Well(s)
    BY <2>2, <2>4, <2>6, <2>7, Zenon DEF Well
  <2> QED BY <2>2, <2>8 DEF Continues
<1> QED BY <1>3, <1>4

LEMMA CompareStep ==
  ASSUME IInv, NEW self \in Processes, compare(self)
  PROVE  IInv'
<1> PICK p : p = process[self]
  OBVIOUS
<1> PICK s : s = Next_Output(p, disk)
  OBVIOUS
<1>1. CASE disk[Output(self)] # Whole(Text(self))
  BY <1>1, FailStep DEF compare
<1>2. CASE disk[Output(self)] = Whole(Text(self))
  <2>1. /\ Well(p) /\ p.pc = "Comparing" /\ Set(self, s) /\ Local
        /\ disk[Outputs(p.program)[p.next]] = Whole(p.made[p.next])
    BY <1>2, OfInvariant DEF compare, Output, Text
  <2>2. Made(p) /\ p.next \in DOMAIN Outputs(p.program) /\ p.program \in Programs /\ p.check
    BY <2>1 DEF Well, Publishing
  <2>3. DOMAIN Outputs(p.program) = 1 .. Len(p.made) /\ Len(p.made) \in Nat
    BY <2>2, MadeIsProper
  <2>4. ~ p.held /\ ~ p.crowded => \E i \in DOMAIN Outputs(p.program) :
                     i >= p.next + 1 /\ disk[Outputs(p.program)[i]] # Whole(p.made[i])
    <3>1. ~ p.held /\ ~ p.crowded => Differs(p, disk)
      BY <2>1 DEF IInv, Suspicion
    <3> QED BY <2>1, <2>2, <2>3, <3>1 DEF Differs
  <2>5. p.next = Len(p.made) /\ ~ p.crowded => IF p.check THEN p.held ELSE Match(p, disk)
    BY <2>2, <2>3, <2>4
  <2>6. /\ Well(s) /\ Continues(s, p) /\ s.pc \in {"Ended", "Comparing", "Opening"}
        /\ s.pc # "Ended" => /\ s.pc = "Comparing" /\ s.next = p.next + 1 /\ s.made = p.made
                             /\ s.program = p.program /\ s.held = p.held /\ s.crowded = p.crowded
    BY <2>1, <2>2, <2>5, NextIs
  <2>7. s.pc = "Comparing" /\ ~ s.held /\ ~ s.crowded => Differs(s, disk)
    BY <2>4, <2>6 DEF Differs
  <2>8. s.pc \notin Writing /\ s.pc \notin {"Writing", "Replacing"}
    BY <2>2, <2>6 DEF Writing
  <2> QED BY <2>1, <2>6, <2>7, <2>8, LocalStep
<1> QED BY <1>1, <1>2

(* An active writer that is not crowded is alone with its files. *)
LEMMA OwnFiles ==
  ASSUME IInv, NEW self \in Processes, process[self].pc \in Writing,
         NEW q \in Processes, q # self, process[q].pc \in Writing, ~ process[q].crowded
  PROVE  /\ process[q].program # process[self].program /\ Output(q) \in Files
         /\ process[q].program \in Programs /\ process[self].program \in Programs
         /\ process[q].next \in DOMAIN Outputs(process[q].program)
         /\ process[self].next \in DOMAIN Outputs(process[self].program)
         /\ DOMAIN Outputs(process[q].program) = 1 .. Len(process[q].made)
         /\ \A i \in DOMAIN Outputs(process[q].program) :
              Outputs(process[q].program)[i] \in Files /\ Outputs(process[q].program)[i] # Output(self)
<1>1. \A p \in {process[q], process[self]} :
        p.pc \in Writing => /\ ~ p.check /\ p.pc # "Ended" /\ Made(p) /\ p.program \in Programs
                            /\ p.next \in DOMAIN Outputs(p.program)
  BY OfInvariant DEF Well, Writing, Publishing
<1>2. process[q].program # process[self].program
  BY <1>1 DEF IInv, Alone
<1>3. DOMAIN Outputs(process[q].program) = 1 .. Len(process[q].made)
  BY <1>1, MadeIsProper
<1> QED BY <1>1, <1>2, <1>3, Cases DEF Output

(* A step that opens or writes a temporary file. *)
LEMMA TemporaryStep ==
  ASSUME IInv, NEW self \in Processes, NEW p, p = process[self], NEW s, Set(self, s),
         UNCHANGED <<inputs, disk>>, NEW content, temporary' = [temporary EXCEPT ![Output(self)] = content],
         p.pc \in Writing, s.pc \in {"Writing", "Replacing"}, Keeps(s, p),
         s.copied = p.copied, s.made = p.made, s.next = p.next, s.held = p.held,
         Kept(content, Output(self)),
         s.pc = "Writing" => s.file = "temporary" /\ content = Empty,
         s.pc = "Replacing" /\ ~ s.crowded => content = Whole(Text(self))
  PROVE  IInv'
<1>1. /\ process' = [q \in Processes |-> process'[q]] /\ process'[self] = s
      /\ \A q \in Processes : q # self => process'[q] = process[q]
  BY SetProcess DEF IInv, Shaped_State
<1>2. /\ Well(p) /\ ~ p.check /\ p.program \in Programs /\ Made(p) /\ p.next \in DOMAIN Outputs(p.program)
      /\ p.passed = FALSE /\ p.check \in BOOLEAN /\ p.held \in BOOLEAN /\ p.profile \in Profiles
      /\ "other" \notin p.copied /\ p.crowded \in BOOLEAN
  BY OfInvariant DEF Well, Publishing, Writing
<1>3. /\ Formed(s) /\ s.program = p.program /\ s.check = p.check /\ s.profile = p.profile /\ s.passed = FALSE
      /\ s.crowded = p.crowded
  BY <1>2 DEF Keeps
<1>4. Well(s)
  <2>1. /\ s.pc \in Steps(s.program) /\ s.pc \in {"Ended", "Comparing"} \cup Writing /\ s.pc # "Lowering"
        /\ s.pc # "Comparing" /\ Made(s) /\ s.next \in DOMAIN Outputs(s.program)
    BY <1>2, <1>3 DEF Steps, Publishing, Writing, Made
  <2> QED BY <1>2, <1>3, <2>1, Zenon DEF Well
<1>5. Output(self) \in Files /\ Output(self) = Outputs(p.program)[p.next]
  BY <1>2, Cases DEF Output
<1>6. /\ temporary' = [f \in Files |-> temporary'[f]] /\ temporary'[Output(self)] = content
      /\ \A f \in Files : f # Output(self) => temporary'[f] = temporary[f]
  BY <1>5, SetFile DEF IInv, Shaped_State
<1>7. Read_Inputs'
  BY DEF IInv, Read_Inputs
<1>8. Shaped_State'
  <2>1. \A q \in Processes : Well(process'[q])
    BY <1>1, <1>4 DEF IInv, Shaped_State
  <2>2. disk' = [f \in Files |-> disk'[f]]
    BY DEF IInv, Shaped_State
  <2>3. \A f \in Files : Kept(disk'[f], f) /\ Kept(temporary'[f], f)
    <3> TAKE f \in Files
    <3>1. Kept(disk[f], f) /\ Kept(temporary[f], f)
      BY DEF IInv, Shaped_State
    <3>2. CASE f = Output(self)
      BY <1>6, <3>1, <3>2
    <3>3. CASE f # Output(self)
      BY <1>6, <3>1, <3>3
    <3> QED BY <3>2, <3>3
  <2> QED BY <1>1, <1>6, <2>1, <2>2, <2>3 DEF Shaped_State
<1>9. Alone'
  <2> SUFFICES ASSUME NEW x \in Processes, NEW y \in Processes, x # y,
                      process'[x].pc # "Ended", process'[y].pc # "Ended", ~ process'[x].check,
                      process'[x].program = process'[y].program,
                      process'[x].crowded \/ ~ process'[y].check
               PROVE  process'[y].crowded
    BY Zenon DEF Alone
  <2>1. p.pc # "Ended"
    BY DEF Writing
  <2> QED BY <1>1, <1>3, <2>1 DEF IInv, Alone
<1>10. Progress'
  <2> SUFFICES ASSUME NEW q \in Processes, ~ process'[q].crowded
               PROVE  /\ process'[q].pc = "Writing" =>
                           process'[q].file = "temporary" /\ temporary'[Output(q)'] = Empty
                      /\ process'[q].pc = "Replacing" => temporary'[Output(q)'] = Whole(Text(q)')
                      /\ process'[q].pc \in Writing => Replaced(process'[q], disk')
    BY Zenon DEF Progress
  <2>1. CASE q = self
    <3>1. Output(q)' = Output(self) /\ Text(q)' = Text(self)
      BY <1>1, <1>3, <2>1 DEF Output, Text
    <3>2. ~ p.crowded /\ ~ s.crowded
      BY <1>1, <1>3, <2>1
    <3>3. Replaced(p, disk)
      BY <3>2 DEF IInv, Progress
    <3>4. Replaced(s, disk')
      BY <1>3, <3>3 DEF Replaced
    <3> QED BY <1>1, <1>6, <2>1, <3>1, <3>2, <3>4
  <2>2. CASE q # self
    <3>1. process'[q] = process[q] /\ Output(q)' = Output(q) /\ Text(q)' = Text(q)
      BY <1>1, <2>2 DEF Output, Text
    <3>2. process[q].pc \in Writing => temporary'[Output(q)] = temporary[Output(q)]
      <4> SUFFICES ASSUME process[q].pc \in Writing
                   PROVE  temporary'[Output(q)] = temporary[Output(q)]
        OBVIOUS
      <4>1. ~ process[q].crowded
        BY <3>1
      <4>2. /\ process[q].next \in DOMAIN Outputs(process[q].program)
            /\ \A i \in DOMAIN Outputs(process[q].program) :
                 Outputs(process[q].program)[i] \in Files /\ Outputs(process[q].program)[i] # Output(self)
        BY <2>2, <4>1, OwnFiles
      <4> QED BY <1>6, <4>2 DEF Output
    <3>3. "Writing" \in Writing /\ "Replacing" \in Writing
      BY DEF Writing
    <3> QED BY <3>1, <3>2, <3>3 DEF IInv, Progress
  <2> QED BY <2>1, <2>2
<1>11. Suspicion'
  <2> SUFFICES ASSUME NEW q \in Processes, process'[q].pc = "Comparing", ~ process'[q].held, ~ process'[q].crowded
               PROVE  Differs(process'[q], disk')
    BY Zenon DEF Suspicion
  <2> QED BY <1>1 DEF IInv, Suspicion
<1> QED BY <1>7, <1>8, <1>9, <1>10, <1>11 DEF IInv

LEMMA OpenStep ==
  ASSUME IInv, NEW self \in Processes, open_temporary(self)
  PROVE  IInv'
<1> PICK p : p = process[self]
  OBVIOUS
<1> PICK s : s = ToFile(p, "Writing", "temporary")
  OBVIOUS
<1>1. Formed(p) /\ p.pc = "Opening" /\ p.pc \in Writing
  BY OfInvariant DEF open_temporary, Writing
<1>2. /\ Keeps(s, p) /\ s.pc = "Writing" /\ s.copied = p.copied /\ s.made = p.made
      /\ s.next = p.next /\ s.held = p.held /\ s.file = "temporary"
  BY <1>1, MovedFile
<1>3. /\ Set(self, s) /\ UNCHANGED <<inputs, disk>>
      /\ temporary' = [temporary EXCEPT ![Output(self)] = Empty]
  BY DEF open_temporary, ToFile
<1>4. Kept(Empty, Output(self))
  BY DEF Kept, Empty
<1> QED BY <1>1, <1>2, <1>3, <1>4, TemporaryStep

(* A file that is written over holds the text or part of another. *)
LEMMA WrittenIs ==
  ASSUME NEW file, NEW text, NEW f, Proper(f, text), NEW result \in Written(file, text)
  PROVE  Kept(result, f) /\ (file = Empty => result = Whole(text))
BY DEF Written, Kept, Whole, Partial

-----------------------------------------------------------------------------

(* An output changes, put in place or written where it is: who compares is *)
(* noted to see it.                                                        *)

Puts(self, p, s, file, content) ==
  /\ p.pc \in Writing /\ Well(s) /\ Continues(s, p) /\ s.pc \in {"Ended", "Opening", "Replacing"}
  /\ Kept(content, file) /\ disk' = [disk EXCEPT ![file] = content] /\ UNCHANGED inputs
  /\ temporary' = [f \in Files |-> temporary'[f]]
  /\ \A f \in Files : Kept(temporary'[f], f) /\ (f # file => temporary'[f] = temporary[f])
  /\ process' = [q \in Processes |-> process'[q]] /\ process'[self] = s
  /\ \A q \in Processes : q # self =>
       process'[q] \in {Seeing(process[q], disk'), Displaced(Seeing(process[q], disk'), file)}
  /\ \/ p.crowded
     \/ /\ content = Whole(p.made[p.next]) /\ s.pc # "Replacing"
        /\ s.pc # "Ended" => s.next = p.next + 1 /\ s.made = p.made

LEMMA DiskStep ==
  ASSUME IInv, NEW self \in Processes, NEW p, p = process[self], NEW s,
         NEW file, file = Output(self), NEW content, Puts(self, p, s, file, content)
  PROVE  IInv'
<1>0. /\ p.pc \in Writing /\ Well(s) /\ Continues(s, p) /\ s.pc \in {"Ended", "Opening", "Replacing"}
      /\ Kept(content, file) /\ disk' = [disk EXCEPT ![file] = content] /\ UNCHANGED inputs
      /\ temporary' = [f \in Files |-> temporary'[f]]
      /\ \A f \in Files : Kept(temporary'[f], f) /\ (f # file => temporary'[f] = temporary[f])
      /\ process' = [q \in Processes |-> process'[q]] /\ process'[self] = s
      /\ \A q \in Processes : q # self =>
           process'[q] \in {Seeing(process[q], disk'), Displaced(Seeing(process[q], disk'), file)}
      /\ p.crowded \/ /\ content = Whole(p.made[p.next]) /\ s.pc # "Replacing"
                      /\ s.pc # "Ended" => s.next = p.next + 1 /\ s.made = p.made
  BY Zenon DEF Puts
<1> USE <1>0
<1>1. /\ Well(p) /\ ~ p.check /\ p.program \in Programs /\ Made(p) /\ p.next \in DOMAIN Outputs(p.program)
      /\ p.pc # "Ended" /\ p.crowded \in BOOLEAN
  BY OfInvariant DEF Well, Publishing, Writing
<1>2. DOMAIN Outputs(p.program) = 1 .. Len(p.made) /\ Len(p.made) \in Nat
  BY <1>1, MadeIsProper
<1>3. file \in Files /\ file = Outputs(p.program)[p.next]
  BY <1>1, Cases DEF Output
<1>4. ~ p.crowded => Replaced(p, disk)
  BY DEF IInv, Progress
<1>5. /\ disk' = [f \in Files |-> disk'[f]] /\ disk'[file] = content
      /\ \A f \in Files : f # file => disk'[f] = disk[f]
  BY <1>3, SetFile DEF IInv, Shaped_State
<1>6. \A q \in Processes : q # self =>
        /\ Similar(process'[q], process[q]) /\ process'[q].crowded = process[q].crowded
        /\ process[q].pc = "Comparing" => process'[q].held = (process[q].held \/ Match(process[q], disk'))
        /\ process[q].pc # "Comparing" /\ ~ (process[q].pc = "Writing" /\ Outputs(process[q].program)[process[q].next] = file)
             => process'[q] = process[q]
  <2> TAKE q \in Processes
  <2> HAVE q # self
  <2> PICK r : r = process[q]
    OBVIOUS
  <2> PICK t : t = process'[q]
    OBVIOUS
  <2>1. Well(r) /\ t \in {Seeing(r, disk'), Displaced(Seeing(r, disk'), file)}
    BY OfInvariant
  <2> PICK files : files = disk'
    OBVIOUS
  <2>2. /\ Similar(t, r) /\ t.crowded = r.crowded
        /\ r.pc = "Comparing" => t.held = (r.held \/ Match(r, files))
        /\ r.pc # "Comparing" /\ ~ (r.pc = "Writing" /\ Outputs(r.program)[r.next] = file) => t = r
    <3>1. t \in {Seeing(r, files), Displaced(Seeing(r, files), file)}
      BY <2>1
    <3> QED BY <2>1, <3>1, SeeingIs
  <2> QED BY <2>2, Zenon
<1>7. Read_Inputs'
  BY DEF IInv, Read_Inputs
<1>8. \A q \in Processes : Well(process'[q])
  <2> TAKE q \in Processes
  <2>1. CASE q = self
    BY <2>1
  <2>2. CASE q # self
    BY <1>6, <2>2, OfInvariant, SimilarIsWell
  <2> QED BY <2>1, <2>2
<1>9. Shaped_State'
  <2>1. \A f \in Files : Kept(disk'[f], f)
    BY <1>5 DEF IInv, Shaped_State
  <2> QED BY <1>5, <1>8, <2>1 DEF Shaped_State
<1>10. Alone'
  <2> SUFFICES ASSUME NEW x \in Processes, NEW y \in Processes, x # y,
                      process'[x].pc # "Ended", process'[y].pc # "Ended", ~ process'[x].check,
                      process'[x].program = process'[y].program,
                      process'[x].crowded \/ ~ process'[y].check
               PROVE  process'[y].crowded
    BY Zenon DEF Alone
  <2>1. \A q \in {x, y} : Continues(process'[q], process[q])
    <3> TAKE q \in {x, y}
    <3>1. CASE q = self
      BY <3>1
    <3>2. CASE q # self
      BY <1>6, <3>2 DEF Similar, Continues
    <3> QED BY <3>1, <3>2
  <2>2. \A q \in {x, y} : /\ process[q].pc # "Ended" /\ process'[q].program = process[q].program
                          /\ process'[q].check = process[q].check /\ process'[q].crowded = process[q].crowded
    BY <2>1 DEF Continues
  <2> QED BY <2>2 DEF IInv, Alone
<1>11. Progress'
  <2> SUFFICES ASSUME NEW q \in Processes, ~ process'[q].crowded, process'[q].pc \in Writing
               PROVE  /\ process'[q].pc = "Writing" =>
                           process'[q].file = "temporary" /\ temporary'[Output(q)'] = Empty
                      /\ process'[q].pc = "Replacing" => temporary'[Output(q)'] = Whole(Text(q)')
                      /\ Replaced(process'[q], disk')
    BY Zenon DEF Progress, Writing
  <2>1. CASE q = self
    <3>1. s.pc # "Ended" /\ ~ p.crowded
      BY <2>1 DEF Writing, Continues
    <3>2. /\ s.pc = "Opening" /\ s.next = p.next + 1 /\ s.made = p.made /\ s.program = p.program
          /\ content = Whole(p.made[p.next])
      BY <3>1 DEF Continues
    <3>3. Replaced(s, disk')
      <4> SUFFICES ASSUME NEW i \in 1 .. p.next
                   PROVE  disk'[Outputs(p.program)[i]] = Whole(p.made[i])
        BY <1>1, <1>2, <3>2 DEF Replaced
      <4>1. i \in DOMAIN Outputs(p.program)
        BY <1>1, <1>2
      <4>2. CASE i = p.next
        BY <1>3, <1>5, <3>2, <4>2
      <4>3. CASE i # p.next
        <5>1. Outputs(p.program)[i] \in Files /\ Outputs(p.program)[i] # file
          BY <1>1, <1>3, <4>1, <4>3, Cases
        <5>2. disk[Outputs(p.program)[i]] = Whole(p.made[i])
          BY <1>1, <1>2, <1>4, <3>1, <4>3 DEF Replaced
        <5> QED BY <1>5, <5>1, <5>2
      <4> QED BY <4>2, <4>3
    <3> QED BY <2>1, <3>2, <3>3
  <2>2. CASE q # self
    <3> PICK r : r = process[q]
      OBVIOUS
    <3>1. r.pc \in Writing /\ ~ r.crowded
      BY <1>6, <2>2 DEF Similar
    <3>2. /\ r.next \in DOMAIN Outputs(r.program) /\ DOMAIN Outputs(r.program) = 1 .. Len(r.made)
          /\ \A i \in DOMAIN Outputs(r.program) :
               Outputs(r.program)[i] \in Files /\ Outputs(r.program)[i] # file
          /\ r.program \in Programs
      BY <2>2, <3>1, OwnFiles
    <3>3. process'[q] = r
      <4>1. r.pc # "Comparing"
        BY <3>1 DEF Writing
      <4> QED BY <1>6, <2>2, <3>2, <4>1
    <3>4. /\ r.pc = "Writing" => r.file = "temporary" /\ temporary[Output(q)] = Empty
          /\ r.pc = "Replacing" => temporary[Output(q)] = Whole(Text(q))
          /\ Replaced(r, disk)
      BY <3>1 DEF IInv, Progress
    <3>5. Replaced(r, disk')
      <4> SUFFICES ASSUME NEW i \in 1 .. r.next - 1
                   PROVE  disk'[Outputs(r.program)[i]] = Whole(r.made[i])
        BY DEF Replaced
      <4>1. i \in DOMAIN Outputs(r.program)
        <5>1. r.next \in 1 .. Len(r.made) /\ Len(r.made) \in Int
          BY <3>2, Cases DEF Programs
        <5> QED BY <3>2, <5>1
      <4> QED BY <1>5, <3>2, <3>4, <4>1 DEF Replaced
    <3>6. Output(q)' = Output(q) /\ Text(q)' = Text(q) /\ Output(q) = Outputs(r.program)[r.next]
      BY <3>3 DEF Output, Text
    <3>7. temporary'[Output(q)] = temporary[Output(q)]
      BY <3>2, <3>6
    <3> QED BY <3>3, <3>4, <3>5, <3>6, <3>7
  <2> QED BY <2>1, <2>2
<1>12. Suspicion'
  <2> SUFFICES ASSUME NEW q \in Processes, process'[q].pc = "Comparing", ~ process'[q].held, ~ process'[q].crowded
               PROVE  Differs(process'[q], disk')
    BY Zenon DEF Suspicion
  <2> PICK r : r = process[q]
    OBVIOUS
  <2>1. q # self
    OBVIOUS
  <2>2. /\ r.pc = "Comparing" /\ process'[q].program = r.program /\ process'[q].made = r.made
        /\ process'[q].next = r.next /\ process'[q].crowded = r.crowded
    BY <1>6, <2>1 DEF Similar
  <2>3. process'[q].held = (r.held \/ Match(r, disk'))
    BY <1>6, <2>1, <2>2
  <2>4. ~ r.held /\ ~ Match(r, disk')
    BY <2>3, Zenon
  <2>5. Differs(r, disk)
    BY <2>2, <2>4 DEF IInv, Suspicion
  <2>6. Made(r) /\ r.program \in Programs /\ r.next \in DOMAIN Outputs(r.program)
    BY <2>2, OfInvariant DEF Well, Publishing
  <2>7. /\ DOMAIN Outputs(r.program) = 1 .. Len(r.made) /\ Len(r.made) \in Nat
        /\ DOMAIN r.made = DOMAIN Outputs(r.program)
    BY <2>6, MadeIsProper
  <2> SUFFICES Differs(r, disk')
    BY <2>2 DEF Differs
  <2> SUFFICES ASSUME ~ Differs(r, disk')
               PROVE  FALSE
    OBVIOUS
  <2> PICK i \in DOMAIN Outputs(r.program) : i >= r.next /\ disk[Outputs(r.program)[i]] # Whole(r.made[i])
    BY <2>5 DEF Differs
  <2>8. disk'[Outputs(r.program)[i]] = Whole(r.made[i]) /\ Outputs(r.program)[i] \in Files
    BY <2>6, Cases DEF Differs
  <2>9. Outputs(r.program)[i] = file
    BY <1>5, <2>8
  <2>10. r.program = p.program /\ i = p.next
    BY <1>1, <1>3, <2>6, <2>9, Cases
  <2>11. ~ p.crowded
    BY <1>1, <2>1, <2>2, <2>10 DEF IInv, Alone
  <2>12. r.made[i] = p.made[i]
    BY <1>5, <2>8, <2>9, <2>10, <2>11 DEF Whole
  <2>13. ASSUME NEW j \in DOMAIN Outputs(r.program) PROVE disk'[Outputs(r.program)[j]] = Whole(r.made[j])
    <3>1. j \in Int /\ i \in Int
      BY <2>7
    <3>2. CASE j >= i
      <4>1. j >= r.next
        BY <2>6, <2>7, <3>1, <3>2
      <4> QED BY <4>1 DEF Differs
    <3>3. CASE j < i
      <4>1. r.made[j] = p.made[j]
        BY <1>1, <2>6, <2>10, <2>12, <3>1, <3>3, MadeTogether
      <4>2. disk[Outputs(p.program)[j]] = Whole(p.made[j])
        BY <1>4, <2>7, <2>10, <2>11, <3>1, <3>3 DEF Replaced
      <4>3. Outputs(p.program)[j] \in Files /\ Outputs(p.program)[j] # file
        BY <1>1, <1>3, <2>10, <3>3, <3>1, Cases
      <4> QED BY <1>5, <2>10, <4>1, <4>2, <4>3
    <3> QED BY <3>1, <3>2, <3>3
  <2>14. Match(r, disk')
    BY <2>7, <2>13, SMTT(60) DEF Match
  <2> QED BY <2>4, <2>14
<1> QED BY <1>7, <1>9, <1>10, <1>11, <1>12 DEF IInv

LEMMA WriteStep ==
  ASSUME IInv, NEW self \in Processes, write_temporary(self)
  PROVE  IInv'
<1> PICK p : p = process[self]
  OBVIOUS
<1> PICK s : s = ToFile(p, "Replacing", "none")
  OBVIOUS
<1>1. Formed(p) /\ p.pc = "Writing" /\ p.pc \in Writing /\ p.pc \in Publishing /\ Well(p)
  BY OfInvariant DEF write_temporary, Writing, Publishing
<1>2. /\ Keeps(s, p) /\ s.pc = "Replacing" /\ s.copied = p.copied /\ s.made = p.made
      /\ s.next = p.next /\ s.held = p.held /\ s.read = p.read
  BY <1>1, MovedFile
<1>3. s = [process[self] EXCEPT !.pc = "Replacing", !.file = "none"]
  BY DEF ToFile
<1>4. /\ p.program \in Programs /\ Made(p) /\ p.next \in DOMAIN Outputs(p.program) /\ p.check = FALSE
      /\ p.crowded \in BOOLEAN /\ p.held \in BOOLEAN /\ p.passed = FALSE /\ p.profile \in Profiles
      /\ "other" \notin p.copied
  BY <1>1 DEF Well
<1>5. Proper(Output(self), Text(self)) /\ Output(self) \in Files
  BY <1>4, MadeIsProper, Cases DEF Output, Text
<1>6. ~ p.crowded => p.file = "temporary" /\ temporary[Output(self)] = Empty
  BY <1>1 DEF IInv, Progress
<1>7. Well(s) /\ Continues(s, p) /\ s.crowded = p.crowded
  <2>1. /\ Formed(s) /\ s.program = p.program /\ s.check = FALSE /\ s.profile = p.profile /\ s.passed = FALSE
        /\ s.crowded = p.crowded
    BY <1>2, <1>4 DEF Keeps
  <2>2. /\ s.pc \in Steps(s.program) /\ s.pc \in {"Ended", "Comparing"} \cup Writing /\ s.pc # "Lowering"
        /\ s.pc # "Comparing" /\ Made(s) /\ s.next \in DOMAIN Outputs(s.program)
    BY <1>2, <1>4, <2>1 DEF Steps, Publishing, Writing, Made
  <2>3. Well(s)
    BY <1>2, <1>4, <2>1, <2>2, Zenon DEF Well
  <2> QED BY <1>1, <1>4, <2>1, <2>3 DEF Continues
<1>8. ASSUME p.file = "temporary", NEW content \in Written(temporary[Output(self)], Text(self)),
             temporary' = [temporary EXCEPT ![Output(self)] = content], Set(self, s), UNCHANGED <<inputs, disk>>
      PROVE  IInv'
  <2>1. Kept(content, Output(self)) /\ (temporary[Output(self)] = Empty => content = Whole(Text(self)))
    BY <1>5, <1>8, WrittenIs
  <2> QED BY <1>1, <1>2, <1>6, <1>7, <1>8, <2>1, TemporaryStep
<1>9. ASSUME p.file = "disk", NEW content \in Written(disk[Output(self)], Text(self)),
             disk' = [disk EXCEPT ![Output(self)] = content], UNCHANGED <<inputs, temporary>>,
             process' = [q \in Processes |-> IF q = self THEN s ELSE Seeing(process[q], disk')]
      PROVE  IInv'
  <2>1. Kept(content, Output(self)) /\ p.crowded
    BY <1>5, <1>6, <1>9, WrittenIs
  <2>2. /\ process' = [q \in Processes |-> process'[q]] /\ process'[self] = s
        /\ \A q \in Processes : q # self => process'[q] = Seeing(process[q], disk')
    BY <1>9
  <2>3. /\ temporary' = [f \in Files |-> temporary'[f]]
        /\ \A f \in Files : Kept(temporary'[f], f) /\ temporary'[f] = temporary[f]
    BY <1>9 DEF IInv, Shaped_State
  <2>4. Puts(self, p, s, Output(self), content)
    BY <1>1, <1>2, <1>7, <1>9, <2>1, <2>2, <2>3 DEF Puts, Writing
  <2> QED BY <2>4, DiskStep
<1>10. ASSUME p.file = "gone", Set(self, s), Local
       PROVE  IInv'
  <2>1. s.crowded /\ s.pc # "Comparing"
    BY <1>2, <1>4, <1>6, <1>7, <1>10
  <2> QED BY <1>7, <1>10, <2>1, LocalStep
<1>11. /\ UNCHANGED inputs
       /\ \/ /\ p.file = "temporary" /\ Set(self, s) /\ UNCHANGED disk
             /\ \E content \in Written(temporary[Output(self)], Text(self)) :
                  temporary' = [temporary EXCEPT ![Output(self)] = content]
          \/ /\ p.file = "disk" /\ UNCHANGED temporary
             /\ \E content \in Written(disk[Output(self)], Text(self)) :
                  disk' = [disk EXCEPT ![Output(self)] = content]
             /\ process' = [q \in Processes |-> IF q = self THEN s ELSE Seeing(process[q], disk')]
          \/ p.file = "gone" /\ Set(self, s) /\ Local
  BY <1>3 DEF write_temporary, Local
<1> QED BY <1>8, <1>9, <1>10, <1>11

LEMMA ReplaceStep ==
  ASSUME IInv, NEW self \in Processes, replace(self)
  PROVE  IInv'
<1> PICK p : p = process[self]
  OBVIOUS
<1> PICK s : s = Next_Output(p, disk')
  OBVIOUS
<1> PICK file : file = Output(self)
  OBVIOUS
<1>1. CASE Fail(self)
  BY <1>1, FailStep
<1>2. CASE ~ Fail(self)
  <2>1. /\ p.pc = "Replacing" /\ disk' = [disk EXCEPT ![file] = temporary[file]] /\ UNCHANGED inputs
        /\ temporary' = [temporary EXCEPT ![file] = Absent]
        /\ process' = [q \in Processes |->
             IF q = self THEN Next_Output(process[q], disk')
                         ELSE Displaced(Seeing(process[q], disk'), Output(self))]
    BY <1>2 DEF replace
  <2>2. /\ Well(p) /\ ~ p.check /\ p.program \in Programs /\ Made(p)
        /\ p.next \in DOMAIN Outputs(p.program) /\ p.crowded \in BOOLEAN /\ p.pc \in Writing
    BY <2>1, OfInvariant DEF Well, Publishing, Writing
  <2>3. /\ DOMAIN Outputs(p.program) = 1 .. Len(p.made) /\ Len(p.made) \in Nat
        /\ DOMAIN p.made = DOMAIN Outputs(p.program)
    BY <2>2, MadeIsProper
  <2>4. file \in Files /\ file = Outputs(p.program)[p.next]
    BY <2>2, Cases DEF Output
  <2>5. ~ p.crowded => temporary[file] = Whole(p.made[p.next]) /\ Replaced(p, disk)
    BY <2>1, <2>2 DEF IInv, Progress, Text
  <2>6. disk'[file] = temporary[file] /\ \A f \in Files : f # file => disk'[f] = disk[f]
    BY <2>1, <2>4, SetFile DEF IInv, Shaped_State
  <2>7. /\ temporary' = [f \in Files |-> temporary'[f]] /\ temporary'[file] = Absent
        /\ \A f \in Files : f # file => temporary'[f] = temporary[f]
    BY <2>1, <2>4, SetFile DEF IInv, Shaped_State
  <2>8. \A f \in Files : Kept(temporary'[f], f)
    <3>1. Kept(Absent, file)
      BY DEF Kept, Absent
    <3> QED BY <2>7, <3>1 DEF IInv, Shaped_State
  <2>9. Kept(temporary[file], file)
    BY <2>4 DEF IInv, Shaped_State
  <2>10. p.next = Len(p.made) /\ ~ p.crowded => Match(p, disk')
    <3> SUFFICES ASSUME p.next = Len(p.made), ~ p.crowded, NEW i \in DOMAIN p.made
                 PROVE  disk'[Outputs(p.program)[i]] = Whole(p.made[i])
      BY DEF Match
    <3>1. CASE i = p.next
      BY <2>4, <2>5, <2>6, <3>1
    <3>2. CASE i # p.next
      <4>1. Outputs(p.program)[i] \in Files /\ Outputs(p.program)[i] # file
        BY <2>2, <2>3, <2>4, <3>2, Cases
      <4>2. disk[Outputs(p.program)[i]] = Whole(p.made[i])
        BY <2>2, <2>3, <2>5, <3>2 DEF Replaced
      <4> QED BY <2>6, <4>1, <4>2
    <3> QED BY <3>1, <3>2
  <2>11. /\ Well(s) /\ Continues(s, p) /\ s.pc \in {"Ended", "Opening"}
         /\ s.pc # "Ended" => s.next = p.next + 1 /\ s.made = p.made
    <3> PICK files : files = disk'
      OBVIOUS
    <3>1. s = Next_Output(p, files) /\ p.pc \in {"Comparing", "Replacing"}
      BY <2>1
    <3>2. p.next = Len(p.made) /\ ~ p.crowded => IF p.check THEN p.held ELSE Match(p, files)
      BY <2>2, <2>10
    <3>3. /\ Well(s) /\ Continues(s, p) /\ s.pc \in {"Ended", "Comparing", "Opening"}
          /\ s.pc # "Ended" => /\ s.pc = (IF p.check THEN "Comparing" ELSE "Opening")
                               /\ s.next = p.next + 1 /\ s.made = p.made
      BY <2>2, <3>1, <3>2, NextIs
    <3> QED BY <2>2, <3>3
  <2>12. /\ process' = [q \in Processes |-> process'[q]] /\ process'[self] = s
         /\ \A q \in Processes : q # self =>
              process'[q] \in {Seeing(process[q], disk'), Displaced(Seeing(process[q], disk'), file)}
    BY <2>1
  <2> PICK content : content = temporary[file]
    OBVIOUS
  <2>13. Kept(content, file) /\ disk' = [disk EXCEPT ![file] = content] /\ UNCHANGED inputs
    BY <2>1, <2>9
  <2>14. p.pc \in Writing /\ Well(s) /\ Continues(s, p) /\ s.pc \in {"Ended", "Opening", "Replacing"}
    BY <2>2, <2>11
  <2>15. /\ temporary' = [f \in Files |-> temporary'[f]] /\ p = process[self] /\ file = Output(self)
         /\ \A f \in Files : Kept(temporary'[f], f) /\ (f # file => temporary'[f] = temporary[f])
    BY <2>7, <2>8
  <2>16. p.crowded \/ /\ content = Whole(p.made[p.next]) /\ s.pc # "Replacing"
                      /\ s.pc # "Ended" => s.next = p.next + 1 /\ s.made = p.made
    BY <2>5, <2>11
  <2>17. Puts(self, p, s, file, content)
    BY ONLY <2>12, <2>13, <2>14, <2>15, <2>16, Zenon DEF Puts
  <2> QED BY <2>17, DiskStep
<1> QED BY <1>1, <1>2

-----------------------------------------------------------------------------

LEMMA StartStep ==
  ASSUME IInv, NEW self \in Processes, Start(self)
  PROVE  IInv'
<1>1. PICK program \in {"adapter", "generator"}, check \in BOOLEAN, profile \in Profiles :
           LET crowded == \E p \in Writers(program) : check => process[p].crowded
           IN  /\ program = "generator" => profile = "strict"
               /\ process' = [p \in Processes |->
                    IF p = self
                      THEN [Idle EXCEPT !.pc = IF program = "adapter" THEN "Attesting" ELSE "Loading_Schema",
                                        !.program = program, !.check = check, !.profile = profile, !.crowded = crowded]
                    ELSE IF crowded /\ process[p].pc # "Ended" /\ process[p].program = program
                      THEN [process[p] EXCEPT !.crowded = TRUE]
                    ELSE process[p]]
  BY Zenon DEF Start
<1>2. program \in Programs /\ UNCHANGED <<inputs, disk, temporary>>
  BY DEF Start, Programs
<1>3. PICK crowded \in BOOLEAN : crowded = \E p \in Writers(program) : check => process[p].crowded
  OBVIOUS
<1>4. PICK x : x = IF program = "adapter" THEN "Attesting" ELSE "Loading_Schema"
  OBVIOUS
<1>5. PICK s : s = [Idle EXCEPT !.pc = x, !.program = program, !.check = check, !.profile = profile, !.crowded = crowded]
  OBVIOUS
<1>6. /\ Formed(s) /\ s.pc = x /\ s.program = program /\ s.check = check /\ s.profile = profile
      /\ s.copied = {} /\ s.read = {} /\ s.next = 1 /\ s.passed = FALSE /\ s.held = FALSE /\ s.crowded = crowded
  BY <1>5, Zenon DEF Idle, Formed
<1>7. process' = [q \in Processes |->
        IF q = self THEN s
        ELSE IF crowded /\ process[q].pc # "Ended" /\ process[q].program = program THEN Crowded(process[q])
        ELSE process[q]]
  BY <1>1, <1>3, <1>4, <1>5, Zenon DEF Crowded
<1>8. /\ process' = [q \in Processes |-> process'[q]] /\ process'[self] = s
      /\ \A q \in Processes : q # self =>
           process'[q] = IF crowded /\ process[q].pc # "Ended" /\ process[q].program = program
                           THEN Crowded(process[q]) ELSE process[q]
  BY <1>7
<1>9. x \in {"Attesting", "Loading_Schema"} /\ x \in Steps(program)
  BY <1>2, <1>4 DEF Steps, Programs
<1>10. s.pc \notin Publishing /\ s.pc \notin Writing /\ s.pc \notin {"Lowering", "Comparing", "Ended", "Replacing"}
  BY <1>6, <1>9 DEF Publishing, Writing
<1>11. Well(s)
  <2>1. /\ s.check \in BOOLEAN /\ s.passed \in BOOLEAN /\ s.held \in BOOLEAN /\ s.crowded \in BOOLEAN
        /\ "other" \notin s.copied
    BY <1>6, <1>2
  <2>2. s.pc # "Lowering" /\ s.pc # "Comparing" /\ ~ s.passed
    BY <1>6, <1>10
  <2> QED BY <1>2, <1>6, <1>9, <1>10, <2>1, <2>2, Zenon DEF Well
<1>12. \A q \in Processes : q # self =>
        /\ Similar(process'[q], process[q]) /\ process'[q].held = process[q].held
        /\ process[q].pc # "Ended" /\ process[q].program = program /\ crowded => process'[q].crowded
        /\ process[q].program # program \/ ~ crowded => process'[q] = process[q]
        /\ ~ process'[q].crowded => process'[q] = process[q]
  <2> TAKE q \in Processes
  <2> HAVE q # self
  <2>a. PICK r : r = process[q]
    OBVIOUS
  <2>b. PICK t : t = process'[q]
    OBVIOUS
  <2>1. Well(r) /\ Formed(r) /\ r.held \in BOOLEAN /\ r.crowded \in BOOLEAN
    BY <2>a, OfInvariant DEF Well
  <2>2. t = IF crowded /\ r.pc # "Ended" /\ r.program = program THEN Crowded(r) ELSE r
    BY <1>8, <2>a, <2>b
  <2>3. /\ Similar(t, r) /\ t.held = r.held
        /\ r.pc # "Ended" /\ r.program = program /\ crowded => t.crowded
        /\ r.program # program \/ ~ crowded => t = r
        /\ ~ t.crowded => t = r
    <3>1. CASE crowded /\ r.pc # "Ended" /\ r.program = program
      <4>1. t = Crowded(r)
        BY <2>2, <3>1
      <4>2. /\ Formed(t) /\ t.program = r.program /\ t.check = r.check /\ t.profile = r.profile
            /\ t.passed = r.passed /\ t.pc = r.pc /\ t.copied = r.copied /\ t.read = r.read
            /\ t.made = r.made /\ t.next = r.next /\ t.held = r.held /\ t.crowded
        BY <2>1, <4>1, NowCrowded
      <4>3. Similar(t, r)
        BY <2>1, <4>2, Zenon DEF Similar
      <4> QED BY <3>1, <4>2, <4>3
    <3>2. CASE ~ (crowded /\ r.pc # "Ended" /\ r.program = program)
      <4>1. t = r
        BY <2>2, <3>2
      <4>2. Similar(t, r)
        BY <2>1, <4>1, Zenon DEF Similar
      <4> QED BY <3>2, <4>1, <4>2
    <3> QED BY <3>1, <3>2
  <2> QED BY <2>a, <2>b, <2>3
<1>13. Read_Inputs'
  BY <1>2 DEF IInv, Read_Inputs
<1>14. Shaped_State'
  <2>1. \A q \in Processes : Well(process'[q])
    <3> TAKE q \in Processes
    <3>1. CASE q = self
      BY <1>8, <1>11, <3>1
    <3>2. CASE q # self
      BY <1>12, <3>2, OfInvariant, SimilarIsWell
    <3> QED BY <3>1, <3>2
  <2>2. /\ disk' = [f \in Files |-> disk'[f]] /\ temporary' = [f \in Files |-> temporary'[f]]
        /\ \A f \in Files : Kept(disk'[f], f) /\ Kept(temporary'[f], f)
    BY <1>2 DEF IInv, Shaped_State
  <2> QED BY <1>8, <2>1, <2>2 DEF Shaped_State
<1>15. Alone'
  <2> SUFFICES ASSUME NEW p \in Processes, NEW q \in Processes, p # q,
                      process'[p].pc # "Ended", process'[q].pc # "Ended", ~ process'[p].check,
                      process'[p].program = process'[q].program,
                      process'[p].crowded \/ ~ process'[q].check
               PROVE  process'[q].crowded
    BY Zenon DEF Alone
  <2>1. \A y \in Processes : y # self =>
          /\ process[y].pc = process'[y].pc /\ process'[y].program = process[y].program
          /\ process'[y].check = process[y].check
    BY <1>12, Zenon DEF Similar
  <2>2. CASE p # self /\ q # self
    <3>1. CASE crowded /\ process[q].program = program
      BY <1>12, <2>1, <2>2, <3>1
    <3>2. CASE ~ (crowded /\ process[q].program = program)
      <4>1. process'[p] = process[p] /\ process'[q] = process[q]
        BY <1>12, <2>1, <2>2, <3>2
      <4> QED BY <4>1 DEF IInv, Alone
    <3> QED BY <3>1, <3>2
  <2>3. CASE p = self
    <3>1. /\ process'[p] = s /\ q # self /\ process[q].pc # "Ended" /\ process[q].program = program
          /\ process'[q].check = process[q].check
      BY <1>6, <1>8, <2>1, <2>3
    <3>2. ~ check
      BY <1>6, <3>1
    <3>3. crowded
      <4>1. CASE process'[p].crowded
        BY <1>6, <3>1, <4>1
      <4>2. CASE ~ process'[q].check
        <5>1. q \in Writers(program)
          BY <3>1, <4>2 DEF Writers
        <5> QED BY <1>3, <3>2, <5>1
      <4> QED BY <4>1, <4>2
    <3> QED BY <1>12, <3>1, <3>3
  <2>4. CASE q = self
    <3>1. /\ process'[q] = s /\ p # self /\ process[p].pc # "Ended" /\ process[p].program = program
          /\ ~ process[p].check /\ process'[q].check = check /\ process'[q].crowded = crowded
      BY <1>6, <1>8, <2>1, <2>4
    <3>2. p \in Writers(program)
      BY <3>1 DEF Writers
    <3>3. CASE crowded
      BY <3>1, <3>3
    <3>4. CASE ~ crowded
      <4>1. process'[p] = process[p]
        BY <1>12, <3>1, <3>4
      <4> QED BY <1>3, <3>1, <3>2, <3>4, <4>1
    <3> QED BY <3>3, <3>4
  <2> QED BY <2>2, <2>3, <2>4
<1>16. Progress'
  <2> SUFFICES ASSUME NEW q \in Processes, ~ process'[q].crowded
               PROVE  /\ process'[q].pc = "Writing" =>
                           process'[q].file = "temporary" /\ temporary'[Output(q)'] = Empty
                      /\ process'[q].pc = "Replacing" => temporary'[Output(q)'] = Whole(Text(q)')
                      /\ process'[q].pc \in Writing => Replaced(process'[q], disk')
    BY Zenon DEF Progress
  <2>1. CASE q = self
    <3>1. process'[q].pc \notin Writing /\ process'[q].pc \notin {"Writing", "Replacing"}
      BY <1>8, <1>10, <2>1 DEF Writing
    <3> QED BY <3>1
  <2>2. CASE q # self
    <3>1. process'[q] = process[q] /\ Output(q)' = Output(q) /\ Text(q)' = Text(q)
      BY <1>12, <2>2 DEF Output, Text
    <3> QED BY <1>2, <3>1 DEF IInv, Progress
  <2> QED BY <2>1, <2>2
<1>17. Suspicion'
  <2> SUFFICES ASSUME NEW q \in Processes, process'[q].pc = "Comparing", ~ process'[q].held, ~ process'[q].crowded
               PROVE  Differs(process'[q], disk')
    BY Zenon DEF Suspicion
  <2>1. q # self
    BY <1>8, <1>10
  <2>2. process'[q] = process[q]
    BY <1>12, <2>1
  <2> QED BY <1>2, <2>2 DEF IInv, Suspicion
<1> QED BY <1>13, <1>14, <1>15, <1>16, <1>17 DEF IInv

(* An edit of an input. *)
LEMMA EditStep ==
  ASSUME IInv, Edit
  PROVE  IInv'
<1>1. UNCHANGED <<disk, temporary, process>>
  BY DEF Edit
<1>2. Read_Inputs'
  <2>1. Read_Inputs
    BY DEF IInv
  <2>2. CASE \E o \in New_Overlays : inputs' = [inputs EXCEPT !.overlay = o]
    BY <2>1, <2>2, PublicationAssumption DEF Read_Inputs
  <2>3. CASE \E d \in New_Documents : inputs' = [inputs EXCEPT !.document = d]
    BY <2>1, <2>3, PublicationAssumption DEF Read_Inputs
  <2>4. CASE \E c \in Checkers : inputs' = [inputs EXCEPT !.checker = c]
    BY <2>1, <2>4 DEF Read_Inputs
  <2> QED BY <2>2, <2>3, <2>4 DEF Edit
<1>3. Shaped_State' /\ Alone' /\ Suspicion'
  BY <1>1 DEF IInv, Shaped_State, Alone, Suspicion
<1>4. Progress'
  BY <1>1 DEF IInv, Progress, Output, Text
<1> QED BY <1>2, <1>3, <1>4 DEF IInv

LEMMA Initially ==
  ASSUME Init
  PROVE  IInv
<1>1. process = [p \in Processes |-> Idle] /\ disk = [f \in Files |-> Absent] /\ temporary = [f \in Files |-> Absent]
  BY DEF Init
<1>2. Read_Inputs
  BY DEF Init, Read_Inputs
<1>3. \A p \in Processes : process[p] = Idle
  BY <1>1
<1>4. Shaped_State
  BY <1>1, <1>3, IdleIsWell DEF Shaped_State, Kept, Absent
<1>5. Alone /\ Progress /\ Suspicion
  BY <1>3, IdleIsWell DEF Alone, Progress, Suspicion, Writing
<1> QED BY <1>2, <1>4, <1>5 DEF IInv

LEMMA Preserved ==
  ASSUME IInv, [Next]_vars
  PROVE  IInv'
<1>1. ASSUME NEW self \in Processes, Stop(self) PROVE IInv'
  BY <1>1, FailStep DEF Stop
<1>2. CASE UNCHANGED vars
  BY <1>2 DEF vars, IInv, Read_Inputs, Shaped_State, Alone, Progress, Suspicion, Output, Text
<1> QED
  BY <1>1, <1>2, StartStep, ImportStep, LoadCheckedStep, LowerStep, LoadSchemaStep, LoadBindingStep,
     CompareStep, OpenStep, WriteStep, ReplaceStep, EditStep DEF Next

(* The invariant, of every behaviour. *)
LEMMA Always == Spec => []IInv
<1>1. Init => IInv
  BY Initially
<1>2. IInv /\ [Next]_vars => IInv'
  BY Preserved
<1> QED BY <1>1, <1>2, PTL DEF Spec

-----------------------------------------------------------------------------

(* However runs of type_ir_adapter.py and generate_ada.py overlap: what a  *)
(* provenance report says is a document the reviewed checker admits, an    *)
(* overlay, and the schema made of them; and a specification or a body is  *)
(* of a schema and a binding that were made together.                      *)
THEOREM Truth == Spec => []ArtifactsAreTrue
<1>1. IInv => ArtifactsAreTrue
  <2> SUFFICES ASSUME IInv PROVE ArtifactsAreTrue
    OBVIOUS
  <2>1. \A f \in Files : Kept(disk[f], f)
    BY DEF IInv, Shaped_State
  <2>3. ASSUME NEW v \in disk["provenance"].text
        PROVE  /\ v.type_ir_profile \in v.type_ir.profiles
               /\ v.type_ir_profile = "fixture_shape" => v.type_ir = Fixture
               /\ v.overlay.semantic = v.type_ir.semantic /\ v.wire_schema_fingerprint = Schema(v.overlay)
    <3>1. Proper("provenance", v)
      BY <2>1, <2>3 DEF Kept, Files
    <3> PICK o \in Overlays, d \in Documents, profile \in Profiles :
               Reviewed(d, profile) /\ lower_checked(d, profile, o) # {} /\ v = Provenance(d, profile, o)
      BY <3>1 DEF Proper
    <3>3. o.semantic = d.semantic
      BY DEF lower_checked
    <3>2. v.type_ir = d /\ v.type_ir_profile = profile /\ v.overlay = o /\ v.wire_schema_fingerprint = Schema(o)
      BY DEF Provenance
    <3> QED BY <3>2, <3>3 DEF Reviewed
  <2>4. ASSUME NEW f \in {"spec", "body"}, NEW ada \in disk[f].text
        PROVE  ada.part = f /\ <<ada.schema, ada.binding>> \in Made_Together
    <3>1. Proper(f, ada)
      BY <2>1, <2>4 DEF Kept, Files
    <3> PICK o \in Overlays : ada = Ada(f, Schema(o), Binding(o))
      BY <3>1 DEF Proper
    <3> QED BY DEF Ada, Made_Together
  <2> QED BY <2>3, <2>4 DEF ArtifactsAreTrue
<1> QED BY <1>1, Always, PTL

(* A run that replaces its outputs one after the other, or compares them   *)
(* so while another run replaces them, leaves or has seen all of them as   *)
(* it says, unless writing runs of its program overlapped: they share the  *)
(* temporary files.                                                        *)
THEOREM UncrowdedTruth == Spec => []UncrowdedRunWasTrue
<1>1. IInv => UncrowdedRunWasTrue
  BY DEF IInv, Shaped_State, Well, UncrowdedRunWasTrue
<1> QED BY <1>1, Always, PTL

-----------------------------------------------------------------------------

(* What a lowered schema admits. *)

LEMMA FieldsAreOrdered ==
  ASSUME NEW o \in Overlays, NEW d, NEW root, Mapped(o, d, root)
  PROVE  /\ \A i \in DOMAIN o.fields : o.fields[i].tag \in Nat /\ Overlaid(o, o.fields[i].tag) = o.fields[i]
         /\ \A i \in DOMAIN o.fields : validate_field_overlay(o.fields[i])
<1>1. /\ \A i \in DOMAIN o.fields : validate_field_overlay(o.fields[i])
      /\ \A i, j \in DOMAIN o.fields : i < j => o.fields[i].tag < o.fields[j].tag
  BY DEF Mapped
<1>2. \A i \in DOMAIN o.fields : o.fields[i].tag \in Nat
  BY <1>1, LoweringAssumption DEF validate_field_overlay
<1>3. DOMAIN o.fields \subseteq Nat
  <2> PICK fields : fields = o.fields
    OBVIOUS
  <2>1. fields \in Seq({fields[i] : i \in DOMAIN fields})
    BY PublicationAssumption
  <2> QED BY <2>1
<1>4. ASSUME NEW i \in DOMAIN o.fields PROVE Overlaid(o, o.fields[i].tag) = o.fields[i]
  <2> PICK j : j = CHOOSE k \in DOMAIN o.fields : o.fields[k].tag = o.fields[i].tag
    OBVIOUS
  <2>1. j \in DOMAIN o.fields /\ o.fields[j].tag = o.fields[i].tag
    OBVIOUS
  <2>2. j = i
    BY <1>1, <1>2, <1>3, <2>1
  <2> QED BY <2>2 DEF Overlaid
<1> QED BY <1>1, <1>2, <1>4

Tags(o) == {o.fields[i].tag : i \in DOMAIN o.fields}

LEMMA SchemaOfOverlay ==
  ASSUME NEW o
  PROVE  /\ Schema(o).root[<<>>].tags = Tags(o)
         /\ DOMAIN Binding(o).components = Tags(o)
         /\ \A t \in Tags(o) : Binding(o).components[t] = Overlaid(o, t).component
         /\ \A t \in Tags(o) :
              Schema(o).root[<<t>>] =
                IF Overlaid(o, t).kind = "boolean" THEN Node("boolean", 0, 1, {}, {})
                ELSE Node(Overlaid(o, t).kind, Overlaid(o, t).minimum, Overlaid(o, t).maximum, {}, {})
<1>1. Schema(o).root[<<>>].tags = Tags(o)
  BY DEF Schema, Node, Tags
<1>2. ASSUME NEW t \in Tags(o)
      PROVE  Schema(o).root[<<t>>] =
               IF Overlaid(o, t).kind = "boolean" THEN Node("boolean", 0, 1, {}, {})
               ELSE Node(Overlaid(o, t).kind, Overlaid(o, t).minimum, Overlaid(o, t).maximum, {}, {})
  <2>1. <<t>> # <<>> /\ <<t>>[1] = t
    OBVIOUS
  <2> QED BY <2>1 DEF Schema, Tags
<1>3. /\ DOMAIN Binding(o).components = Tags(o)
      /\ \A t \in Tags(o) : Binding(o).components[t] = Overlaid(o, t).component
  BY <1>1 DEF Binding
<1> QED BY <1>1, <1>2, <1>3

LEMMA LoweredIsWhatItIs ==
  ASSUME NEW o \in Overlays, NEW d \in Documents, NEW profile, Reviewed(d, profile),
         lower_checked(d, profile, o) # {}
  PROVE  Exact([schema |-> Schema(o), binding |-> Binding(o)], d.program)
<1> PICK root \in d.declarations :
           /\ Plain_Record(d, root) /\ Mapped(o, d, root)
           /\ \A i \in DOMAIN o.fields : \A c \in Components(d, root) :
                c.id = o.fields[i].component => Lowerable(d, c, o.fields[i])
  BY DEF lower_checked
<1>1. /\ DOMAIN d.program = {c.id : c \in Components(d, root)}
      /\ \A c \in Components(d, root), type \in d.declarations :
           ~ c.conditional /\ ~ c.constrained /\ type.id = c.type /\ Unrefined(type.shape) =>
             \A low \in type.shape.range.low, high \in type.shape.range.high : d.program[c.id] = low .. high
  BY DocumentAssumption DEF Reviewed
<1>2. \A i \in DOMAIN o.fields : Overlaid(o, o.fields[i].tag) = o.fields[i] /\ validate_field_overlay(o.fields[i])
  BY FieldsAreOrdered
<1>3. {Binding(o).components[t] : t \in Tags(o)} = DOMAIN d.program
  <2>1. {o.fields[i].component : i \in DOMAIN o.fields} = DOMAIN d.program
    BY <1>1 DEF Mapped
  <2>2. {Binding(o).components[t] : t \in Tags(o)} = {o.fields[i].component : i \in DOMAIN o.fields}
    BY <1>2, SchemaOfOverlay, SMTT(60) DEF Tags
  <2> QED BY <2>1, <2>2
<1>4. ASSUME NEW t \in Tags(o)
      PROVE  Schema(o).root[<<t>>].minimum .. Schema(o).root[<<t>>].maximum = d.program[Binding(o).components[t]]
  <2> PICK i \in DOMAIN o.fields : t = o.fields[i].tag
    BY DEF Tags
  <2> PICK f : f = o.fields[i]
    OBVIOUS
  <2>1. Overlaid(o, t) = f /\ Binding(o).components[t] = f.component /\ validate_field_overlay(f)
    BY <1>2, SchemaOfOverlay
  <2> PICK c \in Components(d, root) : c.id = f.component
    BY DEF Mapped
  <2>2. Lowerable(d, c, f)
    OBVIOUS
  <2> PICK type \in d.declarations :
             /\ type.id = c.type
             /\ IF f.kind = "boolean" THEN validate_boolean_type(type) ELSE validate_integer_type(type, f)
    BY <2>2 DEF Lowerable
  <2>3. ~ c.conditional /\ ~ c.constrained
    BY <2>2 DEF Lowerable
  <2>4. CASE f.kind = "boolean"
    <3>1. Unrefined(type.shape) /\ type.shape.range.low = {0} /\ type.shape.range.high = {1}
      BY <2>4 DEF validate_boolean_type
    <3>2. d.program[c.id] = 0 .. 1
      BY <1>1, <2>3, <3>1, SMTT(60)
    <3>3. Schema(o).root[<<t>>] = Node("boolean", 0, 1, {}, {})
      BY <2>1, <2>4, SchemaOfOverlay
    <3> QED BY <2>1, <3>2, <3>3 DEF Node
  <2>5. CASE f.kind # "boolean"
    <3>1. Unrefined(type.shape) /\ type.shape.range.low = {f.minimum} /\ type.shape.range.high = {f.maximum}
      BY <2>5 DEF validate_integer_type
    <3>2. d.program[c.id] = f.minimum .. f.maximum
      BY <1>1, <2>3, <3>1, SMTT(60)
    <3>3. Schema(o).root[<<t>>] = Node(f.kind, f.minimum, f.maximum, {}, {})
      BY <2>1, <2>5, SchemaOfOverlay
    <3> QED BY <2>1, <3>2, <3>3 DEF Node
  <2> QED BY <2>4, <2>5
<1> QED BY <1>3, <1>4, SchemaOfOverlay DEF Exact

(* The schema and the binding the adapter publishes give the record type   *)
(* of the program its values, of all that makes it up, and no others.      *)
THEOREM Exactness == Spec => []LoweredIsExact
<1>1. IInv => LoweredIsExact
  <2> SUFFICES ASSUME IInv, NEW v \in disk["provenance"].text
               PROVE  Exact([schema |-> v.wire_schema_fingerprint, binding |-> Binding(v.overlay)], v.type_ir.program)
    BY DEF LoweredIsExact
  <2>1. Proper("provenance", v)
    BY DEF IInv, Shaped_State, Kept, Files
  <2> PICK o \in Overlays, d \in Documents, profile \in Profiles :
             Reviewed(d, profile) /\ lower_checked(d, profile, o) # {} /\ v = Provenance(d, profile, o)
    BY <2>1 DEF Proper
  <2>2. v.type_ir = d /\ v.overlay = o /\ v.wire_schema_fingerprint = Schema(o)
    BY DEF Provenance
  <2> QED BY <2>2, LoweredIsWhatItIs
<1> QED BY <1>1, Always, PTL

=============================================================================
