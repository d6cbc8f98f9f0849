-------------------------- MODULE MetadataDocuments --------------------------
(***************************************************************************)
(* Documents of Wire_Metadata_Input, decoded by concurrent tasks.  A task  *)
(* decodes only into documents it owns; what tasks share is the protected  *)
(* Snapshot_Identities, the heap the arenas come from, and cursors, which  *)
(* are values and outlive the document they were taken from.               *)
(*                                                                         *)
(* A source is what the steps of Decode make of its text: the step that    *)
(* rejects it, and the size of its arena.  Any step that allocates may     *)
(* also fail for want of storage, and the release of the parser may fail.  *)
(***************************************************************************)
EXTENDS Integers, FiniteSets

CONSTANTS
  Tasks,
  Documents,
  Owner,         (* Documents -> Tasks *)
  Sources,       (* what may be decoded *)
  Addresses,     (* where arenas are allocated *)
  LastIdentity,  (* Snapshot_Identity'Last: 2^64 - 1 *)
  Null           (* the null access value *)

Stage == {"idle", "preflight", "take", "allocate", "parse", "convert", "release", "validate", "publish"}

ASSUME DocumentsAssumption ==
  /\ Owner \in [Documents -> Tasks]
  /\ Sources \subseteq [rejected_by : Stage, values : Nat \ {0}, edges : Nat]
  /\ LastIdentity \in Nat \ {0}
  /\ Null \notin Addresses /\ Null \notin Documents

No_Snapshot == 0
Snapshot_Identity == 0 .. LastIdentity

VARIABLES
  next,       (* Snapshot_Identities.Next *)
  heap,       (* Addresses -> the arena allocated there, or Free *)
  data,       (* Documents -> Data *)
  snapshot,   (* Documents -> Snapshot *)
  root,       (* Documents -> Root_Value *)
  stage,      (* Tasks -> where its Decode is *)
  into,       (* Tasks -> the document it decodes into *)
  source,     (* Tasks -> what it decodes *)
  working_snapshot, working_data, working_root, (* Tasks -> locals of its Decode *)
  status,     (* Tasks -> the Status of its last Decode *)
  kept,       (* a cursor some task took and keeps *)
  allocated   (* history: arenas allocated so far *)

documents == <<data, snapshot, root>>
working == <<working_snapshot, working_data, working_root>>
vars == <<next, heap, documents, stage, into, source, working, status, kept, allocated>>

(* An arena: how many values and edges it has, and which allocation made   *)
(* it (history: no Ada component).                                         *)
Arena(values, edges, origin) == [values |-> values, edges |-> edges, origin |-> origin]
Free == Arena(0, 0, 0)

(* A Value_Cursor or a Child_Cursor; origin is history: the arena the      *)
(* cursor points into.                                                     *)
Cursor(kind, identity, index, origin) ==
  [kind |-> kind, snapshot |-> identity, index |-> index, origin |-> origin]
No_Value == Cursor("value", No_Snapshot, 0, 0)

Init ==
  /\ next = 1
  /\ heap = [a \in Addresses |-> Free]
  /\ data = [d \in Documents |-> Null]
  /\ snapshot = [d \in Documents |-> No_Snapshot]
  /\ root = [d \in Documents |-> 0]
  /\ stage = [t \in Tasks |-> "idle"]
  /\ into = [t \in Tasks |-> Null]
  /\ source = [t \in Tasks |-> Null]
  /\ working_snapshot = [t \in Tasks |-> No_Snapshot]
  /\ working_data = [t \in Tasks |-> Null]
  /\ working_root = [t \in Tasks |-> 0]
  /\ status = [t \in Tasks |-> "Rejected"]
  /\ kept = No_Value
  /\ allocated = 0

-----------------------------------------------------------------------------

(* Mutants: the counter leaves its range; it starts again. *)
Overrunning_Successor(identity) == identity + 1

Wrapping_Successor(identity) == IF identity = LastIdentity THEN 1 ELSE identity + 1

(* After the last identity there is No_Snapshot for ever. *)
Successor(identity) ==
  IF identity = LastIdentity THEN No_Snapshot
  ELSE IF identity # No_Snapshot THEN identity + 1
  ELSE No_Snapshot

Size(arena, kind) == IF kind = "value" THEN arena.values ELSE arena.edges

Is_Valid(d, cursor) ==
  /\ data[d] # Null
  /\ cursor.snapshot # No_Snapshot
  /\ cursor.snapshot = snapshot[d]
  /\ cursor.index # 0
  /\ cursor.index <= Size(heap[data[d]], cursor.kind)

(* What Root, Member, Child_Value and First_Child, Next_Child hand out. *)
Cursors(d) ==
  {Cursor(kind, snapshot[d], index, heap[data[d]].origin) :
     kind \in {"value", "child"}, index \in 1 .. heap[data[d]].values + heap[data[d]].edges}

Step(t, from, to) ==
  /\ stage[t] = from
  /\ stage' = [stage EXCEPT ![t] = to]

(* Nothing holds the vectors of an arena when it is released, so releasing *)
(* it does not raise, and the handler of Discard is not reached.           *)
Freed(a) == [b \in Addresses |-> IF b = a THEN Free ELSE heap[b]]

(* The parameters and locals of t go out of scope. *)
Leave(t) ==
  /\ stage' = [stage EXCEPT ![t] = "idle"]
  /\ into' = [into EXCEPT ![t] = Null]
  /\ source' = [source EXCEPT ![t] = Null]
  /\ working_snapshot' = [working_snapshot EXCEPT ![t] = No_Snapshot]
  /\ working_data' = [working_data EXCEPT ![t] = Null]
  /\ working_root' = [working_root EXCEPT ![t] = 0]
  /\ UNCHANGED <<kept, allocated>>

(* Mutants: a handler that forgets the arena; one that empties the         *)
(* document it could not fill.                                             *)
Leaking_Reject(t) ==
  /\ Leave(t)
  /\ UNCHANGED <<next, heap, documents, status>>

Clearing_Reject(t) ==
  /\ Leave(t)
  /\ heap' = [a \in Addresses |-> IF a \in {working_data[t], data[into[t]]} THEN Free ELSE heap[a]]
  /\ data' = [data EXCEPT ![into[t]] = Null]
  /\ snapshot' = [snapshot EXCEPT ![into[t]] = No_Snapshot]
  /\ root' = [root EXCEPT ![into[t]] = 0]
  /\ UNCHANGED <<next, status>>

(* Every exception handler of Decode: discard what was being built. *)
Reject(t) ==
  /\ Leave(t)
  /\ heap' = Freed(working_data[t])
  /\ UNCHANGED <<next, documents, status>>

RejectedBy(t, step) == source[t].rejected_by = step

Decode(t, d, text) ==
  /\ Owner[d] = t
  /\ Step(t, "idle", "preflight")
  /\ into' = [into EXCEPT ![t] = d]
  /\ source' = [source EXCEPT ![t] = text]
  /\ status' = [status EXCEPT ![t] = "Rejected"]
  /\ UNCHANGED <<next, heap, documents, working, kept, allocated>>

(* A step of Decode that touches no more than its place. *)
Passes(t, from, to) ==
  /\ Step(t, from, to)
  /\ ~ RejectedBy(t, from)
  /\ UNCHANGED <<next, heap, documents, into, source, working, status, kept, allocated>>

Preflight(t) ==
  \/ Passes(t, "preflight", "take")
  \/ stage[t] = "preflight" /\ RejectedBy(t, "preflight") /\ Reject(t)
  \/ stage[t] = "preflight" /\ Reject(t)

(* Snapshot_Identities.Take, a protected procedure. *)
Take(t) ==
  /\ Step(t, "take", "allocate")
  /\ working_snapshot' = [working_snapshot EXCEPT ![t] = next]
  /\ next' = Successor(next)
  /\ UNCHANGED <<heap, documents, into, source, working_data, working_root, status, kept, allocated>>

AllocateAt(t, a) ==
  /\ Step(t, "allocate", "parse")
  /\ working_snapshot[t] # No_Snapshot
  /\ heap[a] = Free
  /\ heap' = [heap EXCEPT ![a] = Arena(0, 0, allocated + 1)]
  /\ working_data' = [working_data EXCEPT ![t] = a]
  /\ allocated' = allocated + 1
  /\ UNCHANGED <<next, documents, into, source, working_snapshot, working_root, status, kept>>

Allocate(t) ==
  \/ \E a \in Addresses : AllocateAt(t, a)
  \/ stage[t] = "allocate" /\ working_snapshot[t] = No_Snapshot /\ Reject(t)
  \/ stage[t] = "allocate" /\ working_snapshot[t] # No_Snapshot /\ Reject(t)

Parse(t) ==
  \/ Passes(t, "parse", "convert")
  \/ stage[t] = "parse" /\ RejectedBy(t, "parse") /\ Reject(t)
  \/ stage[t] = "parse" /\ Reject(t)

Fill(t) ==
  /\ Step(t, "convert", "release")
  /\ ~ RejectedBy(t, "convert")
  /\ heap' = [heap EXCEPT ![working_data[t]] =
                Arena(source[t].values, source[t].edges, heap[working_data[t]].origin)]
  /\ working_root' = [working_root EXCEPT ![t] = 1]
  /\ UNCHANGED <<next, documents, into, source, working_snapshot, working_data, status, kept, allocated>>

Convert(t) ==
  \/ Fill(t)
  \/ stage[t] = "convert" /\ RejectedBy(t, "convert") /\ Reject(t)
  \/ stage[t] = "convert" /\ Reject(t)

(* The parser is given back before anything is published. *)
Release(t) ==
  \/ Passes(t, "release", "validate")
  \/ stage[t] = "release" /\ Reject(t)

Validate_Metadata(t) ==
  \/ Passes(t, "validate", "publish")
  \/ stage[t] = "validate" /\ RejectedBy(t, "validate") /\ Reject(t)

(* Mutant: the identity of a document that had one is left as it was. *)
Unstamped_Publish(t) ==
  /\ stage[t] = "publish"
  /\ Leave(t)
  /\ heap' = Freed(data[into[t]])
  /\ data' = [data EXCEPT ![into[t]] = working_data[t]]
  /\ snapshot' = [snapshot EXCEPT ![into[t]] = IF @ = No_Snapshot THEN working_snapshot[t] ELSE @]
  /\ root' = [root EXCEPT ![into[t]] = working_root[t]]
  /\ status' = [status EXCEPT ![t] = "Decoded"]
  /\ UNCHANGED next

(* The document gets the new arena, then the old one is freed. *)
Publish(t) ==
  /\ stage[t] = "publish"
  /\ Leave(t)
  /\ heap' = Freed(data[into[t]])
  /\ data' = [data EXCEPT ![into[t]] = working_data[t]]
  /\ snapshot' = [snapshot EXCEPT ![into[t]] = working_snapshot[t]]
  /\ root' = [root EXCEPT ![into[t]] = working_root[t]]
  /\ status' = [status EXCEPT ![t] = "Decoded"]
  /\ UNCHANGED next

(* Finalize, and the declaration of the next object in its place. *)
Finalize(d) ==
  /\ stage[Owner[d]] = "idle"
  /\ data[d] # Null
  /\ heap' = Freed(data[d])
  /\ data' = [data EXCEPT ![d] = Null]
  /\ snapshot' = [snapshot EXCEPT ![d] = No_Snapshot]
  /\ root' = [root EXCEPT ![d] = 0]
  /\ UNCHANGED <<next, stage, into, source, working, status, kept, allocated>>

(* Some task takes a cursor it will not let go of. *)
Keep(d) ==
  /\ stage[Owner[d]] = "idle"
  /\ kept = No_Value
  /\ root[d] # 0
  /\ \E cursor \in Cursors(d) : Is_Valid(d, cursor) /\ kept' = cursor
  /\ UNCHANGED <<next, heap, documents, stage, into, source, working, status, allocated>>

Advance(t) ==
  \/ Preflight(t) \/ Take(t) \/ Allocate(t) \/ Parse(t) \/ Convert(t)
  \/ Release(t) \/ Validate_Metadata(t) \/ Publish(t)

Next ==
  \/ \E t \in Tasks : Advance(t)
  \/ \E t \in Tasks, d \in Documents, text \in Sources : Decode(t, d, text)
  \/ \E d \in Documents : Finalize(d)
  \/ \E d \in Documents : Keep(d)

Spec == Init /\ [][Next]_vars

-----------------------------------------------------------------------------

(* Shapes of the variables. *)
TypeOK ==
  /\ next \in Snapshot_Identity
  /\ heap \in [Addresses -> [values : Nat, edges : Nat, origin : Nat]]
  /\ data \in [Documents -> Addresses \cup {Null}]
  /\ snapshot \in [Documents -> Snapshot_Identity]
  /\ root \in [Documents -> {0, 1}]
  /\ stage \in [Tasks -> Stage]
  /\ into \in [Tasks -> Documents \cup {Null}]
  /\ source \in [Tasks -> Sources \cup {Null}]
  /\ working_snapshot \in [Tasks -> Snapshot_Identity]
  /\ working_data \in [Tasks -> Addresses \cup {Null}]
  /\ working_root \in [Tasks -> {0, 1}]
  /\ status \in [Tasks -> {"Decoded", "Rejected"}]
  /\ kept \in [kind : {"value", "child"}, snapshot : Snapshot_Identity, index : Nat, origin : Nat]
  /\ allocated \in Nat

(* Every arena is held by one document or by one Decode in progress, and   *)
(* what a document or a Decode holds is allocated: nothing is lost, freed  *)
(* twice or reached after it was freed, whichever step of Decode fails.    *)
EveryArenaHasOneOwner ==
  /\ \A a \in Addresses : heap[a] # Free =>
       (\E d \in Documents : data[d] = a) \/ (\E t \in Tasks : working_data[t] = a)
  /\ \A d \in Documents : data[d] # Null =>
       /\ heap[data[d]] # Free
       /\ \A e \in Documents : data[e] = data[d] => e = d
       /\ \A t \in Tasks : working_data[t] # data[d]
  /\ \A t \in Tasks : working_data[t] # Null =>
       /\ heap[working_data[t]] # Free
       /\ \A u \in Tasks : working_data[u] = working_data[t] => u = t

(* A cursor is good for the document it was taken from and for no other,   *)
(* though arenas are reused, documents replaced and identities run out.    *)
CursorsPointWhereTaken ==
  \A d \in Documents : Is_Valid(d, kept) => heap[data[d]].origin = kept.origin

(* A cursor that no document accepts any more is never accepted again. *)
StaleCursorsStayStale ==
  [][(kept # No_Value /\ \A d \in Documents : ~ Is_Valid(d, kept)) =>
       \A d \in Documents : ~ Is_Valid(d, kept)']_vars

Held(d) == <<data[d], snapshot[d], root[d], IF data[d] = Null THEN Free ELSE heap[data[d]]>>

(* What a document holds changes as a whole, when the Decode into it ends  *)
(* with Decoded or when it is finalized: a Decode that is rejected at any *)
(* step, or another task's, leaves it as it was.                           *)
OnlySuccessReplaces ==
  [][\A d \in Documents :
       Held(d)' # Held(d) =>
         IF data'[d] = Null
           THEN stage[Owner[d]] = "idle"
           ELSE /\ stage[Owner[d]] # "idle" /\ stage'[Owner[d]] = "idle"
                /\ into[Owner[d]] = d
                /\ status'[Owner[d]] = "Decoded"
                /\ heap'[data'[d]].values = source[Owner[d]].values]_vars

(* The identities that were taken and are in no Decode any more. *)
Spent ==
  {identity \in 1 .. LastIdentity :
     /\ next = No_Snapshot \/ identity < next
     /\ \A t \in Tasks : working_snapshot[t] # identity}

Versions ==
  INSTANCE DocumentVersions WITH
    Versions <- 1 .. LastIdentity, NoVersion <- No_Snapshot, held <- snapshot, spent <- Spent

(* Every Decode that succeeds gives its document a version no document     *)
(* ever held.                                                              *)
ImplementsVersions == Versions!Spec

=============================================================================
