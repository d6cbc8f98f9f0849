----------------------- MODULE MetadataDocumentsProofs -----------------------
(***************************************************************************)
(* Proofs about MetadataDocuments, for any tasks, documents, sources,      *)
(* addresses and last identity.  The inductive invariant adds to the       *)
(* invariants of the model where the locals of a Decode may be set         *)
(* (Places), that an identity is handed out once (Identities) and what a   *)
(* kept cursor points into (KeptPoints).                                   *)
(***************************************************************************)
EXTENDS MetadataDocuments, TLAPS

(* The identities Take has handed out. *)
Taken(identity) == next = No_Snapshot \/ identity < next

Identities ==
  /\ \A t \in Tasks : working_snapshot[t] # No_Snapshot =>
       /\ Taken(working_snapshot[t])
       /\ \A u \in Tasks : working_snapshot[u] = working_snapshot[t] => u = t
  /\ \A d \in Documents : snapshot[d] # No_Snapshot =>
       /\ Taken(snapshot[d])
       /\ \A t \in Tasks : working_snapshot[t] # snapshot[d]
       /\ \A e \in Documents : snapshot[e] = snapshot[d] => e = d
  /\ \A d \in Documents : data[d] = Null <=> snapshot[d] = No_Snapshot

Early == {"idle", "preflight", "take", "allocate"}

Places ==
  \A t \in Tasks :
    /\ stage[t] # "idle" => into[t] \in Documents /\ Owner[into[t]] = t /\ source[t] \in Sources
    /\ stage[t] \in Early <=> working_data[t] = Null
    /\ stage[t] \in Early \ {"allocate"} => working_snapshot[t] = No_Snapshot
    /\ stage[t] \notin Early => working_snapshot[t] # No_Snapshot

Late == {"release", "validate", "publish"}

(* A converted arena holds the source of its Decode. *)
Filled ==
  \A t \in Tasks : stage[t] \in Late => heap[working_data[t]].values = source[t].values

KeptPoints ==
  /\ kept.snapshot # No_Snapshot =>
       /\ Taken(kept.snapshot)
       /\ \A t \in Tasks : working_snapshot[t] # kept.snapshot
       /\ \A d \in Documents :
            snapshot[d] = kept.snapshot => heap[data[d]].origin = kept.origin
  /\ kept.snapshot = No_Snapshot => kept = No_Value

IInv == TypeOK /\ Identities /\ EveryArenaHasOneOwner /\ Places /\ Filled /\ KeptPoints

(* Initially nothing is decoded, held or kept. *)
LEMMA InitIInv == Init => IInv
<1>. SUFFICES ASSUME Init PROVE IInv
  OBVIOUS
<1>. USE DocumentsAssumption DEF Init
<1>1. TypeOK
  BY DEF TypeOK, Snapshot_Identity, No_Snapshot, Free, Arena, Stage, No_Value, Cursor
<1>2. Identities
  BY DEF Identities, No_Snapshot
<1>3. EveryArenaHasOneOwner
  BY DEF EveryArenaHasOneOwner
<1>4. Places
  BY DEF Places, Early, No_Snapshot
<1>f. Filled
  BY DEF Filled, Late
<1>5. KeptPoints
  BY DEF KeptPoints, No_Snapshot, No_Value, Cursor
<1>. QED
  BY <1>1, <1>2, <1>3, <1>4, <1>5, <1>f DEF IInv

(* Starting a Decode, and the steps of one that only move on. *)
LEMMA MovingOn ==
  ASSUME IInv, NEW t \in Tasks,
         UNCHANGED <<next, heap, documents, working, kept, allocated>>,
         into' \in [Tasks -> Documents \cup {Null}], source' \in [Tasks -> Sources \cup {Null}],
         status' \in [Tasks -> {"Decoded", "Rejected"}],
         NEW to \in Stage, stage' = [stage EXCEPT ![t] = to],
         to # "idle", to \in Early <=> stage[t] \in Early,
         to = "allocate" => stage[t] = "allocate",
         stage[t] = "allocate" => to = "allocate",
         to \in Late => stage[t] \in Late /\ source'[t] = source[t],
         into'[t] \in Documents /\ Owner[into'[t]] = t /\ source'[t] \in Sources,
         \A u \in Tasks : u # t => into'[u] = into[u] /\ source'[u] = source[u]
  PROVE  IInv'
<1>. USE DEF documents, working
<1>1. TypeOK'
  BY DEF IInv, TypeOK
<1>2. Identities'
  BY DEF IInv, Identities, Taken
<1>3. EveryArenaHasOneOwner'
  BY DEF IInv, EveryArenaHasOneOwner
<1>4. Places'
  <2>. SUFFICES ASSUME NEW u \in Tasks
                PROVE  (/\ stage[u] # "idle" => into[u] \in Documents /\ Owner[into[u]] = u /\ source[u] \in Sources
                        /\ stage[u] \in Early <=> working_data[u] = Null
                        /\ stage[u] \in Early \ {"allocate"} => working_snapshot[u] = No_Snapshot
                        /\ stage[u] \notin Early => working_snapshot[u] # No_Snapshot)'
    BY DEF Places
  <2>1. CASE u = t
    BY <2>1 DEF IInv, Places, TypeOK, Early
  <2>2. CASE u # t
    BY <2>2 DEF IInv, Places, TypeOK
  <2>. QED BY <2>1, <2>2
<1>f. Filled'
  BY DEF IInv, Filled, TypeOK
<1>5. KeptPoints'
  BY DEF IInv, KeptPoints, Taken
<1>. QED
  BY <1>1, <1>2, <1>3, <1>4, <1>5, <1>f DEF IInv

(* Taking an identity: it is the next one, and nobody has it. *)
LEMMA Taking ==
  ASSUME IInv, NEW t \in Tasks, Take(t)
  PROVE  IInv'
<1>. USE DocumentsAssumption DEF Take, Step, documents, No_Snapshot
<1>0. /\ next' \in Snapshot_Identity
      /\ next = 0 => next' = 0
      /\ next # 0 => next' = 0 \/ next' = next + 1
  <2>1. next \in 0 .. LastIdentity /\ LastIdentity \in Nat \ {0}
    BY DEF IInv, TypeOK, Snapshot_Identity
  <2>2. next' = IF next = LastIdentity THEN 0 ELSE IF next # 0 THEN next + 1 ELSE 0
    BY DEF Successor
  <2>. QED BY <2>1, <2>2, SMT DEF Snapshot_Identity
<1>n. next \in Nat /\ next' \in Nat
  BY <1>0 DEF IInv, TypeOK, Snapshot_Identity
<1>1. TypeOK'
  BY <1>0 DEF IInv, TypeOK, Stage
<1>2. Identities'
  <2>w. \A u \in Tasks : working_snapshot'[u] = IF u = t THEN next ELSE working_snapshot[u]
    BY DEF IInv, TypeOK
  <2>n. /\ \A u \in Tasks : working_snapshot[u] \in Nat
        /\ \A d \in Documents : snapshot[d] \in Nat
    BY DEF IInv, TypeOK, Snapshot_Identity
  <2>1. \A u \in Tasks : working_snapshot'[u] # 0 =>
          /\ Taken(working_snapshot[u])'
          /\ \A v \in Tasks : working_snapshot'[v] = working_snapshot'[u] => v = u
    BY <1>0, <1>n, <2>w, <2>n DEF IInv, Identities, Taken
  <2>2. \A d \in Documents : snapshot'[d] # 0 =>
          /\ Taken(snapshot[d])'
          /\ \A u \in Tasks : working_snapshot'[u] # snapshot'[d]
          /\ \A e \in Documents : snapshot'[e] = snapshot'[d] => e = d
    BY <1>0, <1>n, <2>w, <2>n DEF IInv, Identities, Taken
  <2>. QED BY <2>1, <2>2 DEF IInv, Identities
<1>3. EveryArenaHasOneOwner'
  BY DEF IInv, EveryArenaHasOneOwner
<1>4. Places'
  BY DEF IInv, Places, TypeOK, Early
<1>f. Filled'
  BY DEF IInv, Filled, TypeOK, Late
<1>5. KeptPoints'
  <2>k. kept.snapshot \in Nat
    BY DEF IInv, TypeOK, Snapshot_Identity
  <2>. QED BY <1>0, <1>n, <2>k DEF IInv, KeptPoints, Taken, TypeOK
<1>. QED
  BY <1>1, <1>2, <1>3, <1>4, <1>5, <1>f DEF IInv

(* Allocating an arena at a free address. *)
LEMMA Allocating ==
  ASSUME IInv, NEW t \in Tasks, NEW a \in Addresses, AllocateAt(t, a)
  PROVE  IInv'
<1>. USE DocumentsAssumption DEF AllocateAt, Step, documents, No_Snapshot
<1>h. /\ heap'[a] # Free
      /\ heap' \in [Addresses -> [values : Nat, edges : Nat, origin : Nat]]
      /\ \A b \in Addresses : b # a => heap'[b] = heap[b]
  BY DEF IInv, TypeOK, Free, Arena
<1>d. \A d \in Documents : data[d] # a
  BY DEF IInv, EveryArenaHasOneOwner
<1>w. \A u \in Tasks : working_data[u] # a
  BY DEF IInv, EveryArenaHasOneOwner
<1>t. working_data[t] = Null
  BY DEF IInv, Places, Early
<1>1. TypeOK'
  BY <1>h DEF IInv, TypeOK, Stage
<1>2. Identities'
  BY DEF IInv, Identities, Taken
<1>3. EveryArenaHasOneOwner'
  BY <1>h, <1>d, <1>w, <1>t DEF IInv, EveryArenaHasOneOwner, TypeOK
<1>4. Places'
  BY DEF IInv, Places, TypeOK, Early
<1>f. Filled'
  <2>1. \A u \in Tasks : u # t /\ stage'[u] \in Late =>
          /\ working_data[u] # Null
          /\ heap'[working_data[u]] = heap[working_data[u]]
          /\ working_data'[u] = working_data[u] /\ source'[u] = source[u] /\ stage'[u] = stage[u]
    BY <1>h, <1>w DEF IInv, Places, Early, Late, EveryArenaHasOneOwner, TypeOK
  <2>2. stage'[t] \notin Late
    BY DEF IInv, TypeOK, Late
  <2>. QED BY <2>1, <2>2 DEF IInv, Filled
<1>5. KeptPoints'
  BY <1>h, <1>d DEF IInv, KeptPoints, Taken, TypeOK, Identities
<1>. QED
  BY <1>1, <1>2, <1>3, <1>4, <1>5, <1>f DEF IInv

(* Every rejection, wherever Decode is. *)
LEMMA Rejecting ==
  ASSUME IInv, NEW t \in Tasks, Reject(t)
  PROVE  IInv'
<1>. USE DocumentsAssumption DEF Reject, Leave, documents, No_Snapshot
<1>h. /\ heap' \in [Addresses -> [values : Nat, edges : Nat, origin : Nat]]
      /\ \A b \in Addresses : heap'[b] = IF b = working_data[t] THEN Free ELSE heap[b]
  BY DEF IInv, TypeOK, Free, Arena, Freed
<1>1. TypeOK'
  BY <1>h DEF IInv, TypeOK, Stage, Snapshot_Identity
<1>2. Identities'
  BY DEF IInv, Identities, Taken, TypeOK
<1>3. EveryArenaHasOneOwner'
  BY <1>h, SMTT(60) DEF IInv, EveryArenaHasOneOwner, TypeOK
<1>4. Places'
  BY DEF IInv, Places, TypeOK, Early
<1>f. Filled'
  <2>1. \A u \in Tasks : u # t /\ stage'[u] \in Late =>
          /\ working_data[u] # Null
          /\ heap'[working_data[u]] = heap[working_data[u]]
          /\ working_data'[u] = working_data[u] /\ source'[u] = source[u] /\ stage'[u] = stage[u]
    BY <1>h, SMTT(60) DEF IInv, Places, Early, Late, EveryArenaHasOneOwner, TypeOK
  <2>2. stage'[t] \notin Late
    BY DEF IInv, TypeOK, Late
  <2>. QED BY <2>1, <2>2 DEF IInv, Filled
<1>5. KeptPoints'
  <2>1. \A d \in Documents : data[d] # Null => heap'[data[d]] = heap[data[d]]
    BY <1>h DEF IInv, EveryArenaHasOneOwner, TypeOK
  <2>. QED BY <2>1 DEF IInv, KeptPoints, Taken, TypeOK, Identities
<1>. QED
  BY <1>1, <1>2, <1>3, <1>4, <1>5, <1>f DEF IInv

(* Converting fills the arena of this Decode only. *)
LEMMA Filling ==
  ASSUME IInv, NEW t \in Tasks, Fill(t)
  PROVE  IInv'
<1>. USE DocumentsAssumption DEF Fill, Step, documents, No_Snapshot
<1>w. working_data[t] \in Addresses /\ working_data[t] # Null
  BY SMTT(60) DEF IInv, Places, TypeOK, Early
<1>s. source[t].values \in Nat \ {0} /\ source[t].edges \in Nat
  BY DEF IInv, Places
<1>h. /\ heap' \in [Addresses -> [values : Nat, edges : Nat, origin : Nat]]
      /\ heap'[working_data[t]] # Free
      /\ \A b \in Addresses : b # working_data[t] => heap'[b] = heap[b]
  <2>1. heap[working_data[t]].origin \in Nat
    BY <1>w DEF IInv, TypeOK
  <2>2. heap' = [heap EXCEPT ![working_data[t]] =
                   Arena(source[t].values, source[t].edges, heap[working_data[t]].origin)]
    OBVIOUS
  <2>3. Arena(source[t].values, source[t].edges, heap[working_data[t]].origin)
          \in [values : Nat, edges : Nat, origin : Nat]
    BY <1>s, <2>1 DEF Arena
  <2>4. Arena(source[t].values, source[t].edges, heap[working_data[t]].origin) # Free
    BY <1>s DEF Arena, Free
  <2>. QED BY <1>w, <2>2, <2>3, <2>4 DEF IInv, TypeOK
<1>v. heap'[working_data[t]].values = source[t].values
  BY <1>w DEF Arena, IInv, TypeOK
<1>1. TypeOK'
  BY <1>h DEF IInv, TypeOK, Stage
<1>2. Identities'
  BY DEF IInv, Identities, Taken
<1>3. EveryArenaHasOneOwner'
  BY <1>h, <1>w DEF IInv, EveryArenaHasOneOwner, TypeOK
<1>4. Places'
  BY DEF IInv, Places, TypeOK, Early
<1>f. Filled'
  <2>1. \A u \in Tasks : u # t /\ stage'[u] \in Late =>
          /\ working_data[u] # Null
          /\ heap'[working_data[u]] = heap[working_data[u]]
          /\ working_data'[u] = working_data[u] /\ source'[u] = source[u] /\ stage'[u] = stage[u]
    BY <1>h, <1>w, SMTT(60) DEF IInv, Places, Early, Late, EveryArenaHasOneOwner, TypeOK
  <2>2. heap'[working_data'[t]].values = source'[t].values
    BY <1>h, <1>w, <1>v
  <2>. QED BY <2>1, <2>2 DEF IInv, Filled
<1>5. KeptPoints'
  <2>1. \A d \in Documents : data[d] # Null => heap'[data[d]] = heap[data[d]]
    BY <1>h DEF IInv, EveryArenaHasOneOwner, TypeOK
  <2>. QED BY <2>1 DEF IInv, KeptPoints, Taken, TypeOK, Identities
<1>. QED
  BY <1>1, <1>2, <1>3, <1>4, <1>5, <1>f DEF IInv

(* Publishing hands arena and identity over to the document. *)
LEMMA Publishing ==
  ASSUME IInv, NEW t \in Tasks, Publish(t)
  PROVE  IInv'
<1>. USE DocumentsAssumption DEF Publish, Leave, No_Snapshot
<1>p. /\ into[t] \in Documents
      /\ working_data[t] \in Addresses /\ working_data[t] # Null
      /\ working_snapshot[t] # No_Snapshot
      /\ data[into[t]] # working_data[t]
  BY SMTT(60) DEF IInv, Places, TypeOK, Early, EveryArenaHasOneOwner
<1>h. /\ heap' \in [Addresses -> [values : Nat, edges : Nat, origin : Nat]]
      /\ \A b \in Addresses : heap'[b] = IF b = data[into[t]] THEN Free ELSE heap[b]
  BY DEF IInv, TypeOK, Free, Arena, Freed
<1>1. TypeOK'
  BY <1>h, <1>p DEF IInv, TypeOK, Stage, Snapshot_Identity
<1>2. Identities'
  BY <1>p DEF IInv, Identities, Taken, TypeOK
<1>3. EveryArenaHasOneOwner'
  BY <1>h, <1>p DEF IInv, EveryArenaHasOneOwner, TypeOK
<1>4. Places'
  BY DEF IInv, Places, TypeOK, Early
<1>f. Filled'
  <2>1. \A u \in Tasks : u # t /\ stage'[u] \in Late =>
          /\ working_data[u] # Null
          /\ heap'[working_data[u]] = heap[working_data[u]]
          /\ working_data'[u] = working_data[u] /\ source'[u] = source[u] /\ stage'[u] = stage[u]
    BY <1>h, <1>p DEF IInv, Places, Early, Late, EveryArenaHasOneOwner, TypeOK
  <2>2. stage'[t] \notin Late
    BY DEF IInv, TypeOK, Late
  <2>. QED BY <2>1, <2>2 DEF IInv, Filled
<1>5. KeptPoints'
  <2>1. \A d \in Documents : d # into[t] /\ data[d] # Null => heap'[data[d]] = heap[data[d]]
    BY <1>h, <1>p DEF IInv, EveryArenaHasOneOwner, TypeOK
  <2>. QED BY <1>p, <2>1 DEF IInv, KeptPoints, Taken, TypeOK, Identities
<1>. QED
  BY <1>1, <1>2, <1>3, <1>4, <1>5, <1>f DEF IInv

(* Finalizing a document frees its arena. *)
LEMMA Finalizing ==
  ASSUME IInv, NEW d \in Documents, Finalize(d)
  PROVE  IInv'
<1>. USE DocumentsAssumption DEF Finalize, working, No_Snapshot
<1>h. /\ heap' \in [Addresses -> [values : Nat, edges : Nat, origin : Nat]]
      /\ \A b \in Addresses : heap'[b] = IF b = data[d] THEN Free ELSE heap[b]
  BY DEF IInv, TypeOK, Free, Arena, Freed
<1>1. TypeOK'
  BY <1>h DEF IInv, TypeOK, Snapshot_Identity
<1>2. Identities'
  BY DEF IInv, Identities, Taken, TypeOK
<1>3. EveryArenaHasOneOwner'
  <2>1. \A e \in Documents : data'[e] = IF e = d THEN Null ELSE data[e]
    BY DEF IInv, TypeOK
  <2>2. \A e \in Documents : e # d /\ data[e] # Null => data[e] # data[d] /\ heap'[data[e]] = heap[data[e]]
    BY <1>h DEF IInv, EveryArenaHasOneOwner, TypeOK
  <2>3. \A u \in Tasks : working_data[u] # Null =>
          working_data[u] # data[d] /\ heap'[working_data[u]] = heap[working_data[u]]
    BY <1>h DEF IInv, EveryArenaHasOneOwner, TypeOK
  <2>4. (\A a \in Addresses : heap[a] # Free =>
           (\E e \in Documents : data[e] = a) \/ (\E u \in Tasks : working_data[u] = a))'
    BY <1>h, <2>1 DEF IInv, EveryArenaHasOneOwner
  <2>. QED BY <2>1, <2>2, <2>3, <2>4 DEF IInv, EveryArenaHasOneOwner
<1>4. Places'
  BY DEF IInv, Places
<1>f. Filled'
  <2>1. \A u \in Tasks : stage[u] \in Late =>
          working_data[u] # Null /\ heap'[working_data[u]] = heap[working_data[u]]
    BY <1>h, SMTT(60) DEF IInv, Places, Early, Late, EveryArenaHasOneOwner, TypeOK
  <2>. QED BY <2>1 DEF IInv, Filled
<1>5. KeptPoints'
  <2>1. \A e \in Documents : e # d /\ data[e] # Null => heap'[data[e]] = heap[data[e]]
    BY <1>h DEF IInv, EveryArenaHasOneOwner, TypeOK
  <2>. QED BY <2>1 DEF IInv, KeptPoints, Taken, TypeOK, Identities
<1>. QED
  BY <1>1, <1>2, <1>3, <1>4, <1>5, <1>f DEF IInv

(* Keeping a cursor of a document. *)
LEMMA Keeping ==
  ASSUME IInv, NEW d \in Documents, Keep(d)
  PROVE  IInv'
<1>. USE DocumentsAssumption DEF Keep, documents, working, No_Snapshot
<1>1. PICK kind \in {"value", "child"}, index \in Nat :
        /\ Is_Valid(d, Cursor(kind, snapshot[d], index, heap[data[d]].origin))
        /\ kept' = Cursor(kind, snapshot[d], index, heap[data[d]].origin)
  BY DEF Cursors, IInv, TypeOK
<1>2. data[d] # Null /\ snapshot[d] # 0 /\ data[d] \in Addresses
  BY DEF IInv, Identities, TypeOK, Is_Valid
<1>3. /\ kept'.snapshot = snapshot[d]
      /\ kept'.origin = heap[data[d]].origin
      /\ kept' \in [kind : {"value", "child"}, snapshot : Snapshot_Identity, index : Nat, origin : Nat]
  BY <1>1, <1>2 DEF Cursor, IInv, TypeOK
<1>4. TypeOK'
  BY <1>3 DEF IInv, TypeOK
<1>5. Identities'
  BY DEF IInv, Identities, Taken
<1>6. EveryArenaHasOneOwner'
  BY DEF IInv, EveryArenaHasOneOwner
<1>7. Places'
  BY DEF IInv, Places
<1>f. Filled'
  BY DEF IInv, Filled
<1>8. KeptPoints'
  BY <1>2, <1>3 DEF IInv, KeptPoints, Identities, Taken
<1>. QED
  BY <1>4, <1>5, <1>6, <1>7, <1>8, <1>f DEF IInv

(* Every step is one of those. *)
LEMMA NextStep == IInv /\ [Next]_vars => IInv'
<1>. SUFFICES ASSUME IInv, [Next]_vars PROVE IInv'
  OBVIOUS
<1>1. CASE UNCHANGED vars
  BY <1>1 DEF vars, documents, working, IInv, TypeOK, Identities, Taken,
              EveryArenaHasOneOwner, Places, Filled, KeptPoints
<1>2. ASSUME NEW t \in Tasks, NEW from \in Stage, NEW to \in Stage, Passes(t, from, to),
             from # "idle", to # "idle", to # "allocate", from # "allocate",
             from \in Early <=> to \in Early, to \in Late => from \in Late
      PROVE  IInv'
  BY <1>2, MovingOn DEF Passes, Step, documents, working, IInv, TypeOK, Places
<1>3. ASSUME NEW t \in Tasks, Advance(t) PROVE IInv'
  <2>1. CASE Preflight(t)
    BY <2>1, <1>2, Rejecting DEF Preflight, Stage, Early, Late
  <2>2. CASE Take(t)
    BY <2>2, Taking
  <2>3. CASE Allocate(t)
    BY <2>3, Allocating, Rejecting DEF Allocate
  <2>4. CASE Parse(t)
    BY <2>4, <1>2, Rejecting DEF Parse, Stage, Early, Late
  <2>5. CASE Convert(t)
    BY <2>5, Filling, Rejecting DEF Convert
  <2>6. CASE Release(t)
    BY <2>6, <1>2, Rejecting DEF Release, Stage, Early, Late
  <2>7. CASE Validate_Metadata(t)
    BY <2>7, <1>2, Rejecting DEF Validate_Metadata, Stage, Early, Late
  <2>8. CASE Publish(t)
    BY <2>8, Publishing
  <2>. QED BY <1>3, <2>1, <2>2, <2>3, <2>4, <2>5, <2>6, <2>7, <2>8 DEF Advance
<1>4. ASSUME NEW t \in Tasks, NEW d \in Documents, NEW text \in Sources, Decode(t, d, text)
      PROVE  IInv'
  <2>1. /\ into' = [into EXCEPT ![t] = d]
        /\ source' = [source EXCEPT ![t] = text]
        /\ stage' = [stage EXCEPT ![t] = "preflight"] /\ stage[t] = "idle"
        /\ status' = [status EXCEPT ![t] = "Rejected"]
        /\ UNCHANGED <<next, heap, documents, working, kept, allocated>>
        /\ Owner[d] = t
    BY <1>4 DEF Decode, Step
  <2>2. /\ into' \in [Tasks -> Documents \cup {Null}]
        /\ source' \in [Tasks -> Sources \cup {Null}]
        /\ status' \in [Tasks -> {"Decoded", "Rejected"}]
        /\ into'[t] = d /\ source'[t] = text
        /\ \A u \in Tasks : u # t => into'[u] = into[u] /\ source'[u] = source[u]
    BY <2>1 DEF IInv, TypeOK
  <2>3. /\ "preflight" \in Stage /\ "preflight" # "idle"
        /\ "preflight" \in Early <=> stage[t] \in Early
        /\ "preflight" = "allocate" => stage[t] = "allocate"
        /\ stage[t] = "allocate" => "preflight" = "allocate"
        /\ "preflight" \in Late => stage[t] \in Late /\ source'[t] = source[t]
    BY <2>1 DEF Stage, Early, Late
  <2>4. into'[t] \in Documents /\ Owner[into'[t]] = t /\ source'[t] \in Sources
    BY <2>1, <2>2
  <2>. QED BY <2>1, <2>2, <2>3, <2>4, MovingOn, Zenon
<1>5. ASSUME NEW d \in Documents, Finalize(d) PROVE IInv'
  BY <1>5, Finalizing
<1>6. ASSUME NEW d \in Documents, Keep(d) PROVE IInv'
  BY <1>6, Keeping
<1>. QED
  BY <1>1, <1>3, <1>4, <1>5, <1>6 DEF Next

LEMMA Behaviours == Spec => []IInv
<1>1. Init => IInv
  BY InitIInv
<1>2. IInv /\ [Next]_vars => IInv'
  BY NextStep
<1>. QED
  BY <1>1, <1>2, PTL DEF Spec

(* The variables keep their shapes. *)
THEOREM Types == Spec => []TypeOK
<1>1. IInv => TypeOK
  BY DEF IInv
<1>. QED
  BY <1>1, Behaviours, PTL

(* However Decode ends, and however often documents are replaced and       *)
(* finalized, every arena has exactly one owner.                           *)
THEOREM Ownership == Spec => []EveryArenaHasOneOwner
<1>1. IInv => EveryArenaHasOneOwner
  BY DEF IInv
<1>. QED
  BY <1>1, Behaviours, PTL

(* A cursor is good for the document it was taken from and no other, for   *)
(* any number of tasks, documents and identities.                          *)
THEOREM CursorsAreBound == Spec => []CursorsPointWhereTaken
<1>1. IInv => CursorsPointWhereTaken
  BY DEF IInv, CursorsPointWhereTaken, Is_Valid, KeptPoints
<1>. QED
  BY <1>1, Behaviours, PTL

(* The initial documents hold no version. *)
LEMMA InitVersions == Init => Versions!Init
<1>. SUFFICES ASSUME Init PROVE Versions!Init
  OBVIOUS
<1>1. Spent = {}
  BY SMT DEF Init, Spent, No_Snapshot
<1>. QED
  BY <1>1 DEF Init, Versions!Init

(* Steps that settle no identity and change no document stutter. *)
LEMMA Stuttering ==
  ASSUME IInv, UNCHANGED snapshot,
         \A i \in 1 .. LastIdentity :
           (Taken(i) /\ \A u \in Tasks : working_snapshot[u] # i) <=>
           (Taken(i) /\ \A u \in Tasks : working_snapshot[u] # i)'
  PROVE  UNCHANGED Versions!vars
BY DEF Versions!vars, Spent, Taken

(* When a Decode ends, its identity is settled. *)
LEMMA Settling ==
  ASSUME IInv, NEW t \in Tasks, Leave(t), UNCHANGED next, working_snapshot[t] # No_Snapshot
  PROVE  /\ working_snapshot[t] \in 1 .. LastIdentity
         /\ working_snapshot[t] \notin Spent
         /\ Spent' = Spent \cup {working_snapshot[t]}
<1>. USE DocumentsAssumption DEF No_Snapshot
<1>1. working_snapshot[t] \in 1 .. LastIdentity
  <2>1. working_snapshot[t] \in 0 .. LastIdentity /\ LastIdentity \in Nat
    BY DEF IInv, TypeOK, Snapshot_Identity
  <2>. QED BY <2>1, SMT
<1>2. \A u \in Tasks : working_snapshot'[u] = IF u = t THEN 0 ELSE working_snapshot[u]
  BY DEF Leave, IInv, TypeOK
<1>3. Taken(working_snapshot[t])
  BY DEF IInv, Identities
<1>4. \A u \in Tasks : working_snapshot[u] = working_snapshot[t] => u = t
  BY DEF IInv, Identities
<1>5. \A i \in 1 .. LastIdentity :
        i \in Spent' <=> i \in Spent \/ i = working_snapshot[t]
  BY <1>1, <1>2, <1>3, <1>4 DEF Spent, Taken
<1>. QED
  BY <1>1, <1>5 DEF Spent

(* Every step of the implementation is a step of DocumentVersions. *)
LEMMA StepVersions == IInv /\ [Next]_vars => [Versions!Next]_(Versions!vars)
<1>. SUFFICES ASSUME IInv, [Next]_vars PROVE Versions!Next \/ UNCHANGED Versions!vars
  OBVIOUS
<1>. USE DEF No_Snapshot
<1>1. ASSUME NEW t \in Tasks, Reject(t) PROVE Versions!Next \/ UNCHANGED Versions!vars
  <2>1. Leave(t) /\ UNCHANGED <<next, snapshot>>
    BY <1>1 DEF Reject, documents
  <2>2. CASE working_snapshot[t] # 0
    BY <2>1, <2>2, Settling DEF Versions!Next, Versions!Abandon
  <2>3. CASE working_snapshot[t] = 0
    <3>1. working_snapshot' = working_snapshot
      BY <2>1, <2>3 DEF Leave, IInv, TypeOK
    <3>. QED BY <2>1, <3>1, Stuttering DEF Taken
  <2>. QED BY <2>2, <2>3
<1>2. ASSUME NEW t \in Tasks, Publish(t) PROVE Versions!Next
  <2>1. Leave(t) /\ UNCHANGED next /\ into[t] \in Documents /\ working_snapshot[t] # 0
    BY <1>2 DEF Publish, IInv, Places, Early
  <2>2. snapshot' = [snapshot EXCEPT ![into[t]] = working_snapshot[t]]
    BY <1>2 DEF Publish
  <2>. QED BY <2>1, <2>2, Settling DEF Versions!Next, Versions!Publish
<1>3. ASSUME NEW d \in Documents, Finalize(d) PROVE Versions!Next
  <2>1. /\ snapshot' = [snapshot EXCEPT ![d] = 0]
        /\ next' = next /\ working_snapshot' = working_snapshot
    BY <1>3 DEF Finalize, working
  <2>2. Spent' = Spent
    BY <2>1 DEF Spent
  <2>. QED BY <2>1, <2>2 DEF Versions!Next, Versions!Drop
<1>4. ASSUME NEW t \in Tasks, Take(t) PROVE UNCHANGED Versions!vars
  <2>1. /\ working_snapshot' = [working_snapshot EXCEPT ![t] = next]
        /\ next' = Successor(next) /\ snapshot' = snapshot /\ stage[t] = "take"
    BY <1>4 DEF Take, Step, documents
  <2>2. working_snapshot[t] = 0
    BY <2>1 DEF IInv, Places, Early
  <2>3. next \in 0 .. LastIdentity /\ LastIdentity \in Nat \ {0}
    BY DocumentsAssumption DEF IInv, TypeOK, Snapshot_Identity
  <2>4. \A u \in Tasks : working_snapshot'[u] = IF u = t THEN next ELSE working_snapshot[u]
    BY <2>1 DEF IInv, TypeOK
  <2>5. \A i \in 1 .. LastIdentity : Taken(i)' <=> Taken(i) \/ i = next
    BY <2>1, <2>3 DEF Taken, Successor
  <2>n. next # 0 => ~ Taken(next)
    BY <2>3 DEF Taken
  <2>6. \A u \in Tasks : next # 0 => working_snapshot[u] # next
    BY <2>n DEF IInv, Identities
  <2>7. \A i \in 1 .. LastIdentity :
           (Taken(i) /\ \A u \in Tasks : working_snapshot[u] # i) <=>
           (Taken(i) /\ \A u \in Tasks : working_snapshot[u] # i)'
    <3>. TAKE i \in 1 .. LastIdentity
    <3>1. CASE i = next
      BY <2>4, <2>n, <3>1
    <3>2. CASE i # next
      <4>1. \A u \in Tasks : working_snapshot[u] # i <=> working_snapshot'[u] # i
        BY <2>2, <2>4, <3>2
      <4>2. Taken(i)' <=> Taken(i)
        BY <2>5, <3>2
      <4>. QED BY <4>1, <4>2
    <3>. QED BY <3>1, <3>2
  <2>. QED BY <2>1, <2>7, Stuttering
<1>5. ASSUME UNCHANGED <<next, snapshot, working_snapshot>> PROVE UNCHANGED Versions!vars
  BY <1>5, Stuttering DEF Taken
<1>6. CASE UNCHANGED vars
  BY <1>6, <1>5 DEF vars, documents, working
<1>7. ASSUME NEW t \in Tasks, NEW from, NEW to, Passes(t, from, to) PROVE UNCHANGED Versions!vars
  BY <1>7, <1>5 DEF Passes, documents, working
<1>8. ASSUME NEW t \in Tasks, Advance(t) PROVE Versions!Next \/ UNCHANGED Versions!vars
  <2>1. CASE Preflight(t)
    BY <2>1, <1>1, <1>7 DEF Preflight
  <2>2. CASE Take(t)
    BY <2>2, <1>4
  <2>3. CASE Allocate(t)
    BY <2>3, <1>1, <1>5 DEF Allocate, AllocateAt, documents
  <2>4. CASE Parse(t)
    BY <2>4, <1>1, <1>7 DEF Parse
  <2>5. CASE Convert(t)
    BY <2>5, <1>1, <1>5 DEF Convert, Fill, documents
  <2>6. CASE Release(t)
    BY <2>6, <1>1, <1>7 DEF Release
  <2>7. CASE Validate_Metadata(t)
    BY <2>7, <1>1, <1>7 DEF Validate_Metadata
  <2>8. CASE Publish(t)
    BY <2>8, <1>2
  <2>. QED BY <1>8, <2>1, <2>2, <2>3, <2>4, <2>5, <2>6, <2>7, <2>8 DEF Advance
<1>9. ASSUME NEW t \in Tasks, NEW d \in Documents, NEW text \in Sources, Decode(t, d, text)
      PROVE  UNCHANGED Versions!vars
  BY <1>9, <1>5 DEF Decode, documents, working
<1>10. ASSUME NEW d \in Documents, Keep(d) PROVE UNCHANGED Versions!vars
  BY <1>10, <1>5 DEF Keep, documents, working
<1>. QED
  BY <1>3, <1>6, <1>8, <1>9, <1>10 DEF Next

(* Documents decoded by any number of concurrent tasks implement the       *)
(* versions: no two successful Decodes ever share one, and no document     *)
(* gets one back.                                                          *)
THEOREM Refinement == Spec => ImplementsVersions
<1>1. Init => Versions!Init
  BY InitVersions
<1>2. IInv /\ [Next]_vars => [Versions!Next]_(Versions!vars)
  BY StepVersions
<1>. QED
  BY <1>1, <1>2, Behaviours, PTL DEF Spec, ImplementsVersions, Versions!Spec

(* What a document holds stays, unless it is finalized or a Decode into it *)
(* is published.                                                           *)
LEMMA HeldSteps ==
  ASSUME IInv, [Next]_vars, NEW d \in Documents
  PROVE  \/ /\ data'[d] = data[d] /\ snapshot'[d] = snapshot[d] /\ root'[d] = root[d]
            /\ data[d] # Null => heap'[data[d]] = heap[data[d]]
         \/ data'[d] = Null /\ snapshot'[d] = No_Snapshot /\ stage[Owner[d]] = "idle"
         \/ \E t \in Tasks : Publish(t) /\ into[t] = d
<1>. DEFINE Stays == /\ data'[d] = data[d] /\ snapshot'[d] = snapshot[d] /\ root'[d] = root[d]
                     /\ data[d] # Null => heap'[data[d]] = heap[data[d]]
            Dropped == data'[d] = Null /\ snapshot'[d] = No_Snapshot /\ stage[Owner[d]] = "idle"
            Published == \E t \in Tasks : Publish(t) /\ into[t] = d
<1>o. /\ data[d] # Null => data[d] \in Addresses
      /\ \A t \in Tasks : data[d] # Null => working_data[t] # data[d]
      /\ \A e \in Documents : data[d] # Null /\ e # d => data[e] # data[d]
      /\ data[d] # Null => heap[data[d]] # Free
  BY DEF IInv, EveryArenaHasOneOwner, TypeOK
<1>1. ASSUME UNCHANGED <<heap, documents>> PROVE Stays
  BY <1>1 DEF documents
<1>2. ASSUME NEW t \in Tasks, Reject(t) PROVE Stays
  BY <1>2, <1>o DEF Reject, Freed, documents
<1>3. ASSUME NEW t \in Tasks, NEW a \in Addresses, AllocateAt(t, a) PROVE Stays
  BY <1>3, <1>o DEF AllocateAt, documents, IInv, TypeOK
<1>4. ASSUME NEW t \in Tasks, Fill(t) PROVE Stays
  BY <1>4, <1>o DEF Fill, documents, IInv, TypeOK
<1>5. ASSUME NEW t \in Tasks, Publish(t), into[t] # d PROVE Stays
  <2>1. into[t] \in Documents
    BY <1>5 DEF Publish, IInv, Places
  <2>. QED BY <1>5, <1>o, <2>1 DEF Publish, Freed, IInv, TypeOK
<1>6. ASSUME NEW e \in Documents, Finalize(e) PROVE Stays \/ Dropped
  <2>1. CASE e = d
    BY <1>6, <2>1 DEF Finalize, IInv, TypeOK
  <2>2. CASE e # d
    BY <1>6, <1>o, <2>2 DEF Finalize, Freed, IInv, TypeOK
  <2>. QED BY <2>1, <2>2
<1>7. ASSUME NEW t \in Tasks, Advance(t) PROVE Stays \/ Published
  <2>1. CASE Preflight(t)
    BY <2>1, <1>1, <1>2 DEF Preflight, Passes
  <2>2. CASE Take(t)
    BY <2>2, <1>1 DEF Take
  <2>3. CASE Allocate(t)
    BY <2>3, <1>2, <1>3 DEF Allocate
  <2>4. CASE Parse(t)
    BY <2>4, <1>1, <1>2 DEF Parse, Passes
  <2>5. CASE Convert(t)
    BY <2>5, <1>2, <1>4 DEF Convert
  <2>6. CASE Release(t)
    BY <2>6, <1>1, <1>2 DEF Release, Passes
  <2>7. CASE Validate_Metadata(t)
    BY <2>7, <1>1, <1>2 DEF Validate_Metadata, Passes
  <2>8. CASE Publish(t)
    BY <2>8, <1>5
  <2>. QED BY <1>7, <2>1, <2>2, <2>3, <2>4, <2>5, <2>6, <2>7, <2>8 DEF Advance
<1>8. ASSUME NEW t \in Tasks, NEW e \in Documents, NEW text \in Sources, Decode(t, e, text)
      PROVE  Stays
  BY <1>8, <1>1 DEF Decode
<1>9. ASSUME NEW e \in Documents, Keep(e) PROVE Stays
  BY <1>9, <1>1 DEF Keep
<1>10. CASE UNCHANGED vars
  BY <1>10, <1>1 DEF vars
<1>. QED
  BY <1>6, <1>7, <1>8, <1>9, <1>10 DEF Next

(* A cursor no document accepts any more is never accepted again.          *)
THEOREM StaleForGood == Spec => StaleCursorsStayStale
<1>1. IInv /\ [Next]_vars =>
        ((kept # No_Value /\ \A d \in Documents : ~ Is_Valid(d, kept)) =>
           \A d \in Documents : ~ Is_Valid(d, kept)')
  <2>. SUFFICES ASSUME IInv, [Next]_vars, kept # No_Value,
                       NEW d \in Documents, Is_Valid(d, kept)'
                PROVE  \E e \in Documents : Is_Valid(e, kept)
    OBVIOUS
  <2>1. kept' = kept
    BY DEF Next, Advance, Preflight, Take, Allocate, AllocateAt, Parse, Convert, Fill, Release,
           Validate_Metadata, Publish, Passes, Reject, Leave, Decode, Finalize, Keep, vars
  <2>2. kept.snapshot # 0 /\ snapshot'[d] = kept.snapshot /\ data'[d] # Null
    BY <2>1 DEF Is_Valid, No_Snapshot
  <2>3. ~ \E t \in Tasks : Publish(t) /\ into[t] = d
    <3>. SUFFICES ASSUME NEW t \in Tasks, Publish(t), into[t] = d PROVE FALSE
      OBVIOUS
    <3>1. snapshot'[d] = working_snapshot[t]
      BY DEF Publish, IInv, TypeOK
    <3>. QED BY <3>1, <2>2 DEF IInv, KeptPoints, No_Snapshot
  <2>4. /\ data'[d] = data[d] /\ snapshot'[d] = snapshot[d]
        /\ heap'[data[d]] = heap[data[d]]
    BY <2>2, <2>3, HeldSteps DEF No_Snapshot
  <2>. QED BY <2>1, <2>2, <2>4 DEF Is_Valid
<1>. QED
  BY <1>1, Behaviours, PTL DEF Spec, StaleCursorsStayStale

(* What a document holds changes as a whole and only when a Decode into it *)
(* succeeds or it is finalized: a rejection leaves it as it was.           *)
THEOREM Transactions == Spec => OnlySuccessReplaces
<1>. DEFINE Replaced(d) ==
       Held(d)' # Held(d) =>
         IF data'[d] = Null
           THEN stage[Owner[d]] = "idle"
           ELSE /\ stage[Owner[d]] # "idle" /\ stage'[Owner[d]] = "idle"
                /\ into[Owner[d]] = d
                /\ status'[Owner[d]] = "Decoded"
                /\ heap'[data'[d]].values = source[Owner[d]].values
<1>1. IInv /\ [Next]_vars => \A d \in Documents : Replaced(d)
  <2>. SUFFICES ASSUME IInv, [Next]_vars, NEW d \in Documents PROVE Replaced(d)
    OBVIOUS
  <2>1. ASSUME data'[d] = data[d], snapshot'[d] = snapshot[d], root'[d] = root[d],
               data[d] # Null => heap'[data[d]] = heap[data[d]]
        PROVE  Held(d)' = Held(d)
    BY <2>1 DEF Held
  <2>2. ASSUME NEW t \in Tasks, Publish(t), into[t] = d
        PROVE  Replaced(d)
    <3>1. /\ Owner[d] = t /\ stage[t] = "publish" /\ working_data[t] # Null
          /\ heap[working_data[t]].values = source[t].values
          /\ data[d] # working_data[t] /\ working_data[t] \in Addresses
      BY <2>2 DEF Publish, IInv, Places, Early, Filled, Late, EveryArenaHasOneOwner, TypeOK
    <3>2. /\ stage'[t] = "idle" /\ status'[t] = "Decoded"
          /\ data'[d] = working_data[t] /\ heap'[working_data[t]] = heap[working_data[t]]
      BY <2>2, <3>1 DEF Publish, Leave, Freed, IInv, TypeOK
    <3>. QED BY <2>2, <3>1, <3>2
  <2>. QED BY <2>1, <2>2, HeldSteps
<1>. QED
  BY <1>1, Behaviours, PTL DEF Spec, OnlySuccessReplaces

=============================================================================
