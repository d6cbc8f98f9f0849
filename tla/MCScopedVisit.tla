----------------------------- MODULE MCScopedVisit -----------------------------
(* A scalar and octets, in both orders; all arrays of up to seven octets   *)
(* that start with a first field of one octet, and all short ones.         *)
EXTENDS ScopedVisit, SequencesExt, TLC

CONSTANT MaxLength

Node(kind, low, high, tags) ==
  [kind |-> kind, minimum |-> low, maximum |-> high, rank |-> 0,
   tags |-> tags, reserved_tags |-> {}, presence |-> "required", default |-> 0]
Record(fields) ==
  (<<>> :> Node("record", 0, 0, DOMAIN fields)) @@ [p \in {<<t>> : t \in DOMAIN fields} |-> fields[p[1]]]
Lock(root) == [family_id |-> 1, schema_revision |-> 1, root |-> root]

MCLocks ==
  {Lock(Record(1 :> Node("unsigned", 0, 3, {}) @@ 3 :> Node("bytes", 0, 1, {}))),
   Lock(Record(1 :> Node("bytes", 1, 2, {}) @@ 3 :> Node("signed", -1, 1, {})))}

MCInputs ==
  BoundedSeq(Octet, MaxLength - 1) \cup {<<1, 1, o>> \o s : o \in {1, 3}, s \in BoundedSeq(Octet, MaxLength)}

(* One octet changes. *)
MCChanges(octets) == {[octets EXCEPT ![i] = o] : i \in DOMAIN octets, o \in Octet} \ {octets}
=============================================================================
