---------------------------- MODULE MCTaggedReader ----------------------------
(* Two callers of the readers, of which a behaviour has one: the first takes *)
(* apart any array of up to MaxLength octets through an outer cursor and a   *)
(* nested one; the second is that of CursorReuse.                            *)
EXTENDS TaggedReader, MCCursorReuse, SequencesExt

CONSTANT MaxLength

VARIABLE caller

MCInputs == BoundedSeq(Octet, MaxLength)

Callers_Init ==
  /\ Init /\ Reuse_Init
  /\ caller \in {"one array", "several arrays"} /\ (caller = "several arrays" => input = <<>>)

Callers_Next ==
  /\ \/ caller = "one array" /\ Next /\ UNCHANGED reuse_vars
     \/ caller = "several arrays" /\ Reuse_Next /\ UNCHANGED vars
  /\ UNCHANGED caller

Callers == Callers_Init /\ [][Callers_Next]_<<vars, reuse_vars, caller>>
=============================================================================
