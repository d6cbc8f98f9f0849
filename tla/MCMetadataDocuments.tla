------------------------- MODULE MCMetadataDocuments -------------------------
(* Two tasks with a document each, and three identities in all. *)
EXTENDS MetadataDocuments, TLC

CONSTANTS worker, helper, first, second

MCOwner == first :> worker @@ second :> helper

ArenasAlike == Permutations(Addresses)

Text(rejected_by, values) == [rejected_by |-> rejected_by, values |-> values, edges |-> values - 1]

(* idle is no step of Decode: nothing rejects these. *)
MCSources == {Text("idle", 2), Text("preflight", 1), Text("parse", 1), Text("convert", 1), Text("validate", 1)}
=============================================================================
