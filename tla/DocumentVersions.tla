--------------------------- MODULE DocumentVersions ---------------------------
(***************************************************************************)
(* What Wire_Metadata_Input promises of its documents and cursors: a       *)
(* document is empty or holds one version of some metadata, every          *)
(* successful Decode is a version that was never held before, and a cursor *)
(* names a version and is good for the document that holds it.             *)
(***************************************************************************)
EXTENDS Integers

CONSTANTS
  Documents,  (* the Document objects of the program *)
  Versions,   (* all there ever are *)
  NoVersion   (* none of them: the document is empty *)


VARIABLES
  held,  (* Documents -> the version held *)
  spent  (* the versions no Decode will publish any more *)

vars == <<held, spent>>

Init ==
  /\ held = [d \in Documents |-> NoVersion]
  /\ spent = {}

(* A Decode that succeeds replaces what the document held. *)
Publish(d, v) ==
  /\ v \notin spent
  /\ held' = [held EXCEPT ![d] = v]
  /\ spent' = spent \cup {v}

(* One that fails after it was given a version loses it. *)
Abandon(v) ==
  /\ v \notin spent
  /\ spent' = spent \cup {v}
  /\ UNCHANGED held

(* A document is finalized. *)
Drop(d) ==
  /\ held' = [held EXCEPT ![d] = NoVersion]
  /\ UNCHANGED spent

Next ==
  \/ \E d \in Documents, v \in Versions : Publish(d, v)
  \/ \E v \in Versions : Abandon(v)
  \/ \E d \in Documents : Drop(d)

Spec == Init /\ [][Next]_vars

=============================================================================
