---------------------------- MODULE SchemaLineage ----------------------------
(***************************************************************************)
(* The life of a schema family: one lock after another is released, each   *)
(* checked against the one before it and no other.  What the checks of     *)
(* neighbours leave true of any two or three locks of the family is what   *)
(* a reader that meets messages of any age relies on.                      *)
(***************************************************************************)
EXTENDS SchemaLocks, FiniteSets

CONSTANT Locks  (* what somebody may want to release *)

ASSUME LocksAssumption ==
  \A lock \in Locks : lock.schema_revision \in Nat /\ Tree(lock.root)

VARIABLE released  (* the locks of the family, oldest first *)

Init == released = <<>>

First(lock) ==
  /\ released = <<>>
  /\ validate_lock(lock)
  /\ released' = <<lock>>

(* schema_diff --evolution passes. *)
Evolve(lock) ==
  /\ released # <<>>
  /\ validate_lock(lock)
  /\ evolution_issues(released[Len(released)], lock) = {}
  /\ released' = Append(released, lock)

Next == \E lock \in Locks : First(lock) \/ Evolve(lock)

Spec == Init /\ [][Next]_released

-----------------------------------------------------------------------------

Ages == DOMAIN released

(* Shapes; and what makes a tag's state unambiguous, at every place.       *)
TypeOK ==
  /\ released \in Seq(Locks)
  /\ \A i \in Ages : \A p \in DOMAIN released[i].root :
       released[i].root[p].tags \cap released[i].root[p].reserved_tags = {}

(* Any two locks of a family pass the check that only neighbours went      *)
(* through: no revision can be skipped to get around it.                   *)
AncestorsAgree ==
  \A i, k \in Ages : i < k => evolution_issues(released[i], released[k]) = {}

(* The fields, alternatives and enumeration values a schema names. *)
Names(root) == UNION {{Append(p, t) : t \in root[p].tags} : p \in DOMAIN root}

(* A tag that was retired stays retired, at any depth of the schema. *)
RetiredForGood ==
  \A i, j, k \in Ages : i < j /\ j < k =>
    Names(released[i].root) \cap Names(released[k].root) \subseteq Names(released[j].root)

Accepts(reader, writer) == incompatibilities(writer, reader) = {}

(* If a lock accepts an older one, and is accepted by a later one, the     *)
(* later one accepts the older one; and back.                              *)
CompatibilityComposes ==
  \A i, j, k \in Ages : i < j /\ j < k =>
    LET older == released[i] middle == released[j] later == released[k]
    IN  /\ Accepts(middle, older) /\ Accepts(later, middle) => Accepts(later, older)
        /\ Accepts(middle, later) /\ Accepts(older, middle) => Accepts(older, later)

(* A lock that accepts what an accepted one accepts asks for no resolution *)
(* that was not asked for on the way: no field of the older lock has to be *)
(* ignored, and none of the later constructed, that was not when the       *)
(* middle one was approved, or the later one for the middle one.           *)
RequirementsCompose ==
  \A i, j, k \in Ages : i < j /\ j < k =>
    LET older == released[i] middle == released[j] later == released[k]
    IN  Accepts(middle, older) /\ Accepts(later, middle) =>
          requirements(older, later) \subseteq requirements(older, middle) \cup requirements(middle, later)

=============================================================================
