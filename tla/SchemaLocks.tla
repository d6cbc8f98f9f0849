----------------------------- MODULE SchemaLocks -----------------------------
(***************************************************************************)
(* Schema locks: what validate_lock asks of one, how schema_diff compares  *)
(* two.  The root value of a lock is a function from its places, the       *)
(* sequences of tags that lead to its values, to its values.  Where the    *)
(* tools recurse, a place is compared if no place above it stops them.     *)
(***************************************************************************)
EXTENDS Integers, Sequences

CONSTANT MAX_SCHEMA_DEPTH
ASSUME DepthAssumption == MAX_SCHEMA_DEPTH \in Nat

(* The place of an element or of an optional's value, below the place of   *)
(* its sequence or optional.                                               *)
Inner == 0

Kind == {"boolean", "unsigned", "signed", "enumeration", "bytes", "text",
         "record", "sequence", "optional", "variant"}
Presence == {"required", "optional", "defaulted"}

(* A value: minimum and maximum are the bounds of its numbers, octets,     *)
(* scalars or counts; rank how many dimensions; presence and default those *)
(* of the field that holds it.                                             *)
Value == [kind : Kind, minimum : Int, maximum : Int, rank : Nat, tags : SUBSET (Nat \ {Inner}),
          reserved_tags : SUBSET (Nat \ {Inner}), presence : Presence, default : Int]

Children(value) ==
  CASE value.kind \in {"record", "variant"}    -> value.tags
    [] value.kind \in {"sequence", "optional"} -> {Inner}
    [] OTHER                                   -> {}

(* Values of other kinds have no bounds, and no dimensions. *)
Shaped(value) ==
  /\ value.kind \in {"enumeration", "record", "optional", "variant"} => value.minimum = 0 /\ value.maximum = 0
  /\ value.kind = "boolean" => value.minimum = 0 /\ value.maximum = 1
  /\ value.kind = "sequence" <=> value.rank > 0

Above(place) == {SubSeq(place, 1, n) : n \in 0 .. Len(place) - 1}

(* The shape JSON gives a value. *)
Tree(root) ==
  /\ DOMAIN root \subseteq Seq(Nat)
  /\ <<>> \in DOMAIN root
  /\ \A p \in DOMAIN root : root[p] \in Value /\ Shaped(root[p]) /\ Above(p) \subseteq DOMAIN root
  /\ \A p \in DOMAIN root : \A t \in Children(root[p]) : Append(p, t) \in DOMAIN root
  /\ \A p \in DOMAIN root \ {<<>>} : p[Len(p)] \in Children(root[SubSeq(p, 1, Len(p) - 1)])

Issue(code, path) == [code |-> code, path |-> path]
When(condition, code, path) == IF condition THEN {Issue(code, path)} ELSE {}

-----------------------------------------------------------------------------

Bounded(value) ==
  /\ value.minimum <= value.maximum
  /\ value.kind \in {"unsigned", "bytes", "text", "sequence"} => value.minimum >= 0

(* Mutant: a tag may be reserved and active. *)
Undisjoint_Tagged(value) ==
  /\ value.kind \notin {"record", "enumeration", "variant"} => value.tags = {} /\ value.reserved_tags = {}
  /\ value.kind \in {"enumeration", "variant"} => value.tags # {}

Tagged(value) ==
  /\ value.kind \notin {"record", "enumeration", "variant"} => value.tags = {} /\ value.reserved_tags = {}
  /\ value.kind \in {"enumeration", "variant"} => value.tags # {}
  /\ value.tags \cap value.reserved_tags = {}

(* Only a record's fields have a presence; a variant's payloads are        *)
(* records.  The wire form of a default encodes a value of its field.      *)
Placed(root, p) ==
  /\ root[p].kind # "record" => \A t \in Children(root[p]) : root[Append(p, t)].presence = "required"
  /\ root[p].kind = "variant" => \A t \in root[p].tags : root[Append(p, t)].kind = "record"
  /\ root[p].presence = "defaulted" /\ root[p].kind \in {"boolean", "unsigned", "signed"} =>
       root[p].default \in root[p].minimum .. root[p].maximum

validate_value(root) ==
  /\ root[<<>>].presence = "required"
  /\ \A p \in DOMAIN root : Len(p) <= MAX_SCHEMA_DEPTH /\ Bounded(root[p]) /\ Tagged(root[p]) /\ Placed(root, p)

validate_lock(lock) == lock.schema_revision >= 1 /\ validate_value(lock.root)

-----------------------------------------------------------------------------

(* Mutants: a reservation may be dropped once its tag is unused; a tag may *)
(* be removed without a trace.                                             *)
Forgetful_evolve_tags(previous, current, path) ==
  UNION {When(t \in current.tags, "reserved_tag_reused", Append(path, t)) :
           t \in previous.reserved_tags \ current.reserved_tags}
    \cup {Issue("removed_tag_not_reserved", Append(path, t)) :
            t \in (previous.tags \ current.tags) \ current.reserved_tags}

Traceless_evolve_tags(previous, current, path) ==
  {Issue(IF t \in current.tags THEN "reserved_tag_reused" ELSE "reserved_tag_forgotten", Append(path, t)) :
     t \in previous.reserved_tags \ current.reserved_tags}

evolve_tags(previous, current, path) ==
  {Issue(IF t \in current.tags THEN "reserved_tag_reused" ELSE "reserved_tag_forgotten", Append(path, t)) :
     t \in previous.reserved_tags \ current.reserved_tags}
    \cup {Issue("removed_tag_not_reserved", Append(path, t)) :
            t \in (previous.tags \ current.tags) \ current.reserved_tags}

(* What evolve_value reports of one place. *)
evolve_place(previous, current, path) ==
  IF previous.kind # current.kind
    THEN {Issue("value_kind_changed_within_family", path)}
    ELSE evolve_tags(previous, current, path)

(* The places evolve_value comes to. *)
Evolved(previous, current) ==
  {p \in DOMAIN previous \cap DOMAIN current : \A q \in Above(p) : previous[q].kind = current[q].kind}

evolve_value(previous, current) ==
  UNION {evolve_place(previous[p], current[p], p) : p \in Evolved(previous, current)}

Header_Issues(previous, current) ==
  When(previous.family_id # current.family_id, "family_changed", <<>>)
    \cup When(current.schema_revision <= previous.schema_revision, "revision_did_not_increase", <<>>)

evolution_issues(previous, current) ==
  IF Header_Issues(previous, current) # {}
    THEN Header_Issues(previous, current)
    ELSE evolve_value(previous.root, current.root)

-----------------------------------------------------------------------------

(* Mutant: a writer's bound may be one outside the reader's. *)
Lenient_require_subset(writer, reader, code, path) == When(writer < reader - 1, code, path)

require_subset(writer, reader, code, path) == When(writer < reader, code, path)

require_count_subset(writer, reader, path) ==
  require_subset(writer.minimum, reader.minimum, "writer_minimum_below_reader", path)
    \cup require_subset(reader.maximum, writer.maximum, "writer_maximum_above_reader", path)

Unknown_Tags(writer, reader, path) ==
  IF writer.kind \in {"enumeration", "variant"}
    THEN {Issue("writer_tag_unknown_to_reader", Append(path, t)) : t \in writer.tags \ reader.tags}
    ELSE {}

(* Why diff_value or diff_record looks at nothing below a place. *)
Stops(writer, reader, path) ==
  IF writer.presence # reader.presence THEN {Issue("field_presence_changed", path)}
  ELSE IF writer.presence = "defaulted" /\ writer.default # reader.default
    THEN {Issue("field_default_changed", path)}
  ELSE IF writer.kind # reader.kind THEN {Issue("kind_changed", path)}
  ELSE When(writer.rank # reader.rank, "sequence_rank_changed", path)

diff_place(writer, reader, path) ==
  IF Stops(writer, reader, path) # {}
    THEN Stops(writer, reader, path)
    ELSE require_count_subset(writer, reader, path) \cup Unknown_Tags(writer, reader, path)

(* The places diff_value comes to. *)
Compared(writer, reader) ==
  {p \in DOMAIN writer \cap DOMAIN reader : \A q \in Above(p) : Stops(writer[q], reader[q], q) = {}}

(* Where diff_record compares the fields of two records. *)
Records(writer, reader) ==
  {p \in Compared(writer, reader) :
     Stops(writer[p], reader[p], p) = {} /\ writer[p].kind = "record"}

diff_value(writer, reader) ==
  UNION {diff_place(writer[p], reader[p], p) : p \in Compared(writer, reader)}

ignore_writer_field(writer, reader) ==
  UNION {{Append(p, t) : t \in writer[p].tags \ reader[p].tags} : p \in Records(writer, reader)}

construct_reader_field(writer, reader) ==
  {f \in UNION {{Append(p, t) : t \in reader[p].tags \ writer[p].tags} : p \in Records(writer, reader)} :
     reader[f].presence = "required"}

incompatibilities(writer, reader) ==
  IF writer.family_id # reader.family_id
    THEN {Issue("family_changed", <<>>)}
    ELSE diff_value(writer.root, reader.root)

requirements(writer, reader) ==
  IF writer.family_id # reader.family_id
    THEN {}
    ELSE {Issue("ignore_writer_field", f) : f \in ignore_writer_field(writer.root, reader.root)}
           \cup {Issue("construct_reader_field", f) : f \in construct_reader_field(writer.root, reader.root)}

=============================================================================
