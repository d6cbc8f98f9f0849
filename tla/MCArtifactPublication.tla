------------------------- MODULE MCArtifactPublication -------------------------
(* A record of a Boolean and a number, and programs, of which the documents *)
(* tell the truth, that differ from it in one thing each.                  *)
EXTENDS ArtifactPublication, TLC

Scalar(kind, predicate, low, high, modulus) ==
  [kind |-> kind, predicate |-> predicate, modulus |-> modulus,
   range |-> [predicate |-> predicate, staticness |-> IF low = {} THEN "false" ELSE "true", low |-> low, high |-> high]]
Declared(id, shape) ==
  [id |-> id, view |-> "public", form |-> "type", in_unit |-> TRUE, related |-> FALSE,
   facts |-> Safe_Facts, nameable |-> "true", shape |-> shape]
Component(id, type) ==
  [id |-> id, owner |-> "root", conditional |-> FALSE, has_default |-> FALSE, aliased |-> "false",
   constant |-> "false", constrained |-> FALSE, well_named |-> TRUE, type |-> type]

Root == Declared("root", Scalar("record", "false", {}, {}, {}))
Bool == Declared("standard.boolean", Scalar("boolean_scalar", "false", {0}, {1}, {}))
Number(low, high) == Declared("number", Scalar("signed_scalar", "false", low, high, {}))
Flag == Component("flag", "standard.boolean")
Count == Component("count", "number")

Document(semantic, root, number, count, program) ==
  [semantic |-> semantic, understood |-> TRUE, declarations |-> {root, Bool, number},
   components |-> {Flag, count}, discriminants |-> {}, profiles |-> Profiles,
   program |-> ("flag" :> 0 .. 1) @@ program]
Counted(values) == "count" :> values

Plain == Document(0, Root, Number({-1}, {1}), Count, Counted(-1 .. 1))

MCDocuments ==
  {Plain,
   Document(1, Root, Declared("number", Scalar("signed_scalar", "true", {-1}, {1}, {})), Count, Counted({-1, 1})),
   Document(2, Root, Number({-1}, {1}), [Count EXCEPT !.constrained = TRUE], Counted({0})),
   Document(3, Root, Number({}, {}), Count, Counted({0})),
   Document(4, Root, Number({-2}, {1}), Count, Counted(-2 .. 1)),
   Document(5, Root, Declared("number", Scalar("modular_scalar", "false", {0}, {2}, {3})), Count, Counted(0 .. 2)),
   [Document(6, Root, Number({-1}, {1}), Count, Counted(-1 .. 1) @@ "bound" :> 0 .. 1)
      EXCEPT !.discriminants = {"root"}],
   [Document(7, Root, Number({-1}, {1}), Count, Counted(-1 .. 1) @@ "more" :> 0 .. 1)
      EXCEPT !.components = @ \cup {Component("more", "standard.boolean")}],
   Document(8, [Root EXCEPT !.facts.limited = "unknown"], Number({-1}, {1}), Count, Counted({})),
   [Plain EXCEPT !.semantic = 9, !.profiles = {}, !.program = ("flag" :> {0}) @@ Counted({})],
   [Plain EXCEPT !.semantic = 10, !.profiles = {"fixture_shape"}]}

MCFixture == CHOOSE d \in MCDocuments : d.semantic = 10

FieldOf(component, tag, kind, low, high) ==
  [component |-> component, presence |-> "required", tag |-> tag, kind |-> kind, minimum |-> low, maximum |-> high]
Overlay(semantic, package, reserved, fields) ==
  [family_id |-> 1, schema_revision |-> 1, reserved_tags |-> reserved, semantic |-> semantic, root |-> "root",
   package |-> package, fields |-> fields]
Flags == FieldOf("flag", 1, "boolean", 0, 1)
Counts(tag, kind, low, high) == FieldOf("count", tag, kind, low, high)

Layouts(semantic) ==
  {Overlay(semantic, "p", {}, <<Flags, Counts(2, "signed", -1, 1)>>),
   Overlay(semantic, "p", {2}, <<Flags, Counts(2, "signed", -1, 1)>>),
   Overlay(semantic, "p", {}, <<Flags, Counts(1, "signed", -1, 1)>>),
   Overlay(semantic, "p", {}, <<Flags>>),
   Overlay(semantic, "p", {}, <<Flags, FieldOf("flag", 2, "boolean", 0, 1)>>),
   Overlay(semantic, "p", {}, <<Flags, Counts(2, "signed", 0, 1)>>),
   Overlay(semantic, "p", {}, <<Flags, Counts(2, "unsigned", 0, 2)>>),
   Overlay(semantic, "p", {}, <<Flags, Counts(2, "boolean", 0, 1)>>)}

MCNewOverlays == {[Overlay(0, "p", {}, <<Flags, Counts(2, "signed", -1, 1)>>) EXCEPT !.schema_revision = r] : r \in {1, 2}}
MCNewDocuments == {d \in MCDocuments : d.semantic \in {0, 9}}
MCOverlays == MCNewOverlays \cup UNION {Layouts(d.semantic) : d \in MCDocuments}
MCSymmetry == Permutations(Processes)
=============================================================================
