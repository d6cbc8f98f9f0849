---------------------------- MODULE TypeIrLowering ----------------------------
(***************************************************************************)
(* What type_ir_adapter.py makes of a checked Type IR document and a wire  *)
(* overlay: a schema lock, an Ada binding and a report of where the two    *)
(* come from.  A fact of the document is "true", "false" or "unknown"; a   *)
(* number it may not state is a set of at most one.  A digest is what it   *)
(* is the digest of.                                                       *)
(***************************************************************************)
EXTENDS SchemaLocks, FiniteSets

CONSTANTS
  MAX_FIELD_TAG,
  I64_MAX,
  Fixture        (* the document reviewed for test use *)

ASSUME LoweringAssumption == MAX_FIELD_TAG \in Nat \ {0} /\ I64_MAX \in Nat

I64_MIN == -I64_MAX - 1
U64_MAX == 2 * I64_MAX + 1

Profiles == {"strict", "fixture_shape"}

(* The facts of a type that bear on its values, as they have to be. *)
Safe_Facts ==
  [abstract |-> "false", class_wide |-> "false", contains_access |-> "false",
   contains_controlled |-> "false", controlled |-> "false", definite |-> "true", limited |-> "false",
   protected |-> "false", tagged |-> "false", task |-> "false"]

validate_safe_declaration(declaration) ==
  declaration.view = "public" /\ declaration.facts = Safe_Facts

(* A named type of a library unit, not derived and with no other view. *)
Direct(declaration) ==
  declaration.form = "type" /\ declaration.in_unit /\ ~ declaration.related

Unrefined(shape) ==
  shape.predicate = "false" /\ shape.range.predicate = "false" /\ shape.range.staticness = "true"

validate_boolean_type(declaration) ==
  /\ validate_safe_declaration(declaration) /\ Direct(declaration)
  /\ declaration.id = "standard.boolean"
  /\ declaration.shape.kind = "boolean_scalar" /\ Unrefined(declaration.shape)
  /\ declaration.shape.range.low = {0} /\ declaration.shape.range.high = {1}

(* Mutant: what a predicate leaves out of the range is not asked. *)
Predicated_validate_integer_type(declaration, field) ==
  /\ validate_safe_declaration(declaration) /\ Direct(declaration)
  /\ declaration.shape.kind = (IF field.kind = "signed" THEN "signed_scalar" ELSE "modular_scalar")
  /\ declaration.shape.range.low = {field.minimum} /\ declaration.shape.range.high = {field.maximum}

validate_integer_type(declaration, field) ==
  /\ validate_safe_declaration(declaration) /\ Direct(declaration)
  /\ declaration.shape.kind = (IF field.kind = "signed" THEN "signed_scalar" ELSE "modular_scalar")
  /\ Unrefined(declaration.shape)
  /\ declaration.shape.range.low = {field.minimum} /\ declaration.shape.range.high = {field.maximum}
  /\ IF field.kind = "signed"
       THEN I64_MIN <= field.minimum /\ field.maximum <= I64_MAX
       ELSE /\ field.minimum = 0 /\ field.maximum <= U64_MAX
            /\ declaration.shape.modulus = {field.maximum + 1}

validate_field_overlay(field) ==
  /\ field.presence = "required" /\ field.tag \in 1 .. MAX_FIELD_TAG
  /\ \/ field.kind = "boolean"
     \/ field.kind \in {"signed", "unsigned"} /\ field.minimum <= field.maximum

load_overlay(overlay) == overlay.schema_revision >= 1 /\ overlay.fields # <<>>

(* What the record type has to be: its components, all of them named by    *)
(* the overlay, are its value.                                             *)
Plain_Record(document, root) ==
  /\ validate_safe_declaration(root) /\ Direct(root)
  /\ root.shape.kind = "record" /\ root.nameable = "true"
  /\ root.id \notin document.discriminants

Components(document, root) == {c \in document.components : c.owner = root.id}

Mapped(overlay, document, root) ==
  LET fields == overlay.fields
  IN  /\ \A i \in DOMAIN fields : validate_field_overlay(fields[i])
      /\ \A i, j \in DOMAIN fields :
           i < j => fields[i].tag < fields[j].tag /\ fields[i].component # fields[j].component
      /\ {fields[i].component : i \in DOMAIN fields} = {c.id : c \in Components(document, root)}

Lowerable(document, component, field) ==
  /\ ~ component.conditional /\ ~ component.has_default
  /\ component.aliased = "false" /\ component.constant = "false"
  /\ ~ component.constrained /\ component.well_named
  /\ \E type \in document.declarations :
       /\ type.id = component.type
       /\ IF field.kind = "boolean" THEN validate_boolean_type(type) ELSE validate_integer_type(type, field)

Node(kind, low, high, tags, reserved) ==
  [kind |-> kind, minimum |-> low, maximum |-> high, rank |-> 0, tags |-> tags, reserved_tags |-> reserved,
   presence |-> "required", default |-> 0]

(* The field of the overlay with a tag. *)
Overlaid(overlay, tag) == overlay.fields[CHOOSE i \in DOMAIN overlay.fields : overlay.fields[i].tag = tag]

Schema(overlay) ==
  LET tags == {overlay.fields[i].tag : i \in DOMAIN overlay.fields}
      node(f) == IF f.kind = "boolean" THEN Node("boolean", 0, 1, {}, {})
                 ELSE Node(f.kind, f.minimum, f.maximum, {}, {})
  IN  [family_id |-> overlay.family_id, schema_revision |-> overlay.schema_revision,
       root |-> [p \in {<<>>} \cup {<<t>> : t \in tags} |->
                   IF p = <<>> THEN Node("record", 0, 0, tags, overlay.reserved_tags)
                   ELSE node(Overlaid(overlay, p[1]))]]

Binding(overlay) ==
  [package |-> overlay.package, schema_fingerprint |-> Schema(overlay), value_type |-> overlay.root,
   components |-> [t \in Schema(overlay).root[<<>>].tags |-> Overlaid(overlay, t).component]]

Provenance(document, profile, overlay) ==
  [type_ir |-> document, type_ir_profile |-> profile, overlay |-> overlay,
   wire_schema_fingerprint |-> Schema(overlay)]

(* Mutant: the binding may be that of another schema. *)
Unlocked_validate_binding(binding, schema) ==
  DOMAIN binding.components = schema.root[<<>>].tags /\ schema.root[<<>>].tags # {}

(* What the generator asks of a binding. *)
validate_binding(binding, schema) ==
  /\ binding.schema_fingerprint = schema
  /\ DOMAIN binding.components = schema.root[<<>>].tags /\ schema.root[<<>>].tags # {}

(* The three outputs, if there is no error. *)
lower_checked(document, profile, overlay) ==
  IF /\ document.semantic = overlay.semantic /\ document.understood
     /\ \E root \in document.declarations :
          /\ root.id = overlay.root /\ Plain_Record(document, root)
          /\ Mapped(overlay, document, root)
          /\ \A i \in DOMAIN overlay.fields :
               \A c \in Components(document, root) :
                 c.id = overlay.fields[i].component => Lowerable(document, c, overlay.fields[i])
     /\ validate_lock(Schema(overlay)) /\ validate_binding(Binding(overlay), Schema(overlay))
    THEN {[schema |-> Schema(overlay), binding |-> Binding(overlay),
           provenance |-> Provenance(document, profile, overlay)]}
    ELSE {}

-----------------------------------------------------------------------------

(* What the lowered record is in the program the document was extracted    *)
(* from: a set of values for each part that makes it up.                   *)
Exact(outputs, program) ==
  /\ {outputs.binding.components[t] : t \in DOMAIN outputs.binding.components} = DOMAIN program
  /\ \A t \in DOMAIN outputs.binding.components :
       outputs.schema.root[<<t>>].minimum .. outputs.schema.root[<<t>>].maximum
         = program[outputs.binding.components[t]]
=============================================================================
