----------------------------- MODULE CanonicalForm -----------------------------
(***************************************************************************)
(* The canonical encoding of Profile 1, from its definition: the octets an *)
(* item has, one way only.  Properties compare the codecs with it.         *)
(***************************************************************************)
EXTENDS RecordCodec, CanonicalOctets

Scalar_Octets(value, n) == IF value.kind = "boolean" THEN <<n>> ELSE Digits(Wire(value, n))

(* A record: its fields in the order of their tags, each in an extent.     *)
Tagged_Octets(tags, Octets(_)) ==
  Joined([t \in 1 .. MaxFieldTag |-> IF t \in tags THEN Digits(t) \o Delimited(Octets(t)) ELSE <<>>],
         MaxFieldTag)

Value_Octets(lock, t, content) ==
  CASE Field(lock, t).kind = "bytes" -> content
    [] Field(lock, t).kind = "sequence" ->
         Digits(Len(content))
           \o Joined([i \in DOMAIN content |-> Delimited(Scalar_Octets(Element(lock, t), content[i]))],
                     Len(content))
    [] Field(lock, t).kind = "variant" ->
         LET a == content[1]
         IN  Digits(a)
               \o Delimited(Tagged_Octets(Payload_Tags(lock, t, a),
                    LAMBDA m : Scalar_Octets(Member(lock, t, a, m), content[Slot(lock, t, a, m)])))
    [] OTHER -> Scalar_Octets(Field(lock, t), content[1])

Canonical(lock, item) ==
  Tagged_Octets(Included(lock, item), LAMBDA t : Value_Octets(lock, t, item[t]))

=============================================================================
