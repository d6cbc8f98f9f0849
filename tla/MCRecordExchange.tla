--------------------------- MODULE MCRecordExchange ---------------------------
(* Flat schemas of one family that a system may have released, and one of  *)
(* another family; with groups of one bit, messages of up to seven octets. *)
EXTENDS RecordExchange, SequencesExt, TLC

CONSTANTS family, stranger, MaxLength

Node(kind, low, high, tags) ==
  [kind |-> kind, minimum |-> low, maximum |-> high, rank |-> IF kind = "sequence" THEN 1 ELSE 0,
   tags |-> tags, reserved_tags |-> {}, presence |-> "required", default |-> 0]

As(node, presence, default) == [node EXCEPT !.presence = presence, !.default = default]

Unsigned_Node(low, high) == Node("unsigned", low, high, {})
Boolean_Node == Node("boolean", 0, 1, {})
Bytes_Node(low, high) == Node("bytes", low, high, {})
Choice_Node(tags) == Node("enumeration", 0, 0, tags)
Signed_Node == Node("signed", -2, 1, {})

Record(fields) ==
  (<<>> :> Node("record", 0, 0, DOMAIN fields)) @@ [p \in {<<t>> : t \in DOMAIN fields} |-> fields[p[1]]]
With_Element(root, t, element) == (<<t, Inner>> :> element) @@ root

Lock(revision, root) == [family_id |-> family, schema_revision |-> revision, root |-> root]

(* An identifier; with octets; the octets made way for a flag; the         *)
(* identifier was widened; fields a message may lack were added.  The      *)
(* others share a family but are no revisions of one schema.               *)
Bare == Lock(1, Record(1 :> Unsigned_Node(0, 1)))
Blob == Lock(2, Record(1 :> Unsigned_Node(0, 1) @@ 2 :> Bytes_Node(0, 1)))
Flag == Lock(3, Record(1 :> Unsigned_Node(0, 1) @@ 3 :> Boolean_Node))
Wide == Lock(4, Record(1 :> Unsigned_Node(0, 2)))
Extra == Lock(5, Record(1 :> Unsigned_Node(0, 2) @@ 2 :> As(Signed_Node, "optional", 0)
                         @@ 3 :> As(Unsigned_Node(0, 3), "defaulted", 1)))
Sparse == Lock(1, Record(1 :> As(Unsigned_Node(0, 3), "defaulted", 1) @@ 2 :> As(Signed_Node, "optional", 0)))
List == Lock(1, With_Element(Record(1 :> Node("sequence", 0, 2, {})), 1, Signed_Node))
Choice == Lock(1, Record(1 :> Choice_Node({1, 3}) @@ 2 :> Bytes_Node(1, 2)))
Chosen == Lock(2, Record(1 :> Choice_Node({1, 2, 3})))
Alien == [Wide EXCEPT !.family_id = stranger]

(* A variant; the numbers of the members are those of a record each. *)
With_Payloads(root, t, payloads) ==
  [p \in {<<t, a>> : a \in DOMAIN payloads}
           \cup UNION {{<<t, a, m>> : m \in DOMAIN payloads[a]} : a \in DOMAIN payloads} |->
     IF Len(p) = 2 THEN Node("record", 0, 0, DOMAIN payloads[p[2]]) ELSE payloads[p[2]][p[3]]] @@ root
Variant == Lock(1, With_Payloads(Record(1 :> Node("variant", 0, 0, {1, 2})), 1,
                     1 :> (1 :> Boolean_Node) @@ 2 :> (1 :> Unsigned_Node(0, 1) @@ 2 :> Signed_Node)))

(* The largest lock there is, and one that is refused. *)
Largest == Lock(1, Record(1 :> Bytes_Node(0, MaxUnsigned - 6)))
TooLarge == Lock(1, Record(1 :> Bytes_Node(0, MaxUnsigned - 5)))

MCLocks == {lock \in {Bare, Variant, Largest, TooLarge, Sparse, Blob, Flag, Wide, Extra, List, Choice, Chosen, Alien} :
              Measurable(lock.root)}
MCFewLocks == {Bare, Sparse, Blob}

(* Contents of a field, valid ones and others. *)
Contents(lock, t) ==
  LET field == Field(lock, t)
  IN  CASE field.kind = "bytes" /\ field.maximum > 2 ->
             {[i \in 1 .. n |-> 1] : n \in {0, field.maximum, field.maximum + 1}}
        [] field.kind = "bytes" -> BoundedSeq({1, 3}, field.maximum + 1)
        [] field.kind = "sequence" -> BoundedSeq({-3, -2, 1}, field.maximum + 1)
        [] field.kind = "enumeration" -> {<<n>> : n \in field.tags \cup {Inner}}
        [] field.kind = "variant" -> {<<a, 1, n, m>> : a \in {Inner, 1, 2}, n \in {0, 1, 2}, m \in {-2, 3}}
        [] OTHER -> {<<n>> : n \in {field.minimum, field.maximum}
                                         \cup IF field.kind = "boolean" THEN {} ELSE {0, field.maximum + 1}}
                      \cup IF field.presence = "optional" THEN {<<>>} ELSE {}

Items_Of(lock) ==
  {item \in [Fields(lock) -> UNION {Contents(lock, t) : t \in Fields(lock)}] :
     \A t \in Fields(lock) : item[t] \in Contents(lock, t)}

(* All entries a lock may be accepted with, and tables of up to two. *)
All_Entries(reader) ==
  UNION {{Entry(writer, construct) : construct \in [Constructed(writer, reader) -> {0, 1}]} :
           writer \in {w \in Locks \ {reader} : Approvable(w, reader)}}

Tables_Of(reader) ==
  {table \in {{}} \cup {{a, b} : a, b \in All_Entries(reader)} :
     validate_compatible_writers(reader, table)}

MCItems == [lock \in Locks |-> Items_Of(lock)]
MCTables == [lock \in Locks |-> Tables_Of(lock)]

(* Shorter arrays alone, and the longest behind a field 1 that every lock  *)
(* with a scalar takes.                                                    *)
MCFewForeign == BoundedSeq(Octet, MaxLength - 1) \cup {<<1, 1, 1>> \o s : s \in [1 .. MaxLength -> Octet]}

(* Also two messages with a variant, with one octet changed. *)
Changed(octets) == {[octets EXCEPT ![i] = o] : i \in DOMAIN octets, o \in Octet}
MCForeign ==
  MCFewForeign
    \cup UNION {Changed(Canonical(Variant, item)) : item \in {1 :> <<1, 1, 0, -2>>, 1 :> <<2, 1, 1, -2>>}}
=============================================================================
