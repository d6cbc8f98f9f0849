--------------------------- MODULE MCSchemaLineage ---------------------------
(* Small locks: a root with the tags 1 and 2 whose values are scalars, or  *)
(* nest one more level of tags.                                            *)
EXTENDS SchemaLineage, TLC

CONSTANTS family, stranger, Revisions

Node(kind, low, high, tags, reserved) ==
  [kind |-> kind, minimum |-> low, maximum |-> high, rank |-> IF kind = "sequence" THEN 1 ELSE 0,
   tags |-> tags, reserved_tags |-> reserved, presence |-> "required", default |-> 0]

As(node, presence, default) == [node EXCEPT !.presence = presence, !.default = default]

Leaf(node) == <<>> :> node

(* The tree with one value under each of some tags. *)
Under(node, below) ==
  [p \in {<<>>} \cup UNION {{<<t>> \o q : q \in DOMAIN below[t]} : t \in DOMAIN below} |->
     IF p = <<>> THEN node ELSE below[p[1]][Tail(p)]]

Narrow == Leaf(Node("unsigned", 0, 1, {}, {}))
Middle == Leaf(Node("unsigned", 0, 2, {}, {}))
Wide == Leaf(Node("unsigned", 0, 3, {}, {}))
Choice(tags, reserved) == Leaf(Node("enumeration", 0, 0, tags, reserved))
EmptyRecord == Leaf(Node("record", 0, 0, {}, {}))
Alternatives(tags, reserved) ==
  Under(Node("variant", 0, 0, tags, reserved), [t \in tags |-> EmptyRecord])
Record(below, reserved) == Under(Node("record", 0, 0, DOMAIN below, reserved), below)
ListOf(tree) == Under(Node("sequence", 0, 1, {}, {}), 0 :> tree)
Maybe(tree) == Under(Node("optional", 0, 0, {}, {}), 0 :> tree)

Defaulted(tree, default) == [tree EXCEPT ![<<>>] = As(@, "defaulted", default)]
Optional(tree) == [tree EXCEPT ![<<>>] = As(@, "optional", 0)]

Plain ==
  {Narrow, Middle, Wide, Optional(Narrow), Defaulted(Narrow, 0), Defaulted(Narrow, 1)}

Nested ==
  {Choice({1}, {}), Choice({1, 2}, {}), Choice({2}, {1}), Choice({2}, {}),
   Alternatives({1, 2}, {}), Alternatives({2}, {1}), Alternatives({2}, {}),
   ListOf(Choice({1, 2}, {})), ListOf(Choice({1}, {2})), Maybe(Narrow),
   EmptyRecord, Record(1 :> Narrow, {})}

MCRoots ==
  {Record(<<>>, {}), Record(<<>>, {1}), Record(<<>>, {1, 2})}
    \cup {Record(1 :> v, r) : v \in Plain \cup Nested, r \in {{}, {2}}}
    \cup {Record(2 :> v, {1}) : v \in {Narrow, Optional(Narrow)}}
    \cup {Record(1 :> v @@ 2 :> w, {}) : v \in {Narrow, Middle}, w \in {Narrow, Optional(Narrow)}}
    \cup {Record(1 :> Narrow, {1})}

MCLocks ==
  [family_id : {family}, schema_revision : Revisions, root : MCRoots]
    \cup [family_id : {stranger}, schema_revision : Revisions, root : {Record(<<>>, {})}]

-----------------------------------------------------------------------------

(* evolve_value and diff_value as the tools have them, recursive.          *)
RECURSIVE Recursive_evolve_value(_, _, _)
Recursive_evolve_value(previous, current, p) ==
  evolve_place(previous[p], current[p], p)
    \cup IF previous[p].kind # current[p].kind THEN {}
         ELSE UNION {Recursive_evolve_value(previous, current, Append(p, t)) :
                       t \in Children(previous[p]) \cap Children(current[p])}

RECURSIVE Recursive_diff_value(_, _, _)
Recursive_diff_value(writer, reader, p) ==
  diff_place(writer[p], reader[p], p)
    \cup IF Stops(writer[p], reader[p], p) # {} THEN {}
         ELSE UNION {Recursive_diff_value(writer, reader, Append(p, t)) :
                       t \in Children(writer[p]) \cap Children(reader[p])}

(* The sets of places above are what the recursion comes to. *)
ASSUME WalksAgree ==
  \A a, b \in MCRoots :
    /\ evolve_value(a, b) = Recursive_evolve_value(a, b, <<>>)
    /\ diff_value(a, b) = Recursive_diff_value(a, b, <<>>)
=============================================================================
