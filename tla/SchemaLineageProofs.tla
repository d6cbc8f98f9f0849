------------------------- MODULE SchemaLineageProofs -------------------------
(***************************************************************************)
(* What the checks of neighbouring locks leave true of a whole family, for *)
(* schemas of any shape and depth.  The tools recurse over a schema, so    *)
(* the lemmas go down a place one tag at a time: the prover has no         *)
(* induction, but it has that a set of numbers has a least element.        *)
(***************************************************************************)
EXTENDS SchemaLineage, WellFoundedInduction, SequenceTheorems, TLAPS

Less == {ss \in Nat \X Nat : ss[1] < ss[2]}

(* A non-empty set of natural numbers has a least element. *)
LEMMA Least ==
  ASSUME NEW T, T \subseteq Nat, T # {}
  PROVE  \E n \in T : \A m \in T : n <= m
<1>1. IsWellFoundedOn(Less, Nat)
  BY NatLessThanWellFounded, Zenon DEF OpToRel, Less
<1>2. \E x \in T : \A y \in T : ~ (<<y, x>> \in Less)
  BY <1>1, WFMin, Zenon
<1>3. PICK x \in T : \A y \in T : ~ (<<y, x>> \in Less)
  BY <1>2
<1>4. \A m \in T : x <= m
  <2> TAKE m \in T
  <2>1. <<m, x>> \in Less <=> m < x
    BY DEF Less
  <2> QED BY <2>1, <1>3
<1> QED BY <1>4

-----------------------------------------------------------------------------

(* The first n tags of a place. *)
LEMMA Prefix ==
  ASSUME NEW p \in Seq(Nat), NEW n \in 0 .. Len(p)
  PROVE  /\ SubSeq(p, 1, n) \in Seq(Nat)
         /\ Len(SubSeq(p, 1, n)) = n
         /\ \A i \in 1 .. n : SubSeq(p, 1, n)[i] = p[i]
OBVIOUS

LEMMA WholePrefix ==
  ASSUME NEW p \in Seq(Nat)
  PROVE  SubSeq(p, 1, Len(p)) = p /\ SubSeq(p, 1, 0) = <<>>
OBVIOUS

LEMMA PrefixOfPrefix ==
  ASSUME NEW p \in Seq(Nat), NEW n \in 0 .. Len(p), NEW m \in 0 .. n
  PROVE  SubSeq(SubSeq(p, 1, n), 1, m) = SubSeq(p, 1, m)
OBVIOUS

LEMMA LongerPrefix ==
  ASSUME NEW p \in Seq(Nat), NEW n \in 1 .. Len(p)
  PROVE  SubSeq(p, 1, n) = Append(SubSeq(p, 1, n - 1), p[n])
OBVIOUS

LEMMA AbovePrefix ==
  ASSUME NEW p \in Seq(Nat), NEW n \in 0 .. Len(p)
  PROVE  Above(SubSeq(p, 1, n)) = {SubSeq(p, 1, m) : m \in 0 .. n - 1}
<1>1. Len(SubSeq(p, 1, n)) = n
  BY Prefix
<1>2. \A m \in 0 .. n - 1 : SubSeq(SubSeq(p, 1, n), 1, m) = SubSeq(p, 1, m)
  BY PrefixOfPrefix
<1> QED BY <1>1, <1>2 DEF Above

-----------------------------------------------------------------------------

(* A tree holds every place on the way to one it holds, and each tag on    *)
(* the way is a child of the value above it.                               *)
LEMMA TreePrefix ==
  ASSUME NEW root, Tree(root), NEW p \in DOMAIN root, NEW n \in 0 .. Len(p)
  PROVE  SubSeq(p, 1, n) \in DOMAIN root
<1>1. p \in Seq(Nat)
  BY DEF Tree
<1>2. Above(p) \subseteq DOMAIN root
  BY DEF Tree
<1>3. CASE n = Len(p)
  BY <1>1, <1>3, WholePrefix
<1>4. CASE n \in 0 .. Len(p) - 1
  BY <1>2, <1>4 DEF Above
<1> QED BY <1>1, <1>3, <1>4

LEMMA TreeChild ==
  ASSUME NEW root, Tree(root), NEW p \in DOMAIN root, NEW n \in 1 .. Len(p)
  PROVE  /\ p[n] \in Nat
         /\ p[n] \in Children(root[SubSeq(p, 1, n - 1)])
<1> DEFINE q == SubSeq(p, 1, n)
<1>1. p \in Seq(Nat)
  BY DEF Tree
<1>2. q \in DOMAIN root
  BY <1>1, TreePrefix
<1>3. Len(q) = n /\ q[n] = p[n] /\ q # <<>>
  BY <1>1
<1>4. SubSeq(q, 1, Len(q) - 1) = SubSeq(p, 1, n - 1)
  BY <1>1, <1>3
<1>5. q[Len(q)] \in Children(root[SubSeq(q, 1, Len(q) - 1)])
  <2>1. \A r \in DOMAIN root \ {<<>>} : r[Len(r)] \in Children(root[SubSeq(r, 1, Len(r) - 1)])
    BY DEF Tree
  <2> QED BY <2>1, <1>2, <1>3
<1>6. p[n] \in Nat
  BY <1>1
<1> QED BY <1>3, <1>4, <1>5, <1>6

LEMMA TreeGrows ==
  ASSUME NEW root, Tree(root), NEW p \in DOMAIN root, NEW t \in Children(root[p])
  PROVE  Append(p, t) \in DOMAIN root
BY DEF Tree

LEMMA TreeValues ==
  ASSUME NEW root, Tree(root), NEW p \in DOMAIN root
  PROVE  p \in Seq(Nat) /\ root[p] \in Value /\ <<>> \in DOMAIN root
BY DEF Tree

-----------------------------------------------------------------------------

(* Where two values differ in nothing evolve_value minds. *)
LEMMA Retained ==
  ASSUME NEW a, NEW b, NEW p, evolve_place(a, b, p) = {}
  PROVE  /\ a.kind = b.kind
         /\ a.reserved_tags \subseteq b.reserved_tags
         /\ a.tags \subseteq b.tags \cup b.reserved_tags
<1>1. a.kind = b.kind
  BY DEF evolve_place
<1>2. evolve_tags(a, b, p) = {}
  BY <1>1 DEF evolve_place
<1> QED BY <1>1, <1>2 DEF evolve_tags

LEMMA NothingAt ==
  ASSUME NEW a, NEW b, evolve_value(a, b) = {}, NEW p \in Evolved(a, b)
  PROVE  evolve_place(a[p], b[p], p) = {}
BY DEF evolve_value

(* A set of places that holds each place on the way to p if it holds those *)
(* above it holds p.                                                       *)
LEMMA GoingDown ==
  ASSUME NEW p \in Seq(Nat), NEW G,
         \A n \in 0 .. Len(p) :
           (\A m \in 0 .. n - 1 : SubSeq(p, 1, m) \in G) => SubSeq(p, 1, n) \in G
  PROVE  \A n \in 0 .. Len(p) : SubSeq(p, 1, n) \in G
<1> DEFINE Bad == {n \in 0 .. Len(p) : SubSeq(p, 1, n) \notin G}
<1>1. SUFFICES ASSUME Bad # {} PROVE FALSE
  OBVIOUS
<1>2. Bad \subseteq Nat
  OBVIOUS
<1>3. \E n \in Bad : \A m \in Bad : n <= m
  <2> HIDE DEF Bad
  <2> QED BY <1>1, <1>2, Least
<1>4. PICK n \in Bad : \A m \in Bad : n <= m
  BY <1>3
<1>5. \A m \in 0 .. n - 1 : SubSeq(p, 1, m) \in G
  BY <1>4
<1> QED BY <1>4, <1>5

(* Every place two locks share is in each lock between them. *)
LEMMA Between ==
  ASSUME NEW a, NEW b, NEW c, Tree(a), Tree(b), Tree(c), validate_value(c),
         evolve_value(a, b) = {}, evolve_value(b, c) = {},
         NEW p \in DOMAIN a \cap DOMAIN c
  PROVE  p \in DOMAIN b /\ p \in Evolved(a, b) /\ p \in Evolved(b, c)
<1> DEFINE q(n) == SubSeq(p, 1, n)
           G == Evolved(a, b) \cap Evolved(b, c)
<1>1. p \in Seq(Nat)
  BY TreeValues
<1>2. ASSUME NEW n \in 0 .. Len(p), \A m \in 0 .. n - 1 : q(m) \in G
      PROVE  q(n) \in G
  <2>1. q(n) \in DOMAIN a /\ q(n) \in DOMAIN c
    BY TreePrefix
  <2>2. \A m \in 0 .. n - 1 : a[q(m)].kind = b[q(m)].kind /\ b[q(m)].kind = c[q(m)].kind
    <3> TAKE m \in 0 .. n - 1
    <3>1. q(m) \in Evolved(a, b) /\ q(m) \in Evolved(b, c)
      BY <1>2
    <3>2. evolve_place(a[q(m)], b[q(m)], q(m)) = {} /\ evolve_place(b[q(m)], c[q(m)], q(m)) = {}
      BY <3>1, NothingAt
    <3> QED BY <3>2, Retained
  <2>3. q(n) \in DOMAIN b
    <3>1. CASE n = 0
      <4>1. q(n) = <<>>
        BY <3>1, <1>1
      <4>2. <<>> \in DOMAIN b
        BY DEF Tree
      <4> QED BY <4>1, <4>2
    <3>2. CASE n \in 1 .. Len(p)
      <4> DEFINE r == q(n - 1)
                 t == p[n]
      <4>1. q(n) = Append(r, t)
        BY <3>2, <1>1, LongerPrefix
      <4>2. t \in Children(a[r]) /\ t \in Children(c[r])
        BY <3>2, TreeChild
      <4>3. r \in Evolved(a, b) /\ r \in Evolved(b, c)
        BY <1>2, <3>2
      <4>4. r \in DOMAIN b /\ r \in DOMAIN c
        BY <4>3 DEF Evolved
      <4>5. evolve_place(a[r], b[r], r) = {} /\ evolve_place(b[r], c[r], r) = {}
        BY <4>3, NothingAt
      <4>6. /\ a[r].kind = b[r].kind /\ b[r].kind = c[r].kind
            /\ b[r].reserved_tags \subseteq c[r].reserved_tags
            /\ a[r].tags \subseteq b[r].tags \cup b[r].reserved_tags
        BY <4>5, Retained, SMTT(60)
      <4>7. c[r].tags \cap c[r].reserved_tags = {}
        BY <4>4 DEF validate_value, Tagged
      <4>8. t \in Children(b[r])
        <5> HIDE DEF r, t
        <5> QED BY <4>2, <4>6, <4>7 DEF Children
      <4> QED BY <4>1, <4>4, <4>8, TreeGrows
    <3> QED BY <3>1, <3>2
  <2>4. Above(q(n)) = {q(m) : m \in 0 .. n - 1}
    BY <1>1, AbovePrefix
  <2> QED BY <2>1, <2>2, <2>3, <2>4 DEF Evolved
<1>3. \A n \in 0 .. Len(p) : q(n) \in G
  <2> HIDE DEF G
  <2> QED BY <1>1, <1>2, GoingDown
<1>4. q(Len(p)) = p /\ Len(p) \in 0 .. Len(p)
  BY <1>1, WholePrefix
<1>5. p \in G
  BY <1>3, <1>4
<1> QED BY <1>5 DEF Evolved

(* No evolution issues between neighbours: none between their neighbours. *)
LEMMA EvolutionComposes ==
  ASSUME NEW a, NEW b, NEW c, Tree(a), Tree(b), Tree(c), validate_value(c),
         evolve_value(a, b) = {}, evolve_value(b, c) = {}
  PROVE  evolve_value(a, c) = {}
<1>1. SUFFICES ASSUME NEW p \in Evolved(a, c) PROVE evolve_place(a[p], c[p], p) = {}
  BY DEF evolve_value
<1>2. p \in DOMAIN a \cap DOMAIN c
  BY DEF Evolved
<1>3. p \in Evolved(a, b) /\ p \in Evolved(b, c)
  BY <1>2, Between
<1>4. evolve_place(a[p], b[p], p) = {} /\ evolve_place(b[p], c[p], p) = {}
  BY <1>3, NothingAt
<1>5. /\ a[p].kind = b[p].kind
      /\ a[p].reserved_tags \subseteq b[p].reserved_tags
      /\ a[p].tags \subseteq b[p].tags \cup b[p].reserved_tags
  BY <1>4, Retained
<1>6. /\ b[p].kind = c[p].kind
      /\ b[p].reserved_tags \subseteq c[p].reserved_tags
      /\ b[p].tags \subseteq c[p].tags \cup c[p].reserved_tags
  BY <1>4, Retained
<1>7. evolve_tags(a[p], c[p], p) = {}
  BY <1>5, <1>6 DEF evolve_tags
<1> QED BY <1>5, <1>6, <1>7 DEF evolve_place

(* A name two locks share is one in each lock between them. *)
LEMMA NamesBetween ==
  ASSUME NEW a, NEW b, NEW c, Tree(a), Tree(b), Tree(c), validate_value(c),
         evolve_value(a, b) = {}, evolve_value(b, c) = {}
  PROVE  Names(a) \cap Names(c) \subseteq Names(b)
<1>1. SUFFICES ASSUME NEW x \in Names(a), x \in Names(c) PROVE x \in Names(b)
  OBVIOUS
<1>2. PICK p \in DOMAIN a, t \in Nat : t \in a[p].tags /\ x = Append(p, t)
  <2>1. PICK p \in DOMAIN a : x \in {Append(p, t) : t \in a[p].tags}
    BY DEF Names
  <2>2. a[p].tags \subseteq Nat
    BY TreeValues DEF Value
  <2> QED BY <2>1, <2>2
<1>3. PICK q \in DOMAIN c, s \in Nat : s \in c[q].tags /\ x = Append(q, s)
  <2>1. PICK q \in DOMAIN c : x \in {Append(q, s) : s \in c[q].tags}
    BY <1>1 DEF Names
  <2>2. c[q].tags \subseteq Nat
    BY TreeValues DEF Value
  <2> QED BY <2>1, <2>2
<1>4. p \in Seq(Nat) /\ q \in Seq(Nat)
  BY TreeValues
<1>5. p = q /\ t = s
  <2>1. Append(p, t) = Append(q, s)
    BY <1>2, <1>3
  <2> QED BY <2>1, <1>4, AppendInjective, SMTT(60)
<1>6. p \in DOMAIN b /\ p \in Evolved(a, b) /\ p \in Evolved(b, c)
  BY <1>3, <1>5, Between
<1>7. evolve_place(a[p], b[p], p) = {} /\ evolve_place(b[p], c[p], p) = {}
  BY <1>6, NothingAt
<1>8. a[p].tags \subseteq b[p].tags \cup b[p].reserved_tags /\ b[p].reserved_tags \subseteq c[p].reserved_tags
  BY <1>7, Retained
<1>9. c[p].tags \cap c[p].reserved_tags = {}
  BY <1>3, <1>5 DEF validate_value, Tagged
<1>10. t \in b[p].tags
  BY <1>2, <1>3, <1>5, <1>8, <1>9
<1> QED BY <1>2, <1>6, <1>10 DEF Names

-----------------------------------------------------------------------------

(* Where a reader accepts a writer nothing stops the comparison: it comes  *)
(* to every place they share.                                              *)
LEMMA NothingStops ==
  ASSUME NEW w, NEW r, Tree(w), Tree(r), diff_value(w, r) = {},
         NEW p \in DOMAIN w \cap DOMAIN r
  PROVE  /\ p \in Compared(w, r)
         /\ diff_place(w[p], r[p], p) = {}
         /\ Stops(w[p], r[p], p) = {}
<1> DEFINE q(n) == SubSeq(p, 1, n)
           G == Compared(w, r)
<1>1. p \in Seq(Nat)
  BY TreeValues
<1>2. \A x \in G : diff_place(w[x], r[x], x) = {} /\ Stops(w[x], r[x], x) = {}
  <2>1. \A x \in G : diff_place(w[x], r[x], x) = {}
    BY DEF diff_value
  <2> QED BY <2>1 DEF diff_place
<1>3. ASSUME NEW n \in 0 .. Len(p), \A m \in 0 .. n - 1 : q(m) \in G
      PROVE  q(n) \in G
  <2>1. q(n) \in DOMAIN w /\ q(n) \in DOMAIN r
    BY TreePrefix
  <2>2. \A m \in 0 .. n - 1 : Stops(w[q(m)], r[q(m)], q(m)) = {}
    BY <1>2, <1>3
  <2>3. Above(q(n)) = {q(m) : m \in 0 .. n - 1}
    BY <1>1, AbovePrefix
  <2> QED BY <2>1, <2>2, <2>3 DEF Compared
<1>4. \A n \in 0 .. Len(p) : q(n) \in G
  <2> HIDE DEF G
  <2> QED BY <1>1, <1>3, GoingDown
<1>5. q(Len(p)) = p /\ Len(p) \in 0 .. Len(p)
  BY <1>1, WholePrefix
<1>6. p \in G
  BY <1>4, <1>5
<1> QED BY <1>2, <1>6

(* What diff_place finds nothing wrong with. *)
LEMMA Fits ==
  ASSUME NEW w, NEW r, NEW p
  PROVE  diff_place(w, r, p) = {} <=>
           /\ w.presence = r.presence
           /\ w.presence = "defaulted" => w.default = r.default
           /\ w.kind = r.kind
           /\ w.rank = r.rank
           /\ ~ (w.minimum < r.minimum)
           /\ ~ (r.maximum < w.maximum)
           /\ w.kind \in {"enumeration", "variant"} => w.tags \subseteq r.tags
<1>1. Stops(w, r, p) = {} <=>
        /\ w.presence = r.presence
        /\ w.presence = "defaulted" => w.default = r.default
        /\ w.kind = r.kind
        /\ w.rank = r.rank
  BY DEF Stops, When
<1>2. require_count_subset(w, r, p) = {} <=> ~ (w.minimum < r.minimum) /\ ~ (r.maximum < w.maximum)
  BY DEF require_count_subset, require_subset, When
<1>3. Unknown_Tags(w, r, p) = {} <=> (w.kind \in {"enumeration", "variant"} => w.tags \subseteq r.tags)
  BY DEF Unknown_Tags
<1> QED BY <1>1, <1>2, <1>3 DEF diff_place

LEMMA AcceptanceComposes ==
  ASSUME NEW w, NEW m, NEW r, Tree(w), Tree(m), Tree(r),
         DOMAIN w \cap DOMAIN r \subseteq DOMAIN m,
         diff_value(w, m) = {}, diff_value(m, r) = {}
  PROVE  diff_value(w, r) = {}
<1>1. SUFFICES ASSUME NEW p \in Compared(w, r) PROVE diff_place(w[p], r[p], p) = {}
  BY DEF diff_value
<1>2. p \in DOMAIN w /\ p \in DOMAIN r /\ p \in DOMAIN m
  BY DEF Compared
<1>3. diff_place(w[p], m[p], p) = {} /\ diff_place(m[p], r[p], p) = {}
  BY <1>2, NothingStops
<1>4. w[p] \in Value /\ m[p] \in Value /\ r[p] \in Value
  BY <1>2, TreeValues
<1>5. /\ w[p].minimum \in Int /\ m[p].minimum \in Int /\ r[p].minimum \in Int
      /\ w[p].maximum \in Int /\ m[p].maximum \in Int /\ r[p].maximum \in Int
  BY <1>4 DEF Value
<1> DEFINE F(x, y) ==
             /\ x.presence = y.presence
             /\ x.presence = "defaulted" => x.default = y.default
             /\ x.kind = y.kind
             /\ x.rank = y.rank
             /\ ~ (x.minimum < y.minimum)
             /\ ~ (y.maximum < x.maximum)
             /\ x.kind \in {"enumeration", "variant"} => x.tags \subseteq y.tags
<1>6. F(w[p], m[p]) /\ F(m[p], r[p])
  BY <1>3, Fits
<1>7. F(w[p], r[p])
  BY <1>5, <1>6
<1> QED BY <1>7, Fits

LEMMA ResolutionsCompose ==
  ASSUME NEW w, NEW m, NEW r, Tree(w), Tree(m), Tree(r),
         DOMAIN w \cap DOMAIN r \subseteq DOMAIN m,
         diff_value(w, m) = {}, diff_value(m, r) = {}
  PROVE  /\ ignore_writer_field(w, r) \subseteq ignore_writer_field(w, m) \cup ignore_writer_field(m, r)
         /\ construct_reader_field(w, r) \subseteq construct_reader_field(w, m) \cup construct_reader_field(m, r)
<1>1. ASSUME NEW p \in Records(w, r)
      PROVE  p \in Records(w, m) /\ p \in Records(m, r)
  <2>1. p \in DOMAIN w /\ p \in DOMAIN r /\ p \in DOMAIN m /\ w[p].kind = "record"
    BY DEF Records, Compared
  <2>2. /\ p \in Compared(w, m) /\ Stops(w[p], m[p], p) = {}
        /\ p \in Compared(m, r) /\ Stops(m[p], r[p], p) = {}
    BY <2>1, NothingStops
  <2>3. diff_place(w[p], m[p], p) = {}
    BY <2>1, NothingStops
  <2>4. m[p].kind = "record"
    BY <2>1, <2>3, Fits
  <2> QED BY <2>1, <2>2, <2>4 DEF Records
<1>2. ASSUME NEW f \in ignore_writer_field(w, r)
      PROVE  f \in ignore_writer_field(w, m) \cup ignore_writer_field(m, r)
  <2>1. PICK p \in Records(w, r) : \E t \in w[p].tags \ r[p].tags : f = Append(p, t)
    BY DEF ignore_writer_field
  <2> PICK t \in w[p].tags \ r[p].tags : f = Append(p, t)
    BY <2>1
  <2>2. CASE t \in m[p].tags
    BY <1>1, <2>1, <2>2 DEF ignore_writer_field
  <2>3. CASE t \notin m[p].tags
    BY <1>1, <2>1, <2>3 DEF ignore_writer_field
  <2> QED BY <2>2, <2>3
<1>3. ASSUME NEW f \in construct_reader_field(w, r)
      PROVE  f \in construct_reader_field(w, m) \cup construct_reader_field(m, r)
  <2>1. PICK p \in Records(w, r) : \E t \in r[p].tags \ w[p].tags : f = Append(p, t)
    BY DEF construct_reader_field
  <2> PICK t \in r[p].tags \ w[p].tags : f = Append(p, t)
    BY <2>1
  <2>2. r[f].presence = "required"
    BY DEF construct_reader_field
  <2>3. p \in Records(w, m) /\ p \in Records(m, r)
    BY <1>1
  <2>4. CASE t \in m[p].tags
    <3>1. p \in DOMAIN m /\ p \in DOMAIN r /\ m[p].kind = "record" /\ r[p].kind = "record"
      <4>1. p \in Compared(m, r) /\ Stops(m[p], r[p], p) = {} /\ m[p].kind = "record"
        BY <2>3 DEF Records
      <4> QED BY <4>1 DEF Stops, Compared
    <3>2. t \in Children(m[p]) /\ t \in Children(r[p])
      BY <2>1, <2>4, <3>1 DEF Children
    <3>3. f \in DOMAIN m /\ f \in DOMAIN r
      BY <2>1, <3>1, <3>2, TreeGrows
    <3>4. diff_place(m[f], r[f], f) = {}
      BY <3>3, NothingStops
    <3>5. m[f].presence = "required"
      BY <2>2, <3>4, Fits
    <3>6. f \in {Append(p, u) : u \in m[p].tags \ w[p].tags}
      BY <2>4
    <3>7. f \in UNION {{Append(x, u) : u \in m[x].tags \ w[x].tags} : x \in Records(w, m)}
      BY <2>3, <3>6, ZenonT(60)
    <3>8. f \in construct_reader_field(w, m)
      BY <3>5, <3>7 DEF construct_reader_field
    <3> QED BY <3>8
  <2>5. CASE t \notin m[p].tags
    <3>1. f \in {Append(p, u) : u \in r[p].tags \ m[p].tags}
      BY <2>5
    <3>2. f \in UNION {{Append(x, u) : u \in r[x].tags \ m[x].tags} : x \in Records(m, r)}
      <4> DEFINE New(x) == {Append(x, u) : u \in r[x].tags \ m[x].tags}
      <4>1. p \in Records(m, r) /\ f \in New(p)
        BY <2>3, <3>1
      <4> HIDE DEF New
      <4>2. f \in UNION {New(x) : x \in Records(m, r)}
        BY <4>1
      <4> QED BY <4>2 DEF New
    <3>3. f \in construct_reader_field(m, r)
      BY <2>2, <3>2 DEF construct_reader_field
    <3> QED BY <3>3
  <2> QED BY <2>4, <2>5
<1> QED BY <1>2, <1>3
-----------------------------------------------------------------------------

(* Released locks are trees that validate, of one family; any two pass the *)
(* check that neighbours do.  It is inductive as it stands, because the    *)
(* check composes.                                                         *)
Validated ==
  /\ released \in Seq(Locks)
  /\ \A i \in Ages : validate_lock(released[i])

IInv == Validated /\ AncestorsAgree

(* Evolution between two locks, one conjunct for each thing reported. *)
LEMMA NoIssues ==
  ASSUME NEW a, NEW b
  PROVE  evolution_issues(a, b) = {} <=>
           /\ a.family_id = b.family_id
           /\ ~ (b.schema_revision <= a.schema_revision)
           /\ evolve_value(a.root, b.root) = {}
<1>1. Header_Issues(a, b) = {} <=> a.family_id = b.family_id /\ ~ (b.schema_revision <= a.schema_revision)
  BY DEF Header_Issues, When
<1> QED BY <1>1 DEF evolution_issues

LEMMA LocksCompose ==
  ASSUME NEW a \in Locks, NEW b \in Locks, NEW c \in Locks, validate_lock(c),
         evolution_issues(a, b) = {}, evolution_issues(b, c) = {}
  PROVE  evolution_issues(a, c) = {}
<1>1. /\ a.schema_revision \in Nat /\ b.schema_revision \in Nat /\ c.schema_revision \in Nat
      /\ Tree(a.root) /\ Tree(b.root) /\ Tree(c.root)
  BY LocksAssumption
<1>2. /\ a.family_id = b.family_id /\ ~ (b.schema_revision <= a.schema_revision)
      /\ evolve_value(a.root, b.root) = {}
  BY NoIssues
<1>3. /\ b.family_id = c.family_id /\ ~ (c.schema_revision <= b.schema_revision)
      /\ evolve_value(b.root, c.root) = {}
  BY NoIssues
<1>4. validate_value(c.root)
  BY DEF validate_lock
<1>5. evolve_value(a.root, c.root) = {}
  BY <1>1, <1>2, <1>3, <1>4, EvolutionComposes
<1>6. a.family_id = c.family_id /\ ~ (c.schema_revision <= a.schema_revision)
  BY <1>1, <1>2, <1>3
<1> QED BY <1>5, <1>6, NoIssues

LEMMA Step ==
  ASSUME IInv, [Next]_released
  PROVE  IInv'
<1>1. CASE UNCHANGED released
  BY <1>1 DEF IInv, Validated, AncestorsAgree, Ages
<1>2. ASSUME NEW lock \in Locks, First(lock) PROVE IInv'
  <2>1. released' = <<lock>> /\ validate_lock(lock)
    BY <1>2 DEF First
  <2>2. Ages' = {1} /\ released'[1] = lock /\ released' \in Seq(Locks)
    BY <2>1 DEF Ages
  <2>3. Validated'
    BY <2>1, <2>2 DEF Validated
  <2>4. AncestorsAgree'
    BY <2>2 DEF AncestorsAgree
  <2> QED BY <2>3, <2>4 DEF IInv
<1>3. ASSUME NEW lock \in Locks, Evolve(lock) PROVE IInv'
  <2> DEFINE n == Len(released)
  <2>1. /\ released # <<>> /\ validate_lock(lock)
        /\ evolution_issues(released[n], lock) = {}
        /\ released' = Append(released, lock)
    BY <1>3 DEF Evolve
  <2>2. released \in Seq(Locks) /\ n \in Nat \ {0} /\ Ages = 1 .. n
    BY <2>1 DEF IInv, Validated, Ages
  <2>3. /\ released' \in Seq(Locks) /\ Ages' = 1 .. n + 1
        /\ \A i \in 1 .. n : released'[i] = released[i]
        /\ released'[n + 1] = lock
    <3>1. /\ Append(released, lock) \in Seq(Locks)
          /\ Len(Append(released, lock)) = n + 1
          /\ \A i \in 1 .. n : Append(released, lock)[i] = released[i]
          /\ Append(released, lock)[n + 1] = lock
      BY <2>2, AppendProperties
    <3>2. DOMAIN Append(released, lock) = 1 .. n + 1
      BY <3>1
    <3> QED BY <2>1, <3>1, <3>2 DEF Ages
  <2>4. Validated'
    <3>1. \A i \in 1 .. n : validate_lock(released[i])
      BY <2>2 DEF IInv, Validated
    <3>2. \A i \in 1 .. n + 1 : validate_lock(released'[i])
      <4> TAKE i \in 1 .. n + 1
      <4>1. i \in 1 .. n \/ i = n + 1
        BY <2>2
      <4>2. CASE i \in 1 .. n
        BY <2>3, <3>1, <4>2
      <4>3. CASE i = n + 1
        BY <2>1, <2>3, <4>3
      <4> QED BY <4>1, <4>2, <4>3
    <3> QED BY <2>3, <3>2 DEF Validated
  <2>5. \A i, k \in 1 .. n : i < k => evolution_issues(released[i], released[k]) = {}
    BY <2>2 DEF IInv, AncestorsAgree
  <2>6. \A i \in 1 .. n : evolution_issues(released[i], lock) = {}
    <3> TAKE i \in 1 .. n
    <3>1. CASE i = n
      BY <2>1, <3>1
    <3>2. CASE i < n
      <4>1. released[i] \in Locks /\ released[n] \in Locks
        BY <2>2
      <4>2. evolution_issues(released[i], released[n]) = {}
        <5>1. n \in 1 .. n
          BY <2>2
        <5> HIDE DEF n
        <5> QED BY <2>5, <3>2, <5>1
      <4> QED BY <2>1, <4>1, <4>2, LocksCompose
    <3> QED BY <2>2, <3>1, <3>2
  <2>7. \A i, k \in 1 .. n + 1 : i < k => evolution_issues(released'[i], released'[k]) = {}
    <3> SUFFICES ASSUME NEW i \in 1 .. n + 1, NEW k \in 1 .. n + 1, i < k
                 PROVE  evolution_issues(released'[i], released'[k]) = {}
      OBVIOUS
    <3>1. i \in 1 .. n /\ released'[i] = released[i]
      BY <2>2, <2>3
    <3>2. CASE k = n + 1
      BY <2>3, <2>6, <3>1, <3>2
    <3>3. CASE k \in 1 .. n
      BY <2>3, <2>5, <3>1, <3>3
    <3> QED BY <2>2, <3>2, <3>3
  <2>8. AncestorsAgree'
    BY <2>3, <2>7 DEF AncestorsAgree
  <2> QED BY <2>4, <2>8 DEF IInv
<1> QED BY <1>1, <1>2, <1>3 DEF Next

LEMMA Invariance == Spec => []IInv
<1>1. Init => IInv
  BY DEF Init, IInv, Validated, AncestorsAgree, Ages
<1>2. IInv /\ [Next]_released => IInv'
  BY Step
<1> QED BY <1>1, <1>2, PTL DEF Spec

(* Released locks are candidates, and at no place of one is a tag active   *)
(* and reserved (validate_lock).                                           *)
THEOREM Types == Spec => []TypeOK
<1>1. IInv => TypeOK
  <2> SUFFICES ASSUME IInv PROVE TypeOK
    OBVIOUS
  <2>1. released \in Seq(Locks) /\ \A i \in Ages : validate_value(released[i].root)
    BY DEF IInv, Validated, validate_lock
  <2>2. \A i \in Ages : \A p \in DOMAIN released[i].root :
          released[i].root[p].tags \cap released[i].root[p].reserved_tags = {}
    BY <2>1 DEF validate_value, Tagged
  <2> QED BY <2>1, <2>2 DEF TypeOK
<1> QED BY <1>1, Invariance, PTL

(* Any two locks of a family pass schema_diff --evolution, though only     *)
(* neighbours went through it.                                             *)
THEOREM Ancestry == Spec => []AncestorsAgree
BY Invariance, PTL DEF IInv

(* Any three locks of a family, in the order of their release. *)
LEMMA Three ==
  ASSUME IInv, NEW i \in Ages, NEW j \in Ages, NEW k \in Ages, i < j, j < k
  PROVE  /\ released[i] \in Locks /\ released[j] \in Locks /\ released[k] \in Locks
         /\ Tree(released[i].root) /\ Tree(released[j].root) /\ Tree(released[k].root)
         /\ validate_value(released[k].root)
         /\ released[i].family_id = released[j].family_id
         /\ released[j].family_id = released[k].family_id
         /\ evolve_value(released[i].root, released[j].root) = {}
         /\ evolve_value(released[j].root, released[k].root) = {}
<1>1. released[i] \in Locks /\ released[j] \in Locks /\ released[k] \in Locks
  BY DEF IInv, Validated, Ages
<1>2. Tree(released[i].root) /\ Tree(released[j].root) /\ Tree(released[k].root)
  BY <1>1, LocksAssumption
<1>3. validate_value(released[k].root)
  BY DEF IInv, Validated, validate_lock
<1>4. evolution_issues(released[i], released[j]) = {} /\ evolution_issues(released[j], released[k]) = {}
  BY DEF IInv, AncestorsAgree
<1> QED BY <1>1, <1>2, <1>3, <1>4, NoIssues

(* A tag retired from a record, enumeration or variant, at any depth, is   *)
(* never active in a later lock.                                           *)
THEOREM Retirement == Spec => []RetiredForGood
<1>1. IInv => RetiredForGood
  <2> SUFFICES ASSUME IInv, NEW i \in Ages, NEW j \in Ages, NEW k \in Ages, i < j, j < k
               PROVE  Names(released[i].root) \cap Names(released[k].root) \subseteq Names(released[j].root)
    BY DEF RetiredForGood
  <2> QED BY Three, NamesBetween
<1> QED BY <1>1, Invariance, PTL

(* No incompatibility between two locks of one family. *)
LEMMA Acceptance ==
  ASSUME NEW reader, NEW writer, reader.family_id = writer.family_id
  PROVE  /\ Accepts(reader, writer) <=> diff_value(writer.root, reader.root) = {}
         /\ requirements(writer, reader) =
              {Issue("ignore_writer_field", f) : f \in ignore_writer_field(writer.root, reader.root)}
                \cup {Issue("construct_reader_field", f) : f \in construct_reader_field(writer.root, reader.root)}
BY DEF Accepts, incompatibilities, requirements

(* Two locks of a family share no place that a lock between them lacks. *)
LEMMA SharedPlaces ==
  ASSUME NEW a, NEW b, NEW c, Tree(a), Tree(b), Tree(c), validate_value(c),
         evolve_value(a, b) = {}, evolve_value(b, c) = {}
  PROVE  DOMAIN a \cap DOMAIN c \subseteq DOMAIN b
BY Between

(* Acceptance of neighbours in a family carries over to any distance, with *)
(* the older lock as the writer and as the reader.                         *)
THEOREM Composition == Spec => []CompatibilityComposes
<1>1. IInv => CompatibilityComposes
  <2> SUFFICES ASSUME IInv, NEW i \in Ages, NEW j \in Ages, NEW k \in Ages, i < j, j < k
               PROVE  /\ Accepts(released[j], released[i]) /\ Accepts(released[k], released[j])
                           => Accepts(released[k], released[i])
                      /\ Accepts(released[j], released[k]) /\ Accepts(released[i], released[j])
                           => Accepts(released[i], released[k])
    BY DEF CompatibilityComposes
  <2> DEFINE a == released[i].root
             b == released[j].root
             c == released[k].root
  <2>1. /\ Tree(a) /\ Tree(b) /\ Tree(c)
        /\ released[i].family_id = released[j].family_id /\ released[j].family_id = released[k].family_id
    BY Three
  <2>2. DOMAIN a \cap DOMAIN c \subseteq DOMAIN b /\ DOMAIN c \cap DOMAIN a \subseteq DOMAIN b
    BY Three, SharedPlaces
  <2>3. diff_value(a, b) = {} /\ diff_value(b, c) = {} => diff_value(a, c) = {}
    BY <2>1, <2>2, AcceptanceComposes
  <2>4. diff_value(c, b) = {} /\ diff_value(b, a) = {} => diff_value(c, a) = {}
    BY <2>1, <2>2, AcceptanceComposes
  <2> QED BY <2>1, <2>3, <2>4, Acceptance
<1> QED BY <1>1, Invariance, PTL

(* What an approval would have to resolve at a distance was resolved by    *)
(* the approvals on the way.                                               *)
THEOREM Resolution == Spec => []RequirementsCompose
<1>1. IInv => RequirementsCompose
  <2> SUFFICES ASSUME IInv, NEW i \in Ages, NEW j \in Ages, NEW k \in Ages, i < j, j < k,
                      Accepts(released[j], released[i]), Accepts(released[k], released[j])
               PROVE  requirements(released[i], released[k]) \subseteq
                        requirements(released[i], released[j]) \cup requirements(released[j], released[k])
    BY DEF RequirementsCompose
  <2> DEFINE a == released[i].root
             b == released[j].root
             c == released[k].root
  <2>1. /\ Tree(a) /\ Tree(b) /\ Tree(c)
        /\ released[i].family_id = released[j].family_id /\ released[j].family_id = released[k].family_id
    BY Three
  <2>2. DOMAIN a \cap DOMAIN c \subseteq DOMAIN b
    BY Three, SharedPlaces
  <2>3. diff_value(a, b) = {} /\ diff_value(b, c) = {}
    BY <2>1, Acceptance
  <2>4. /\ ignore_writer_field(a, c) \subseteq ignore_writer_field(a, b) \cup ignore_writer_field(b, c)
        /\ construct_reader_field(a, c) \subseteq construct_reader_field(a, b) \cup construct_reader_field(b, c)
    BY <2>1, <2>2, <2>3, ResolutionsCompose
  <2> DEFINE I(x, y) == {Issue("ignore_writer_field", f) : f \in ignore_writer_field(x, y)}
             K(x, y) == {Issue("construct_reader_field", f) : f \in construct_reader_field(x, y)}
  <2>5. I(a, c) \subseteq I(a, b) \cup I(b, c) /\ K(a, c) \subseteq K(a, b) \cup K(b, c)
    BY <2>4
  <2>6. /\ requirements(released[i], released[k]) = I(a, c) \cup K(a, c)
        /\ requirements(released[i], released[j]) = I(a, b) \cup K(a, b)
        /\ requirements(released[j], released[k]) = I(b, c) \cup K(b, c)
    BY <2>1, Acceptance
  <2> QED BY <2>5, <2>6
<1> QED BY <1>1, Invariance, PTL
=============================================================================
