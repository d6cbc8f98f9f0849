------------------------- MODULE RecordExchangeProofs -------------------------
(***************************************************************************)
(* What holds of every exchange, whatever the schemas, approvals, items    *)
(* and octets: an Encode that Measure agreed to writes the canonical       *)
(* octets of its item, and one that fails has changed nothing; a Decode    *)
(* never goes past a field its writer lacks, leaves nothing of what it     *)
(* read if it fails, accepts only what is valid and, from its own writer,  *)
(* canonical; whatever an accepted writer encoded arrives; and the maximum *)
(* the tools reckon for a lock is enough for all its items.                *)
(***************************************************************************)
EXTENDS RecordExchange, TaggedProfileProofs

-----------------------------------------------------------------------------

(***************************************************************************)
(* The values of a lock.                                                   *)
(***************************************************************************)
LEMMA Places ==
  ASSUME NEW lock \in Locks, NEW p \in DOMAIN lock.root
  PROVE  /\ Proper(lock.root[p])
         /\ \A t \in Children(lock.root[p]) : Append(p, t) \in DOMAIN lock.root
         /\ Placed(lock.root, p)
BY ExchangeAssumption DEF Tree, validate_lock, validate_value, Proper

LEMMA Root ==
  ASSUME NEW lock \in Locks
  PROVE  /\ <<>> \in DOMAIN lock.root /\ lock.root[<<>>].kind = "record"
         /\ Fields(lock) # {} /\ Fields(lock) \subseteq Field_Tag
<1>1. /\ <<>> \in DOMAIN lock.root
      /\ lock.root[<<>>].kind = "record" /\ Fields(lock) # {}
  BY ExchangeAssumption DEF Tree, validate_binding
<1> QED
  BY <1>1, Places DEF Proper, Wire_Bounds, Fields

LEMMA FieldIsProper ==
  ASSUME NEW lock \in Locks, NEW t \in Fields(lock)
  PROVE  /\ <<t>> \in DOMAIN lock.root /\ Proper(Field(lock, t))
         /\ t \in Field_Tag
         /\ Field(lock, t).kind \in Simple \cup {"bytes", "sequence", "variant"}
         /\ Field(lock, t).kind \notin Scalars => Field(lock, t).presence = "required"
<1>1. /\ <<>> \in DOMAIN lock.root /\ lock.root[<<>>].kind = "record" /\ t \in Field_Tag
  BY Root
<1>2. t \in Children(lock.root[<<>>])
  BY <1>1 DEF Children, Fields
<1>3. Append(<<>>, t) = <<t>>
  OBVIOUS
<1>4. <<t>> \in DOMAIN lock.root
  BY <1>1, <1>2, <1>3, Places, Zenon
<1>5. /\ Field(lock, t).kind \in Scalars \cup {"enumeration", "bytes", "sequence", "variant"}
      /\ Field(lock, t).kind \notin Scalars => Field(lock, t).presence = "required"
  BY ExchangeAssumption DEF validate_binding
<1> QED
  BY <1>1, <1>4, <1>5, Places DEF Field, Simple

LEMMA ElementIsProper ==
  ASSUME NEW lock \in Locks, NEW t \in Fields(lock), Field(lock, t).kind = "sequence"
  PROVE  Proper(Element(lock, t)) /\ Element(lock, t).kind \in Simple
<1>1. <<t>> \in DOMAIN lock.root
  BY FieldIsProper
<1>2. Inner \in Children(lock.root[<<t>>])
  BY DEF Children, Field
<1>3. Append(<<t>>, Inner) = <<t, Inner>>
  BY AppendToOne
<1>4. <<t, Inner>> \in DOMAIN lock.root
  BY <1>1, <1>2, <1>3, Places, Zenon
<1>5. Element(lock, t).kind \in Scalars
  BY ExchangeAssumption DEF validate_binding
<1> QED
  BY <1>4, <1>5, Places DEF Element, Simple

(* The members of a variant are scalars, and finitely many.                *)
LEMMA MemberIsProper ==
  ASSUME NEW lock \in Locks, NEW t \in Fields(lock), Field(lock, t).kind = "variant",
         NEW a \in Field(lock, t).tags
  PROVE  /\ a \in Field_Tag /\ Payload_Tags(lock, t, a) \subseteq Field_Tag
         /\ \A m \in Payload_Tags(lock, t, a) :
              /\ <<a, m>> \in Members(lock, t)
              /\ Proper(Member(lock, t, a, m))
              /\ Member(lock, t, a, m).kind \in Scalars
<1>1. <<t>> \in DOMAIN lock.root /\ Proper(Field(lock, t))
  BY FieldIsProper
<1>2. a \in Children(lock.root[<<t>>]) /\ a \in Field_Tag
  BY <1>1 DEF Children, Field, Proper, Wire_Bounds
<1>3. Append(<<t>>, a) = <<t, a>>
  BY AppendToOne
<1>4. <<t, a>> \in DOMAIN lock.root
  BY <1>1, <1>2, <1>3, Places, Zenon
<1>5. lock.root[<<t, a>>].kind = "record"
  BY <1>1, <1>3, Places, Zenon DEF Placed, Field
<1>6. Payload_Tags(lock, t, a) \subseteq Field_Tag
  BY <1>4, Places DEF Payload_Tags, Proper, Wire_Bounds
<1>7. ASSUME NEW m \in Payload_Tags(lock, t, a)
      PROVE  /\ <<a, m>> \in Members(lock, t)
             /\ Proper(Member(lock, t, a, m))
             /\ Member(lock, t, a, m).kind \in Scalars
  <2>1. m \in Children(lock.root[<<t, a>>])
    BY <1>5 DEF Children, Payload_Tags
  <2>2. Append(<<t, a>>, m) = <<t, a, m>>
    BY AppendToTwo
  <2>3. <<t, a, m>> \in DOMAIN lock.root
    BY <1>4, <2>1, <2>2, Places, Zenon
  <2>4. <<a, m>> \in Members(lock, t)
    BY DEF Members
  <2>5. \A o \in Members(lock, t) : Member(lock, t, o[1], o[2]).kind \in Scalars
    BY ExchangeAssumption DEF validate_binding
  <2>6. Member(lock, t, a, m).kind \in Scalars
    BY <2>4, <2>5
  <2> QED
    BY <2>3, <2>4, <2>6, Places DEF Member
<1> QED
  BY <1>2, <1>6, <1>7

-----------------------------------------------------------------------------

(***************************************************************************)
(* Sequences: the count, and then elements behind their lengths.           *)
(***************************************************************************)
Next_Element(element, content, before, i) ==
  IF before.status # "Wrote" THEN before
  ELSE In_Extent(Write_Length_Delimited(before.output, before.cursor, scalar_size(element, content[i])),
                 LAMBDA o, k : scalar_write(element, o, k, content[i]))

Elements_Written(f, top, element, output, c, content) ==
  f = [n \in 0 .. top |->
         IF n = 0 THEN Write_Unsigned(output, c, Len(content)) ELSE Next_Element(element, content, f[n - 1], n)]

(* The equation of Write_Elements holds of some function. *)
LEMMA ElementsWrittenExists ==
  ASSUME NEW top \in Nat, NEW element, NEW output, NEW c, NEW content
  PROVE  \E f : Elements_Written(f, top, element, output, c, content)
<1> DEFINE Step(before, n) == Next_Element(element, content, before, n)
           G == {m \in 0 .. top : \E f : f = [n \in 0 .. m |-> IF n = 0 THEN Write_Unsigned(output, c, Len(content)) ELSE Step(f[n - 1], n)]}
<1> HIDE DEF Step
<1>1. ASSUME NEW m \in 0 .. top, \A k \in 0 .. m - 1 : k \in G
      PROVE  m \in G
  <2>1. CASE m = 0
    <3> DEFINE f == [n \in 0 .. m |-> Write_Unsigned(output, c, Len(content))]
    <3>1. f = [n \in 0 .. m |-> IF n = 0 THEN Write_Unsigned(output, c, Len(content)) ELSE Step(f[n - 1], n)]
      BY <2>1
    <3> QED
      BY <3>1, Zenon
  <2>2. CASE m > 0
    <3>1. PICK f : f = [n \in 0 .. m - 1 |-> IF n = 0 THEN Write_Unsigned(output, c, Len(content)) ELSE Step(f[n - 1], n)]
      BY <1>1, <2>2
    <3> DEFINE g == [n \in 0 .. m |-> IF n = m THEN Step(f[m - 1], m) ELSE f[n]]
    <3>2. ASSUME NEW n \in 0 .. m
          PROVE  g[n] = IF n = 0 THEN Write_Unsigned(output, c, Len(content)) ELSE Step(g[n - 1], n)
      <4>1. CASE n = m
        <5>1. g[n] = Step(f[m - 1], m) /\ g[n - 1] = f[m - 1]
          BY <2>2, <4>1
        <5> QED
          BY <2>2, <4>1, <5>1
      <4>2. CASE n # m
        <5>1. n \in 0 .. m - 1 /\ g[n] = f[n] /\ (n # 0 => g[n - 1] = f[n - 1])
          BY <4>2
        <5>2. f[n] = IF n = 0 THEN Write_Unsigned(output, c, Len(content)) ELSE Step(f[n - 1], n)
          <6> HIDE DEF g
          <6> QED
            BY <3>1, <5>1
        <5> QED
          BY <5>1, <5>2
      <4> QED
        BY <4>1, <4>2
    <3>3. g = [n \in 0 .. m |-> IF n = 0 THEN Write_Unsigned(output, c, Len(content)) ELSE Step(g[n - 1], n)]
      BY <3>2
    <3> HIDE DEF g
    <3> QED
      BY <3>3
  <2> QED
    BY <2>1, <2>2
<1> HIDE DEF G
<1>2. top \in G
  <2>1. \A i \in 0 .. top : i \in G
    BY <1>1, AllNumbers, Zenon
  <2> QED
    BY <2>1
<1> QED
  BY <1>2 DEF G, Step, Elements_Written

(* An element is written behind what there is if there is room for it.     *)
LEMMA ElementStored ==
  ASSUME NEW n \in Nat, NEW before \in [1 .. n -> Octet], NEW c \in Cursor_Record, Is_Valid(c, n),
         NEW element, Proper(element), element.kind \in Simple,
         NEW content, NEW i, Number(element, content[i]),
         NEW written, NEW at \in Nat, Stores(n, before, c, written, at, at),
         NEW need, need = Length_And(scalar_size(element, content[i])), at + need <= Remaining(c)
  PROVE  /\ need \in Nat
         /\ Stores(n, before, c, Next_Element(element, content, written, i), at + need, at + need)
<1> DEFINE size == scalar_size(element, content[i])
           header == Write_Length_Delimited(written.output, written.cursor, size)
<1>1. size \in Nat
  BY ScalarSize
<1>2. need \in Nat /\ need = Length_And(size)
  BY <1>1, SizeOfAny, ProfileAssumption DEF Length_And
<1>3. size = scalar_size(element, content[i])
  OBVIOUS
<1> HIDE DEF size
<1>4. header = Write_Length_Delimited(written.output, written.cursor, size)
  OBVIOUS
<1> HIDE DEF header
<1>5. Opens(n, before, c, header, size, at + Length_And(size))
  BY <1>1, <1>2, <1>4, DelimitedBehind, Zenon
<1>6. PICK inner \in Cursor_Record :
        /\ inner = Initialize(header.output, header.value).cursor
        /\ Is_Valid(inner, n) /\ Remaining(inner) = size
        /\ \A value : Stores(n, header.output, inner, value, size, size) =>
             Stores(n, before, c, Behind(header, value), at + need, at + need)
  BY <1>2, <1>5 DEF Opens
<1>7. header.status = "Wrote" /\ header.output \in [1 .. n -> Octet] /\ Inside(header.value, header.output)
  BY <1>5 DEF Opens
<1> DEFINE value == scalar_write(element, header.output, inner, content[i])
<1>8. Stores(n, header.output, inner, value, size, size)
  BY <1>1, <1>3, <1>6, <1>7, ScalarStored, SMTT(60)
<1>9. Next_Element(element, content, written, i) = Behind(header, value)
  <2>1. written.status = "Wrote"
    BY DEF Stores
  <2> QED
    BY <1>3, <1>4, <1>6, <1>7, <2>1 DEF Next_Element, In_Extent
<1> QED
  BY <1>2, <1>6, <1>8, <1>9

(* A sequence fills the room that was measured for it.                     *)
LEMMA ElementsStored ==
  ASSUME NEW n \in Nat, NEW before \in [1 .. n -> Octet], NEW c \in Cursor_Record, Is_Valid(c, n),
         NEW element, Proper(element), element.kind \in Simple,
         NEW content \in Seq(Int), \A i \in 1 .. Len(content) : Number(element, content[i]),
         NEW upto, Elements_Add_Up(upto, element, content),
         NEW size, size = upto[Len(content)], size <= Remaining(c)
  PROVE  Stores(n, before, c, Write_Elements(element, before, c, content), size, size)
<1> DEFINE wrote == CHOOSE f : Elements_Written(f, Len(content), element, before, c, content)
<1>1. Len(content) \in Nat /\ Remaining(c) \in Int
  BY CursorFields
<1>2. Elements_Written(wrote, Len(content), element, before, c, content)
  BY <1>1, ElementsWrittenExists
<1>3. Write_Elements(element, before, c, content) = wrote[Len(content)]
  BY DEF Write_Elements, Elements_Written, Next_Element
<1> HIDE DEF wrote
<1>4. wrote[0] = Write_Unsigned(before, c, Len(content))
  BY <1>1, <1>2 DEF Elements_Written
<1>5. \A i \in 1 .. Len(content) : wrote[i] = Next_Element(element, content, wrote[i - 1], i)
  <2> SUFFICES ASSUME NEW i \in 1 .. Len(content)
               PROVE  wrote[i] = Next_Element(element, content, wrote[i - 1], i)
    OBVIOUS
  <2>1. i \in 0 .. Len(content) /\ i # 0
    BY <1>1
  <2> QED
    BY <1>2, <2>1, Zenon DEF Elements_Written
<1> DEFINE Right(i) == upto[i] <= Remaining(c) => Stores(n, before, c, wrote[i], upto[i], upto[i])
           G == {i \in 0 .. Len(content) : Right(i)}
<1> HIDE DEF G
<1>6. ASSUME NEW i \in 0 .. Len(content), \A k \in 0 .. i - 1 : k \in G
      PROVE  i \in G
  <2>1. CASE i = 0
    <3>1. upto[i] = Unsigned_Size(Len(content))
      BY <2>1 DEF Elements_Add_Up
    <3>2. upto[i] <= Remaining(c) => Stores(n, before, c, Write_Unsigned(before, c, Len(content)), upto[i], upto[i])
      BY <1>1, <3>1, UnsignedStored, Zenon
    <3> QED
      BY <1>4, <2>1, <3>2 DEF G
  <2>2. CASE i > 0 /\ upto[i] <= Remaining(c)
    <3> PICK below \in 0 .. i - 1 : below = i - 1
      BY <2>2
    <3> PICK need : need = Length_And(scalar_size(element, content[i]))
      OBVIOUS
    <3>1. i \in 1 .. Len(content) /\ below \in G /\ below \in 0 .. Len(content)
      BY <1>1, <1>6, <2>2
    <3>2. upto[below] \in Nat /\ upto[i] = upto[below] + need
      BY <3>1, Zenon DEF Elements_Add_Up
    <3>3. need \in Nat
      BY ScalarSize, SizeOfAny, ProfileAssumption, SMTT(60) DEF Length_And
    <3>4. upto[below] <= Remaining(c) /\ upto[below] + need <= Remaining(c)
      BY <1>1, <2>2, <3>2, <3>3
    <3>5. Stores(n, before, c, wrote[below], upto[below], upto[below])
      BY <3>1, <3>4 DEF G
    <3>6. Number(element, content[i]) /\ wrote[i] = Next_Element(element, content, wrote[below], i)
      BY <1>5, <3>1
    <3>7. Stores(n, before, c, Next_Element(element, content, wrote[below], i), upto[below] + need, upto[below] + need)
      BY <3>2, <3>4, <3>5, <3>6, ElementStored, Zenon
    <3> QED
      BY <3>2, <3>6, <3>7 DEF G
  <2>3. CASE ~ (upto[i] <= Remaining(c))
    BY <2>3 DEF G
  <2> QED
    BY <2>1, <2>2, <2>3
<1>7. Len(content) \in G
  <2>1. \A i \in 0 .. Len(content) : (\A k \in 0 .. i - 1 : k \in G) => i \in G
    BY <1>6
  <2>2. \A i \in 0 .. Len(content) : i \in G
    BY <1>1, <2>1, AllNumbers, Zenon
  <2> QED
    BY <1>1, <2>2
<1> QED
  BY <1>3, <1>7 DEF G

-----------------------------------------------------------------------------

(***************************************************************************)
(* Variants: the tag of an alternative, and its members as the fields of a *)
(* payload.                                                                *)
(***************************************************************************)

(* The members that come before a member are fewer than all, so that its   *)
(* place is within the components there are.                               *)
LEMMA SlotIsAnIndex ==
  ASSUME NEW lock \in Locks, NEW t \in Fields(lock), Field(lock, t).kind = "variant",
         NEW a \in Field(lock, t).tags, NEW m \in Payload_Tags(lock, t, a)
  PROVE  /\ Cardinality(Members(lock, t)) \in Nat
         /\ Slot(lock, t, a, m) \in 2 .. 1 + Cardinality(Members(lock, t))
<1> DEFINE Before == {o \in Members(lock, t) : o[1] < a \/ (o[1] = a /\ o[2] < m)}
<1>1. MaxFieldTag \in Nat /\ IsFiniteSet(Field_Tag)
  BY Limits, FS_Interval DEF Field_Tag
<1>2. IsFiniteSet(Field_Tag \X Field_Tag)
  BY <1>1, FS_Product
<1>3. Members(lock, t) \subseteq Field_Tag \X Field_Tag
  <2> SUFFICES ASSUME NEW o \in Members(lock, t)
               PROVE  o \in Field_Tag \X Field_Tag
    OBVIOUS
  <2> PICK b \in Field(lock, t).tags : o \in {<<b, k>> : k \in Payload_Tags(lock, t, b)}
    BY DEF Members
  <2> PICK k \in Payload_Tags(lock, t, b) : o = <<b, k>>
    OBVIOUS
  <2> QED
    BY MemberIsProper
<1>4. IsFiniteSet(Members(lock, t))
  BY <1>2, <1>3, FS_Subset
<1>5. <<a, m>> \in Members(lock, t) /\ a \in Field_Tag /\ m \in Field_Tag
  BY MemberIsProper
<1>6. <<a, m>> \notin Before
  BY <1>5 DEF Field_Tag
<1>7. Before \subseteq Members(lock, t) \ {<<a, m>>}
  BY <1>6
<1>8. /\ IsFiniteSet(Members(lock, t) \ {<<a, m>>})
      /\ Cardinality(Members(lock, t) \ {<<a, m>>}) = Cardinality(Members(lock, t)) - 1
      /\ Cardinality(Members(lock, t)) \in Nat
  BY <1>4, <1>5, FS_RemoveElement, FS_CardinalityType
<1> HIDE DEF Before
<1>9. Cardinality(Before) <= Cardinality(Members(lock, t)) - 1 /\ Cardinality(Before) \in Nat
  BY <1>7, <1>8, FS_Subset, FS_CardinalityType
<1>10. Slot(lock, t, a, m) = 2 + Cardinality(Before)
  BY DEF Slot, Before
<1> QED
  BY <1>8, <1>9, <1>10

Member_Sizes(lock, t, content) ==
  [m \in Payload_Tags(lock, t, content[1]) |->
     Sized(scalar_size(Member(lock, t, content[1], m), content[Slot(lock, t, content[1], m)]))]

LEMMA PayloadMeasured ==
  ASSUME NEW lock \in Locks, NEW t \in Fields(lock), Field(lock, t).kind = "variant",
         NEW content, content[1] \in Field(lock, t).tags,
         NEW payload, payload = Measure_Payload(lock, t, content), payload.status = "Measured"
  PROVE  /\ payload = Sized(payload.size) /\ payload.size \in Nat
         /\ \A m \in Payload_Tags(lock, t, content[1]) :
              ~ scalar_invalid(Member(lock, t, content[1], m), content[Slot(lock, t, content[1], m)])
         /\ \E upto : Adds_Up(upto, Member_Sizes(lock, t, content), payload.size)
<1> DEFINE sizes == Member_Sizes(lock, t, content)
<1>1. ~ \E m \in Payload_Tags(lock, t, content[1]) :
          scalar_invalid(Member(lock, t, content[1], m), content[Slot(lock, t, content[1], m)])
  BY DEF Measure_Payload, Unmeasured
<1>2. payload = Measure_Fields(sizes)
  BY <1>1 DEF Measure_Payload, Member_Sizes
<1>3. \A m \in DOMAIN sizes : sizes[m].size \in Nat
  BY ScalarSize DEF Member_Sizes, Sized
<1> HIDE DEF sizes
<1>4. payload = Sized(payload.size) /\ \E upto : Adds_Up(upto, sizes, payload.size)
  BY <1>2, <1>3, FieldsMeasured
<1>5. payload.size \in Nat
  <2> PICK upto : Adds_Up(upto, sizes, payload.size)
    BY <1>4
  <2> QED
    BY Limits DEF Adds_Up
<1> QED
  BY <1>1, <1>4, <1>5 DEF sizes

Next_Member(lock, t, content, before, m) ==
  IF m \notin Payload_Tags(lock, t, content[1]) \/ before.status # "Wrote" THEN before
  ELSE In_Extent(Write_Field_Header(before.output, before.cursor, before.previous, m,
                                    scalar_size(Member(lock, t, content[1], m),
                                                content[Slot(lock, t, content[1], m)])),
                 LAMBDA o, k : scalar_write(Member(lock, t, content[1], m), o, k,
                                            content[Slot(lock, t, content[1], m)]))

Members_Written(f, top, lock, t, output, c, content) ==
  f = [n \in 0 .. top |->
         IF n = 0 THEN [status |-> "Wrote", output |-> output, cursor |-> c, previous |-> No_Tag]
         ELSE Next_Member(lock, t, content, f[n - 1], n)]

(* The equation of Write_Members holds of some function. *)
LEMMA MembersWrittenExists ==
  ASSUME NEW top \in Nat, NEW lock, NEW t, NEW output, NEW c, NEW content
  PROVE  \E f : Members_Written(f, top, lock, t, output, c, content)
<1> DEFINE Step(before, n) == Next_Member(lock, t, content, before, n)
           G == {m \in 0 .. top : \E f : f = [n \in 0 .. m |-> IF n = 0 THEN [status |-> "Wrote", output |-> output, cursor |-> c, previous |-> No_Tag] ELSE Step(f[n - 1], n)]}
<1> HIDE DEF Step
<1>1. ASSUME NEW m \in 0 .. top, \A k \in 0 .. m - 1 : k \in G
      PROVE  m \in G
  <2>1. CASE m = 0
    <3> DEFINE f == [n \in 0 .. m |-> [status |-> "Wrote", output |-> output, cursor |-> c, previous |-> No_Tag]]
    <3>1. f = [n \in 0 .. m |-> IF n = 0 THEN [status |-> "Wrote", output |-> output, cursor |-> c, previous |-> No_Tag] ELSE Step(f[n - 1], n)]
      BY <2>1
    <3> QED
      BY <3>1
  <2>2. CASE m > 0
    <3>1. PICK f : f = [n \in 0 .. m - 1 |-> IF n = 0 THEN [status |-> "Wrote", output |-> output, cursor |-> c, previous |-> No_Tag] ELSE Step(f[n - 1], n)]
      BY <1>1, <2>2
    <3> DEFINE g == [n \in 0 .. m |-> IF n = m THEN Step(f[m - 1], m) ELSE f[n]]
    <3>2. ASSUME NEW n \in 0 .. m
          PROVE  g[n] = IF n = 0 THEN [status |-> "Wrote", output |-> output, cursor |-> c, previous |-> No_Tag] ELSE Step(g[n - 1], n)
      <4>1. CASE n = m
        <5>1. g[n] = Step(f[m - 1], m) /\ g[n - 1] = f[m - 1]
          BY <2>2, <4>1
        <5> QED
          BY <2>2, <4>1, <5>1
      <4>2. CASE n # m
        <5>1. n \in 0 .. m - 1 /\ g[n] = f[n] /\ (n # 0 => g[n - 1] = f[n - 1])
          BY <4>2
        <5>2. f[n] = IF n = 0 THEN [status |-> "Wrote", output |-> output, cursor |-> c, previous |-> No_Tag] ELSE Step(f[n - 1], n)
          <6> HIDE DEF g
          <6> QED
            BY <3>1, <5>1
        <5> QED
          BY <5>1, <5>2
      <4> QED
        BY <4>1, <4>2
    <3>3. g = [n \in 0 .. m |-> IF n = 0 THEN [status |-> "Wrote", output |-> output, cursor |-> c, previous |-> No_Tag] ELSE Step(g[n - 1], n)]
      BY <3>2
    <3> HIDE DEF g
    <3> QED
      BY <3>3
  <2> QED
    BY <2>1, <2>2
<1> HIDE DEF G
<1>2. top \in G
  <2>1. \A i \in 0 .. top : i \in G
    BY <1>1, AllNumbers, Zenon
  <2> QED
    BY <2>1
<1> QED
  BY <1>2 DEF G, Step, Members_Written

(* Fields and members are written behind what there is, in the order of    *)
(* their tags.                                                             *)
Wrote_Upto(n, before, c, written, at, tag) ==
  Stores(n, before, c, written, at, at) /\ written.previous \in 0 .. tag

LEMMA MemberStored ==
  ASSUME NEW n \in Nat, NEW before \in [1 .. n -> Octet], NEW c \in Cursor_Record, Is_Valid(c, n),
         NEW lock, NEW t, NEW content, NEW m \in Payload_Tags(lock, t, content[1]), m \in Field_Tag,
         NEW value, value = Member(lock, t, content[1], m), Proper(value), value.kind \in Simple,
         NEW number, number = content[Slot(lock, t, content[1], m)], Number(value, number),
         NEW written, NEW at \in Nat, Wrote_Upto(n, before, c, written, at, m - 1),
         NEW need, need = Need(m, scalar_size(value, number)), at + need <= Remaining(c)
  PROVE  Wrote_Upto(n, before, c, Next_Member(lock, t, content, written, m), at + need, m)
<1> DEFINE size == scalar_size(value, number)
           header == Write_Field_Header(written.output, written.cursor, written.previous, m, size)
<1>1. size \in Nat /\ m \in Nat
  BY ScalarSize DEF Field_Tag
<1>2. need \in Nat /\ need = Need(m, size)
  BY <1>1, SizeOfAny, ProfileAssumption, SMTT(60) DEF Need
<1>3. /\ Stores(n, before, c, written, at, at) /\ written.status = "Wrote"
      /\ written.previous \in Nat /\ written.previous < m
  BY <1>1 DEF Wrote_Upto, Stores
<1>4. size = scalar_size(value, number)
  OBVIOUS
<1> HIDE DEF size
<1>5. header = Write_Field_Header(written.output, written.cursor, written.previous, m, size)
  OBVIOUS
<1> HIDE DEF header
<1>6. /\ Opens(n, before, c, header, size, at + Need(m, size))
      /\ Goes_On(header, m)
  BY <1>1, <1>2, <1>3, <1>5, FieldBehind, Zenon
<1>7. PICK inner \in Cursor_Record :
        /\ inner = Initialize(header.output, header.value).cursor
        /\ Is_Valid(inner, n) /\ Remaining(inner) = size
        /\ \A stored : Stores(n, header.output, inner, stored, size, size) =>
             Stores(n, before, c, Behind(header, stored), at + need, at + need)
  BY <1>2, <1>6 DEF Opens
<1>8. header.status = "Wrote" /\ header.output \in [1 .. n -> Octet] /\ Inside(header.value, header.output)
  BY <1>6 DEF Opens
<1> DEFINE stored == scalar_write(value, header.output, inner, number)
<1>9. Stores(n, header.output, inner, stored, size, size)
  BY <1>1, <1>4, <1>7, <1>8, ScalarStored, SMTT(60)
<1>10. Next_Member(lock, t, content, written, m) = Behind(header, stored)
  BY <1>3, <1>4, <1>5, <1>7, <1>8 DEF Next_Member, In_Extent
<1> HIDE DEF stored
<1>11. /\ Stores(n, before, c, Next_Member(lock, t, content, written, m), at + need, at + need)
       /\ Next_Member(lock, t, content, written, m).previous = m
  BY <1>6, <1>7, <1>9, <1>10 DEF Goes_On
<1> QED
  BY <1>1, <1>11 DEF Wrote_Upto

LEMMA MembersStored ==
  ASSUME NEW n \in Nat, NEW before \in [1 .. n -> Octet], NEW c \in Cursor_Record, Is_Valid(c, n),
         NEW lock \in Locks, NEW t \in Fields(lock), Field(lock, t).kind = "variant",
         NEW content \in Seq(Int), content[1] \in Field(lock, t).tags,
         Len(content) = 1 + Cardinality(Members(lock, t)),
         NEW payload, payload = Measure_Payload(lock, t, content), payload.status = "Measured",
         payload.size <= Remaining(c)
  PROVE  Stores(n, before, c, Write_Members(lock, t, before, c, content), payload.size, payload.size)
<1> DEFINE wrote == CHOOSE f : Members_Written(f, MaxFieldTag, lock, t, before, c, content)
           tags == Payload_Tags(lock, t, content[1])
           value(m) == Member(lock, t, content[1], m)
           number(m) == content[Slot(lock, t, content[1], m)]
           sizes == Member_Sizes(lock, t, content)
<1>1. MaxFieldTag \in Nat /\ Remaining(c) \in Int
  <2>1. MaxFieldTag \in Nat
    BY Limits
  <2>2. Remaining(c) \in Int
    BY CursorFields
  <2> QED
    BY <2>1, <2>2
<1>2. Members_Written(wrote, MaxFieldTag, lock, t, before, c, content)
  BY <1>1, MembersWrittenExists, Zenon
<1>3. Write_Members(lock, t, before, c, content) = wrote[MaxFieldTag]
  BY DEF Write_Members, Members_Written, Next_Member
<1> HIDE DEF wrote
<1>4. wrote[0] = [status |-> "Wrote", output |-> before, cursor |-> c, previous |-> No_Tag]
  BY <1>1, <1>2 DEF Members_Written
<1>5. \A m \in Field_Tag : wrote[m] = Next_Member(lock, t, content, wrote[m - 1], m)
  <2> SUFFICES ASSUME NEW m \in Field_Tag
               PROVE  wrote[m] = Next_Member(lock, t, content, wrote[m - 1], m)
    OBVIOUS
  <2>1. m \in 0 .. MaxFieldTag /\ m # 0
    BY <1>1 DEF Field_Tag
  <2> QED
    BY <1>2, <2>1, Zenon DEF Members_Written
<1>6. PICK upto : Adds_Up(upto, sizes, payload.size)
  BY PayloadMeasured
<1>7. \A m \in tags : m \in Field_Tag /\ Proper(value(m)) /\ value(m).kind \in Simple /\ Number(value(m), number(m))
  <2> SUFFICES ASSUME NEW m \in tags
               PROVE  m \in Field_Tag /\ Proper(value(m)) /\ value(m).kind \in Simple /\ Number(value(m), number(m))
    OBVIOUS
  <2>1. m \in Field_Tag /\ Proper(value(m)) /\ value(m).kind \in Scalars
    BY MemberIsProper, Zenon
  <2>2. Slot(lock, t, content[1], m) \in 1 .. Len(content)
    BY SlotIsAnIndex
  <2>3. number(m) \in Int
    BY <2>2
  <2>4. ~ scalar_invalid(value(m), number(m))
    BY PayloadMeasured, Zenon
  <2> HIDE DEF value, number
  <2>5. Number(value(m), number(m))
    BY <2>1, <2>3, <2>4, NumberIsValid
  <2> QED
    BY <2>1, <2>5 DEF Simple
<1>8. \A m \in Field_Tag :
        upto[m] = IF m \in tags THEN upto[m - 1] + Need(m, scalar_size(value(m), number(m))) ELSE upto[m - 1]
  BY <1>6, Zenon DEF Adds_Up, Member_Sizes, Sized
<1> HIDE DEF tags, value, number, sizes
<1> DEFINE Right(m) == upto[m] <= Remaining(c) => Wrote_Upto(n, before, c, wrote[m], upto[m], m)
           G == {m \in 0 .. MaxFieldTag : Right(m)}
<1> HIDE DEF G
<1>9. ASSUME NEW m \in 0 .. MaxFieldTag, \A k \in 0 .. m - 1 : k \in G
      PROVE  m \in G
  <2>1. CASE m = 0
    <3>1. upto[0] = 0
      BY <1>6 DEF Adds_Up
    <3>2. Stores(n, before, c, wrote[0], 0, 0)
      <4>1. Advance(c, 0) = c
        BY CursorFields DEF Cursor_Record
      <4>2. 0 <= Remaining(c)
        BY CursorFields DEF Is_Valid
      <4> QED
        BY <1>4, <4>1, <4>2 DEF Stores, Keeps
    <3> QED
      BY <1>4, <2>1, <3>1, <3>2 DEF G, Wrote_Upto, No_Tag
  <2>2. CASE m > 0 /\ upto[m] <= Remaining(c)
    <3> PICK below \in 0 .. m - 1 : below = m - 1
      BY <2>2
    <3>1. m \in Field_Tag /\ below \in G /\ below \in 0 .. MaxFieldTag
      BY <1>1, <1>9, <2>2 DEF Field_Tag
    <3>2. upto[below] \in Nat /\ upto[m] \in Nat
      BY <1>6, <3>1 DEF Adds_Up
    <3>3. wrote[m] = Next_Member(lock, t, content, wrote[below], m)
      BY <1>5, <3>1
    <3>4. CASE m \in tags
      <4> PICK need : need = Need(m, scalar_size(value(m), number(m)))
        OBVIOUS
      <4>1. need \in Nat
        BY ScalarSize, SizeOfAny, ProfileAssumption, SMTT(60) DEF Need
      <4>2. upto[m] = upto[below] + need
        BY <1>8, <3>1, <3>4
      <4>3. upto[below] <= Remaining(c) /\ upto[below] + need <= Remaining(c)
        BY <1>1, <2>2, <3>2, <4>1, <4>2
      <4>4. Wrote_Upto(n, before, c, wrote[below], upto[below], m - 1)
        BY <3>1, <4>3 DEF G
      <4>5. /\ m \in Payload_Tags(lock, t, content[1])
            /\ value(m) = Member(lock, t, content[1], m) /\ number(m) = content[Slot(lock, t, content[1], m)]
        BY <3>4 DEF tags, value, number
      <4>6. Proper(value(m)) /\ value(m).kind \in Simple /\ Number(value(m), number(m))
        BY <1>7, <3>4
      <4>7. Wrote_Upto(n, before, c, Next_Member(lock, t, content, wrote[below], m), upto[below] + need, m)
        BY <3>1, <3>2, <4>3, <4>4, <4>5, <4>6, MemberStored, Zenon
      <4> QED
        BY <3>3, <4>2, <4>7 DEF G
    <3>5. CASE m \notin tags
      <4>1. upto[m] = upto[below]
        BY <1>8, <3>1, <3>5
      <4>2. wrote[m] = wrote[below]
        BY <3>3, <3>5 DEF Next_Member, tags
      <4>3. Wrote_Upto(n, before, c, wrote[below], upto[below], below)
        BY <2>2, <3>1, <4>1 DEF G
      <4>4. Wrote_Upto(n, before, c, wrote[m], upto[m], m)
        BY <4>1, <4>2, <4>3 DEF Wrote_Upto
      <4> QED
        BY <4>4 DEF G
    <3> QED
      BY <3>4, <3>5
  <2>3. CASE ~ (upto[m] <= Remaining(c))
    BY <2>3 DEF G
  <2> QED
    BY <2>1, <2>2, <2>3
<1>10. MaxFieldTag \in G
  <2>1. MaxFieldTag \in Nat
    BY <1>1
  <2>2. \A m \in 0 .. MaxFieldTag : (\A k \in 0 .. m - 1 : k \in G) => m \in G
    BY <1>9
  <2>3. \A m \in 0 .. MaxFieldTag : m \in G
    BY <2>1, <2>2, AllNumbers, Zenon
  <2> QED
    BY <2>1, <2>3
<1>11. upto[MaxFieldTag] = payload.size
  BY <1>6 DEF Adds_Up
<1> QED
  BY <1>3, <1>10, <1>11 DEF G, Wrote_Upto

LEMMA VariantMeasured ==
  ASSUME NEW lock \in Locks, NEW t \in Fields(lock), Field(lock, t).kind = "variant",
         NEW content, content[1] \in Field(lock, t).tags,
         NEW measured, measured = Measure_Variant(lock, t, content), measured.status = "Measured",
         NEW payload, payload = Measure_Payload(lock, t, content)
  PROVE  /\ payload.status = "Measured" /\ payload.size \in Nat
         /\ measured = Sized(Unsigned_Size(content[1]) + Length_And(payload.size))
<1> DEFINE amount == Measure_Length_Delimited(payload.size)
<1>1. measured = With_Payload(content[1], payload)
  BY DEF Measure_Variant
<1>2. /\ payload.status = "Measured"
      /\ measured = Accumulated_Size(Sized(Unsigned_Size(content[1])), amount)
  BY <1>1 DEF With_Payload
<1>3. payload.size \in Nat
  BY <1>2, PayloadMeasured
<1>4. Length_And(payload.size) \in Nat /\ Unsigned_Size(content[1]) \in Nat
  BY <1>3, SizeOfAny, ProfileAssumption DEF Length_And
<1>5. \/ amount = Computed(Length_And(payload.size))
      \/ amount = Overflow(0)
  BY <1>3, DelimitedMeasured DEF Length_And
<1> HIDE DEF amount
<1>6. amount.status \in {"Computed", "Overflow"} /\ amount.result \in Nat
  BY <1>4, <1>5 DEF Computed, Overflow
<1> DEFINE sum == Sized(Unsigned_Size(content[1]))
<1>7. sum.size = Unsigned_Size(content[1])
  BY DEF Sized
<1> HIDE DEF sum
<1>8. amount.status = "Computed" /\ measured = Sized(sum.size + amount.result)
  <2>1. sum.size \in Nat /\ Accumulated_Size(sum, amount).status = "Measured" /\ measured = Accumulated_Size(sum, amount)
    BY <1>2, <1>4, <1>7 DEF sum
  <2> QED
    BY <1>6, <2>1, AmountAdded
<1>9. amount.result = Length_And(payload.size)
  BY <1>5, <1>8 DEF Computed, Overflow
<1> QED
  BY <1>2, <1>3, <1>7, <1>8, <1>9

LEMMA VariantStored ==
  ASSUME NEW n \in Nat, NEW before \in [1 .. n -> Octet], NEW c \in Cursor_Record, Is_Valid(c, n),
         NEW lock \in Locks, NEW t \in Fields(lock), Field(lock, t).kind = "variant",
         NEW content \in Seq(Int), content[1] \in Field(lock, t).tags,
         Len(content) = 1 + Cardinality(Members(lock, t)),
         NEW measured, measured = Measure_Variant(lock, t, content), measured.status = "Measured",
         measured.size = Remaining(c)
  PROVE  Stores(n, before, c, Write_Variant(lock, t, before, c, content), measured.size, measured.size)
<1> DEFINE payload == Measure_Payload(lock, t, content)
           tag == Write_Unsigned(before, c, content[1])
           header == Write_Length_Delimited(tag.output, tag.cursor, payload.size)
<1> PICK one \in Nat : one = Unsigned_Size(content[1])
  BY SizeOfAny, ProfileAssumption
<1>1. /\ payload.status = "Measured" /\ payload.size \in Nat
      /\ measured = Sized(one + Length_And(payload.size))
  BY VariantMeasured
<1>2. Write_Variant(lock, t, before, c, content) = Write_Alternative(lock, t, content, tag, header)
  BY DEF Write_Variant
<1>3. measured.size = one + Length_And(payload.size)
  BY <1>1, SizeOfSized, Zenon
<1>4. content[1] \in Nat
  BY MemberIsProper DEF Field_Tag
<1>5. Stores(n, before, c, tag, one, one)
  <2>1. Length_And(payload.size) \in Nat
    BY <1>1, SizeOfAny, ProfileAssumption DEF Length_And
  <2>2. one <= Remaining(c)
    BY <1>3, <2>1
  <2> HIDE DEF payload
  <2> QED
    BY <1>4, <2>2, UnsignedStored
<1>6. one + Length_And(payload.size) = Remaining(c) /\ one + Length_And(payload.size) <= Remaining(c)
  <2>1. Remaining(c) \in Int
    BY CursorFields
  <2> QED
    BY <1>3, <2>1
<1>7. header = Write_Length_Delimited(tag.output, tag.cursor, payload.size)
  OBVIOUS
<1>8. payload = Measure_Payload(lock, t, content)
  OBVIOUS
<1> HIDE DEF tag, payload, header
<1>9. Opens(n, before, c, header, payload.size, one + Length_And(payload.size)) /\ At_End(header.cursor)
  BY <1>1, <1>5, <1>6, <1>7, DelimitedBehind, ZenonT(60)
<1>10. PICK inner \in Cursor_Record :
         /\ inner = Initialize(header.output, header.value).cursor
         /\ Is_Valid(inner, n) /\ Remaining(inner) = payload.size
         /\ \A value : Stores(n, header.output, inner, value, payload.size, payload.size) =>
              Stores(n, before, c, Behind(header, value), measured.size, measured.size)
  BY <1>3, <1>9 DEF Opens
<1>11. header.status = "Wrote" /\ header.output \in [1 .. n -> Octet] /\ Inside(header.value, header.output)
  BY <1>9 DEF Opens
<1> DEFINE value == Write_Members(lock, t, header.output, inner, content)
<1>12. Stores(n, header.output, inner, value, payload.size, payload.size)
  <2>1. payload.size <= Remaining(inner)
    BY <1>1, <1>10
  <2> QED
    BY <1>1, <1>8, <1>10, <1>11, <2>1, MembersStored, Zenon
<1>13. Write_Alternative(lock, t, content, tag, header) = Behind(header, value)
  <2>1. tag.status = "Wrote"
    BY <1>5 DEF Stores
  <2> QED
    BY <1>9, <1>10, <1>11, <2>1 DEF Write_Alternative, In_Extent
<1> QED
  BY <1>2, <1>10, <1>12, <1>13

-----------------------------------------------------------------------------

(***************************************************************************)
(* Any value.  Component: what Ada's types make of a record; ~ Invalid:    *)
(* what Measure has checked.                                               *)
(***************************************************************************)
LEMMA InvalidField ==
  ASSUME NEW lock, NEW item, NEW t, ~ Invalid_Field(lock, item, t)
  PROVE  /\ Field(lock, t).kind \in {"enumeration", "variant"} => item[t][1] \in Field(lock, t).tags
         /\ Field(lock, t).kind \in Scalars => item[t] = <<>> \/ ~ scalar_invalid(Field(lock, t), item[t][1])
<1>1. CASE Field(lock, t).kind \in {"enumeration", "variant"}
  <2>1. Invalid_Field(lock, item, t) <=> item[t][1] \notin Field(lock, t).tags
    BY <1>1 DEF Invalid_Field, Scalars
  <2> QED
    BY <1>1, <2>1 DEF Scalars
<1>2. CASE Field(lock, t).kind \in Scalars
  <2>1. Invalid_Field(lock, item, t) <=> (item[t] # <<>> /\ scalar_invalid(Field(lock, t), item[t][1]))
    BY <1>2 DEF Invalid_Field, Scalars
  <2> QED
    BY <1>2, <2>1 DEF Scalars
<1> QED
  BY <1>1, <1>2

LEMMA ValueIsNumber ==
  ASSUME NEW lock \in Locks, NEW item, Item_Of(lock, item), NEW t \in Included(lock, item),
         ~ Invalid_Field(lock, item, t), Field(lock, t).kind \in Simple
  PROVE  item[t] \in Seq(Int) /\ Len(item[t]) = 1 /\ Number(Field(lock, t), item[t][1])
<1>1. t \in Fields(lock) /\ include(lock, item, t)
  BY DEF Included
<1>2. /\ item[t] \in Seq(Int)
      /\ Len(item[t]) = 1 \/ (Field(lock, t).presence = "optional" /\ item[t] = <<>>)
  BY <1>1 DEF Item_Of, Component, Simple
<1>3. Len(item[t]) = 1
  <2> SUFFICES ASSUME Field(lock, t).presence = "optional"
               PROVE  item[t] # <<>>
    BY <1>2
  <2> QED
    BY <1>1 DEF include
<1>4. item[t][1] \in Int /\ item[t] # <<>>
  BY <1>2, <1>3
<1>5. CASE Field(lock, t).kind = "enumeration"
  <2>1. item[t][1] \in Field(lock, t).tags
    BY <1>5, InvalidField
  <2> QED
    BY <1>2, <1>3, <1>4, <1>5, <2>1 DEF Number
<1>6. CASE Field(lock, t).kind \in Scalars
  <2>1. ~ scalar_invalid(Field(lock, t), item[t][1])
    BY <1>4, <1>6, InvalidField
  <2> QED
    BY <1>2, <1>3, <1>4, <1>6, <2>1, NumberIsValid
<1> QED
  BY <1>5, <1>6 DEF Simple

LEMMA ValueStored ==
  ASSUME NEW n \in Nat, NEW before \in [1 .. n -> Octet], NEW c \in Cursor_Record, Is_Valid(c, n),
         NEW lock \in Locks, NEW item, Item_Of(lock, item), NEW t \in Included(lock, item),
         ~ Invalid_Field(lock, item, t),
         NEW measured, measured = Measure_Value(lock, t, item[t]), measured.status = "Measured",
         NEW size, size = measured.size, size = Remaining(c)
  PROVE  Stores(n, before, c, Write_Value(lock, t, before, c, item[t]), size, size)
<1> DEFINE field == Field(lock, t)
<1> PICK content : content = item[t]
  OBVIOUS
<1>1. t \in Fields(lock)
  BY DEF Included
<1>2. /\ Component(lock, t, content) /\ content \in Seq(Int) /\ Len(content) \in Nat
  BY <1>1 DEF Item_Of, Component
<1>3. Proper(field) /\ field.kind \in Simple \cup {"bytes", "sequence", "variant"}
  BY <1>1, FieldIsProper, Zenon
<1>4. CASE field.kind = "bytes"
  <2>1. content \in Seq(Octet)
    BY <1>2, <1>4 DEF Component
  <2>2. measured = Sized(Len(content))
    BY <1>4 DEF Measure_Value
  <2>3. measured.size = Len(content)
    BY <2>2, SizeOfSized, Zenon
  <2>4. size = Len(content) /\ size <= Remaining(c)
    <3>1. Remaining(c) = Len(content)
      BY <2>3, Zenon
    <3> QED
      BY <1>2, <3>1
  <2>5. Write_Value(lock, t, before, c, item[t]) = Write_Octets(before, c, content, Len(content))
    BY <1>4 DEF Write_Value
  <2> QED
    BY <1>2, <2>1, <2>4, <2>5, OctetsStored, Zenon
<1>5. CASE field.kind = "sequence"
  <2>1. measured = Measure_Sequence(lock, t, content)
    BY <1>5 DEF Measure_Value
  <2>2. Proper(Element(lock, t)) /\ Element(lock, t).kind \in Simple /\ Element(lock, t).kind \in Scalars
    BY <1>1, <1>5, ElementIsProper, ExchangeAssumption DEF validate_binding
  <2>0. Elements_Vouched(lock, t, content, measured)
    BY <1>2, <2>1, ElementsMeasured, Zenon
  <2>3. /\ measured = Sized(measured.size)
        /\ Len(content) \in Field(lock, t).minimum .. Field(lock, t).maximum
        /\ \A i \in 1 .. Len(content) : ~ scalar_invalid(Element(lock, t), content[i])
        /\ \E upto : /\ Elements_Add_Up(upto, Element(lock, t), content)
                     /\ upto[Len(content)] = measured.size
    BY <2>0 DEF Elements_Vouched
  <2>4. PICK upto : Elements_Add_Up(upto, Element(lock, t), content) /\ upto[Len(content)] = size
    BY <2>3
  <2>5. \A i \in 1 .. Len(content) : Number(Element(lock, t), content[i])
    <3> SUFFICES ASSUME NEW i \in 1 .. Len(content)
                 PROVE  Number(Element(lock, t), content[i])
      OBVIOUS
    <3>1. content[i] \in Int
      BY <1>2
    <3> QED
      BY <2>2, <2>3, <3>1, NumberIsValid
  <2>6. Write_Value(lock, t, before, c, item[t]) = Write_Elements(Element(lock, t), before, c, content)
    BY <1>5 DEF Write_Value
  <2>7. size <= Remaining(c)
    <3>1. Remaining(c) \in Int
      BY CursorFields
    <3> QED
      BY <3>1
  <2> QED
    BY <1>2, <2>2, <2>4, <2>5, <2>6, <2>7, ElementsStored, Zenon
<1>6. CASE field.kind = "variant"
  <2>1. measured = Measure_Variant(lock, t, content)
    BY <1>6 DEF Measure_Value
  <2>2. Write_Value(lock, t, before, c, item[t]) = Write_Variant(lock, t, before, c, content)
    BY <1>6 DEF Write_Value
  <2>3. content[1] \in field.tags /\ Len(content) = 1 + Cardinality(Members(lock, t))
    BY <1>2, <1>6, InvalidField DEF Component
  <2> QED
    BY <1>1, <1>2, <1>6, <2>1, <2>2, <2>3, VariantStored, Zenon
<1>7. CASE field.kind \in Simple
  <2>1. measured = Sized(scalar_size(field, content[1]))
    BY <1>7 DEF Measure_Value, Simple, Scalars
  <2>2. Write_Value(lock, t, before, c, item[t]) = scalar_write(field, before, c, content[1])
    BY <1>7 DEF Write_Value, Simple, Scalars
  <2>3. Number(field, content[1])
    BY <1>7, ValueIsNumber
  <2>4. size = scalar_size(field, content[1]) /\ size <= Remaining(c)
    <3>1. Remaining(c) \in Int
      BY CursorFields
    <3>2. size = scalar_size(field, content[1])
      BY <2>1, SizeOfSized, Zenon
    <3> QED
      BY <3>1, <3>2
  <2> QED
    BY <1>3, <1>7, <2>2, <2>3, <2>4, ScalarStored, Zenon
<1> QED
  BY <1>3, <1>4, <1>5, <1>6, <1>7

LEMMA ValueMeasured ==
  ASSUME NEW lock \in Locks, NEW item, Item_Of(lock, item), NEW t \in Included(lock, item),
         ~ Invalid_Field(lock, item, t),
         NEW measured, measured = Measure_Value(lock, t, item[t]), measured.status = "Measured"
  PROVE  measured = Sized(measured.size) /\ measured.size \in Nat
<1> DEFINE field == Field(lock, t)
<1>1. t \in Fields(lock) /\ item[t] \in Seq(Int) /\ Len(item[t]) \in Nat
  BY DEF Included, Item_Of, Component
<1>2. field.kind \in Simple \cup {"bytes", "sequence", "variant"}
  BY <1>1, FieldIsProper, Zenon
<1>3. CASE field.kind = "bytes"
  BY <1>1, <1>3 DEF Measure_Value, Sized
<1>4. CASE field.kind = "sequence"
  <2>1. measured = Measure_Sequence(lock, t, item[t])
    BY <1>4 DEF Measure_Value
  <2>2. /\ measured = Sized(measured.size)
        /\ \E upto : /\ Elements_Add_Up(upto, Element(lock, t), item[t])
                     /\ upto[Len(item[t])] = measured.size
    BY <1>1, <2>1, ElementsMeasured DEF Elements_Vouched
  <2> QED
    BY <1>1, <2>2 DEF Elements_Add_Up
<1>5. CASE field.kind = "variant"
  <2>1. measured = Measure_Variant(lock, t, item[t]) /\ item[t][1] \in field.tags
    BY <1>5, InvalidField DEF Measure_Value
  <2>2. PICK payload : payload = Measure_Payload(lock, t, item[t])
    OBVIOUS
  <2>3. /\ payload.status = "Measured" /\ payload.size \in Nat
        /\ measured = Sized(Unsigned_Size(item[t][1]) + Length_And(payload.size))
    BY <1>1, <1>5, <2>1, <2>2, VariantMeasured
  <2>4. Unsigned_Size(item[t][1]) + Length_And(payload.size) \in Nat
    BY <2>3, SizeOfAny, ProfileAssumption DEF Length_And
  <2> QED
    BY <2>3, <2>4 DEF Sized
<1>6. CASE field.kind \in Simple
  <2>1. measured = Sized(scalar_size(field, item[t][1]))
    BY <1>6 DEF Measure_Value, Simple, Scalars
  <2> QED
    BY <2>1, ScalarSize DEF Sized
<1> QED
  BY <1>2, <1>3, <1>4, <1>5, <1>6

-----------------------------------------------------------------------------

(***************************************************************************)
(* A field, behind those before it.                                        *)
(***************************************************************************)
Lands(n, before, c, result, size, t) == Stores(n, before, c, result, size, size) /\ result.previous = t

LEMMA FieldWritten ==
  ASSUME NEW n \in Nat, NEW before \in [1 .. n -> Octet], NEW c \in Cursor_Record, Is_Valid(c, n),
         NEW lock \in Locks, NEW item, Item_Of(lock, item), NEW t \in Included(lock, item),
         ~ Invalid_Field(lock, item, t),
         NEW measured, measured = Measure_Value(lock, t, item[t]), measured.status = "Measured",
         NEW written, NEW at \in Nat, Stores(n, before, c, written, at, at),
         NEW previous \in Nat, previous < t,
         NEW need, need = Need(t, measured.size), at + need <= Remaining(c),
         NEW result, result = Write_Field(lock, item, t, written.output, written.cursor, previous)
  PROVE  Lands(n, before, c, result, at + need, t)
<1> DEFINE header == Write_Field_Header(written.output, written.cursor, previous, t, measured.size)
<1>0. measured.size \in Nat
  BY ValueMeasured, Zenon
<1> PICK size \in Nat : size = measured.size
  BY <1>0
<1>1. need \in Nat /\ need = Need(t, size) /\ t \in Nat
  <2>1. t \in Field_Tag
    BY FieldIsProper, Zenon DEF Included
  <2>2. Unsigned_Size(t) \in Nat /\ Unsigned_Size(size) \in Nat
    BY SizeOfAny, ProfileAssumption
  <2> QED
    BY <2>1, <2>2, SMTT(60) DEF Need, Field_Tag
<1>2. header = Write_Field_Header(written.output, written.cursor, previous, t, size)
  OBVIOUS
<1> HIDE DEF header
<1>3. Opens(n, before, c, header, size, at + Need(t, size)) /\ Goes_On(header, t)
  BY <1>1, <1>2, FieldBehind, ZenonT(60)
<1>4. PICK inner \in Cursor_Record :
        /\ inner = Initialize(header.output, header.value).cursor
        /\ Is_Valid(inner, n) /\ Remaining(inner) = size
        /\ \A value : Stores(n, header.output, inner, value, size, size) =>
             Stores(n, before, c, Behind(header, value), at + need, at + need)
  BY <1>1, <1>3 DEF Opens
<1>5. header.status = "Wrote" /\ header.output \in [1 .. n -> Octet] /\ Inside(header.value, header.output)
  BY <1>3 DEF Opens
<1> DEFINE value == Write_Value(lock, t, header.output, inner, item[t])
<1>6. Stores(n, header.output, inner, value, size, size)
  BY <1>4, <1>5, ValueStored, ZenonT(60)
<1>7. result = Behind(header, value)
  BY <1>4, <1>5 DEF Write_Field, In_Extent, header
<1> QED
  BY <1>3, <1>4, <1>6, <1>7 DEF Goes_On, Lands

-----------------------------------------------------------------------------

(***************************************************************************)
(* Measure: a size, or why there is none.                                  *)
(***************************************************************************)
LEMMA ValueStatus ==
  ASSUME NEW lock \in Locks, NEW t \in Fields(lock), NEW content \in Seq(Int)
  PROVE  Measure_Value(lock, t, content).status \in Outcomes
<1>1. CASE Field(lock, t).kind = "sequence"
  BY <1>1, SequenceStatus DEF Measure_Value
<1>2. CASE Field(lock, t).kind = "variant"
  <2> PICK payload : payload = Measure_Payload(lock, t, content)
    OBVIOUS
  <2>1. payload.status \in Outcomes
    <3> DEFINE sizes == Member_Sizes(lock, t, content)
    <3>1. \A m \in DOMAIN sizes : sizes[m].status \in Outcomes
      BY DEF Member_Sizes, Sized, Outcomes
    <3> HIDE DEF sizes
    <3>2. Measure_Fields(sizes).status \in Outcomes
      BY <3>1, FieldsStatus, Zenon DEF Outcomes, Sizings
    <3>3. payload = Unmeasured("Invalid_Value") \/ payload = Measure_Fields(sizes)
      BY DEF Measure_Payload, sizes, Member_Sizes
    <3> QED
      BY <3>2, <3>3 DEF Unmeasured, Outcomes
  <2>2. Measure_Value(lock, t, content) = With_Payload(content[1], payload)
    BY <1>2 DEF Measure_Value, Measure_Variant
  <2> QED
    BY <2>1, <2>2, AccumulatedStatus DEF With_Payload
<1>3. CASE Field(lock, t).kind \in Simple \cup {"bytes"}
  BY <1>3 DEF Measure_Value, Simple, Scalars, Sized, Outcomes
<1> QED
  BY <1>1, <1>2, <1>3, FieldIsProper, Zenon

Field_Sizes(lock, item) == [t \in Included(lock, item) |-> Measure_Value(lock, t, item[t])]

LEMMA MeasureStatus ==
  ASSUME NEW lock \in Locks, NEW item, Item_Of(lock, item)
  PROVE  Measure(lock, item).status \in Outcomes
<1> DEFINE sizes == Field_Sizes(lock, item)
<1>1. \A t \in DOMAIN sizes : sizes[t].status \in Outcomes
  BY ValueStatus DEF Field_Sizes, Included, Item_Of, Component
<1> HIDE DEF sizes
<1>2. Measure_Fields(sizes).status \in Outcomes
  BY <1>1, FieldsStatus, Zenon DEF Outcomes, Sizings
<1>3. Measure(lock, item) = Unmeasured("Invalid_Value") \/ Measure(lock, item) = Measure_Fields(sizes)
  BY DEF Measure, sizes, Field_Sizes
<1> QED
  BY <1>2, <1>3 DEF Unmeasured, Outcomes

(* What Measure vouches for: every field is valid and has a size, and the  *)
(* sizes add up.                                                           *)
LEMMA Vouched ==
  ASSUME NEW lock \in Locks, NEW item, Item_Of(lock, item), Measure(lock, item).status = "Measured"
  PROVE  /\ Measure(lock, item).size \in Nat /\ Measure(lock, item).size <= MaxUnsigned
         /\ \A t \in Fields(lock) : ~ Invalid_Field(lock, item, t)
         /\ \A t \in Included(lock, item) :
              t \in Field_Tag /\ Field_Sizes(lock, item)[t].status = "Measured"
         /\ \E upto : Adds_Up(upto, Field_Sizes(lock, item), Measure(lock, item).size)
<1> DEFINE sizes == Field_Sizes(lock, item)
<1>1. \A t \in Fields(lock) : ~ Invalid_Field(lock, item, t)
  BY DEF Measure, Unmeasured
<1>2. Measure(lock, item) = Measure_Fields(sizes)
  BY <1>1 DEF Measure, Field_Sizes
<1>3. DOMAIN sizes = Included(lock, item) /\ Included(lock, item) \subseteq Field_Tag
  BY Root DEF Field_Sizes, Included
<1>4. \A t \in DOMAIN sizes : sizes[t].status = "Measured" => sizes[t].size \in Nat
  BY <1>1, ValueMeasured DEF Field_Sizes, Included
<1> HIDE DEF sizes
<1>5. /\ Measure(lock, item).size <= MaxUnsigned
      /\ \E upto : Adds_Up(upto, sizes, Measure(lock, item).size)
      /\ \A t \in DOMAIN sizes \cap Field_Tag : sizes[t].status = "Measured"
  BY <1>2, <1>4, FieldsMeasured, Zenon
<1>6. Measure(lock, item).size \in Nat
  BY <1>5, Limits DEF Adds_Up
<1> QED
  BY <1>1, <1>3, <1>5, <1>6 DEF sizes

-----------------------------------------------------------------------------

(***************************************************************************)
(* A call of Encode.  Before it has ended, what it wrote is what Measure   *)
(* added up for the fields that had their turn, at the start of the room   *)
(* for all of them; the rest of the array is as the caller left it.        *)
(***************************************************************************)
Halfway(call) ==
  LET measured == Measure(call.lock, call.item)
      length   == Len(call.output)
  IN  /\ measured.status = "Measured" /\ measured.size <= length
      /\ call.previous \in {No_Tag} \cup Included(call.lock, call.item)
      /\ \E upto :
           /\ Adds_Up(upto, Field_Sizes(call.lock, call.item), measured.size)
           /\ Stores(length, Blank(length), Cursor(0, 0, measured.size),
                     [status |-> "Wrote", output |-> call.output, cursor |-> call.writer],
                     upto[call.previous], upto[call.previous])

Shaped_Call(call) ==
  call = Encode_Call(call.status, call.lock, call.item, call.output, call.writer, call.previous, call.written)

Right(call) ==
  \/ call = Idle
  \/ /\ Shaped_Call(call)
     /\ call.status \in {"Encoding", "Encoded"} \cup Encode_Failures
     /\ call.lock \in Locks /\ Item_Of(call.lock, call.item)
     /\ call.output \in Seq(Octet) /\ call.previous \in Tag_Number
     /\ call.status \in Encode_Failures => call.written = 0 /\ call.output = Blank(Len(call.output))
     /\ call.status = "Encoding" => call.written = 0 /\ Halfway(call)
     /\ call.status = "Encoded" =>
          /\ Measure(call.lock, call.item).status = "Measured"
          /\ call.written = Measure(call.lock, call.item).size
          /\ call.written \in 0 .. Len(call.output)
          /\ \A i \in call.written + 1 .. Len(call.output) : call.output[i] = Fill

LEMMA CallParts ==
  ASSUME NEW s, NEW lock, NEW item, NEW output, NEW writer, NEW previous, NEW written,
         NEW call, call = Encode_Call(s, lock, item, output, writer, previous, written)
  PROVE  /\ Shaped_Call(call)
         /\ call.status = s /\ call.lock = lock /\ call.item = item /\ call.output = output
         /\ call.writer = writer /\ call.previous = previous /\ call.written = written
BY DEF Encode_Call, Shaped_Call

LEMMA BlankArray ==
  ASSUME NEW n \in Nat
  PROVE  /\ Blank(n) \in [1 .. n -> Octet] /\ Blank(n) \in Seq(Octet) /\ Len(Blank(n)) = n
         /\ \A i \in 1 .. n : Blank(n)[i] = Fill
<1>1. Fill \in Octet
  BY ProfileAssumption DEF Fill, Octet
<1>2. Blank(n) \in [1 .. n -> Octet]
  BY <1>1 DEF Blank
<1> QED
  BY <1>2, LengthOf DEF Blank

(* The room for all fields. *)
LEMMA WholeRoom ==
  ASSUME NEW n \in Nat, NEW size \in Nat, size <= n
  PROVE  /\ Cursor(0, 0, size) \in Cursor_Record
         /\ Is_Valid(Cursor(0, 0, size), n)
         /\ Remaining(Cursor(0, 0, size)) = size
         /\ Cursor(0, 0, size).next = 0
         /\ \A k : Advance(Cursor(0, 0, size), k) = Cursor(0, 0 + k, size)
BY SMTT(60) DEF Cursor, Cursor_Record, Is_Valid, Remaining, Advance

(* Encode up to its first field. *)
LEMMA CallBegins ==
  ASSUME NEW lock \in Locks, NEW item \in Items[lock], NEW room \in Rooms,
         NEW measured, measured = Measure(lock, item),
         NEW call,
         call = Encode_Call(Fitting(measured, room), lock, item, Blank(room),
                            IF Fitting(measured, room) = "Encoding"
                              THEN Initialize(Blank(room), Extent(0, measured.size)).cursor
                              ELSE Cursor(0, 0, 0),
                            No_Tag, 0)
  PROVE  Right(call)
<1>1. Item_Of(lock, item) /\ room \in Nat
  BY ExchangeAssumption
<1>2. measured.status \in Outcomes
  BY <1>1, MeasureStatus
<1>3. Blank(room) \in [1 .. room -> Octet] /\ Blank(room) \in Seq(Octet) /\ Len(Blank(room)) = room
  BY <1>1, BlankArray
<1>4. /\ Shaped_Call(call) /\ call.status = Fitting(measured, room)
      /\ call.lock = lock /\ call.item = item /\ call.output = Blank(room)
      /\ call.previous = No_Tag /\ call.written = 0
      /\ Fitting(measured, room) = "Encoding" =>
           call.writer = Initialize(Blank(room), Extent(0, measured.size)).cursor
  BY CallParts
<1>5. Fitting(measured, room) \in {"Encoding"} \cup Encode_Failures
  BY <1>2 DEF Fitting, Encode_Failures, Outcomes
<1>6. No_Tag \in Tag_Number
  BY Limits, SMTT(60) DEF No_Tag, Tag_Number
<1>7. ASSUME Fitting(measured, room) = "Encoding"
      PROVE  Halfway(call)
  <2>1. measured.status = "Measured" /\ ~ (room < measured.size)
    BY <1>2, <1>7 DEF Fitting, Outcomes
  <2>2. PICK upto : Adds_Up(upto, Field_Sizes(lock, item), measured.size)
    BY <1>1, <2>1, Vouched
  <2> PICK size \in Nat : size = measured.size
    BY <1>1, <2>1, Vouched
  <2>3. size <= room
    BY <1>1, <2>1
  <2>4. call.writer = Cursor(0, 0, size)
    <3>1. Inside(Extent(0, size), Blank(room))
      BY <1>1, <1>3, <2>3 DEF Inside, Extent
    <3> QED
      BY <1>4, <1>7, <3>1 DEF Initialize, Extent, Cursor
  <2>5. upto[call.previous] = 0
    BY <1>4, <2>2 DEF Adds_Up, No_Tag
  <2> DEFINE whole  == Cursor(0, 0, size)
             result == [status |-> "Wrote", output |-> call.output, cursor |-> call.writer]
  <2>6. Remaining(whole) = size /\ Advance(whole, 0) = whole
    BY <1>1, <2>3, WholeRoom, SMTT(60)
  <2> HIDE DEF whole
  <2>7. Stores(room, Blank(room), whole, result, 0, 0)
    BY <1>3, <1>4, <2>4, <2>6 DEF Stores, Keeps, whole
  <2>8. Len(call.output) = room
    BY <1>3, <1>4, SMTT(60)
  <2> QED
    BY <1>4, <2>1, <2>2, <2>3, <2>5, <2>7, <2>8 DEF Halfway, whole
<1> QED
  BY <1>1, <1>3, <1>4, <1>5, <1>6, <1>7 DEF Right, Encode_Failures

(* Field t is the next, and there is room for it.                          *)
Room_For(call, t) ==
  /\ t \in Included(call.lock, call.item) /\ call.previous < t
  /\ \A s \in Included(call.lock, call.item) : s > call.previous => t <= s
  /\ ~ Invalid_Field(call.lock, call.item, t)
  /\ call.writer \in Cursor_Record /\ Is_Valid(call.writer, Len(call.output))
  /\ Measure_Value(call.lock, t, call.item[t]).status = "Measured"
  /\ Need(t, Measure_Value(call.lock, t, call.item[t]).size) <= Remaining(call.writer)

(* The next field is written: there is room for it, as Measure knew. *)
LEMMA CallGoesOn ==
  ASSUME NEW call, Right(call), call.status = "Encoding",
         NEW turn, turn = {t \in Included(call.lock, call.item) : t > call.previous}, turn # {},
         NEW wrote, wrote = Write_Field(call.lock, call.item, Min(turn), call.output, call.writer, call.previous)
  PROVE  /\ wrote.status = "Wrote"
         /\ Right(Encode_Call("Encoding", call.lock, call.item, wrote.output, wrote.cursor,
                              wrote.previous, call.written))
         /\ Room_For(call, Min(turn)) /\ wrote.previous = Min(turn)
<1> DEFINE sizes == Field_Sizes(call.lock, call.item)
           measured == Measure(call.lock, call.item)
           whole == Cursor(0, 0, measured.size)
           written == [status |-> "Wrote", output |-> call.output, cursor |-> call.writer]
<1>1. /\ call.lock \in Locks /\ Item_Of(call.lock, call.item)
      /\ call.output \in Seq(Octet) /\ call.previous \in Tag_Number
      /\ call.written = 0 /\ Halfway(call)
  BY DEF Right, Idle
<1> PICK length \in Nat : length = Len(call.output)
  BY <1>1
<1>2. /\ measured.status = "Measured" /\ measured.size <= length
      /\ call.previous \in {No_Tag} \cup Included(call.lock, call.item)
  BY <1>1 DEF Halfway
<1>3. PICK upto : /\ Adds_Up(upto, sizes, measured.size)
                  /\ Stores(length, Blank(length), whole, written, upto[call.previous], upto[call.previous])
  BY <1>1 DEF Halfway
<1>4. /\ measured.size \in Nat
      /\ \A t \in Fields(call.lock) : ~ Invalid_Field(call.lock, call.item, t)
      /\ \A t \in Included(call.lock, call.item) : t \in Field_Tag /\ sizes[t].status = "Measured"
  BY <1>1, <1>2, Vouched
<1>5. /\ Min(turn) \in turn /\ \A s \in turn : Min(turn) <= s
  <2>1. turn \subseteq Nat
    BY <1>4 DEF Field_Tag
  <2>2. \E s \in turn : \A r \in turn : s <= r
    BY <2>1, LeastNumber, Zenon
  <2> QED
    BY <2>2 DEF Min
<1> PICK t : t = Min(turn)
  BY Zenon
<1>6. /\ t \in Included(call.lock, call.item) /\ t \in Field_Tag /\ call.previous < t
      /\ \A s \in Included(call.lock, call.item) : s > call.previous => t <= s
  BY <1>1, <1>4, <1>5, Zenon DEF Tag_Number, Field_Tag
<1>7. t \in Fields(call.lock) /\ ~ Invalid_Field(call.lock, call.item, t)
  BY <1>4, <1>6 DEF Included
<1> PICK value : value = Measure_Value(call.lock, t, call.item[t])
  BY Zenon
<1>8. sizes[t] = value /\ t \in DOMAIN sizes /\ value.status = "Measured" /\ value.size \in Nat
  <2>1. sizes[t] = value /\ t \in DOMAIN sizes
    BY <1>6 DEF Field_Sizes
  <2>2. value.status = "Measured"
    BY <1>4, <1>6, <2>1
  <2>3. value.size \in Nat
    BY <1>1, <1>6, <1>7, <2>2, ValueMeasured, Zenon
  <2> QED
    BY <2>1, <2>2, <2>3
<1>9. DOMAIN sizes = Included(call.lock, call.item)
  BY DEF Field_Sizes
<1>10. DOMAIN sizes \subseteq Field_Tag /\ \A s \in DOMAIN sizes : sizes[s].size \in Nat
  <2> SUFFICES ASSUME NEW s \in Included(call.lock, call.item)
               PROVE  sizes[s].size \in Nat
    BY <1>4, <1>9
  <2>1. sizes[s] = Measure_Value(call.lock, s, call.item[s]) /\ sizes[s].status = "Measured"
    BY <1>4 DEF Field_Sizes
  <2>2. ~ Invalid_Field(call.lock, call.item, s)
    BY <1>4 DEF Included
  <2> HIDE DEF sizes
  <2> QED
    BY <1>1, <2>1, <2>2, ValueMeasured, Zenon
<1> HIDE DEF sizes, measured
<1>0. t - 1 \in Tag_Number
  <2>1. MaxFieldTag \in Nat
    BY Limits
  <2>2. t \in 1 .. MaxFieldTag
    BY <1>6 DEF Field_Tag
  <2> QED
    BY <2>1, <2>2 DEF Tag_Number
<1> PICK below \in Tag_Number : below = t - 1
  BY <1>0, Zenon
<1>11. upto[call.previous] = upto[below] /\ upto[t] <= upto[MaxFieldTag]
  <2>1. MaxFieldTag \in Nat /\ t \in 0 .. MaxFieldTag /\ MaxFieldTag \in 0 .. MaxFieldTag
    BY <1>6, Limits DEF Field_Tag
  <2>2. \A low, high \in 0 .. MaxFieldTag :
           low <= high =>
             /\ upto[low] <= upto[high]
             /\ (\A s \in DOMAIN sizes : ~ (low < s /\ s <= high)) => upto[low] = upto[high]
    BY <1>3, <1>10, SumsGrow, Zenon
  <2>3. ASSUME NEW s \in DOMAIN sizes
        PROVE  ~ (call.previous < s /\ s <= below)
    <3>0. s \in Included(call.lock, call.item)
      BY <1>9
    <3>1. s \in Nat /\ t \in Nat /\ call.previous \in Nat
      <4>1. s \in Field_Tag /\ t \in Field_Tag /\ call.previous \in Tag_Number
        BY <1>1, <1>4, <1>6, <3>0
      <4> QED
        BY <4>1, Limits DEF Tag_Number, Field_Tag
    <3>2. s > call.previous => t <= s
      BY <1>6, <3>0
    <3> QED
      BY <3>1, <3>2
  <2>4. call.previous <= below /\ call.previous \in 0 .. MaxFieldTag /\ below \in 0 .. MaxFieldTag
    BY <1>1, <1>6 DEF Tag_Number, Field_Tag
  <2>5. t <= MaxFieldTag
    BY <2>1
  <2> QED
    BY <2>1, <2>2, <2>3, <2>4, <2>5
<1> PICK need : need = Need(t, value.size)
  BY ZenonT(60)
<1>12. /\ upto[t] = upto[below] + need /\ upto[MaxFieldTag] = measured.size
       /\ upto[below] \in Nat /\ upto[t] \in Nat
  <2>1. upto[t] = upto[t - 1] + Need(t, sizes[t].size)
    BY <1>3, <1>6, <1>8 DEF Adds_Up
  <2>2. upto[MaxFieldTag] = measured.size /\ upto[below] \in Nat /\ upto[t] \in Nat
    BY <1>3, <1>6 DEF Adds_Up, Tag_Number, Field_Tag
  <2> QED
    BY <1>8, <2>1, <2>2, SMTT(60)
<1>13. /\ whole \in Cursor_Record /\ Is_Valid(whole, length) /\ Remaining(whole) = measured.size
  BY <1>2, <1>4, WholeRoom
<1>14. Blank(length) \in [1 .. length -> Octet]
  BY BlankArray
<1> DEFINE result == Write_Field(call.lock, call.item, t, written.output, written.cursor, call.previous)
<1>15. wrote = result
  BY SMTT(60)
<1> HIDE DEF whole, written, result
<1>16. /\ Stores(length, Blank(length), whole, result, upto[below] + need, upto[below] + need)
       /\ result.previous = t
  <2>1. upto[below] + need <= Remaining(whole)
    BY <1>11, <1>12, <1>13
  <2>2. Stores(length, Blank(length), whole, written, upto[below], upto[below])
    BY <1>3, <1>11
  <2>3. call.previous \in Nat
    BY <1>1 DEF Tag_Number
  <2>4. upto[below] \in Nat
    BY <1>12
  <2>5. value = Measure_Value(call.lock, t, call.item[t]) /\ value.status = "Measured"
    BY <1>8
  <2>6. /\ call.lock \in Locks /\ Item_Of(call.lock, call.item)
        /\ t \in Included(call.lock, call.item) /\ ~ Invalid_Field(call.lock, call.item, t)
        /\ call.previous < t
    BY <1>1, <1>6, <1>7
  <2>7. need = Need(t, value.size)
    OBVIOUS
  <2>8. whole \in Cursor_Record /\ Is_Valid(whole, length)
    BY <1>13
  <2>9. result = Write_Field(call.lock, call.item, t, written.output, written.cursor, call.previous)
    BY DEF result
  <2> HIDE DEF result
  <2>10. Lands(length, Blank(length), whole, result, upto[below] + need, t)
    BY <1>14, <2>1, <2>2, <2>3, <2>4, <2>5, <2>6, <2>7, <2>8, <2>9, FieldWritten, ZenonT(60)
  <2> QED
    BY <2>10, SMTT(60) DEF Lands
<1>17. wrote.status = "Wrote" /\ wrote.previous = t /\ wrote.output \in [1 .. length -> Octet]
  BY <1>15, <1>16, Zenon DEF Stores
<1>18. Len(wrote.output) = length /\ wrote.output \in Seq(Octet)
  BY <1>17, LengthOf
<1> DEFINE next == Encode_Call("Encoding", call.lock, call.item, wrote.output, wrote.cursor,
                               wrote.previous, call.written)
<1>19. /\ Shaped_Call(next) /\ next.status = "Encoding" /\ next.lock = call.lock /\ next.item = call.item
       /\ next.output = wrote.output /\ next.writer = wrote.cursor /\ next.previous = t
       /\ next.written = 0
  <2>1. next = Encode_Call("Encoding", call.lock, call.item, wrote.output, wrote.cursor, wrote.previous, call.written)
    OBVIOUS
  <2> HIDE DEF next
  <2>2. /\ Shaped_Call(next) /\ next.status = "Encoding" /\ next.lock = call.lock /\ next.item = call.item
        /\ next.output = wrote.output /\ next.writer = wrote.cursor /\ next.previous = wrote.previous
        /\ next.written = call.written
    BY <2>1, ZenonT(30) DEF Encode_Call, Shaped_Call
  <2> QED
    BY <1>1, <1>17, <2>2, Zenon
<1> HIDE DEF next
<1>20. Halfway(next)
  <2> DEFINE last == [status |-> "Wrote", output |-> wrote.output, cursor |-> wrote.cursor]
  <2>1. Stores(length, Blank(length), whole, last, upto[t], upto[t])
    BY <1>12, <1>15, <1>16, Zenon DEF Stores
  <2> QED
    BY <1>2, <1>3, <1>6, <1>18, <1>19, <2>1, Zenon DEF Halfway, sizes, measured, whole
<1>21. t \in Tag_Number
  BY <1>6 DEF Tag_Number, Field_Tag
<1>22. Right(next)
  BY <1>1, <1>17, <1>18, <1>19, <1>20, <1>21, SMTT(60) DEF Right, Encode_Failures
<1>23. Room_For(call, t)
  <2>1. Stores(length, Blank(length), whole, written, upto[below], upto[below])
    BY <1>3, <1>11
  <2>2. written.cursor = call.writer
    BY DEF written
  <2>3. /\ written.cursor \in Cursor_Record /\ Is_Valid(written.cursor, length)
        /\ Remaining(written.cursor) = Remaining(whole) - upto[below]
    <3>1. Moves(length, whole, written, upto[below])
      BY <1>12, <1>13, <2>1, MovedOn, Zenon
    <3> QED
      BY <3>1 DEF Moves
  <2>4. need \in Nat
    BY <1>6, <1>8, SizeOfAny, ProfileAssumption, SMTT(60) DEF Need
  <2>5. need <= Remaining(whole) - upto[below]
    BY <1>4, <1>11, <1>12, <1>13, <2>4, SMTT(60) DEF measured
  <2> QED
    BY <1>6, <1>7, <1>8, <2>2, <2>3, <2>5 DEF Room_For
<1> QED
  BY <1>17, <1>22, <1>23 DEF next

(* After the last field the room is full. *)
LEMMA CallEnds ==
  ASSUME NEW call, Right(call), call.status = "Encoding",
         {t \in Included(call.lock, call.item) : t > call.previous} = {}
  PROVE  /\ At_End(call.writer)
         /\ Right(Encode_Call("Encoded", call.lock, call.item, call.output, call.writer,
                              call.previous, Consumed(call.writer)))
<1> DEFINE sizes == Field_Sizes(call.lock, call.item)
           measured == Measure(call.lock, call.item)
           whole == Cursor(0, 0, measured.size)
           written == [status |-> "Wrote", output |-> call.output, cursor |-> call.writer]
<1>1. /\ call.lock \in Locks /\ Item_Of(call.lock, call.item)
      /\ call.output \in Seq(Octet) /\ call.previous \in Tag_Number
      /\ call.written = 0 /\ Halfway(call)
  BY DEF Right, Idle
<1> PICK length \in Nat : length = Len(call.output)
  BY <1>1
<1>2. /\ measured.status = "Measured" /\ measured.size <= length
  BY <1>1 DEF Halfway
<1>3. PICK upto : /\ Adds_Up(upto, sizes, measured.size)
                  /\ Stores(length, Blank(length), whole, written, upto[call.previous], upto[call.previous])
  BY <1>1 DEF Halfway
<1>4. /\ measured.size \in Nat
      /\ \A t \in Fields(call.lock) : ~ Invalid_Field(call.lock, call.item, t)
      /\ \A t \in Included(call.lock, call.item) : t \in Field_Tag /\ sizes[t].status = "Measured"
  BY <1>1, <1>2, Vouched
<1>5. DOMAIN sizes = Included(call.lock, call.item)
  BY DEF Field_Sizes
<1>6. DOMAIN sizes \subseteq Field_Tag /\ \A s \in DOMAIN sizes : sizes[s].size \in Nat
  <2> SUFFICES ASSUME NEW s \in Included(call.lock, call.item)
               PROVE  sizes[s].size \in Nat
    BY <1>4, <1>5
  <2>1. sizes[s] = Measure_Value(call.lock, s, call.item[s]) /\ sizes[s].status = "Measured"
    BY <1>4 DEF Field_Sizes
  <2>2. ~ Invalid_Field(call.lock, call.item, s)
    BY <1>4 DEF Included
  <2> HIDE DEF sizes
  <2> QED
    BY <1>1, <2>1, <2>2, ValueMeasured, Zenon
<1> HIDE DEF sizes, measured
<1>7. upto[call.previous] = measured.size
  <2>1. MaxFieldTag \in Nat /\ MaxFieldTag \in 0 .. MaxFieldTag
    BY Limits
  <2>2. \A low, high \in 0 .. MaxFieldTag :
           low <= high =>
             /\ upto[low] <= upto[high]
             /\ (\A s \in DOMAIN sizes : ~ (low < s /\ s <= high)) => upto[low] = upto[high]
    BY <1>3, <1>6, SumsGrow, Zenon
  <2>3. \A s \in DOMAIN sizes : ~ (call.previous < s /\ s <= MaxFieldTag)
    BY <1>1, <1>4, <1>5 DEF Tag_Number, Field_Tag
  <2>4. call.previous <= MaxFieldTag /\ call.previous \in 0 .. MaxFieldTag
    BY <1>1, <2>1 DEF Tag_Number
  <2>5. upto[MaxFieldTag] = measured.size
    BY <1>3 DEF Adds_Up
  <2> QED
    BY <2>1, <2>2, <2>3, <2>4, <2>5
<1>8. /\ call.writer = Cursor(0, measured.size, measured.size)
      /\ Keeps(length, Blank(length), call.output, 0, measured.size)
      /\ call.output \in [1 .. length -> Octet]
  <2>1. /\ whole.next = 0 /\ Advance(whole, measured.size) = Cursor(0, 0 + measured.size, measured.size)
    BY <1>2, <1>4, WholeRoom
  <2> HIDE DEF whole
  <2>2. /\ call.writer = Advance(whole, measured.size)
        /\ Keeps(length, Blank(length), call.output, whole.next, measured.size)
        /\ call.output \in [1 .. length -> Octet]
    BY <1>3, <1>7 DEF Stores
  <2> QED
    BY <1>4, <2>1, <2>2
<1>9. At_End(call.writer) /\ Consumed(call.writer) = measured.size
  BY <1>4, <1>8 DEF At_End, Consumed, Cursor
<1>10. \A i \in measured.size + 1 .. length : call.output[i] = Fill
  <2> SUFFICES ASSUME NEW i \in measured.size + 1 .. length
               PROVE  call.output[i] = Fill
    OBVIOUS
  <2>1. i \in 1 .. length /\ i \notin 0 + 1 .. 0 + measured.size
    BY <1>4
  <2>2. call.output[i] = Blank(length)[i]
    BY <1>8, <2>1 DEF Keeps
  <2> QED
    BY <2>1, <2>2, BlankArray
<1> DEFINE last == Encode_Call("Encoded", call.lock, call.item, call.output, call.writer,
                               call.previous, Consumed(call.writer))
<1>11. /\ Shaped_Call(last) /\ last.status = "Encoded" /\ last.lock = call.lock /\ last.item = call.item
       /\ last.output = call.output /\ last.previous = call.previous
       /\ last.written = measured.size
  BY <1>9, CallParts
<1> HIDE DEF last
<1>12. measured.size \in 0 .. length
  BY <1>2, <1>4
<1>13. Right(last)
  BY <1>1, <1>2, <1>10, <1>11, <1>12 DEF Right, Encode_Failures, measured
<1> QED
  BY <1>9, <1>13 DEF last

-----------------------------------------------------------------------------

(***************************************************************************)
(* Reading a number: what is taken is valid, and its octets are the extent.*)
(***************************************************************************)
Value_Refusals == {"Malformed", "Noncanonical", "Invalid_Value"}

LEMMA ErrorsMapped ==
  ASSUME NEW status
  PROVE  Map_Read_Error(status) \in Value_Refusals
BY DEF Map_Read_Error, Value_Refusals

Number_Taken(value, input, region, result) ==
  \E n \in Int : /\ result = Taken(<<n>>)
                 /\ value.kind \in Scalars => ~ scalar_invalid(value, n)
                 /\ Spans(input, region.start, End(region), Scalar_Octets(value, n))

LEMMA ScalarRead ==
  ASSUME NEW input \in Seq(Octet), NEW region \in Regions,
         NEW value, value.kind \in Simple, NEW result, result = Read_Scalar(value, input, region)
  PROVE  \/ result.status \in Value_Refusals
         \/ Number_Taken(value, input, region, result) /\ Inside(region, input)
<1>1. CASE ~ Inside(region, input)
  BY <1>1 DEF Read_Scalar, Turned_Down, Value_Refusals
<1>2. CASE Inside(region, input)
  <2> PICK c : c = Initialize(input, region).cursor
    OBVIOUS
  <2> PICK read : read = scalar_read(value, input, c)
    OBVIOUS
  <2>1. result = Scalar_Taken(value, read)
    BY <1>2 DEF Read_Scalar
  <2>2. /\ c \in Cursor_Record /\ Is_Valid(c, Len(input)) /\ c.next = region.start /\ c.limit = End(region)
        /\ region.start \in Nat /\ End(region) \in Nat /\ End(region) <= Len(input)
    BY <1>2, ExtentCursor
  <2>3. CASE read.status # "Read" \/ ~ At_End(read.cursor)
    <3>1. result = Turned_Down(Map_Read_Error(read.status))
      BY <2>1, <2>3 DEF Scalar_Taken
    <3> QED
      BY <3>1, ErrorsMapped DEF Turned_Down
  <2>4. CASE /\ read.status = "Read" /\ At_End(read.cursor)
             /\ value.kind \in Scalars /\ scalar_invalid(value, read.value)
    BY <2>1, <2>4 DEF Scalar_Taken, Turned_Down, Value_Refusals
  <2>5. CASE /\ read.status = "Read" /\ At_End(read.cursor)
             /\ ~ (value.kind \in Scalars /\ scalar_invalid(value, read.value))
    <3>1. result = Taken(<<read.value>>)
      BY <2>1, <2>5 DEF Scalar_Taken
    <3>2. ASSUME read.value \in Int, Spans(input, region.start, End(region), Scalar_Octets(value, read.value))
          PROVE  Number_Taken(value, input, region, result)
      BY <2>5, <3>1, <3>2, Zenon DEF Number_Taken
    <3>3. "Read" \notin Read_Refusal
      BY DEF Read_Refusal
    <3>4. CASE value.kind = "boolean"
      <4> PICK bool : bool = Read_Boolean(input, c)
        OBVIOUS
      <4>1. read = [bool EXCEPT !.value = IF @ THEN 1 ELSE 0]
        BY <3>4 DEF scalar_read
      <4>2. {"status", "value", "cursor"} \subseteq DOMAIN bool
        BY DEF Read_Boolean
      <4>3. read.status = bool.status /\ read.cursor = bool.cursor /\ read.value = IF bool.value THEN 1 ELSE 0
        BY <4>1, <4>2
      <4>4. /\ bool.value \in BOOLEAN /\ input[c.next + 1] = Bit(bool.value)
            /\ bool.cursor = Advance(c, 1)
        BY <2>2, <2>5, <3>3, <4>3, BooleanRead DEF ReadRefused
      <4>5. read.value \in Int /\ input[region.start + 1] = read.value
        BY <2>2, <4>3, <4>4 DEF Bit
      <4>6. read.cursor.next = region.start + 1 /\ read.cursor.limit = End(region)
        BY <2>2, <4>3, <4>4, CursorFields
      <4>7. region.start + 1 = End(region)
        BY <2>5, <4>6, Zenon DEF At_End
      <4>8. input[region.start + 1] \in Octet
        BY <2>2, <4>7
      <4> PICK n \in Octet : n = read.value
        BY <4>5, <4>8
      <4>9. <<n>> \in Seq(Octet) /\ Len(<<n>>) = 1 /\ <<n>>[1] = n
        OBVIOUS
      <4>10. \A i \in 1 .. 1 : <<n>>[i] = input[region.start + i]
        BY <4>5, <4>9
      <4>11. Spans(input, region.start, End(region), <<n>>)
        BY <2>2, <4>7, <4>9, <4>10 DEF Spans
      <4> QED
        BY <1>2, <3>2, <3>4, <4>5, <4>11 DEF Scalar_Octets
    <3>5. CASE value.kind = "signed"
      <4>1. read = Read_Signed(input, c)
        BY <3>5 DEF scalar_read
      <4>2. read.value \in Integer_64 /\ Takes(input, c, ZigZag_Encode(read.value), 0, read)
        BY <2>2, <2>5, <3>3, <4>1, SignedRead DEF ReadRefused
      <4>3. Spans(input, region.start, End(region), Digits(ZigZag_Encode(read.value)))
        BY <1>2, <2>5, <4>2, DigitsFill
      <4>4. read.value \in Int
        BY <4>2, Limits DEF Integer_64
      <4> QED
        BY <1>2, <3>2, <3>5, <4>3, <4>4 DEF Scalar_Octets, Wire
    <3>6. CASE value.kind \notin {"boolean", "signed"}
      <4>1. read = Read_Unsigned(input, c)
        BY <3>6 DEF scalar_read
      <4>2. Takes(input, c, read.value, 0, read)
        BY <2>2, <2>5, <3>3, <4>1, UnsignedRead DEF ReadRefused
      <4>3. Spans(input, region.start, End(region), Digits(read.value))
        BY <1>2, <2>5, <4>2, DigitsFill
      <4>4. read.value \in Int
        BY <4>2, SizeOfUnsigned DEF Takes
      <4> QED
        BY <1>2, <3>2, <3>6, <4>3, <4>4 DEF Scalar_Octets, Wire
    <3> QED
      BY <3>4, <3>5, <3>6
  <2> QED
    BY <2>3, <2>4, <2>5
<1> QED
  BY <1>1, <1>2

-----------------------------------------------------------------------------

(***************************************************************************)
(* Reading a field that is a number or octets.                             *)
(***************************************************************************)

(* What a codec would encode again. *)
Valid_Content(lock, t, content) ==
  /\ Component(lock, t, content)
  /\ Field(lock, t).kind \in Scalars /\ content # <<>> => ~ scalar_invalid(Field(lock, t), content[1])
  /\ Field(lock, t).kind \in {"enumeration", "variant"} => content[1] \in Field(lock, t).tags
  /\ Field(lock, t).kind \in {"bytes", "sequence"} =>
       Len(content) \in Field(lock, t).minimum .. Field(lock, t).maximum
  /\ Field(lock, t).kind = "sequence" =>
       \A i \in 1 .. Len(content) : ~ scalar_invalid(Element(lock, t), content[i])
  /\ Field(lock, t).kind = "variant" =>
       \A m \in Payload_Tags(lock, t, content[1]) :
         ~ scalar_invalid(Member(lock, t, content[1], m), content[Slot(lock, t, content[1], m)])

(* What is not left out when a field is written. *)
Sendable(lock, t, content) ==
  /\ Field(lock, t).presence = "optional" => content # <<>>
  /\ Field(lock, t).presence = "defaulted" => content # <<Field(lock, t).default>>

Value_Taken(lock, t, input, region, result) ==
  /\ result.status = "Decoded" /\ Inside(region, input)
  /\ Valid_Content(lock, t, result.content) /\ Sendable(lock, t, result.content)
  /\ Spans(input, region.start, End(region), Value_Octets(lock, t, result.content))

LEMMA OneNumber ==
  ASSUME NEW lock, NEW t, Field(lock, t).kind \in Simple, NEW n \in Int,
         Field(lock, t).kind \in Scalars => ~ scalar_invalid(Field(lock, t), n),
         Field(lock, t).kind = "enumeration" => n \in Field(lock, t).tags
  PROVE  /\ Valid_Content(lock, t, <<n>>) /\ <<n>> # <<>>
         /\ Value_Octets(lock, t, <<n>>) = Scalar_Octets(Field(lock, t), n)
<1>1. <<n>> \in Seq(Int) /\ Len(<<n>>) = 1 /\ <<n>>[1] = n
  OBVIOUS
<1> PICK kind : kind = Field(lock, t).kind
  OBVIOUS
<1>2. kind \notin {"bytes", "sequence", "variant"} /\ kind \in Scalars \cup {"enumeration"}
  BY DEF Simple, Scalars
<1>3. Component(lock, t, <<n>>)
  BY <1>1, <1>2 DEF Component
<1>4. Value_Octets(lock, t, <<n>>) = Scalar_Octets(Field(lock, t), <<n>>[1])
  BY <1>2, Zenon DEF Value_Octets
<1>5. kind \in Scalars => kind # "enumeration"
  BY DEF Scalars
<1>6. Valid_Content(lock, t, <<n>>)
  BY <1>1, <1>2, <1>3, <1>5 DEF Valid_Content
<1>7. <<n>> # <<>>
  BY <1>1
<1> QED
  BY <1>1, <1>4, <1>6, <1>7

LEMMA ScalarFieldRead ==
  ASSUME NEW input \in Seq(Octet), NEW region \in Regions,
         NEW lock, NEW t, Field(lock, t).kind \in Scalars,
         NEW result, result = Read_Scalar_Field(Field(lock, t), input, region)
  PROVE  \/ result.status \in Value_Refusals
         \/ Value_Taken(lock, t, input, region, result)
<1> PICK field : field = Field(lock, t)
  OBVIOUS
<1> PICK scalar : scalar = Read_Scalar(field, input, region)
  OBVIOUS
<1>1. result = IF field.presence = "defaulted" /\ scalar = Taken(<<field.default>>) THEN Turned_Down("Noncanonical") ELSE scalar
  BY DEF Read_Scalar_Field
<1>2. CASE result # scalar
  BY <1>1, <1>2 DEF Turned_Down, Value_Refusals
<1>3. CASE result = scalar /\ scalar.status \in Value_Refusals
  BY <1>3
<1>4. CASE result = scalar /\ Number_Taken(field, input, region, scalar) /\ Inside(region, input)
  <2> PICK n \in Int : /\ scalar = Taken(<<n>>) /\ ~ scalar_invalid(field, n)
                       /\ Spans(input, region.start, End(region), Scalar_Octets(field, n))
    BY <1>4 DEF Number_Taken
  <2>1. /\ Valid_Content(lock, t, <<n>>) /\ <<n>> # <<>>
        /\ Value_Octets(lock, t, <<n>>) = Scalar_Octets(field, n)
    <3>1. Field(lock, t).kind \in Simple /\ Field(lock, t).kind # "enumeration"
      BY DEF Simple, Scalars
    <3> QED
      BY <3>1, OneNumber
  <2>2. result.status = "Decoded" /\ result.content = <<n>>
    BY <1>4 DEF Taken
  <2>3. ~ (field.presence = "defaulted" /\ <<n>> = <<field.default>>)
    <3>1. Turned_Down("Noncanonical") # Taken(<<n>>)
      BY DEF Turned_Down, Taken
    <3> QED
      BY <1>1, <1>4, <3>1
  <2>4. Sendable(lock, t, <<n>>)
    BY <2>1, <2>3 DEF Sendable
  <2> QED
    BY <1>4, <2>1, <2>2, <2>4 DEF Value_Taken
<1> QED
  <2>1. field.kind \in Simple
    BY DEF Simple
  <2> QED
    BY <1>2, <1>3, <1>4, <2>1, ScalarRead

LEMMA EnumerationRead ==
  ASSUME NEW input \in Seq(Octet), NEW region \in Regions,
         NEW lock, NEW t, Field(lock, t).kind = "enumeration", Field(lock, t).presence = "required",
         NEW result, result = Read_Enumeration(Field(lock, t), input, region)
  PROVE  \/ result.status \in Value_Refusals
         \/ Value_Taken(lock, t, input, region, result)
<1> PICK field : field = Field(lock, t)
  OBVIOUS
<1> PICK scalar : scalar = Read_Scalar(field, input, region)
  OBVIOUS
<1>1. result = IF scalar.status = "Decoded" /\ scalar.content[1] \notin field.tags THEN Turned_Down("Invalid_Value") ELSE scalar
  BY DEF Read_Enumeration
<1>2. CASE result # scalar
  BY <1>1, <1>2 DEF Turned_Down, Value_Refusals
<1>3. CASE result = scalar /\ scalar.status \in Value_Refusals
  BY <1>3
<1>4. CASE result = scalar /\ Number_Taken(field, input, region, scalar) /\ Inside(region, input)
  <2> PICK n \in Int : /\ scalar = Taken(<<n>>)
                       /\ Spans(input, region.start, End(region), Scalar_Octets(field, n))
    BY <1>4 DEF Number_Taken
  <2>1. scalar.status = "Decoded" /\ scalar.content = <<n>> /\ <<n>>[1] = n
    BY DEF Taken
  <2>2. n \in field.tags
    <3>1. Turned_Down("Invalid_Value").status # "Decoded"
      BY DEF Turned_Down
    <3> QED
      BY <1>1, <1>4, <2>1, <3>1
  <2>3. /\ Valid_Content(lock, t, <<n>>) /\ <<n>> # <<>>
        /\ Value_Octets(lock, t, <<n>>) = Scalar_Octets(field, n)
    <3>1. Field(lock, t).kind \in Simple /\ Field(lock, t).kind \notin Scalars
      BY DEF Simple, Scalars
    <3> QED
      BY <2>2, <3>1, OneNumber
  <2>4. Sendable(lock, t, <<n>>)
    BY DEF Sendable
  <2> QED
    BY <1>4, <2>1, <2>3, <2>4 DEF Value_Taken
<1> QED
  <2>1. field.kind \in Simple
    BY DEF Simple
  <2> QED
    BY <1>2, <1>3, <1>4, <2>1, ScalarRead

LEMMA BytesRead ==
  ASSUME NEW input \in Seq(Octet), NEW region \in Regions,
         NEW lock, NEW t, Field(lock, t).kind = "bytes", Field(lock, t).presence = "required",
         Field(lock, t).minimum \in Nat, Field(lock, t).maximum \in Nat,
         NEW result, result = Read_Bytes(Field(lock, t), input, region)
  PROVE  \/ result.status \in Value_Refusals
         \/ Value_Taken(lock, t, input, region, result)
<1> PICK maximum \in Nat, minimum \in Nat : maximum = Field(lock, t).maximum /\ minimum = Field(lock, t).minimum
  OBVIOUS
<1> PICK room : room = [i \in 1 .. maximum |-> 0]
  BY Zenon
<1> PICK nested : nested = Initialize(input, region)
  OBVIOUS
<1> PICK read : read = Read_Octets(input, nested.cursor, room, region.length)
  OBVIOUS
<1>0. region.start \in Nat /\ region.length \in Nat
  BY SizeOfUnsigned DEF Regions
<1> PICK start \in Nat, length \in Nat : start = region.start /\ length = region.length
  BY <1>0
<1>1. result = IF ~ Octets_Within(Field(lock, t), region) THEN Turned_Down("Invalid_Value")
               ELSE IF nested.status # "Cursor_Ready" THEN Turned_Down("Malformed")
               ELSE IF read.status # "Read" \/ ~ At_End(read.cursor) THEN Turned_Down(Map_Read_Error(read.status))
               ELSE Taken(SubSeq(read.value, 1, length))
  BY DEF Read_Bytes
<1>2. CASE \/ ~ Octets_Within(Field(lock, t), region) \/ nested.status # "Cursor_Ready"
           \/ read.status # "Read" \/ ~ At_End(read.cursor)
  BY <1>1, <1>2, ErrorsMapped DEF Turned_Down, Value_Refusals
<1>3. CASE /\ Octets_Within(Field(lock, t), region) /\ nested.status = "Cursor_Ready"
           /\ read.status = "Read" /\ At_End(read.cursor)
  <2>1. Inside(region, input) /\ length \in minimum .. maximum
    BY <1>3 DEF Initialize, Octets_Within
  <2>2. /\ nested.cursor \in Cursor_Record /\ Is_Valid(nested.cursor, Len(input)) /\ nested.cursor.next = start
        /\ End(region) = start + length /\ End(region) <= Len(input) /\ End(region) \in Nat
        /\ nested.cursor.limit = End(region)
    BY <2>1, ExtentCursor, Zenon
  <2>3. Len(room) = maximum
    BY LengthOf
  <2>4. Copied(input, start, length) = length /\ length <= Remaining(nested.cursor)
    BY <2>2 DEF Copied, Remaining
  <2>5. read.value = [i \in 1 .. maximum |-> IF i <= length THEN input[start + i] ELSE room[i]]
    <3> PICK c : c = nested.cursor
      OBVIOUS
    <3>1. read = Read_Octets(input, c, room, length) /\ c.next = start
      BY <2>2
    <3>2. ~ (length > Remaining(c)) /\ ~ (length > Len(room)) /\ ~ (Copied(input, c.next, length) < length)
      <4>1. Remaining(c) = End(region) - start
        BY <2>2 DEF Remaining
      <4> QED
        BY <2>1, <2>2, <2>3, <2>4, <3>1, <4>1, SMTT(60)
    <3>3. Copies(input, c.next, room, length, Read_Octets(input, c, room, length).value)
      BY <3>2, OctetsCopied, Zenon
    <3>4. Copies(input, start, room, length, read.value)
      BY <3>1, <3>3, Zenon
    <3> QED
      BY <2>3, <3>4, Zenon DEF Copies
  <2> DEFINE content == [i \in 1 .. length |-> input[start + i]]
  <2>6. \A i \in 1 .. length : input[start + i] \in Octet
    <3> SUFFICES ASSUME NEW i \in 1 .. length
                 PROVE  input[start + i] \in Octet
      OBVIOUS
    <3>1. start + i \in 1 .. Len(input)
      BY <2>2, SMTT(60)
    <3> QED
      BY <3>1
  <2>7. content \in [1 .. length -> Octet]
    BY <2>6
  <2>9. \A i \in 1 .. length : content[i] = input[start + i]
    OBVIOUS
  <2> HIDE DEF content
  <2>8. Len(content) = length /\ content \in Seq(Octet)
    BY <2>7, LengthOf, Zenon
  <2>10. SubSeq(read.value, 1, length) = content
    <3> PICK value : value = read.value
      OBVIOUS
    <3>1. ASSUME NEW i \in 1 .. maximum
          PROVE  value[i] \in Octet
      <4>1. room[i] = 0 /\ 0 \in Octet
        BY Limits DEF Octet
      <4>2. value[i] = IF i <= length THEN input[start + i] ELSE room[i]
        BY <2>5
      <4>3. i <= length => i \in 1 .. length
        OBVIOUS
      <4> QED
        BY <2>6, <4>1, <4>2, <4>3, Zenon
    <3>2. value \in [1 .. maximum -> Octet]
      BY <2>5, <3>1, Zenon
    <3>3. value \in Seq(Octet) /\ Len(value) = maximum
      BY <3>2, LengthOf, Zenon
    <3>4. \A i \in 1 .. length : value[i] = content[i]
      BY <2>1, <2>5, <2>9, SMTT(60)
    <3> PICK part : part = SubSeq(value, 1, length)
      BY Zenon
    <3>5. Len(part) = length /\ part \in Seq(Octet) /\ \A i \in 1 .. length : part[i] = value[i]
      BY <2>1, <3>3
    <3>6. \A i \in 1 .. length : part[i] = content[i]
      BY <3>4, <3>5, ZenonT(60)
    <3>7. part = content
      BY <2>8, <3>5, <3>6, SameSequence, ZenonT(60)
    <3> QED
      BY <3>7, Zenon
  <2>11. Spans(input, start, End(region), content)
    <3>1. End(region) = start + Len(content) /\ \A i \in 1 .. Len(content) : content[i] = input[start + i]
      BY <2>2, <2>8, <2>9
    <3> QED
      BY <2>2, <2>8, <3>1 DEF Spans
  <2>12. result.status = "Decoded" /\ result.content = content
    <3>1. result = Taken(SubSeq(read.value, 1, length))
      BY <1>1, <1>3, Zenon
    <3>2. result = Taken(content)
      BY <2>10, <3>1, Zenon
    <3> QED
      BY <3>2 DEF Taken
  <2>13. content \in Seq(Int)
    BY <2>8, Limits DEF Octet
  <2>14. Valid_Content(lock, t, content)
    BY <2>1, <2>8, <2>13 DEF Valid_Content, Component, Scalars
  <2>15. Value_Octets(lock, t, content) = content
    BY DEF Value_Octets
  <2>16. Sendable(lock, t, content)
    BY DEF Sendable
  <2> QED
    BY <2>1, <2>11, <2>12, <2>14, <2>15, <2>16 DEF Value_Taken
<1> QED
  BY <1>2, <1>3

-----------------------------------------------------------------------------

(***************************************************************************)
(* Reading a sequence.                                                     *)
(***************************************************************************)
No_Elements(count) == [status |-> "Decoded", content |-> <<>>, cursor |-> count.cursor]

Next_Read(element, input, before) ==
  IF before.status # "Decoded" THEN before
  ELSE Read_Element(element, input, before, Read_Length_Delimited(input, before.cursor))

Elements_Read(f, top, element, input, count) ==
  f = [n \in 0 .. top |-> IF n = 0 THEN No_Elements(count) ELSE Next_Read(element, input, f[n - 1])]

LEMMA StatusStays ==
  ASSUME NEW element, NEW input, NEW before, "status" \in DOMAIN before,
         NEW after, after = Next_Read(element, input, before)
  PROVE  "status" \in DOMAIN after
BY DEF Next_Read, Read_Element, Element_Taken

(* The equation of Read_Elements holds of some function. *)
LEMMA ElementsReadExists ==
  ASSUME NEW top \in Nat, NEW element, NEW input, NEW count
  PROVE  \E f : Elements_Read(f, top, element, input, count)
<1> DEFINE Step(before) == Next_Read(element, input, before)
           Base == No_Elements(count)
           G == {m \in 0 .. top : \E f : f = [n \in 0 .. m |-> IF n = 0 THEN Base ELSE Step(f[n - 1])]}
<1> HIDE DEF Step, Base
<1>1. ASSUME NEW m \in 0 .. top, \A k \in 0 .. m - 1 : k \in G
      PROVE  m \in G
  <2>1. CASE m = 0
    <3> DEFINE f == [n \in 0 .. m |-> Base]
    <3>1. f = [n \in 0 .. m |-> IF n = 0 THEN Base ELSE Step(f[n - 1])]
      BY <2>1
    <3> QED
      BY <3>1
  <2>2. CASE m > 0
    <3>1. PICK f : f = [n \in 0 .. m - 1 |-> IF n = 0 THEN Base ELSE Step(f[n - 1])]
      BY <1>1, <2>2, SMTT(60)
    <3> DEFINE g == [n \in 0 .. m |-> IF n = m THEN Step(f[m - 1]) ELSE f[n]]
    <3>2. ASSUME NEW n \in 0 .. m
          PROVE  g[n] = IF n = 0 THEN Base ELSE Step(g[n - 1])
      <4>1. CASE n = m
        <5>1. g[n] = Step(f[m - 1]) /\ g[n - 1] = f[m - 1]
          BY <2>2, <4>1
        <5> QED
          BY <2>2, <4>1, <5>1
      <4>2. CASE n # m
        <5>1. n \in 0 .. m - 1 /\ g[n] = f[n] /\ (n # 0 => g[n - 1] = f[n - 1])
          BY <4>2
        <5>2. f[n] = IF n = 0 THEN Base ELSE Step(f[n - 1])
          <6> HIDE DEF g
          <6> QED
            BY <3>1, <5>1
        <5> QED
          BY <5>1, <5>2
      <4> QED
        BY <4>1, <4>2
    <3>3. g = [n \in 0 .. m |-> IF n = 0 THEN Base ELSE Step(g[n - 1])]
      BY <3>2
    <3> HIDE DEF g
    <3> QED
      BY <3>3
  <2> QED
    BY <2>1, <2>2
<1> HIDE DEF G
<1>2. top \in G
  <2>1. \A i \in 0 .. top : i \in G
    BY <1>1, AllNumbers, Zenon
  <2> QED
    BY <2>1
<1> QED
  BY <1>2 DEF G, Step, Base, Elements_Read

(* One element more: its octets are behind those of the ones before it.    *)
Element_Appended(element, input, before, after) ==
  /\ after.status = "Decoded"
  /\ after.cursor \in Cursor_Record /\ Is_Valid(after.cursor, Len(input)) /\ after.cursor.limit = before.cursor.limit
  /\ \E n \in Int : /\ after.content = before.content \o <<n>> /\ ~ scalar_invalid(element, n)
                    /\ Spans(input, before.cursor.next, after.cursor.next, Delimited(Scalar_Octets(element, n)))

LEMMA ElementRead ==
  ASSUME NEW input \in Seq(Octet), NEW element, element.kind \in Scalars,
         NEW before, before.status = "Decoded", before.cursor \in Cursor_Record, Is_Valid(before.cursor, Len(input)),
         "status" \in DOMAIN before,
         NEW after, after = Next_Read(element, input, before)
  PROVE  after.status \in Value_Refusals \/ Element_Appended(element, input, before, after)
<1> PICK c : c = before.cursor
  OBVIOUS
<1> PICK extent : extent = Read_Length_Delimited(input, c)
  OBVIOUS
<1> PICK value : value = Read_Scalar(element, input, extent.value)
  OBVIOUS
<1>1. after = IF extent.status # "Read" THEN [before EXCEPT !.status = Map_Read_Error(extent.status)]
              ELSE [status |-> value.status, content |-> before.content \o value.content, cursor |-> extent.cursor]
  BY DEF Next_Read, Read_Element, Element_Taken
<1>2. CASE extent.status # "Read"
  <2>1. after.status = Map_Read_Error(extent.status)
    BY <1>1, <1>2
  <2> QED
    BY <2>1, ErrorsMapped
<1>3. CASE extent.status = "Read"
  <2>1. TakesExtent(input, c, extent)
    <3>1. ReadRefused(c, extent) \/ TakesExtent(input, c, extent)
      BY ExtentRead DEF Read_Length_Delimited
    <3> QED
      BY <1>3, <3>1 DEF ReadRefused, Read_Refusal
  <2> PICK region \in Regions : region = extent.value
    BY <2>1 DEF TakesExtent
  <2>2. after = [status |-> value.status, content |-> before.content \o value.content, cursor |-> extent.cursor]
    BY <1>1, <1>3
  <2>3. CASE value.status \in Value_Refusals
    BY <2>2, <2>3
  <2>4. CASE Number_Taken(element, input, region, value)
    <3> PICK n \in Int : /\ value = Taken(<<n>>) /\ ~ scalar_invalid(element, n)
                         /\ Spans(input, region.start, End(region), Scalar_Octets(element, n))
      BY <2>4 DEF Number_Taken
    <3>1. after.status = "Decoded" /\ after.content = before.content \o <<n>> /\ after.cursor = extent.cursor
      BY <2>2 DEF Taken
    <3>2. HoldsExtent(input, c.next, region) /\ End(region) <= c.limit /\ extent.cursor = MovedTo(c, End(region))
      BY <2>1 DEF TakesExtent
    <3>3. c.first \in Nat /\ c.next \in Nat /\ c.limit \in Nat
      BY CursorFields
    <3>4. Spans(input, c.next, End(region), Delimited(Scalar_Octets(element, n)))
      BY <3>2, <3>3, DelimitedSpan
    <3>5. End(region) \in Nat /\ c.next <= End(region)
      <4> PICK octets : octets = Delimited(Scalar_Octets(element, n))
        OBVIOUS
      <4>1. octets \in Seq(Octet) /\ End(region) = c.next + Len(octets)
        BY <3>4 DEF Spans
      <4>2. Len(octets) \in Nat
        BY <4>1
      <4> QED
        BY <3>3, <4>1, <4>2
    <3>6. /\ extent.cursor = [first |-> c.first, next |-> End(region), limit |-> c.limit]
          /\ extent.cursor \in Cursor_Record
      BY <3>2, <3>3, <3>5 DEF MovedTo, Cursor, Cursor_Record
    <3>7. Is_Valid(extent.cursor, Len(input))
      BY <3>2, <3>3, <3>5, <3>6 DEF Is_Valid
    <3> QED
      BY <3>1, <3>4, <3>6, <3>7, SMTT(60) DEF Element_Appended
  <2> QED
    <3>1. element.kind \in Simple
      BY DEF Simple
    <3> QED
      BY <2>3, <2>4, <3>1, ScalarRead
<1> QED
  BY <1>2, <1>3

(* So many elements have been read.                                        *)
Read_So_Far(f, element, input, i) ==
  /\ f[i].cursor \in Cursor_Record /\ Is_Valid(f[i].cursor, Len(input)) /\ f[i].cursor.limit = f[0].cursor.limit
  /\ f[i].content \in Seq(Int) /\ Len(f[i].content) = i
  /\ \A j \in 0 .. i : f[j].cursor.next \in Nat
  /\ \A j \in 1 .. i : /\ ~ scalar_invalid(element, f[i].content[j])
                       /\ Spans(input, f[j - 1].cursor.next, f[j].cursor.next,
                                Delimited(Scalar_Octets(element, f[i].content[j])))

LEMMA ElementsRead ==
  ASSUME NEW input \in Seq(Octet), NEW element, element.kind \in Scalars,
         NEW count, count.cursor \in Cursor_Record, Is_Valid(count.cursor, Len(input)),
         NEW top \in Nat, NEW f, Elements_Read(f, top, element, input, count)
  PROVE  \A i \in 0 .. top : \/ f[i].status \in Value_Refusals
                             \/ f[i].status = "Decoded" /\ Read_So_Far(f, element, input, i)
<1> DEFINE G == {i \in 0 .. top : /\ "status" \in DOMAIN f[i]
                                  /\ \/ f[i].status \in Value_Refusals
                                     \/ f[i].status = "Decoded" /\ Read_So_Far(f, element, input, i)}
<1> HIDE DEF G
<1>1. f[0] = No_Elements(count)
  BY DEF Elements_Read
<1>2. \A i \in 1 .. top : f[i] = Next_Read(element, input, f[i - 1])
  <2> SUFFICES ASSUME NEW i \in 1 .. top
               PROVE  f[i] = Next_Read(element, input, f[i - 1])
    OBVIOUS
  <2>1. i \in 0 .. top /\ i # 0
    OBVIOUS
  <2> QED
    BY <2>1 DEF Elements_Read
<1>3. ASSUME NEW i \in 0 .. top, \A k \in 0 .. i - 1 : k \in G
      PROVE  i \in G
  <2>1. CASE i = 0
    <3>1. f[0].status = "Decoded" /\ f[0].content = <<>> /\ f[0].cursor = count.cursor /\ "status" \in DOMAIN f[0]
      BY <1>1 DEF No_Elements
    <3>2. <<>> \in Seq(Int) /\ Len(<<>>) = 0 /\ count.cursor.next \in Nat
      BY CursorFields
    <3>3. \A j \in 0 .. 0 : j = 0
      OBVIOUS
    <3>4. Read_So_Far(f, element, input, 0)
      BY <3>1, <3>2, <3>3 DEF Read_So_Far
    <3> QED
      BY <2>1, <3>1, <3>4 DEF G
  <2>2. CASE i > 0
    <3> PICK below \in 0 .. i - 1 : below = i - 1
      BY <2>2
    <3> PICK before : before = f[below]
      OBVIOUS
    <3> PICK after : after = f[i]
      OBVIOUS
    <3>1. below \in G /\ i \in 1 .. top /\ below \in Nat
      BY <1>3, <2>2
    <3>2. after = Next_Read(element, input, before)
      BY <1>2, <3>1
    <3>3. "status" \in DOMAIN before /\ (before.status \in Value_Refusals \/ (before.status = "Decoded" /\ Read_So_Far(f, element, input, below)))
      BY <3>1 DEF G
    <3>4. CASE before.status \in Value_Refusals
      <4>1. after = before
        BY <3>2, <3>4 DEF Next_Read, Value_Refusals
      <4> QED
        BY <3>3, <3>4, <4>1, Zenon DEF G
    <3>5. CASE before.status = "Decoded" /\ Read_So_Far(f, element, input, below)
      <4>0. /\ before.cursor \in Cursor_Record /\ Is_Valid(before.cursor, Len(input))
            /\ before.cursor.limit = f[0].cursor.limit /\ before.content \in Seq(Int) /\ Len(before.content) = below
            /\ \A j \in 0 .. below : f[j].cursor.next \in Nat
            /\ \A j \in 1 .. below : /\ ~ scalar_invalid(element, before.content[j])
                       /\ Spans(input, f[j - 1].cursor.next, f[j].cursor.next,
                                Delimited(Scalar_Octets(element, before.content[j])))
        BY <3>5 DEF Read_So_Far
      <4>1. after.status \in Value_Refusals \/ Element_Appended(element, input, before, after)
        BY <3>2, <3>3, <3>5, <4>0, ElementRead
      <4>2. "status" \in DOMAIN after
        BY <3>2, <3>3, StatusStays, Zenon
      <4>3. CASE after.status \in Value_Refusals
        BY <4>2, <4>3 DEF G
      <4>4. CASE Element_Appended(element, input, before, after)
        <5> PICK n \in Int : /\ after.content = before.content \o <<n>> /\ ~ scalar_invalid(element, n)
                             /\ Spans(input, before.cursor.next, after.cursor.next, Delimited(Scalar_Octets(element, n)))
          BY <4>4, Zenon DEF Element_Appended
        <5>1. /\ after.status = "Decoded" /\ after.cursor \in Cursor_Record /\ Is_Valid(after.cursor, Len(input))
              /\ after.cursor.limit = f[0].cursor.limit
          BY <4>0, <4>4 DEF Element_Appended
        <5>2. /\ after.content \in Seq(Int) /\ Len(after.content) = i /\ after.content[i] = n
              /\ \A j \in 1 .. below : after.content[j] = before.content[j]
          <6>1. /\ after.content \in Seq(Int) /\ Len(after.content) = below + 1 /\ after.content[below + 1] = n
                /\ \A j \in 1 .. below : after.content[j] = before.content[j]
            BY <4>0, OneMore, SMTT(60)
          <6>2. below + 1 = i
            BY <2>2
          <6> QED
            BY <6>1, <6>2, Zenon
        <5>3. after.cursor.next \in Nat
          BY <5>1, CursorFields
        <5>4. \A j \in 0 .. i : f[j].cursor.next \in Nat
          <6> SUFFICES ASSUME NEW j \in 0 .. i
                       PROVE  f[j].cursor.next \in Nat
            OBVIOUS
          <6>1. j = i \/ j \in 0 .. below
            OBVIOUS
          <6> QED
            BY <4>0, <5>3, <6>1
        <5>5. ASSUME NEW j \in 1 .. i
              PROVE  /\ ~ scalar_invalid(element, after.content[j])
                     /\ Spans(input, f[j - 1].cursor.next, f[j].cursor.next,
                              Delimited(Scalar_Octets(element, after.content[j])))
          <6>1. CASE j = i
            <7>1. f[j - 1] = before /\ f[j] = after /\ after.content[j] = n
              BY <5>2, <6>1, SMTT(60)
            <7> QED
              BY <7>1, Zenon
          <6>2. CASE j \in 1 .. below
            <7>1. after.content[j] = before.content[j]
              BY <5>2, <6>2
            <7> QED
              BY <4>0, <6>2, <7>1, Zenon
          <6>3. j = i \/ j \in 1 .. below
            OBVIOUS
          <6> QED
            BY <6>1, <6>2, <6>3, Zenon
        <5>6. Read_So_Far(f, element, input, i)
          BY <5>1, <5>2, <5>4, <5>5, Zenon DEF Read_So_Far
        <5> QED
          BY <4>2, <5>1, <5>6 DEF G
      <4> QED
        BY <4>1, <4>3, <4>4
    <3> QED
      BY <3>3, <3>4, <3>5
  <2> QED
    BY <2>1, <2>2
<1>4. \A i \in 0 .. top : i \in G
  BY <1>3, AllNumbers, Zenon
<1> QED
  BY <1>4 DEF G

LEMMA SequenceRead ==
  ASSUME NEW input \in Seq(Octet), NEW region \in Regions,
         NEW lock, NEW t, Field(lock, t).kind = "sequence", Field(lock, t).presence = "required",
         Field(lock, t).minimum \in Nat, Field(lock, t).maximum \in Nat, Element(lock, t).kind \in Scalars,
         NEW result, result = Read_Sequence(Field(lock, t), Element(lock, t), input, region)
  PROVE  \/ result.status \in Value_Refusals
         \/ Value_Taken(lock, t, input, region, result)
<1> PICK maximum \in Nat, minimum \in Nat : maximum = Field(lock, t).maximum /\ minimum = Field(lock, t).minimum
  OBVIOUS
<1> PICK element : element = Element(lock, t)
  OBVIOUS
<1> PICK c : c = Initialize(input, region).cursor
  OBVIOUS
<1> PICK count : count = Read_Unsigned(input, c)
  OBVIOUS
<1> DEFINE f == CHOOSE g : Elements_Read(g, maximum, element, input, count)
<1>1. Elements_Read(f, maximum, element, input, count)
  BY ElementsReadExists, Zenon
<1>2. result = IF ~ Inside(region, input) THEN Turned_Down("Malformed")
               ELSE IF count.status # "Read" THEN Turned_Down(Map_Read_Error(count.status))
               ELSE IF count.value \notin minimum .. maximum THEN Turned_Down("Invalid_Value")
               ELSE Elements_Taken(f[count.value])
  BY DEF Read_Sequence, Read_Elements, Elements_Read, No_Elements, Next_Read
<1> HIDE DEF f
<1>3. CASE ~ Inside(region, input) \/ count.status # "Read" \/ count.value \notin minimum .. maximum
  BY <1>2, <1>3, ErrorsMapped DEF Turned_Down, Value_Refusals
<1>4. CASE Inside(region, input) /\ count.status = "Read" /\ count.value \in minimum .. maximum
  <2> PICK n \in Nat : n = count.value
    BY <1>4
  <2>1. n \in minimum .. maximum /\ n \in 0 .. maximum /\ result = Elements_Taken(f[n])
    BY <1>2, <1>4
  <2>2. /\ c \in Cursor_Record /\ Is_Valid(c, Len(input)) /\ c.next = region.start /\ c.limit = End(region)
        /\ region.start \in Nat /\ End(region) \in Nat /\ End(region) <= Len(input)
    BY <1>4, ExtentCursor
  <2>3. Takes(input, c, n, 0, count)
    <3>1. ReadRefused(c, count) \/ Takes(input, c, n, 0, count)
      BY <2>2, UnsignedRead
    <3> QED
      BY <1>4, <3>1 DEF ReadRefused, Read_Refusal
  <2>4. n \in Unsigned /\ Encodes(input, c.next, n)
    BY <2>3 DEF Takes
  <2> PICK size \in Nat : size = Unsigned_Size(n)
    BY <2>4, SizeOfUnsigned
  <2>5. size <= c.limit - c.next /\ count.cursor = [first |-> c.first, next |-> c.next + size, limit |-> c.limit]
    <3>1. size + 0 <= Remaining(c) /\ count.cursor = Advance(c, size + 0) /\ size + 0 = size
      BY <2>3 DEF Takes
    <3> QED
      BY <2>2, <3>1, CursorFields, SMTT(60)
  <2>6. c.first \in Nat /\ c.next \in Nat /\ c.limit \in Nat /\ c.next + size \in Nat
    BY <2>2, CursorFields, SMTT(60)
  <2>7. count.cursor \in Cursor_Record /\ Is_Valid(count.cursor, Len(input))
    BY <2>2, <2>5, <2>6 DEF Cursor_Record, Is_Valid
  <2>8. Spans(input, region.start, region.start + size, Digits(n))
    <3>1. region.start + size <= Len(input)
      BY <2>2, <2>5
    <3> QED
      BY <2>2, <2>4, <3>1, DigitsSpan
  <2>9. \/ f[n].status \in Value_Refusals
        \/ f[n].status = "Decoded" /\ Read_So_Far(f, element, input, n)
    BY <1>1, <2>1, <2>7, ElementsRead
  <2>10. CASE f[n].status \in Value_Refusals \/ ~ At_End(f[n].cursor)
    BY <2>1, <2>9, <2>10, SMTT(60) DEF Elements_Taken, Turned_Down, Value_Refusals
  <2>11. CASE f[n].status = "Decoded" /\ Read_So_Far(f, element, input, n) /\ At_End(f[n].cursor)
    <3> PICK content : content = f[n].content
      OBVIOUS
    <3>1. result.status = "Decoded" /\ result.content = content
      BY <2>1, <2>11 DEF Elements_Taken, Taken
    <3>2. /\ content \in Seq(Int) /\ Len(content) = n /\ f[n].cursor.limit = f[0].cursor.limit
          /\ \A j \in 0 .. n : f[j].cursor.next \in Nat
          /\ \A j \in 1 .. n : /\ ~ scalar_invalid(element, content[j])
                               /\ Spans(input, f[j - 1].cursor.next, f[j].cursor.next,
                                        Delimited(Scalar_Octets(element, content[j])))
      BY <2>11, Zenon DEF Read_So_Far
    <3>3. f[0].cursor = count.cursor
      BY <1>1 DEF Elements_Read, No_Elements
    <3>4. f[0].cursor.next = region.start + size /\ f[n].cursor.next = End(region)
      BY <2>2, <2>5, <2>11, <3>2, <3>3 DEF At_End
    <3> DEFINE pos == [j \in 0 .. n |-> f[j].cursor.next]
               parts == [j \in DOMAIN content |-> Delimited(Scalar_Octets(element, content[j]))]
    <3>5. DOMAIN content = 1 .. n
      BY <3>2
    <3>6. Laid_Out(input, pos, parts, n)
      <4>1. pos \in [0 .. n -> Nat]
        BY <3>2
      <4>2. ASSUME NEW j \in 1 .. n
            PROVE  Spans(input, pos[j - 1], pos[j], parts[j])
        <5>1. j - 1 \in 0 .. n /\ j \in 0 .. n
          OBVIOUS
        <5>2. pos[j - 1] = f[j - 1].cursor.next /\ pos[j] = f[j].cursor.next
          BY <5>1
        <5>3. parts[j] = Delimited(Scalar_Octets(element, content[j]))
          BY <3>5
        <5> HIDE DEF pos, parts
        <5> QED
          BY <3>2, <5>2, <5>3, Zenon
      <4> HIDE DEF pos, parts
      <4> QED
        BY <4>1, <4>2 DEF Laid_Out
    <3>7. pos[0] = region.start + size /\ pos[n] = End(region) /\ region.start + size <= Len(input)
      BY <2>2, <2>5, <3>4, SMTT(60)
    <3> HIDE DEF pos, parts
    <3>8. Spans(input, region.start + size, End(region), Joined(parts, n))
      BY <3>6, <3>7, JoinedSpan
    <3>9. Spans(input, region.start, End(region), Digits(n) \o Joined(parts, n))
      BY <2>8, <3>8, SpansJoin
    <3>10. Value_Octets(lock, t, content) = Digits(n) \o Joined(parts, n)
      BY <3>2, Zenon DEF Value_Octets, parts
    <3>11. Valid_Content(lock, t, content)
      BY <2>1, <3>2 DEF Valid_Content, Component, Scalars
    <3> QED
      BY <1>4, <3>1, <3>9, <3>10, <3>11 DEF Value_Taken, Sendable
  <2> QED
    BY <2>9, <2>10, <2>11
<1> QED
  BY <1>3, <1>4

-----------------------------------------------------------------------------

(***************************************************************************)
(* Places of members: each has one of its own, and there is none beside.   *)
(***************************************************************************)
Earlier(o, p) == o[1] < p[1] \/ (o[1] = p[1] /\ o[2] < p[2])
Before_Member(lock, t, p) == {o \in Members(lock, t) : Earlier(o, p)}

LEMMA MembersArePairs ==
  ASSUME NEW lock \in Locks, NEW t \in Fields(lock), Field(lock, t).kind = "variant"
  PROVE  /\ IsFiniteSet(Members(lock, t)) /\ Members(lock, t) \subseteq Field_Tag \X Field_Tag
         /\ Cardinality(Members(lock, t)) \in Nat
         /\ \A o \in Members(lock, t) :
              /\ o[1] \in Field(lock, t).tags /\ o[2] \in Payload_Tags(lock, t, o[1]) /\ o = <<o[1], o[2]>>
              /\ Slot(lock, t, o[1], o[2]) = 2 + Cardinality(Before_Member(lock, t, o))
<1>1. MaxFieldTag \in Nat /\ IsFiniteSet(Field_Tag)
  BY Limits, FS_Interval DEF Field_Tag
<1>2. IsFiniteSet(Field_Tag \X Field_Tag)
  BY <1>1, FS_Product
<1>3. ASSUME NEW o \in Members(lock, t)
      PROVE  /\ o \in Field_Tag \X Field_Tag
             /\ o[1] \in Field(lock, t).tags /\ o[2] \in Payload_Tags(lock, t, o[1]) /\ o = <<o[1], o[2]>>
  <2> PICK b \in Field(lock, t).tags : o \in {<<b, k>> : k \in Payload_Tags(lock, t, b)}
    BY DEF Members
  <2> PICK k \in Payload_Tags(lock, t, b) : o = <<b, k>>
    OBVIOUS
  <2> QED
    BY MemberIsProper
<1>4. IsFiniteSet(Members(lock, t)) /\ Cardinality(Members(lock, t)) \in Nat
  <2>1. Members(lock, t) \in SUBSET (Field_Tag \X Field_Tag)
    BY <1>3
  <2> QED
    BY <1>2, <2>1, FS_Subset, FS_CardinalityType
<1>5. \A o \in Members(lock, t) : Slot(lock, t, o[1], o[2]) = 2 + Cardinality(Before_Member(lock, t, o))
  BY DEF Slot, Before_Member, Earlier
<1> QED
  BY <1>3, <1>4, <1>5

(* A member that comes earlier has the lower place. *)
LEMMA SlotsGrow ==
  ASSUME NEW lock \in Locks, NEW t \in Fields(lock), Field(lock, t).kind = "variant",
         NEW o \in Members(lock, t), NEW p \in Members(lock, t), Earlier(o, p)
  PROVE  Slot(lock, t, o[1], o[2]) < Slot(lock, t, p[1], p[2])
<1> DEFINE X == Before_Member(lock, t, o)
           Y == Before_Member(lock, t, p)
<1>1. \A m \in Members(lock, t) : m[1] \in Nat /\ m[2] \in Nat
  <2>1. Field_Tag \subseteq Nat
    BY Limits DEF Field_Tag
  <2> QED
    BY <2>1, MembersArePairs
<1>2. X \subseteq Y \ {o} /\ o \in Y /\ o \notin X
  BY <1>1 DEF Before_Member, Earlier
<1>3. IsFiniteSet(Y)
  <2>1. Y \in SUBSET Members(lock, t)
    BY DEF Before_Member
  <2> QED
    BY <2>1, MembersArePairs, FS_Subset
<1>4. Slot(lock, t, o[1], o[2]) = 2 + Cardinality(X) /\ Slot(lock, t, p[1], p[2]) = 2 + Cardinality(Y)
  BY MembersArePairs
<1> HIDE DEF X, Y
<1>5. /\ IsFiniteSet(Y \ {o}) /\ Cardinality(Y \ {o}) = Cardinality(Y) - 1 /\ Cardinality(Y) \in Nat
  BY <1>2, <1>3, FS_RemoveElement, FS_CardinalityType
<1>6. X \in SUBSET (Y \ {o})
  BY <1>2
<1>7. Cardinality(X) <= Cardinality(Y) - 1 /\ Cardinality(X) \in Nat
  BY <1>5, <1>6, FS_Subset, FS_CardinalityType
<1> QED
  BY <1>4, <1>5, <1>7

LEMMA SlotsDiffer ==
  ASSUME NEW lock \in Locks, NEW t \in Fields(lock), Field(lock, t).kind = "variant",
         NEW o \in Members(lock, t), NEW p \in Members(lock, t),
         Slot(lock, t, o[1], o[2]) = Slot(lock, t, p[1], p[2])
  PROVE  o = p
<1>1. Field_Tag \subseteq Nat
  BY Limits DEF Field_Tag
<1> PICK a \in Nat, b \in Nat : a = o[1] /\ b = o[2] /\ o = <<a, b>>
  BY <1>1, MembersArePairs
<1> PICK c \in Nat, d \in Nat : c = p[1] /\ d = p[2] /\ p = <<c, d>>
  BY <1>1, MembersArePairs, Zenon
<1> PICK n \in Nat : n = Slot(lock, t, a, b)
  <2>1. o[1] \in Field(lock, t).tags /\ o[2] \in Payload_Tags(lock, t, o[1])
    BY MembersArePairs
  <2> QED
    BY <2>1, SlotIsAnIndex
<1>2. ~ Earlier(o, p) /\ ~ Earlier(p, o)
  BY SlotsGrow
<1>3. a = c /\ b = d
  BY <1>2 DEF Earlier
<1> QED
  BY <1>3

LEMMA SlotsAreFull ==
  ASSUME NEW lock \in Locks, NEW t \in Fields(lock), Field(lock, t).kind = "variant",
         NEW i \in 2 .. 1 + Cardinality(Members(lock, t))
  PROVE  \E o \in Members(lock, t) : Slot(lock, t, o[1], o[2]) = i
<1> SUFFICES ASSUME \A o \in Members(lock, t) : Slot(lock, t, o[1], o[2]) # i
             PROVE  FALSE
  OBVIOUS
<1> PICK n \in Nat : n = Cardinality(Members(lock, t))
  BY MembersArePairs
<1> DEFINE Places_Left == (2 .. 1 + n) \ {i}
           f == [o \in Members(lock, t) |-> Slot(lock, t, o[1], o[2])]
<1>1. IsFiniteSet(2 .. 1 + n) /\ Cardinality(2 .. 1 + n) = n
  <2> PICK low \in Int, high \in Int : low = 2 /\ high = 1 + n
    OBVIOUS
  <2>1. /\ IsFiniteSet(low .. high)
        /\ Cardinality(low .. high) = IF low > high THEN 0 ELSE high - low + 1
    BY FS_Interval, Zenon
  <2>2. (IF low > high THEN 0 ELSE high - low + 1) = n
    OBVIOUS
  <2> QED
    BY <2>1, <2>2
<1>2. IsFiniteSet(Places_Left) /\ Cardinality(Places_Left) < n
  <2> PICK all : all = 2 .. 1 + n
    OBVIOUS
  <2>1. IsFiniteSet(all \ {i}) /\ Cardinality(all \ {i}) = IF i \in all THEN Cardinality(all) - 1 ELSE Cardinality(all)
    BY <1>1, FS_RemoveElement, Zenon
  <2> QED
    BY <1>1, <2>1
<1>3. \A o \in Members(lock, t) : Slot(lock, t, o[1], o[2]) \in Places_Left
  BY MembersArePairs, SlotIsAnIndex
<1>4. f \in [Members(lock, t) -> Places_Left]
  BY <1>3
<1>5. \A o \in Members(lock, t) : f[o] = Slot(lock, t, o[1], o[2])
  OBVIOUS
<1> HIDE DEF f, Places_Left
<1>6. IsFiniteSet(Members(lock, t))
  BY MembersArePairs
<1>7. \E o, p \in Members(lock, t) : o # p /\ f[o] = f[p]
  BY <1>2, <1>4, <1>6, FS_PigeonHole
<1> QED
  BY <1>5, <1>7, SlotsDiffer

(* A variant as it starts is one component for each member, all of them    *)
(* numbers.                                                                *)
LEMMA StartsAsNumbers ==
  ASSUME NEW lock \in Locks, NEW t \in Fields(lock), Field(lock, t).kind = "variant"
  PROVE  /\ Cardinality(Members(lock, t)) \in Nat
         /\ Min(Field(lock, t).tags) \in Field(lock, t).tags
         /\ initial_variant(lock, t) \in [1 .. 1 + Cardinality(Members(lock, t)) -> Int]
         /\ initial_variant(lock, t)[1] = Min(Field(lock, t).tags)
<1> PICK n \in Nat : n = Cardinality(Members(lock, t))
  BY MembersArePairs
<1>1. Proper(Field(lock, t)) /\ Field(lock, t).tags \subseteq Nat /\ Field(lock, t).tags # {}
  <2>1. Proper(Field(lock, t))
    BY FieldIsProper, Zenon
  <2> QED
    BY <2>1 DEF Proper, Value, Tagged
<1>2. Min(Field(lock, t).tags) \in Field(lock, t).tags
  <2>1. \E x \in Field(lock, t).tags : \A y \in Field(lock, t).tags : x <= y
    BY <1>1, LeastNumber
  <2> QED
    BY <2>1 DEF Min
<1> DEFINE At(i) == CHOOSE o \in Members(lock, t) : Slot(lock, t, o[1], o[2]) = i
           whole == [i \in 1 .. 1 + n |-> IF i = 1 THEN Min(Field(lock, t).tags)
                                          ELSE scalar_initial_value(Member(lock, t, At(i)[1], At(i)[2]))]
<1>3. initial_variant(lock, t) = whole
  BY DEF initial_variant
<1>4. ASSUME NEW i \in 2 .. 1 + n
      PROVE  scalar_initial_value(Member(lock, t, At(i)[1], At(i)[2])) \in Int
  <2>1. At(i) \in Members(lock, t)
    BY SlotsAreFull
  <2> HIDE DEF At
  <2>2. At(i)[1] \in Field(lock, t).tags /\ At(i)[2] \in Payload_Tags(lock, t, At(i)[1])
    BY <2>1, MembersArePairs
  <2>3. Proper(Member(lock, t, At(i)[1], At(i)[2]))
    BY <2>2, MemberIsProper, Zenon
  <2> QED
    BY <2>3 DEF scalar_initial_value, Proper, Value
<1> HIDE DEF At
<1>5. ASSUME NEW i \in 1 .. 1 + n
      PROVE  (IF i = 1 THEN Min(Field(lock, t).tags) ELSE scalar_initial_value(Member(lock, t, At(i)[1], At(i)[2]))) \in Int
  <2>1. i = 1 \/ i \in 2 .. 1 + n
    OBVIOUS
  <2> QED
    BY <1>1, <1>2, <1>4, <2>1
<1>6. whole \in [1 .. 1 + n -> Int] /\ whole[1] = Min(Field(lock, t).tags)
  BY <1>5
<1> HIDE DEF whole
<1> QED
  BY <1>2, <1>3, <1>6

-----------------------------------------------------------------------------

(***************************************************************************)
(* Reading a variant.                                                      *)
(***************************************************************************)
No_Members(lock, t, a, input, region) ==
  [status |-> "Decoded", cursor |-> Initialize(input, region).cursor, previous |-> No_Tag,
   seen |-> {}, content |-> [initial_variant(lock, t) EXCEPT ![1] = a]]

Next_Payload(lock, t, a, input, before) ==
  IF before.status # "Decoded" \/ At_End(before.cursor) THEN before
  ELSE Read_Member(lock, t, a, input, before, Read_Field_Header(input, before.cursor, before.previous))

Payload_Read(f, top, lock, t, a, input, region) ==
  f = [n \in 0 .. top |->
         IF n = 0 THEN No_Members(lock, t, a, input, region) ELSE Next_Payload(lock, t, a, input, f[n - 1])]

(* The equation of Read_Payload holds of some function. *)
LEMMA PayloadReadExists ==
  ASSUME NEW top \in Nat, NEW lock, NEW t, NEW a, NEW input, NEW region
  PROVE  \E f : Payload_Read(f, top, lock, t, a, input, region)
<1> DEFINE Step(before) == Next_Payload(lock, t, a, input, before)
           Base == No_Members(lock, t, a, input, region)
           G == {m \in 0 .. top : \E f : f = [n \in 0 .. m |-> IF n = 0 THEN Base ELSE Step(f[n - 1])]}
<1> HIDE DEF Step, Base
<1>1. ASSUME NEW m \in 0 .. top, \A k \in 0 .. m - 1 : k \in G
      PROVE  m \in G
  <2>1. CASE m = 0
    <3> DEFINE f == [n \in 0 .. m |-> Base]
    <3>1. f = [n \in 0 .. m |-> IF n = 0 THEN Base ELSE Step(f[n - 1])]
      BY <2>1
    <3> QED
      BY <3>1
  <2>2. CASE m > 0
    <3>1. PICK f : f = [n \in 0 .. m - 1 |-> IF n = 0 THEN Base ELSE Step(f[n - 1])]
      BY <1>1, <2>2
    <3> DEFINE g == [n \in 0 .. m |-> IF n = m THEN Step(f[m - 1]) ELSE f[n]]
    <3>2. ASSUME NEW n \in 0 .. m
          PROVE  g[n] = IF n = 0 THEN Base ELSE Step(g[n - 1])
      <4>1. CASE n = m
        <5>1. g[n] = Step(f[m - 1]) /\ g[n - 1] = f[m - 1]
          BY <2>2, <4>1
        <5> QED
          BY <2>2, <4>1, <5>1
      <4>2. CASE n # m
        <5>1. n \in 0 .. m - 1 /\ g[n] = f[n] /\ (n # 0 => g[n - 1] = f[n - 1])
          BY <4>2
        <5>2. f[n] = IF n = 0 THEN Base ELSE Step(f[n - 1])
          <6> HIDE DEF g
          <6> QED
            BY <3>1, <5>1
        <5> QED
          BY <5>1, <5>2
      <4> QED
        BY <4>1, <4>2
    <3>3. g = [n \in 0 .. m |-> IF n = 0 THEN Base ELSE Step(g[n - 1])]
      BY <3>2
    <3> HIDE DEF g
    <3> QED
      BY <3>3
  <2> QED
    BY <2>1, <2>2
<1> HIDE DEF G
<1>2. top \in G
  <2>1. \A i \in 0 .. top : i \in G
    BY <1>1, AllNumbers, Zenon
  <2> QED
    BY <2>1
<1> QED
  BY <1>2 DEF G, Step, Base, Payload_Read

(* The octets of the members that were seen. *)
Member_Octets(lock, t, a, seen, content) ==
  [m \in seen |-> Scalar_Octets(Member(lock, t, a, m), content[Slot(lock, t, a, m)])]

Payload_State(s) ==
  s = [status |-> s.status, cursor |-> s.cursor, previous |-> s.previous, seen |-> s.seen, content |-> s.content]

(* Some members of a payload have been read.                               *)
Members_So_Far(lock, t, a, input, region, s) ==
  /\ s.status = "Decoded"
  /\ s.cursor \in Cursor_Record /\ Is_Valid(s.cursor, Len(input)) /\ s.cursor.limit = End(region)
  /\ s.previous \in Tag_Number /\ s.seen \subseteq Payload_Tags(lock, t, a)
  /\ s.content \in [1 .. 1 + Cardinality(Members(lock, t)) -> Int] /\ s.content[1] = a
  /\ \A m \in s.seen : ~ scalar_invalid(Member(lock, t, a, m), s.content[Slot(lock, t, a, m)])
  /\ Tags_Laid(input, region.start, s.cursor.next, s.previous, Member_Octets(lock, t, a, s.seen, s.content))

LEMMA NoMembersYet ==
  ASSUME NEW input \in Seq(Octet), NEW region \in Regions, Inside(region, input),
         NEW lock \in Locks, NEW t \in Fields(lock), Field(lock, t).kind = "variant",
         NEW a \in Field(lock, t).tags, NEW s, s = No_Members(lock, t, a, input, region)
  PROVE  Payload_State(s) /\ Members_So_Far(lock, t, a, input, region, s) /\ s.seen = {}
<1> PICK c : c = Initialize(input, region).cursor
  OBVIOUS
<1> PICK n \in Nat : n = Cardinality(Members(lock, t))
  BY MembersArePairs
<1> PICK start : start = initial_variant(lock, t) /\ start \in [1 .. 1 + n -> Int]
  BY StartsAsNumbers
<1> DEFINE content == [start EXCEPT ![1] = a]
<1>1. s = [status |-> "Decoded", cursor |-> c, previous |-> No_Tag, seen |-> {}, content |-> content]
  BY DEF No_Members
<1>2. a \in Int
  <2>1. a \in Field_Tag /\ Field_Tag \subseteq Nat
    BY MemberIsProper, Limits DEF Field_Tag
  <2> QED
    BY <2>1
<1>3. content \in [1 .. 1 + n -> Int] /\ content[1] = a
  <2>1. 1 \in 1 .. 1 + n
    OBVIOUS
  <2> QED
    BY <1>2, <2>1
<1> HIDE DEF content
<1>4. /\ s.status = "Decoded" /\ s.cursor = c /\ s.previous = No_Tag /\ s.seen = {} /\ s.content = content
      /\ Payload_State(s)
  BY <1>1 DEF Payload_State
<1>5. /\ c \in Cursor_Record /\ Is_Valid(c, Len(input)) /\ c.next = region.start /\ c.limit = End(region)
      /\ region.start \in Nat
  BY ExtentCursor
<1>6. region.start <= Len(input)
  BY <1>5, CursorFields DEF Is_Valid
<1>7. Tags_Laid(input, region.start, region.start, No_Tag, Member_Octets(lock, t, a, s.seen, s.content))
  BY <1>4, <1>5, <1>6, NoTags DEF Member_Octets
<1>8. No_Tag \in Tag_Number
  BY Limits DEF Tag_Number, No_Tag
<1> QED
  BY <1>3, <1>4, <1>5, <1>7, <1>8 DEF Members_So_Far

LEMMA MemberReadOn ==
  ASSUME NEW input \in Seq(Octet), NEW region \in Regions, region.start \in Nat,
         NEW lock \in Locks, NEW t \in Fields(lock), Field(lock, t).kind = "variant",
         NEW a \in Field(lock, t).tags,
         NEW before, Payload_State(before), Members_So_Far(lock, t, a, input, region, before), ~ At_End(before.cursor),
         NEW after, after = Next_Payload(lock, t, a, input, before)
  PROVE  /\ Payload_State(after)
         /\ \/ after.status \in Value_Refusals
            \/ /\ Members_So_Far(lock, t, a, input, region, after)
               /\ \E tag : tag \notin before.seen /\ after.seen = before.seen \cup {tag}
<1> PICK header : header = Read_Field_Header(input, before.cursor, before.previous)
  OBVIOUS
<1> PICK n \in Nat : n = Cardinality(Members(lock, t))
  BY MembersArePairs
<1>0. /\ before.status = "Decoded"
      /\ before.cursor \in Cursor_Record /\ Is_Valid(before.cursor, Len(input)) /\ before.cursor.limit = End(region)
      /\ before.previous \in Tag_Number /\ before.seen \subseteq Payload_Tags(lock, t, a)
      /\ before.content \in [1 .. 1 + n -> Int] /\ before.content[1] = a
      /\ \A m \in before.seen : ~ scalar_invalid(Member(lock, t, a, m), before.content[Slot(lock, t, a, m)])
      /\ Tags_Laid(input, region.start, before.cursor.next, before.previous,
                   Member_Octets(lock, t, a, before.seen, before.content))
  BY DEF Members_So_Far
<1>1. after = Read_Member(lock, t, a, input, before, header)
  BY <1>0 DEF Next_Payload
<1>2. ASSUME NEW status, status \in Value_Refusals, after = [before EXCEPT !.status = status]
      PROVE  Payload_State(after) /\ after.status \in Value_Refusals
  BY <1>2 DEF Payload_State
<1>3. CASE header.status # "Read"
  <2>1. after = [before EXCEPT !.status = Map_Read_Error(header.status)]
    BY <1>1, <1>3 DEF Read_Member
  <2> QED
    BY <1>2, <2>1, ErrorsMapped
<1>4. CASE header.status = "Read" /\ header.tag \notin Payload_Tags(lock, t, a)
  <2>1. after = [before EXCEPT !.status = "Noncanonical"]
    BY <1>1, <1>4 DEF Read_Member
  <2> QED
    BY <1>2, <2>1, Zenon DEF Value_Refusals
<1>5. CASE header.status = "Read" /\ header.tag \in Payload_Tags(lock, t, a)
  <2> PICK tag \in Payload_Tags(lock, t, a) : tag = header.tag
    BY <1>5
  <2> PICK inner : inner = header.value
    OBVIOUS
  <2> PICK value : value = Read_Scalar(Member(lock, t, a, tag), input, inner)
    OBVIOUS
  <2>1. after = Member_Taken(lock, t, a, before, header, value)
    BY <1>1, <1>5 DEF Read_Member
  <2>2. /\ tag \in Field_Tag /\ tag > before.previous /\ header.previous = tag /\ inner \in Regions
        /\ header.cursor \in Cursor_Record /\ Is_Valid(header.cursor, Len(input))
        /\ header.cursor.limit = End(region) /\ header.cursor.next = End(inner)
        /\ \A x : Spans(input, inner.start, End(inner), x)
                     => Spans(input, before.cursor.next, header.cursor.next, Digits(tag) \o Delimited(x))
    BY <1>0, <1>5, HeaderTaken
  <2>3. Member(lock, t, a, tag).kind \in Scalars /\ <<a, tag>> \in Members(lock, t)
    BY MemberIsProper
  <2>4. \/ value.status \in Value_Refusals
        \/ Number_Taken(Member(lock, t, a, tag), input, inner, value)
    <3>1. Member(lock, t, a, tag).kind \in Simple
      BY <2>3 DEF Simple
    <3> QED
      BY <2>2, <3>1, ScalarRead
  <2>5. CASE value.status \in Value_Refusals
    <3>1. value.status # "Decoded"
      BY <2>5 DEF Value_Refusals
    <3>2. after = [before EXCEPT !.status = value.status]
      BY <2>1, <3>1 DEF Member_Taken
    <3> QED
      BY <1>2, <2>5, <3>2
  <2>6. CASE Number_Taken(Member(lock, t, a, tag), input, inner, value)
    <3> PICK number \in Int : /\ value = Taken(<<number>>)
                              /\ ~ scalar_invalid(Member(lock, t, a, tag), number)
                              /\ Spans(input, inner.start, End(inner), Scalar_Octets(Member(lock, t, a, tag), number))
      BY <2>3, <2>6 DEF Number_Taken
    <3>1. value.status = "Decoded" /\ value.content[1] = number
      BY DEF Taken
    <3> PICK slot \in 2 .. 1 + n : slot = Slot(lock, t, a, tag)
      BY SlotIsAnIndex
    <3> DEFINE content == [before.content EXCEPT ![slot] = number]
    <3>2. after = [status |-> "Decoded", cursor |-> header.cursor, previous |-> tag,
                   seen |-> before.seen \cup {tag}, content |-> content]
      BY <2>1, <2>2, <3>1, Zenon DEF Member_Taken
    <3>3. /\ content \in [1 .. 1 + n -> Int] /\ content[1] = a /\ content[slot] = number
          /\ \A i \in 1 .. 1 + n : i # slot => content[i] = before.content[i]
      <4>1. before.content \in [1 .. 1 + n -> Int] /\ before.content[1] = a
        BY <1>0, Zenon
      <4>3. 1 + n \in Nat
        OBVIOUS
      <4>2. content = [before.content EXCEPT ![slot] = number]
        OBVIOUS
      <4> HIDE DEF content
      <4> QED
        BY <4>1, <4>2, <4>3, ReplacedAt, SMTT(60)
    <3> HIDE DEF content
    <3>4. /\ Payload_State(after) /\ after.status = "Decoded" /\ after.cursor = header.cursor /\ after.previous = tag
          /\ after.seen = before.seen \cup {tag} /\ after.content = content
      BY <3>2 DEF Payload_State
    <3>5. DOMAIN Member_Octets(lock, t, a, before.seen, before.content) = before.seen
      BY DEF Member_Octets
    <3>6. tag \notin before.seen
      <4>1. before.seen \subseteq 1 .. before.previous
        BY <1>0, <3>5, Zenon DEF Tags_Laid
      <4>2. before.previous \in Nat
        BY <1>0, Limits DEF Tag_Number
      <4> PICK last \in Nat : last = before.previous
        BY <4>2
      <4>3. tag > last
        BY <2>2
      <4>4. tag \in Nat
        BY <2>2, Limits DEF Field_Tag
      <4>5. tag \notin 1 .. last
        BY <4>3, <4>4
      <4> QED
        BY <4>1, <4>5, Zenon
    <3>7. ASSUME NEW m \in before.seen
          PROVE  content[Slot(lock, t, a, m)] = before.content[Slot(lock, t, a, m)]
      <4>1. m \in Payload_Tags(lock, t, a) /\ m # tag
        BY <1>0, <3>6, Zenon
      <4>2. Slot(lock, t, a, m) \in 2 .. 1 + n /\ <<a, m>> \in Members(lock, t)
        BY <4>1, SlotIsAnIndex, MemberIsProper
      <4>3. Slot(lock, t, a, m) # slot
        <5> SUFFICES ASSUME Slot(lock, t, a, m) = slot
                     PROVE  <<a, m>> = <<a, tag>>
          BY <4>1
        <5> PICK o \in Members(lock, t), p \in Members(lock, t) : o = <<a, m>> /\ p = <<a, tag>>
          BY <2>3, <4>2
        <5>1. o[1] = a /\ o[2] = m /\ p[1] = a /\ p[2] = tag
          OBVIOUS
        <5>2. Slot(lock, t, o[1], o[2]) = Slot(lock, t, p[1], p[2])
          BY <5>1
        <5>3. o = p
          BY <5>2, SlotsDiffer
        <5> QED
          BY <5>3
      <4> QED
        BY <3>3, <4>2, <4>3
    <3>8. \A m \in after.seen : ~ scalar_invalid(Member(lock, t, a, m), after.content[Slot(lock, t, a, m)])
      BY <1>0, <3>3, <3>4, <3>7, Zenon
    <3> DEFINE old == Member_Octets(lock, t, a, before.seen, before.content)
               new == Member_Octets(lock, t, a, after.seen, after.content)
    <3>9. /\ DOMAIN new = DOMAIN old \cup {tag} /\ DOMAIN old = before.seen
          /\ new[tag] = Scalar_Octets(Member(lock, t, a, tag), number)
          /\ \A m \in DOMAIN old : new[m] = old[m]
      BY <3>3, <3>4, <3>7 DEF Member_Octets
    <3> PICK x : x = Scalar_Octets(Member(lock, t, a, tag), number)
      OBVIOUS
    <3>10. Spans(input, before.cursor.next, header.cursor.next, Digits(tag) \o Delimited(x))
      BY <2>2, Zenon
    <3>11. /\ before.cursor.next \in Nat /\ before.previous \in Nat /\ header.cursor.next \in Nat
           /\ header.cursor.next <= Len(input)
      <4>1. before.cursor.next \in Nat
        BY <1>0, CursorFields, Zenon
      <4>2. before.previous \in Nat
        BY <1>0, Limits DEF Tag_Number
      <4> PICK d \in Cursor_Record : d = header.cursor
        BY <2>2
      <4>3. d.next \in Nat /\ d.limit \in Nat /\ d.next <= d.limit /\ d.limit <= Len(input)
        BY <2>2, CursorFields, Zenon DEF Is_Valid
      <4>4. d.next <= Len(input)
        BY <4>3
      <4> QED
        BY <4>1, <4>2, <4>3, <4>4
    <3>12. Tags_Laid(input, region.start, before.cursor.next, before.previous, old)
      BY <1>0
    <3> HIDE DEF old, new
    <3>13. Tags_Laid(input, region.start, header.cursor.next, tag, new)
      BY <2>2, <3>9, <3>10, <3>11, <3>12, OneTagMore, ZenonT(60)
    <3>14. tag \in Tag_Number
      BY <2>2, Limits DEF Field_Tag, Tag_Number
    <3>15. Members_So_Far(lock, t, a, input, region, after)
      BY <1>0, <2>2, <3>3, <3>4, <3>8, <3>13, <3>14, Zenon DEF Members_So_Far, new
    <3> QED
      BY <3>4, <3>6, <3>15
  <2> QED
    BY <2>4, <2>5, <2>6
<1> QED
  BY <1>3, <1>4, <1>5

Payload_Octets(lock, t, a, content) ==
  Tagged_Octets(Payload_Tags(lock, t, a),
                LAMBDA m : Scalar_Octets(Member(lock, t, a, m), content[Slot(lock, t, a, m)]))

LEMMA PayloadRead ==
  ASSUME NEW input \in Seq(Octet), NEW region \in Regions,
         NEW lock \in Locks, NEW t \in Fields(lock), Field(lock, t).kind = "variant",
         NEW a \in Field(lock, t).tags,
         NEW result, result = Read_Payload(lock, t, a, input, region)
  PROVE  \/ result.status \in Value_Refusals
         \/ /\ result.status = "Decoded" /\ Inside(region, input)
            /\ Valid_Content(lock, t, result.content) /\ result.content[1] = a
            /\ Spans(input, region.start, End(region), Payload_Octets(lock, t, a, result.content))
<1> PICK tags : tags = Payload_Tags(lock, t, a)
  OBVIOUS
<1>1. IsFiniteSet(tags) /\ tags \subseteq Field_Tag
  <2>1. tags \subseteq Field_Tag
    BY MemberIsProper
  <2>2. IsFiniteSet(Field_Tag)
    BY Limits, FS_Interval DEF Field_Tag
  <2>3. tags \in SUBSET Field_Tag
    BY <2>1
  <2> QED
    BY <2>2, <2>3, FS_Subset
<1> PICK count \in Nat : count = Cardinality(tags)
  BY <1>1, FS_CardinalityType
<1> DEFINE f == CHOOSE g : Payload_Read(g, count + 1, lock, t, a, input, region)
<1>2. Payload_Read(f, count + 1, lock, t, a, input, region)
  BY PayloadReadExists
<1>3. result = IF Inside(region, input) THEN Members_Taken(tags, f[count + 1]) ELSE Turned_Down("Malformed")
  BY DEF Read_Payload, Payload_Read, No_Members, Next_Payload
<1> HIDE DEF f
<1>4. CASE ~ Inside(region, input)
  BY <1>3, <1>4 DEF Turned_Down, Value_Refusals
<1>5. CASE Inside(region, input)
  <2>0. region.start \in Nat /\ End(region) \in Nat /\ region.start <= Len(input)
    <3> PICK c : c = Initialize(input, region).cursor
      OBVIOUS
    <3>1. c \in Cursor_Record /\ Is_Valid(c, Len(input)) /\ c.next = region.start /\ region.start \in Nat /\ End(region) \in Nat
      BY <1>5, ExtentCursor
    <3> QED
      BY <3>1, CursorFields DEF Is_Valid
  <2> DEFINE Good(n, s) == /\ Members_So_Far(lock, t, a, input, region, s)
                           /\ At_End(s.cursor) \/ Cardinality(s.seen) = n
             G == {n \in 0 .. count + 1 : Payload_State(f[n]) /\ (f[n].status \in Value_Refusals \/ Good(n, f[n]))}
  <2> HIDE DEF Good, G
  <2>1. ASSUME NEW n \in 0 .. count + 1, \A k \in 0 .. n - 1 : k \in G
        PROVE  n \in G
    <3>1. CASE n = 0
      <4>1. f[0] = No_Members(lock, t, a, input, region)
        BY <1>2 DEF Payload_Read
      <4>2. /\ Payload_State(f[0]) /\ Members_So_Far(lock, t, a, input, region, f[0]) /\ f[0].seen = {}
        BY <1>5, <4>1, NoMembersYet
      <4>3. Cardinality(f[0].seen) = 0
        BY <4>2, FS_EmptySet
      <4> QED
        BY <3>1, <4>2, <4>3, Zenon DEF G, Good
    <3>2. CASE n > 0
      <4> PICK below \in 0 .. n - 1 : below = n - 1
        BY <3>2
      <4> PICK before, after : before = f[below] /\ after = f[n]
        OBVIOUS
      <4>1. after = Next_Payload(lock, t, a, input, before)
        BY <1>2, <3>2 DEF Payload_Read
      <4>2. Payload_State(before) /\ (before.status \in Value_Refusals \/ Good(below, before))
        BY <2>1 DEF G
      <4>3. CASE before.status \in Value_Refusals
        <5>1. after = before
          BY <4>1, <4>3 DEF Next_Payload, Value_Refusals
        <5> QED
          BY <4>2, <4>3, <5>1, Zenon DEF G
      <4>4. CASE Good(below, before) /\ At_End(before.cursor)
        <5>1. after = before
          BY <4>1, <4>4 DEF Next_Payload
        <5> QED
          BY <4>2, <4>4, <5>1, Zenon DEF G, Good
      <4>5. CASE Good(below, before) /\ ~ At_End(before.cursor)
        <5>1. /\ Payload_State(after)
              /\ \/ after.status \in Value_Refusals
                 \/ /\ Members_So_Far(lock, t, a, input, region, after)
                    /\ \E tag : tag \notin before.seen /\ after.seen = before.seen \cup {tag}
          BY <2>0, <4>1, <4>2, <4>5, MemberReadOn DEF Good
        <5>2. CASE after.status \in Value_Refusals
          BY <5>1, <5>2 DEF G
        <5>3. CASE Members_So_Far(lock, t, a, input, region, after)
                   /\ \E tag : tag \notin before.seen /\ after.seen = before.seen \cup {tag}
          <6>1. IsFiniteSet(before.seen) /\ Cardinality(before.seen) = below
            <7>1. before.seen \in SUBSET tags
              BY <4>5 DEF Good, Members_So_Far
            <7> QED
              BY <1>1, <4>5, <7>1, FS_Subset DEF Good
          <6>2. Cardinality(after.seen) = below + 1
            BY <5>3, <6>1, FS_AddElement, ZenonT(60)
          <6>3. below + 1 = n
            BY <3>2
          <6> QED
            BY <5>1, <5>3, <6>2, <6>3, Zenon DEF G, Good
        <5> QED
          BY <5>1, <5>2, <5>3
      <4> QED
        BY <4>2, <4>3, <4>4, <4>5
    <3> QED
      BY <3>1, <3>2
  <2>2. count + 1 \in G
    <3> PICK top \in Nat : top = count + 1
      OBVIOUS
    <3>1. \A n \in 0 .. top : (\A k \in 0 .. n - 1 : k \in G) => n \in G
      BY <2>1
    <3>2. \A n \in 0 .. top : n \in G
      BY <3>1, AllNumbers, Zenon
    <3> QED
      BY <3>2
  <2> PICK s : s = f[count + 1]
    OBVIOUS
  <2>3. s.status \in Value_Refusals \/ Good(count + 1, s)
    BY <2>2 DEF G
  <2>4. result = Members_Taken(tags, s)
    BY <1>3, <1>5
  <2>5. CASE s.status \in Value_Refusals
    BY <2>4, <2>5 DEF Members_Taken, Turned_Down, Value_Refusals
  <2>6. CASE Good(count + 1, s) /\ s.seen # tags
    BY <2>4, <2>6 DEF Members_Taken, Turned_Down, Value_Refusals, Good, Members_So_Far
  <2>7. CASE Good(count + 1, s) /\ s.seen = tags
    <3>1. /\ s.status = "Decoded" /\ s.cursor \in Cursor_Record /\ Is_Valid(s.cursor, Len(input))
          /\ s.cursor.limit = End(region) /\ s.previous \in Tag_Number
          /\ s.content \in [1 .. 1 + Cardinality(Members(lock, t)) -> Int] /\ s.content[1] = a
          /\ \A m \in tags : ~ scalar_invalid(Member(lock, t, a, m), s.content[Slot(lock, t, a, m)])
          /\ Tags_Laid(input, region.start, s.cursor.next, s.previous, Member_Octets(lock, t, a, tags, s.content))
      BY <2>7 DEF Good, Members_So_Far
    <3>2. result.status = "Decoded" /\ result.content = s.content
      BY <2>4, <2>7, <3>1 DEF Members_Taken, Taken
    <3>3. At_End(s.cursor)
      <4>1. Cardinality(s.seen) # count + 1
        BY <2>7
      <4> QED
        BY <2>7, <4>1 DEF Good
    <3>4. s.cursor.next = End(region)
      BY <3>1, <3>3 DEF At_End
    <3>5. Spans(input, region.start, End(region),
                Joined(Tagged_Parts(Member_Octets(lock, t, a, tags, s.content)), MaxFieldTag))
      BY <2>0, <3>1, <3>4, TagsJoined
    <3>6. Tagged_Parts(Member_Octets(lock, t, a, tags, s.content))
            = [k \in 1 .. MaxFieldTag |->
                 IF k \in tags THEN Digits(k) \o Delimited(Scalar_Octets(Member(lock, t, a, k), s.content[Slot(lock, t, a, k)]))
                 ELSE <<>>]
      BY DEF Tagged_Parts, Member_Octets
    <3>7. Payload_Octets(lock, t, a, s.content)
            = Joined(Tagged_Parts(Member_Octets(lock, t, a, tags, s.content)), MaxFieldTag)
      BY <3>6 DEF Payload_Octets, Tagged_Octets
    <3>8. Valid_Content(lock, t, s.content)
      <4> PICK n \in Nat : n = Cardinality(Members(lock, t))
        BY MembersArePairs
      <4> PICK content : content = s.content
        OBVIOUS
      <4>1. content \in [1 .. 1 + n -> Int] /\ content[1] = a
        BY <3>1
      <4>2. content \in Seq(Int) /\ Len(content) = 1 + n
        BY <4>1, LengthOf, SMTT(60)
      <4>3. Component(lock, t, content)
        BY <4>2 DEF Component, Scalars
      <4> QED
        BY <3>1, <4>1, <4>3 DEF Valid_Content, Scalars
    <3> QED
      BY <1>5, <3>1, <3>2, <3>5, <3>7, <3>8
  <2> QED
    BY <2>3, <2>5, <2>6, <2>7
<1> QED
  BY <1>4, <1>5

(* A payload behind its alternative, the extent around it, is the variant's. *)
LEMMA AlternativeTaken ==
  ASSUME NEW input \in Seq(Octet), NEW region, NEW inner \in Regions, Inside(region, input),
         NEW lock, NEW t \in Fields(lock), Field(lock, t).kind = "variant",
         Field(lock, t).presence = "required",
         NEW a, NEW middle \in Nat, Spans(input, region.start, middle, Digits(a)),
         HoldsExtent(input, middle, inner), End(inner) = End(region),
         NEW content, Valid_Content(lock, t, content), content[1] = a,
         Spans(input, inner.start, End(inner), Payload_Octets(lock, t, a, content)),
         NEW result, result.status = "Decoded", result.content = content
  PROVE  Value_Taken(lock, t, input, region, result)
<1> PICK octets : octets = Payload_Octets(lock, t, a, content)
  OBVIOUS
<1>1. Spans(input, middle, End(region), Delimited(octets))
  BY DelimitedSpan
<1>2. Spans(input, region.start, End(region), Digits(a) \o Delimited(octets))
  BY <1>1, SpansJoin, Zenon
<1>3. Value_Octets(lock, t, content) = Digits(content[1]) \o Delimited(Payload_Octets(lock, t, content[1], content))
  BY Zenon DEF Value_Octets, Payload_Octets
<1>4. Value_Octets(lock, t, content) = Digits(a) \o Delimited(octets)
  BY <1>3
<1>5. Sendable(lock, t, content)
  BY DEF Sendable
<1> QED
  BY <1>2, <1>4, <1>5, Zenon DEF Value_Taken

LEMMA VariantRead ==
  ASSUME NEW input \in Seq(Octet), NEW region \in Regions,
         NEW lock \in Locks, NEW t \in Fields(lock), Field(lock, t).kind = "variant",
         NEW result, result = Read_Variant(lock, t, input, region)
  PROVE  \/ result.status \in Value_Refusals
         \/ Value_Taken(lock, t, input, region, result)
<1> PICK c : c = Initialize(input, region).cursor
  OBVIOUS
<1> PICK tag : tag = Read_Unsigned(input, c)
  OBVIOUS
<1> PICK extent : extent = Read_Length_Delimited(input, tag.cursor)
  OBVIOUS
<1>1. result = IF Inside(region, input) THEN Read_Alternative(lock, t, input, tag, extent) ELSE Turned_Down("Malformed")
  BY DEF Read_Variant
<1>2. CASE \/ ~ Inside(region, input) \/ tag.status # "Read" \/ extent.status # "Read" \/ ~ At_End(extent.cursor)
           \/ tag.value \notin Field(lock, t).tags
  BY <1>1, <1>2, ErrorsMapped DEF Read_Alternative, Turned_Down, Value_Refusals
<1>3. CASE /\ Inside(region, input) /\ tag.status = "Read" /\ extent.status = "Read" /\ At_End(extent.cursor)
           /\ tag.value \in Field(lock, t).tags
  <2> PICK a \in Field(lock, t).tags : a = tag.value
    BY <1>3
  <2>1. /\ c \in Cursor_Record /\ Is_Valid(c, Len(input)) /\ c.next = region.start /\ c.limit = End(region)
        /\ region.start \in Nat /\ End(region) \in Nat /\ End(region) <= Len(input)
    BY <1>3, ExtentCursor
  <2>2. Takes(input, c, a, 0, tag)
    <3>1. ReadRefused(c, tag) \/ Takes(input, c, a, 0, tag)
      BY <2>1, UnsignedRead
    <3> QED
      BY <1>3, <3>1 DEF ReadRefused, Read_Refusal
  <2>3. a \in Unsigned /\ Encodes(input, c.next, a)
    BY <2>2 DEF Takes
  <2> PICK size \in Nat : size = Unsigned_Size(a)
    BY <2>3, SizeOfUnsigned
  <2>4. size <= c.limit - c.next /\ tag.cursor = [first |-> c.first, next |-> c.next + size, limit |-> c.limit]
    <3>1. size + 0 <= Remaining(c) /\ tag.cursor = Advance(c, size + 0) /\ size + 0 = size
      BY <2>2 DEF Takes
    <3> QED
      BY <2>1, <3>1, CursorFields
  <2>5. c.first \in Nat /\ c.next \in Nat /\ c.limit \in Nat /\ c.next + size \in Nat
    BY <2>1, CursorFields
  <2>6. tag.cursor \in Cursor_Record /\ Is_Valid(tag.cursor, Len(input))
    BY <2>1, <2>4, <2>5 DEF Cursor_Record, Is_Valid
  <2>7. Spans(input, region.start, region.start + size, Digits(a))
    <3>1. region.start + size <= Len(input)
      BY <2>1, <2>4
    <3> QED
      BY <2>1, <2>3, <3>1, DigitsSpan
  <2>8. TakesExtent(input, tag.cursor, extent)
    <3>1. ReadRefused(tag.cursor, extent) \/ TakesExtent(input, tag.cursor, extent)
      BY <2>6, ExtentRead DEF Read_Length_Delimited
    <3> QED
      BY <1>3, <3>1 DEF ReadRefused, Read_Refusal
  <2> PICK inner \in Regions : inner = extent.value
    BY <2>8 DEF TakesExtent
  <2>9. HoldsExtent(input, region.start + size, inner) /\ extent.cursor = Cursor(c.first, End(inner), c.limit)
    BY <2>1, <2>4, <2>8 DEF TakesExtent, MovedTo
  <2>10. End(inner) = End(region)
    BY <1>3, <2>1, <2>9 DEF At_End, Cursor
  <2> PICK payload : payload = Read_Payload(lock, t, a, input, inner)
    OBVIOUS
  <2>11. result = payload
    BY <1>1, <1>3 DEF Read_Alternative
  <2>12. CASE payload.status \in Value_Refusals
    BY <2>11, <2>12
  <2>13. CASE /\ payload.status = "Decoded" /\ Inside(inner, input)
              /\ Valid_Content(lock, t, payload.content) /\ payload.content[1] = a
              /\ Spans(input, inner.start, End(inner), Payload_Octets(lock, t, a, payload.content))
    <3> PICK content : content = payload.content
      BY Zenon
    <3>1. /\ result.status = "Decoded" /\ result.content = content
          /\ Valid_Content(lock, t, content) /\ content[1] = a
          /\ Spans(input, inner.start, End(inner), Payload_Octets(lock, t, a, content))
      BY <2>11, <2>13, Zenon
    <3>2. HoldsExtent(input, region.start + size, inner)
      BY <2>9, Zenon
    <3>3. region.start + size \in Nat
      BY <2>1
    <3>4. Field(lock, t).presence = "required"
      BY FieldIsProper, Zenon DEF Scalars
    <3> QED
      BY <1>3, <2>7, <2>10, <3>1, <3>2, <3>3, <3>4, AlternativeTaken, Zenon
  <2> QED
    BY <2>12, <2>13, PayloadRead
<1> QED
  BY <1>2, <1>3

-----------------------------------------------------------------------------

(***************************************************************************)
(* Reading any field: what is taken is valid, would be written, and has    *)
(* the octets of its extent.                                               *)
(***************************************************************************)
LEMMA ValueRead ==
  ASSUME NEW input \in Seq(Octet), NEW region \in Regions, NEW lock \in Locks, NEW t \in Fields(lock),
         NEW result, result = Read_Value(lock, t, input, region)
  PROVE  \/ result.status \in Value_Refusals
         \/ Value_Taken(lock, t, input, region, result)
<1> PICK field : field = Field(lock, t)
  OBVIOUS
<1>1. /\ Proper(field) /\ field.kind \in Simple \cup {"bytes", "sequence", "variant"}
      /\ field.kind \notin Scalars => field.presence = "required"
  BY FieldIsProper, Zenon
<1>2. field.kind \in {"bytes", "sequence"} => field.minimum \in Nat /\ field.maximum \in Nat
  <2>1. field.minimum \in Int /\ field.maximum \in Int /\ field.minimum <= field.maximum
    BY <1>1 DEF Proper, Value, Bounded
  <2>2. field.kind \in {"bytes", "sequence"} => field.minimum >= 0
    BY <1>1 DEF Proper, Bounded
  <2> QED
    BY <2>1, <2>2
<1>3. CASE field.kind = "enumeration"
  <2>1. result = Read_Enumeration(field, input, region)
    BY <1>3 DEF Read_Value
  <2>2. field.presence = "required"
    BY <1>1, <1>3 DEF Scalars
  <2> QED
    BY <1>3, <2>1, <2>2, EnumerationRead
<1>4. CASE field.kind = "bytes"
  <2>1. result = Read_Bytes(field, input, region)
    BY <1>4 DEF Read_Value
  <2>2. field.presence = "required"
    BY <1>1, <1>4 DEF Scalars
  <2> QED
    BY <1>2, <1>4, <2>1, <2>2, BytesRead
<1>5. CASE field.kind = "sequence"
  <2>1. result = Read_Sequence(field, Element(lock, t), input, region)
    BY <1>5 DEF Read_Value
  <2>2. field.presence = "required"
    BY <1>1, <1>5 DEF Scalars
  <2>3. Element(lock, t).kind \in Scalars
    BY <1>5, ExchangeAssumption DEF validate_binding
  <2> QED
    BY <1>2, <1>5, <2>1, <2>2, <2>3, SequenceRead
<1>6. CASE field.kind = "variant"
  <2>1. result = Read_Variant(lock, t, input, region)
    BY <1>6 DEF Read_Value
  <2> QED
    BY <1>6, <2>1, VariantRead
<1>7. CASE field.kind \in Scalars
  <2>1. result = Read_Scalar_Field(field, input, region)
    BY <1>7 DEF Read_Value, Scalars
  <2> QED
    BY <1>7, <2>1, ScalarFieldRead
<1> QED
  BY <1>1, <1>3, <1>4, <1>5, <1>6, <1>7 DEF Simple

-----------------------------------------------------------------------------

(***************************************************************************)
(* Measuring what is valid: it has a size, or one that overflows.          *)
(***************************************************************************)
Valid_Item(lock, item) ==
  DOMAIN item = Fields(lock) /\ \A t \in Fields(lock) : Valid_Content(lock, t, item[t])

LEMMA SequenceSizing ==
  ASSUME NEW lock, NEW t, NEW content \in Seq(Int), Field(lock, t).kind = "sequence", Valid_Content(lock, t, content)
  PROVE  Measure_Sequence(lock, t, content).status \in Sizings
<1> DEFINE sum == CHOOSE f : Element_Sum(f, Len(content), lock, t, content)
<1>1. Len(content) \in Nat
  OBVIOUS
<1>2. Element_Sum(sum, Len(content), lock, t, content)
  BY <1>1, ElementSumExists
<1>3. Measure_Sequence(lock, t, content) = sum[Len(content)]
  BY DEF Measure_Sequence, Element_Sum, Next_Sum, Valid_Content
<1>4. \A i \in 1 .. Len(content) : ~ scalar_invalid(Element(lock, t), content[i])
  BY DEF Valid_Content
<1> HIDE DEF sum
<1> DEFINE G == {i \in 0 .. Len(content) : sum[i].status \in Sizings}
<1> HIDE DEF G
<1>5. ASSUME NEW i \in 0 .. Len(content), \A k \in 0 .. i - 1 : k \in G
      PROVE  i \in G
  <2>1. CASE i = 0
    <3>1. sum[0] = Sized(Unsigned_Size(Len(content)))
      BY <1>1, <1>2 DEF Element_Sum
    <3> QED
      BY <2>1, <3>1 DEF G, Sized, Sizings
  <2>2. CASE i > 0
    <3>1. i - 1 \in 0 .. i - 1 /\ i - 1 \in 0 .. Len(content) /\ i # 0 /\ i \in 1 .. Len(content)
      BY <2>2
    <3>2. sum[i - 1].status \in Sizings
      BY <1>5, <3>1 DEF G
    <3>3. sum[i] = Next_Sum(lock, t, content, sum[i - 1], i)
      BY <1>2, <3>1, Zenon DEF Element_Sum
    <3>4. ~ scalar_invalid(Element(lock, t), content[i])
      BY <1>4, <3>1
    <3>5. sum[i].status \in Sizings
      BY <3>2, <3>3, <3>4, AccumulatedSizing DEF Next_Sum
    <3> QED
      BY <3>5 DEF G
  <2> QED
    BY <2>1, <2>2
<1>6. Len(content) \in G
  <2>1. \A i \in 0 .. Len(content) : (\A k \in 0 .. i - 1 : k \in G) => i \in G
    BY <1>5
  <2>2. \A i \in 0 .. Len(content) : i \in G
    BY <1>1, <2>1, AllNumbers, Zenon
  <2> QED
    BY <1>1, <2>2
<1> QED
  BY <1>3, <1>6 DEF G

LEMMA ValueSizing ==
  ASSUME NEW lock \in Locks, NEW t \in Fields(lock), NEW content, Valid_Content(lock, t, content)
  PROVE  Measure_Value(lock, t, content).status \in Sizings
<1>0. content \in Seq(Int)
  BY DEF Valid_Content, Component
<1>1. CASE Field(lock, t).kind = "sequence"
  BY <1>0, <1>1, SequenceSizing DEF Measure_Value
<1>2. CASE Field(lock, t).kind = "variant"
  <2> PICK payload : payload = Measure_Payload(lock, t, content)
    OBVIOUS
  <2>1. payload.status \in Sizings
    <3> DEFINE sizes == Member_Sizes(lock, t, content)
    <3>1. \A m \in DOMAIN sizes : sizes[m].status \in Sizings
      BY DEF Member_Sizes, Sized, Sizings
    <3> HIDE DEF sizes
    <3>2. Measure_Fields(sizes).status \in Sizings
      BY <3>1, FieldsStatus
    <3>3. payload = Measure_Fields(sizes)
      BY <1>2 DEF Measure_Payload, sizes, Member_Sizes, Valid_Content
    <3> QED
      BY <3>2, <3>3
  <2>2. Measure_Value(lock, t, content) = With_Payload(content[1], payload)
    BY <1>2 DEF Measure_Value, Measure_Variant
  <2> QED
    BY <2>1, <2>2, AccumulatedSizing DEF With_Payload
<1>3. CASE Field(lock, t).kind \in Simple \cup {"bytes"}
  BY <1>3 DEF Measure_Value, Simple, Scalars, Sized, Sizings
<1> QED
  BY <1>1, <1>2, <1>3, FieldIsProper, Zenon

(* What a codec decoded it does not refuse as invalid.                     *)
LEMMA MeasureSizing ==
  ASSUME NEW lock \in Locks, NEW item, Valid_Item(lock, item)
  PROVE  Measure(lock, item).status # "Invalid_Value"
<1> DEFINE sizes == Field_Sizes(lock, item)
<1>1. ASSUME NEW t \in Fields(lock)
      PROVE  ~ Invalid_Field(lock, item, t)
  BY DEF Invalid_Field, Valid_Item, Valid_Content, Scalars
<1>2. Measure(lock, item) = Measure_Fields(sizes)
  BY <1>1 DEF Measure, Field_Sizes
<1>3. \A t \in DOMAIN sizes : sizes[t].status \in Sizings
  BY ValueSizing DEF Field_Sizes, Included, Valid_Item
<1> HIDE DEF sizes
<1> QED
  BY <1>2, <1>3, FieldsStatus, Zenon DEF Sizings

-----------------------------------------------------------------------------

(***************************************************************************)
(* Items: what is in a record before anything was read, and what is valid. *)
(***************************************************************************)
Fits(lock, t, content) ==
  /\ Component(lock, t, content)
  /\ Field(lock, t).kind \in {"bytes", "sequence"} => Len(content) <= Field(lock, t).maximum

Item_Fits(lock, item) == DOMAIN item = Fields(lock) /\ \A t \in Fields(lock) : Fits(lock, t, item[t])

LEMMA ValidFits ==
  ASSUME NEW lock \in Locks, NEW t \in Fields(lock), NEW content, Valid_Content(lock, t, content)
  PROVE  Fits(lock, t, content)
<1>1. Component(lock, t, content)
  BY DEF Valid_Content
<1>2. CASE Field(lock, t).kind \in {"bytes", "sequence"}
  <2>1. Proper(Field(lock, t))
    BY FieldIsProper, Zenon
  <2> PICK low \in Int, high \in Int : low = Field(lock, t).minimum /\ high = Field(lock, t).maximum
    BY <2>1 DEF Proper, Value
  <2>2. Len(content) \in low .. high
    BY <1>2 DEF Valid_Content
  <2> QED
    BY <1>1, <2>2 DEF Fits
<1> QED
  BY <1>1, <1>2 DEF Fits

(* The bounds of a field. *)
LEMMA FieldBounds ==
  ASSUME NEW lock \in Locks, NEW t \in Fields(lock)
  PROVE  /\ Field(lock, t).minimum \in Int /\ Field(lock, t).maximum \in Int
         /\ Field(lock, t).minimum <= Field(lock, t).maximum
         /\ Field(lock, t).kind \in {"bytes", "sequence"} => Field(lock, t).minimum >= 0
         /\ Field(lock, t).tags \subseteq Nat
         /\ Field(lock, t).kind = "enumeration" => Field(lock, t).tags # {}
         /\ Field(lock, t).presence \in Presence /\ Field(lock, t).default \in Int
         /\ Field(lock, t).presence = "defaulted" /\ Field(lock, t).kind \in Scalars
              => Field(lock, t).default \in Field(lock, t).minimum .. Field(lock, t).maximum
<1> PICK field : field = Field(lock, t)
  OBVIOUS
<1>1. Proper(field) /\ <<t>> \in DOMAIN lock.root
  BY FieldIsProper
<1>2. /\ field.minimum \in Int /\ field.maximum \in Int /\ field.tags \subseteq Nat
      /\ field.presence \in Presence /\ field.default \in Int
  BY <1>1 DEF Proper, Value
<1>3. field.minimum <= field.maximum /\ (field.kind \in {"bytes", "sequence"} => field.minimum >= 0)
  BY <1>1 DEF Proper, Bounded
<1>4. field.kind = "enumeration" => field.tags # {}
  BY <1>1 DEF Proper, Tagged
<1>5. field.presence = "defaulted" /\ field.kind \in Scalars => field.default \in field.minimum .. field.maximum
  BY <1>1, Places DEF Placed, Scalars, Field
<1> QED
  BY <1>2, <1>3, <1>4, <1>5

LEMMA OneFits ==
  ASSUME NEW lock, NEW t, Field(lock, t).kind \in Simple, NEW n \in Int
  PROVE  Fits(lock, t, <<n>>)
<1>1. <<n>> \in Seq(Int) /\ Len(<<n>>) = 1
  OBVIOUS
<1>2. Field(lock, t).kind \notin {"bytes", "sequence", "variant"}
  BY DEF Simple, Scalars
<1> QED
  BY <1>1, <1>2 DEF Fits, Component

LEMMA ManyFit ==
  ASSUME NEW lock, NEW t, Field(lock, t).kind \in {"bytes", "sequence"},
         Field(lock, t).minimum \in Nat, Field(lock, t).maximum \in Int,
         Field(lock, t).minimum <= Field(lock, t).maximum,
         NEW v \in Int, Field(lock, t).kind = "bytes" => v = 0,
         NEW content, content = [i \in 1 .. Field(lock, t).minimum |-> v]
  PROVE  Fits(lock, t, content)
<1> PICK n \in Nat : n = Field(lock, t).minimum
  OBVIOUS
<1>1. content \in [1 .. n -> Int] /\ (v = 0 => content \in [1 .. n -> Octet])
  <2>1. 0 \in Octet
    BY Limits DEF Octet
  <2> QED
    BY <2>1
<1>2. content \in Seq(Int) /\ Len(content) = n /\ (v = 0 => content \in Seq(Octet))
  BY <1>1, LengthOf, SMTT(60)
<1> QED
  BY <1>2 DEF Fits, Component, Scalars

Failure_Content(lock, t) ==
  LET field == Field(lock, t)
  IN  CASE field.presence = "optional" -> <<>>
        [] field.kind = "enumeration"  -> <<Min(field.tags)>>
        [] field.kind = "bytes"        -> [i \in 1 .. field.minimum |-> 0]
        [] field.kind = "sequence"     -> [i \in 1 .. field.minimum |-> scalar_initial_value(Element(lock, t))]
        [] field.kind = "variant"      -> initial_variant(lock, t)
        [] OTHER                       -> <<scalar_initial_value(field)>>

LEMMA FailureContents ==
  ASSUME NEW lock
  PROVE  /\ DOMAIN failure_value(lock) = Fields(lock)
         /\ \A t \in Fields(lock) : failure_value(lock)[t] = Failure_Content(lock, t)
<1>1. failure_value(lock) = [t \in Fields(lock) |-> Failure_Content(lock, t)]
  BY Zenon DEF failure_value, Failure_Content
<1> QED
  BY <1>1

(* What an item is on every failure has room in its components.            *)
LEMMA FailureFits ==
  ASSUME NEW lock \in Locks
  PROVE  Item_Fits(lock, failure_value(lock))
<1>1. DOMAIN failure_value(lock) = Fields(lock)
  BY FailureContents
<1>2. ASSUME NEW t \in Fields(lock)
      PROVE  Fits(lock, t, failure_value(lock)[t])
  <2> PICK field : field = Field(lock, t)
    OBVIOUS
  <2> PICK content : content = failure_value(lock)[t]
    OBVIOUS
  <2>1. field.kind \in Simple \cup {"bytes", "sequence", "variant"} /\ (field.kind \notin Scalars => field.presence = "required")
    BY FieldIsProper, Zenon
  <2>2. /\ field.presence = "optional" => content = <<>>
        /\ field.presence # "optional" =>
             /\ field.kind = "enumeration" => content = <<Min(field.tags)>>
             /\ field.kind = "bytes" => content = [i \in 1 .. field.minimum |-> 0]
             /\ field.kind = "sequence" => content = [i \in 1 .. field.minimum |-> scalar_initial_value(Element(lock, t))]
             /\ field.kind = "variant" => content = initial_variant(lock, t)
             /\ field.kind \in Scalars => content = <<scalar_initial_value(field)>>
    <3>1. content = Failure_Content(lock, t)
      BY FailureContents
    <3>2. CASE field.presence = "optional"
      BY <2>1, <3>1, <3>2 DEF Failure_Content, Scalars
    <3>3. CASE field.presence # "optional" /\ field.kind = "enumeration"
      BY <3>1, <3>3 DEF Failure_Content, Scalars
    <3>4. CASE field.presence # "optional" /\ field.kind = "bytes"
      BY <3>1, <3>4 DEF Failure_Content, Scalars
    <3>5. CASE field.presence # "optional" /\ field.kind = "sequence"
      BY <3>1, <3>5 DEF Failure_Content, Scalars
    <3>6. CASE field.presence # "optional" /\ field.kind = "variant"
      BY <3>1, <3>6 DEF Failure_Content, Scalars
    <3>7. CASE field.presence # "optional" /\ field.kind \in Scalars
      BY <3>1, <3>7 DEF Failure_Content, Scalars
    <3> QED
      BY <2>1, <3>2, <3>3, <3>4, <3>5, <3>6, <3>7 DEF Simple
  <2>3. CASE field.presence = "optional"
    <3>1. content = <<>> /\ field.kind \in Scalars /\ <<>> \in Seq(Int) /\ Len(<<>>) = 0
      BY <2>1, <2>2, <2>3
    <3> QED
      BY <2>3, <3>1 DEF Fits, Component, Scalars
  <2>4. CASE field.presence # "optional" /\ field.kind = "enumeration"
    <3>1. field.tags \subseteq Nat /\ field.tags # {}
      BY <2>4, FieldBounds
    <3>2. \E x \in field.tags : \A y \in field.tags : x <= y
      BY <3>1, LeastNumber
    <3>3. Min(field.tags) \in field.tags
      BY <3>2 DEF Min
    <3>4. Min(field.tags) \in Int /\ field.kind \in Simple
      BY <2>4, <3>1, <3>3 DEF Simple
    <3> PICK v \in Int : v = Min(field.tags)
      BY <3>4
    <3>5. Fits(lock, t, <<v>>)
      BY <3>4, OneFits
    <3> QED
      BY <2>2, <2>4, <3>5
  <2>5. CASE field.presence # "optional" /\ field.kind = "bytes"
    <3>1. field.minimum \in Nat /\ field.maximum \in Int /\ field.minimum <= field.maximum
      BY <2>5, FieldBounds
    <3> PICK v \in Int : v = 0
      OBVIOUS
    <3>2. content = [i \in 1 .. Field(lock, t).minimum |-> v] /\ Field(lock, t).kind \in {"bytes", "sequence"}
      BY <2>2, <2>5
    <3> QED
      BY <3>1, <3>2, ManyFit
  <2>6. CASE field.presence # "optional" /\ field.kind = "sequence"
    <3>1. field.minimum \in Nat /\ field.maximum \in Int /\ field.minimum <= field.maximum
      BY <2>6, FieldBounds
    <3>2. Proper(Element(lock, t))
      BY <2>6, ElementIsProper
    <3> PICK v \in Int : v = scalar_initial_value(Element(lock, t))
      BY <3>2 DEF scalar_initial_value, Proper, Value
    <3>3. field.kind \in {"bytes", "sequence"} /\ field.kind # "bytes"
      BY <2>6
    <3>4. content = [i \in 1 .. Field(lock, t).minimum |-> v]
      BY <2>2, <2>6
    <3> QED
      BY <3>1, <3>3, <3>4, ManyFit
  <2>7. CASE field.presence # "optional" /\ field.kind = "variant"
    <3> PICK n \in Nat : n = Cardinality(Members(lock, t))
      BY <2>7, MembersArePairs
    <3>1. content \in [1 .. 1 + n -> Int]
      BY <2>2, <2>7, StartsAsNumbers
    <3>2. content \in Seq(Int) /\ Len(content) = 1 + n
      BY <3>1, LengthOf
    <3> QED
      BY <2>7, <3>2 DEF Fits, Component, Scalars
  <2>8. CASE field.presence # "optional" /\ field.kind \in Scalars
    <3>1. scalar_initial_value(field) \in Int
      BY FieldBounds DEF scalar_initial_value
    <3> PICK v \in Int : v = scalar_initial_value(field)
      BY <3>1
    <3>2. Fits(lock, t, <<v>>)
      BY <2>8, OneFits DEF Simple
    <3> QED
      BY <2>2, <2>8, <3>2
  <2> QED
    BY <2>1, <2>3, <2>4, <2>5, <2>6, <2>7, <2>8 DEF Simple
<1> QED
  BY <1>1, <1>2 DEF Item_Fits

(* A scalar within its bounds is valid. *)
LEMMA InBounds ==
  ASSUME NEW lock \in Locks, NEW t \in Fields(lock), Field(lock, t).kind \in Scalars,
         NEW n, n \in Field(lock, t).minimum .. Field(lock, t).maximum
  PROVE  Valid_Content(lock, t, <<n>>)
<1>1. n \in Int /\ ~ scalar_invalid(Field(lock, t), n)
  BY FieldBounds DEF scalar_invalid
<1>2. Field(lock, t).kind \in Simple /\ Field(lock, t).kind # "enumeration"
  BY DEF Simple, Scalars
<1> QED
  BY <1>1, <1>2, OneNumber

(* An optional field that is not there is valid. *)
LEMMA AbsentIsValid ==
  ASSUME NEW lock \in Locks, NEW t \in Fields(lock), Field(lock, t).presence = "optional"
  PROVE  failure_value(lock)[t] = <<>> /\ Valid_Content(lock, t, <<>>)
<1>1. Field(lock, t).kind \in Scalars
  BY FieldIsProper, Zenon
<1>2. failure_value(lock)[t] = <<>>
  BY <1>1, FailureContents, Zenon DEF Failure_Content, Scalars
<1>3. <<>> \in Seq(Int) /\ Len(<<>>) = 0
  OBVIOUS
<1> QED
  BY <1>2, <1>1, <1>3 DEF Valid_Content, Component, Scalars

-----------------------------------------------------------------------------

(***************************************************************************)
(* A call of Decode: what was read so far is valid, would be written, and  *)
(* has the octets it was read from; everything else is as it was.  If the  *)
(* writer is the codec itself, they are all the octets there were.         *)
(***************************************************************************)
Field_Octets(lock, seen, item) == [t \in seen |-> Value_Octets(lock, t, item[t])]

Right_Item(lock, call) ==
  /\ DOMAIN call.candidate = Fields(lock) /\ call.seen \subseteq Fields(lock)
  /\ \A t \in Fields(lock) :
       IF t \in call.seen
         THEN Valid_Content(lock, t, call.candidate[t]) /\ Sendable(lock, t, call.candidate[t])
         ELSE call.candidate[t] = failure_value(lock)[t]

Right_Decode(lock, call) ==
  \/ call = Idle
  \/ /\ call.status \in {"Decoding", "Decoded"} \cup Decode_Failures
     /\ call.input \in Seq(Octet) /\ call.previous \in Tag_Number
     /\ call.reader \in Cursor_Record /\ Is_Valid(call.reader, Len(call.input))
     /\ call.reader.limit = Len(call.input)
     /\ Right_Item(lock, call) /\ Item_Fits(lock, call.item)
     /\ call.writer = lock /\ call.status = "Decoding" =>
          Tags_Laid(call.input, 0, call.reader.next, call.previous, Field_Octets(lock, call.seen, call.candidate))
     /\ call.status = "Decoded" =>
          /\ Valid_Item(lock, call.item)
          /\ call.writer = lock => Canonical(lock, call.item) = call.input

(* Before the loop nothing was read. *)
LEMMA DecodeBegins ==
  ASSUME NEW lock \in Locks, NEW call, NEW read \in Seq(Octet),
         call.status \in {"Decoding", "Incompatible"}, call.input = read,
         call.reader = Initialize_Whole(read), call.previous = No_Tag, call.candidate = failure_value(lock),
         call.seen = {}, call.item = failure_value(lock)
  PROVE  Right_Decode(lock, call)
<1> PICK size \in Nat : size = Len(read)
  OBVIOUS
<1>1. call.reader = [first |-> 0, next |-> 0, limit |-> size]
  BY DEF Initialize_Whole, Cursor
<1>2. call.reader \in Cursor_Record /\ Is_Valid(call.reader, Len(call.input)) /\ call.reader.limit = Len(call.input)
  BY <1>1 DEF Cursor_Record, Is_Valid
<1>3. Right_Item(lock, call)
  BY FailureContents DEF Right_Item
<1>4. Item_Fits(lock, call.item)
  BY FailureFits
<1>5. Tags_Laid(read, 0, 0, No_Tag, Field_Octets(lock, {}, call.candidate))
  BY NoTags DEF Field_Octets
<1>6. call.previous \in Tag_Number
  BY Limits DEF Tag_Number, No_Tag
<1> QED
  BY <1>1, <1>2, <1>3, <1>4, <1>5, <1>6 DEF Right_Decode, Decode_Failures

(* A call that is refused keeps what it has. *)
LEMMA DecodeFails ==
  ASSUME NEW lock \in Locks, NEW call, Right_Decode(lock, call), call.status = "Decoding",
         NEW status \in Value_Refusals, NEW after,
         after = [call EXCEPT !.status = status],
         {"status", "input", "previous", "reader", "candidate", "seen", "item", "writer"} \subseteq DOMAIN call
  PROVE  Right_Decode(lock, after)
<1>1. /\ after.status = status /\ after.input = call.input /\ after.previous = call.previous
      /\ after.reader = call.reader /\ after.candidate = call.candidate /\ after.seen = call.seen
      /\ after.item = call.item /\ after.writer = call.writer
  OBVIOUS
<1>2. status \in Decode_Failures /\ status \notin {"Decoding", "Decoded"} /\ call # Idle
  BY DEF Decode_Failures, Value_Refusals, Idle
<1> QED
  BY <1>1, <1>2 DEF Right_Decode, Right_Item

(* Field t was written from `stop' to `next', after the fields of `seen',   *)
(* which end with field `last'; `now' is `before' with the content of t.     *)
Lies_After(lock, input, stop, next, last, t, seen, before, now, content) ==
  /\ stop \in Nat /\ next \in Nat /\ last \in Nat /\ t \in Field_Tag
  /\ t > last /\ next <= Len(input)
  /\ Tags_Laid(input, 0, stop, last, Field_Octets(lock, seen, before))
  /\ Spans(input, stop, next, Digits(t) \o Delimited(Value_Octets(lock, t, content)))
  /\ seen \subseteq Fields(lock) /\ now[t] = content
  /\ \A k \in Fields(lock) \ {t} : now[k] = before[k]

(* A field laid out after the fields of `seen': the fields of `seen' and it. *)
LEMMA OneFieldMore ==
  ASSUME NEW lock, NEW input, NEW stop, NEW next, NEW last, NEW t,
         NEW seen, NEW before, NEW now, NEW content,
         Lies_After(lock, input, stop, next, last, t, seen, before, now, content)
  PROVE  Tags_Laid(input, 0, next, t, Field_Octets(lock, seen \cup {t}, now))
<1>0. /\ stop \in Nat /\ next \in Nat /\ last \in Nat /\ t \in Field_Tag /\ t > last /\ next <= Len(input)
      /\ seen \subseteq Fields(lock) /\ now[t] = content
      /\ \A k \in Fields(lock) \ {t} : now[k] = before[k]
  BY DEF Lies_After
<1> DEFINE old == Field_Octets(lock, seen, before)
           new == Field_Octets(lock, seen \cup {t}, now)
<1> PICK k \in Nat : k = t
  BY <1>0, Limits DEF Field_Tag
<1>1. Tags_Laid(input, 0, stop, last, old)
  BY DEF Lies_After
<1>2. t \notin seen
  <2>1. DOMAIN old \subseteq 1 .. last /\ DOMAIN old = seen
    BY <1>1 DEF Tags_Laid, Field_Octets
  <2>2. k \notin 1 .. last
    BY <1>0
  <2> QED
    BY <2>1, <2>2
<1> PICK x : x = Value_Octets(lock, t, content)
  OBVIOUS
<1>3. /\ DOMAIN new = DOMAIN old \cup {t} /\ new[t] = x /\ \A j \in DOMAIN old : new[j] = old[j]
  BY <1>0, <1>2 DEF Field_Octets
<1>4. Spans(input, stop, next, Digits(t) \o Delimited(x))
  BY DEF Lies_After
<1> HIDE DEF old, new
<1>5. Tags_Laid(input, 0, next, t, new)
  BY <1>0, <1>1, <1>3, <1>4, OneTagMore, ZenonT(60)
<1> QED
  BY <1>5 DEF new

(* One field more, of this codec's: behind those before it. *)
LEMMA FieldDecoded ==
  ASSUME NEW lock \in Locks, NEW call, Right_Decode(lock, call), call.status = "Decoding",
         NEW header, header = Read_Field_Header(call.input, call.reader, call.previous), header.status = "Read",
         NEW t \in Fields(lock), t = header.tag,
         NEW value, value = Read_Value(lock, t, call.input, header.value), value.status = "Decoded",
         NEW after, after.status = "Decoding", after.input = call.input, after.writer = call.writer,
         after.reader = header.cursor, after.previous = header.previous, after.item = call.item,
         after.candidate = [k \in DOMAIN call.candidate |-> IF k = t THEN value.content ELSE call.candidate[k]],
         after.seen = call.seen \cup {t}
  PROVE  Right_Decode(lock, after)
<1>0. /\ call.input \in Seq(Octet) /\ call.previous \in Tag_Number
      /\ call.reader \in Cursor_Record /\ Is_Valid(call.reader, Len(call.input))
      /\ call.reader.limit = Len(call.input)
      /\ Right_Item(lock, call) /\ Item_Fits(lock, call.item)
      /\ call.writer = lock =>
           Tags_Laid(call.input, 0, call.reader.next, call.previous, Field_Octets(lock, call.seen, call.candidate))
  BY DEF Right_Decode, Idle
<1>1. /\ t \in Field_Tag /\ t > call.previous /\ header.previous = t
      /\ header.value \in Regions
      /\ header.cursor \in Cursor_Record /\ Is_Valid(header.cursor, Len(call.input))
      /\ header.cursor.limit = call.reader.limit
      /\ header.cursor.next = End(header.value)
      /\ \A x : Spans(call.input, header.value.start, End(header.value), x)
                  => Spans(call.input, call.reader.next, header.cursor.next, Digits(t) \o Delimited(x))
  BY <1>0, HeaderTaken, SMTT(60), ZenonT(60)
<1> PICK region \in Regions : region = header.value
  BY <1>1
<1> PICK content : content = value.content
  OBVIOUS
<1>2. Value_Taken(lock, t, call.input, region, value)
  <2>1. value.status \in Value_Refusals \/ Value_Taken(lock, t, call.input, region, value)
    BY <1>0, ValueRead, SMTT(60), ZenonT(60)
  <2> QED
    BY <2>1 DEF Value_Refusals
<1>3. /\ Valid_Content(lock, t, content) /\ Sendable(lock, t, content)
      /\ Spans(call.input, region.start, End(region), Value_Octets(lock, t, content))
  BY <1>2 DEF Value_Taken
<1>4. /\ DOMAIN call.candidate = Fields(lock) /\ call.seen \subseteq Fields(lock)
      /\ \A k \in Fields(lock) :
           IF k \in call.seen
             THEN Valid_Content(lock, k, call.candidate[k]) /\ Sendable(lock, k, call.candidate[k])
             ELSE call.candidate[k] = failure_value(lock)[k]
  BY <1>0, SMTT(60), ZenonT(60) DEF Right_Item
<1>5. /\ DOMAIN after.candidate = Fields(lock) /\ after.candidate[t] = content
      /\ \A k \in Fields(lock) \ {t} : after.candidate[k] = call.candidate[k]
  BY <1>4, SMTT(60), ZenonT(60)
<1>6. Right_Item(lock, after)
  <2> SUFFICES ASSUME NEW k \in Fields(lock)
               PROVE  IF k \in after.seen
                        THEN Valid_Content(lock, k, after.candidate[k]) /\ Sendable(lock, k, after.candidate[k])
                        ELSE after.candidate[k] = failure_value(lock)[k]
    BY <1>4, <1>5, Zenon DEF Right_Item
  <2>1. CASE k = t
    BY <1>3, <1>5, <2>1, Zenon
  <2>2. CASE k # t
    <3>1. (k \in after.seen <=> k \in call.seen) /\ after.candidate[k] = call.candidate[k]
      BY <1>5, <2>2, SMTT(60), ZenonT(60)
    <3> QED
      BY <1>4, <3>1, SMTT(60), ZenonT(60)
  <2> QED
    BY <2>1, <2>2
<1>7. ASSUME call.writer = lock
      PROVE  Tags_Laid(call.input, 0, header.cursor.next, t, Field_Octets(lock, after.seen, after.candidate))
  <2> PICK input : input = call.input
    BY SMTT(60)
  <2> PICK reader \in Cursor_Record, cursor \in Cursor_Record : reader = call.reader /\ cursor = header.cursor
    BY <1>0, <1>1
  <2>1. /\ reader.next \in Nat /\ cursor.next \in Nat /\ cursor.limit \in Nat
        /\ cursor.next <= cursor.limit /\ cursor.limit <= Len(input) /\ Len(input) \in Nat
    BY <1>0, <1>1, CursorFields, SMTT(60), ZenonT(60) DEF Is_Valid
  <2>2. cursor.next <= Len(input)
    BY <2>1, SMTT(60), ZenonT(60)
  <2>3. call.previous \in Nat
    BY <1>0, Limits DEF Tag_Number
  <2> PICK stop \in Nat : stop = reader.next
    BY <2>1
  <2> PICK next \in Nat : next = cursor.next
    BY <2>1
  <2> PICK last \in Nat : last = call.previous
    BY <2>3, SMTT(60), ZenonT(60)
  <2> PICK tags, before, now : tags = call.seen /\ before = call.candidate /\ now = after.candidate
    OBVIOUS
  <2>4. /\ t \in Field_Tag /\ t > last /\ next <= Len(input)
        /\ Tags_Laid(input, 0, stop, last, Field_Octets(lock, tags, before))
        /\ Spans(input, stop, next, Digits(t) \o Delimited(Value_Octets(lock, t, content)))
    BY <1>0, <1>1, <1>3, <1>7, <2>2, ZenonT(60)
  <2>5. tags \subseteq Fields(lock) /\ now[t] = content /\ \A k \in Fields(lock) \ {t} : now[k] = before[k]
    <3>1. tags \subseteq Fields(lock)
      BY <1>4, Zenon
    <3>2. now[t] = content
      BY <1>5, Zenon
    <3>3. \A k \in Fields(lock) \ {t} : now[k] = before[k]
      BY <1>5, Zenon
    <3> QED
      BY <3>1, <3>2, <3>3, Zenon
  <2>6. Tags_Laid(input, 0, next, t, Field_Octets(lock, tags \cup {t}, now))
    <3>1. Lies_After(lock, input, stop, next, last, t, tags, before, now, content)
      BY <2>4, <2>5, Zenon DEF Lies_After
    <3> QED
      BY <3>1, OneFieldMore
  <2> QED
    BY <2>6
<1>8. t \in Tag_Number
  BY <1>1, Limits, SMTT(60) DEF Field_Tag, Tag_Number
<1> QED
  BY <1>0, <1>1, <1>6, <1>7, <1>8, SMTT(60) DEF Right_Decode

(* A field that is ignored changes nothing but where the call is.          *)
LEMMA FieldIgnored ==
  ASSUME NEW lock \in Locks, NEW call, Right_Decode(lock, call), call.status = "Decoding", call.writer # lock,
         NEW header, header = Read_Field_Header(call.input, call.reader, call.previous), header.status = "Read",
         NEW after, after.status = "Decoding", after.input = call.input, after.writer = call.writer,
         after.reader = header.cursor, after.previous = header.previous, after.item = call.item,
         DOMAIN after.candidate = Fields(lock), \A k \in Fields(lock) : after.candidate[k] = call.candidate[k],
         after.seen = call.seen
  PROVE  Right_Decode(lock, after)
<1>0. /\ call.input \in Seq(Octet) /\ call.previous \in Tag_Number
      /\ call.reader \in Cursor_Record /\ Is_Valid(call.reader, Len(call.input))
      /\ call.reader.limit = Len(call.input)
      /\ Right_Item(lock, call) /\ Item_Fits(lock, call.item)
  BY DEF Right_Decode, Idle
<1>1. /\ header.tag \in Field_Tag /\ header.previous = header.tag
      /\ header.cursor \in Cursor_Record /\ Is_Valid(header.cursor, Len(call.input))
      /\ header.cursor.limit = call.reader.limit
  BY <1>0, HeaderTaken
<1>2. header.tag \in Tag_Number
  BY <1>1, Limits DEF Field_Tag, Tag_Number
<1>3. Right_Item(lock, after)
  BY <1>0 DEF Right_Item
<1> QED
  BY <1>0, <1>1, <1>2, <1>3 DEF Right_Decode

-----------------------------------------------------------------------------

(***************************************************************************)
(* Decode.                                                                 *)
(***************************************************************************)
Generated == local \in Locks /\ entries \in Tables[local]

(* The writer of a Decode that got to its loop is the codec itself or one  *)
(* it was generated to accept.                                             *)
Accepted == decoding.status # "Idle" /\ decoding.status # "Incompatible" =>
              Relationship(decoding.writer) \in {"Exact", "Compatible"}

(* The components of a call of Decode.                                     *)
Shape ==
  \/ decoding = Idle
  \/ decoding = [status |-> decoding.status, writer |-> decoding.writer, input |-> decoding.input,
                 sent |-> decoding.sent, reader |-> decoding.reader, previous |-> decoding.previous,
                 candidate |-> decoding.candidate, seen |-> decoding.seen, item |-> decoding.item]

(* Only success gives the item what was read.                              *)
Harmless == decoding # Idle /\ decoding.status # "Decoded" => decoding.item = failure_value(local)

Receiving == Shape /\ Accepted /\ AcceptedTagsAreTheWriters /\ Harmless

(* A relationship is exact only with the codec's own lock.                 *)
LEMMA ExactIsLocal ==
  ASSUME NEW writer, Relationship(writer) = "Exact"
  PROVE  writer = local
BY DEF Relationship, Classify

(* A field whose value is accepted is one of the writer's.                 *)
LEMMA AcceptedIsTheWriters ==
  ASSUME NEW call, NEW t, NEW region,
         Relationship(call.writer) \in {"Exact", "Compatible"},
         Accepted_Value(call, t, region).status = "Decoded"
  PROVE  t \in Fields(call.writer)
<1>1. CASE t \in Fields(local)
  <2>1. ~ Prohibited(call, t)
    BY <1>1 DEF Accepted_Value, Turned_Down
  <2>2. QED
    BY <1>1, <2>1, ExactIsLocal DEF Prohibited
<1>2. CASE t \notin Fields(local)
  <2>1. Ignorable(call, t)
    BY <1>2 DEF Accepted_Value, Turned_Down
  <2>2. QED
    BY <2>1 DEF Ignorable, Ignored
<1>3. QED
  BY <1>1, <1>2

-----------------------------------------------------------------------------

LEMMA LocalValue ==
  ASSUME UNCHANGED local
  PROVE  failure_value(local)' = failure_value(local)
OBVIOUS

(* Nothing is decoded at first.                                            *)
LEMMA Initially == Init => Receiving
BY DEF Init, Receiving, Shape, Idle, Accepted, AcceptedTagsAreTheWriters, Harmless

(* A Decode that gets to its loop has an accepted writer, and no tag yet.  *)
LEMMA Beginning ==
  ASSUME NEW writer, NEW input, NEW sent, UNCHANGED generated,
         Begin_Decode(writer, input, sent)
  PROVE  Receiving'
<1>1. /\ decoding'.writer = writer /\ decoding'.previous = No_Tag
      /\ decoding'.status = IF Relationship(writer) \in {"Exact", "Compatible"} THEN "Decoding" ELSE "Incompatible"
  BY DEF Begin_Decode
<1>2. Relationship(writer)' = Relationship(writer)
  BY DEF Relationship, generated
<1>3. Shape'
  BY DEF Begin_Decode, Shape
<1>4. Accepted'
  BY <1>1, <1>2 DEF Accepted
<1>5. AcceptedTagsAreTheWriters'
  BY <1>1 DEF AcceptedTagsAreTheWriters
<1>6. Harmless'
  <2>1. failure_value(local)' = failure_value(local)
    BY LocalValue DEF generated
  <2>2. decoding'.item = failure_value(local)
    BY DEF Begin_Decode
  <2> QED
    BY <2>1, <2>2 DEF Harmless
<1>7. QED
  BY <1>3, <1>4, <1>5, <1>6 DEF Receiving

(* A call that keeps its writer, and its tag if it goes on, stays right.   *)
LEMMA Keeping ==
  ASSUME Receiving, UNCHANGED generated, decoding.status = "Decoding", Shape',
         decoding'.writer = decoding.writer,
         decoding'.status = "Decoding" => decoding'.previous \in Fields(decoding.writer) \cup {decoding.previous},
         decoding'.status # "Decoded" => decoding'.item = decoding.item
  PROVE  Receiving'
<1>1. Relationship(decoding.writer)' = Relationship(decoding.writer)
  BY DEF Relationship, generated
<1>2. Accepted'
  BY <1>1 DEF Receiving, Accepted, Relationship, generated
<1>3. AcceptedTagsAreTheWriters'
  BY DEF Receiving, AcceptedTagsAreTheWriters
<1>4. Harmless'
  <2>1. failure_value(local)' = failure_value(local)
    BY LocalValue DEF generated
  <2>2. decoding # Idle /\ decoding.item = failure_value(local)
    BY DEF Receiving, Harmless, Idle
  <2> QED
    BY <2>1, <2>2 DEF Harmless
<1>5. QED
  BY <1>2, <1>3, <1>4 DEF Receiving

(* One turn of the loop goes past a field of the writer's, or ends it.     *)
LEMMA Turning ==
  ASSUME Receiving, Decode_Field
  PROVE  Receiving'
<1>1. /\ decoding.status = "Decoding" /\ UNCHANGED generated
      /\ Relationship(decoding.writer) \in {"Exact", "Compatible"}
  BY DEF Decode_Field, Receiving, Accepted
<1>2. decoding # Idle /\ Shape
  BY <1>1 DEF Idle, Receiving
<1>3. ASSUME NEW status, Decode_Fails(status)
      PROVE  Receiving'
  <2>1. /\ decoding'.writer = decoding.writer /\ decoding'.previous = decoding.previous
        /\ decoding'.item = decoding.item /\ Shape'
    BY <1>2, <1>3 DEF Decode_Fails, Shape, Idle
  <2>2. QED
    BY <1>1, <1>3, <2>1, Keeping
<1>4. PICK header \in {Read_Field_Header(decoding.input, decoding.reader, decoding.previous)} :
        \/ header.status # "Read" /\ Decode_Fails(Map_Read_Error(header.status))
        \/ /\ header.status = "Read"
           /\ \E value \in {Accepted_Value(decoding, header.tag, header.value)} :
                \/ value.status # "Decoded" /\ Decode_Fails(value.status)
                \/ /\ value.status = "Decoded"
                   /\ decoding' = [decoding EXCEPT
                         !.reader = header.cursor, !.previous = header.previous,
                         !.candidate = [t \in DOMAIN @ |-> IF t = header.tag THEN value.content ELSE @[t]],
                         !.seen = @ \cup ({header.tag} \cap Fields(local))]
  BY DEF Decode_Field
<1>5. CASE header.status # "Read"
  BY <1>3, <1>4, <1>5
<1>6. CASE header.status = "Read"
  <2>1. PICK value \in {Accepted_Value(decoding, header.tag, header.value)} :
          \/ value.status # "Decoded" /\ Decode_Fails(value.status)
          \/ /\ value.status = "Decoded"
             /\ decoding' = [decoding EXCEPT
                   !.reader = header.cursor, !.previous = header.previous,
                   !.candidate = [t \in DOMAIN @ |-> IF t = header.tag THEN value.content ELSE @[t]],
                   !.seen = @ \cup ({header.tag} \cap Fields(local))]
    BY <1>4, <1>6
  <2>2. CASE value.status # "Decoded"
    BY <1>3, <2>1, <2>2
  <2>3. CASE value.status = "Decoded"
    <3>1. header.tag \in Fields(decoding.writer)
      BY <1>1, <2>3, AcceptedIsTheWriters
    <3>2. header.previous = header.tag
      BY <1>6, HeaderTag
    <3>3. /\ decoding'.writer = decoding.writer /\ decoding'.previous = header.tag
          /\ decoding'.item = decoding.item /\ Shape'
      BY <1>2, <2>1, <2>3, <3>2, Zenon DEF Shape, Idle
    <3>4. QED
      BY <1>1, <3>1, <3>3, Keeping
  <2>4. QED
    BY <2>2, <2>3
<1>7. QED
  BY <1>5, <1>6

(* The last test only changes what the caller is told.                     *)
LEMMA Ending ==
  ASSUME Receiving, End_Decode
  PROVE  Receiving'
<1>1. decoding.status = "Decoding" /\ UNCHANGED generated /\ decoding # Idle /\ Shape
  BY DEF End_Decode, Receiving, Idle
<1>2. \/ decoding' = [decoding EXCEPT !.status = "Decoded", !.item = Completed(decoding)]
      \/ decoding' = [decoding EXCEPT !.status = "Invalid_Value"]
  BY DEF End_Decode
<1>3. /\ decoding'.writer = decoding.writer /\ decoding'.previous = decoding.previous
      /\ decoding'.status # "Decoded" => decoding'.item = decoding.item
      /\ Shape'
  BY <1>1, <1>2, Zenon DEF Shape, Idle
<1>4. QED
  BY <1>1, <1>3, Keeping

(* Steps in which no Decode takes part.                                    *)
LEMMA Elsewhere ==
  ASSUME Receiving, UNCHANGED generated, UNCHANGED decoding \/ decoding' = Idle
  PROVE  Receiving'
<1>0. failure_value(local)' = failure_value(local)
  BY LocalValue DEF generated
<1>1. CASE UNCHANGED decoding
  <2>1. Relationship(decoding.writer)' = Relationship(decoding.writer)
    BY <1>1 DEF Relationship, generated
  <2> QED
    BY <1>0, <1>1, <2>1 DEF Receiving, Shape, Accepted, AcceptedTagsAreTheWriters, Harmless
<1>2. CASE decoding' = Idle
  BY <1>2 DEF Receiving, Shape, Idle, Accepted, AcceptedTagsAreTheWriters, Harmless
<1>3. QED
  BY <1>1, <1>2

(* What the fields that were not seen are given is in their bounds.        *)
LEMMA SuppliedIsValid ==
  ASSUME Generated, NEW call, Relationship(call.writer) \in {"Exact", "Compatible"}, NEW s \in Supplied(call)
  PROVE  /\ s[1] \in Fields(local) /\ Valid_Content(local, s[1], <<s[2]>>)
         /\ call.writer = local => Field(local, s[1]).presence = "defaulted" /\ s[2] = Field(local, s[1]).default
<1>0. local \in Locks /\ entries \in Tables[local]
  BY DEF Generated
<1>1. CASE s \in {<<t, Field(local, t).default>> : t \in Fields_With(local, "defaulted")}
  <2> PICK t \in Fields_With(local, "defaulted") : s = <<t, Field(local, t).default>>
    BY <1>1
  <2>1. t \in Fields(local) /\ Field(local, t).presence = "defaulted" /\ s[1] = t /\ s[2] = Field(local, t).default
    BY DEF Fields_With
  <2>2. Field(local, t).kind \in Scalars
    BY <1>0, <2>1, FieldIsProper, Zenon
  <2>3. Field(local, t).default \in Field(local, t).minimum .. Field(local, t).maximum
    BY <1>0, <2>1, <2>2, FieldBounds
  <2>4. Valid_Content(local, t, <<Field(local, t).default>>)
    BY <1>0, <2>1, <2>2, <2>3, InBounds
  <2> QED
    BY <2>1, <2>4
<1>2. CASE s \in Constructions(call)
  <2>1. Relationship(call.writer) = "Compatible"
    BY <1>2 DEF Constructions
  <2>2. call.writer \in Schemas(entries) /\ call.writer # local
    BY <2>1 DEF Relationship, Classify
  <2> DEFINE entry == Entry_Of(call.writer, entries)
  <2>3. entry \in entries /\ entry.schema = call.writer
    BY <2>2 DEF Entry_Of, Schemas
  <2>4. \E t \in DOMAIN entry.construct : s = <<t, entry.construct[t]>>
    BY <1>2, <2>1 DEF Constructions
  <2> HIDE DEF entry
  <2> PICK t \in DOMAIN entry.construct : s = <<t, entry.construct[t]>>
    BY <2>4
  <2>5. validate_compatible_writers(local, entries)
    BY <1>0, ExchangeAssumption
  <2>6. Approvable(entry.schema, local) /\ validate_approval(entry, local)
    BY <2>3, <2>5 DEF validate_compatible_writers
  <2>7. t \in Constructed(entry.schema, local) /\ entry.construct[t] \in Field(local, t).minimum .. Field(local, t).maximum
    BY <2>6 DEF validate_approval
  <2>8. t \in Fields(local) /\ Field(local, t).kind \in Scalars
    BY <2>6, <2>7 DEF Constructed, Approvable
  <2>9. Valid_Content(local, t, <<entry.construct[t]>>)
    BY <1>0, <2>7, <2>8, InBounds
  <2> QED
    BY <2>2, <2>8, <2>9
<1> QED
  BY <1>1, <1>2 DEF Supplied

(* All fields are there: each was read, or supplied, or may be absent.     *)
LEMMA CompletedIsValid ==
  ASSUME Generated, NEW call, Right_Item(local, call), Relationship(call.writer) \in {"Exact", "Compatible"},
         Fields_With(local, "required") \subseteq call.seen \cup {s[1] : s \in Supplied(call)},
         NEW item, item = Completed(call)
  PROVE  /\ Valid_Item(local, item) /\ \A t \in call.seen : item[t] = call.candidate[t]
         /\ call.writer = local => Included(local, item) = call.seen
<1>0. local \in Locks
  BY DEF Generated
<1>1. /\ DOMAIN call.candidate = Fields(local) /\ call.seen \subseteq Fields(local)
      /\ \A t \in Fields(local) :
           IF t \in call.seen
             THEN Valid_Content(local, t, call.candidate[t]) /\ Sendable(local, t, call.candidate[t])
             ELSE call.candidate[t] = failure_value(local)[t]
  BY DEF Right_Item
<1>2. /\ DOMAIN item = Fields(local)
      /\ \A t \in Fields(local) :
           item[t] = IF t \notin call.seen /\ \E s \in Supplied(call) : s[1] = t
                       THEN <<(CHOOSE s \in Supplied(call) : s[1] = t)[2]>>
                       ELSE call.candidate[t]
  BY <1>1 DEF Completed
<1>3. \A t \in call.seen : item[t] = call.candidate[t]
  BY <1>1, <1>2
<1>4. ASSUME NEW t \in Fields(local)
      PROVE  /\ Valid_Content(local, t, item[t])
             /\ call.writer = local => (include(local, item, t) <=> t \in call.seen)
  <2>0. Field(local, t).presence \in {"required", "optional", "defaulted"}
    BY <1>0, FieldBounds DEF Presence
  <2>1. CASE t \in call.seen
    <3>1. item[t] = call.candidate[t] /\ Valid_Content(local, t, item[t]) /\ Sendable(local, t, item[t])
      BY <1>1, <1>3, <2>1
    <3>2. include(local, item, t)
      BY <2>0, <3>1 DEF include, Sendable
    <3> QED
      BY <2>1, <3>1, <3>2
  <2>2. CASE t \notin call.seen /\ \E s \in Supplied(call) : s[1] = t
    <3> DEFINE s == CHOOSE r \in Supplied(call) : r[1] = t
    <3>1. s \in Supplied(call) /\ s[1] = t
      BY <2>2
    <3>2. item[t] = <<s[2]>>
      BY <1>2, <2>2
    <3> HIDE DEF s
    <3>3. /\ Valid_Content(local, t, item[t])
          /\ call.writer = local => Field(local, t).presence = "defaulted" /\ item[t] = <<Field(local, t).default>>
      BY <3>1, <3>2, SuppliedIsValid
    <3>4. call.writer = local => ~ include(local, item, t)
      BY <3>3 DEF include
    <3> QED
      BY <2>2, <3>3, <3>4
  <2>3. CASE t \notin call.seen /\ ~ \E s \in Supplied(call) : s[1] = t
    <3>1. item[t] = failure_value(local)[t]
      BY <1>1, <1>2, <2>3
    <3>2. Field(local, t).presence # "required"
      BY <2>3 DEF Fields_With
    <3>3. Field(local, t).presence # "defaulted"
      <4> SUFFICES ASSUME Field(local, t).presence = "defaulted"
                   PROVE  FALSE
        OBVIOUS
      <4> PICK s : s = <<t, Field(local, t).default>>
        BY Zenon
      <4>1. s \in Supplied(call)
        BY DEF Supplied, Fields_With
      <4>2. s[1] = t
        OBVIOUS
      <4> QED
        BY <2>3, <4>1, <4>2
    <3>4. Field(local, t).presence = "optional"
      BY <2>0, <3>2, <3>3
    <3>5. item[t] = <<>> /\ Valid_Content(local, t, item[t])
      BY <1>0, <3>1, <3>4, AbsentIsValid
    <3>6. ~ include(local, item, t)
      BY <3>4, <3>5 DEF include
    <3> QED
      BY <2>3, <3>5, <3>6
  <2> QED
    BY <2>1, <2>2, <2>3
<1>5. Valid_Item(local, item)
  BY <1>2, <1>4 DEF Valid_Item
<1>6. ASSUME call.writer = local
      PROVE  Included(local, item) = call.seen
  BY <1>1, <1>4, <1>6 DEF Included
<1> QED
  BY <1>3, <1>5, <1>6

LEMMA CanonicalIsParts ==
  ASSUME NEW lock, NEW item
  PROVE  Canonical(lock, item) = Joined(Tagged_Parts(Field_Octets(lock, Included(lock, item), item)), MaxFieldTag)
<1>1. Tagged_Parts(Field_Octets(lock, Included(lock, item), item))
        = [t \in 1 .. MaxFieldTag |->
             IF t \in Included(lock, item) THEN Digits(t) \o Delimited(Value_Octets(lock, t, item[t])) ELSE <<>>]
  BY DEF Tagged_Parts, Field_Octets
<1> QED
  BY <1>1 DEF Canonical, Tagged_Octets

(* The octets of the fields that were read are all there were.             *)
LEMMA AllThereWere ==
  ASSUME NEW lock \in Locks, NEW input \in Seq(Octet), NEW previous \in Tag_Number, NEW item, NEW seen,
         seen = Included(lock, item),
         Tags_Laid(input, 0, Len(input), previous, Field_Octets(lock, seen, item))
  PROVE  Canonical(lock, item) = input
<1> PICK size \in Nat, start \in Nat : size = Len(input) /\ start = 0
  OBVIOUS
<1> DEFINE octets == Field_Octets(lock, seen, item)
           x == Joined(Tagged_Parts(octets), MaxFieldTag)
<1>1. Canonical(lock, item) = x
  BY CanonicalIsParts
<1>2. Tags_Laid(input, start, size, previous, octets)
  OBVIOUS
<1> HIDE DEF octets
<1>3. Spans(input, start, size, x)
  BY <1>2, TagsJoined
<1> HIDE DEF x
<1>4. x \in Seq(Octet) /\ Len(x) = size /\ \A i \in 1 .. size : x[i] = input[i]
  <2>1. x \in Seq(Octet) /\ size = start + Len(x) /\ \A i \in 1 .. Len(x) : x[i] = input[start + i]
    BY <1>3 DEF Spans
  <2>2. Len(x) \in Nat
    BY <2>1
  <2>3. Len(x) = size /\ \A i \in 1 .. size : start + i = i
    BY <2>1, <2>2
  <2> QED
    BY <2>1, <2>3
<1>5. x = input
  BY <1>4, SameSequence
<1> QED
  BY <1>1, <1>5

LEMMA DecodeEnds ==
  ASSUME Generated, NEW call, Right_Decode(local, call), call.status = "Decoding", At_End(call.reader),
         Relationship(call.writer) \in {"Exact", "Compatible"},
         Fields_With(local, "required") \subseteq call.seen \cup {s[1] : s \in Supplied(call)},
         NEW after, after.status = "Decoded", after.item = Completed(call),
         after.input = call.input, after.writer = call.writer, after.previous = call.previous,
         after.reader = call.reader, after.candidate = call.candidate, after.seen = call.seen
  PROVE  Right_Decode(local, after)
<1>0. /\ call.input \in Seq(Octet) /\ call.previous \in Tag_Number
      /\ call.reader \in Cursor_Record /\ Is_Valid(call.reader, Len(call.input))
      /\ call.reader.limit = Len(call.input)
      /\ Right_Item(local, call)
      /\ call.writer = local =>
           Tags_Laid(call.input, 0, call.reader.next, call.previous, Field_Octets(local, call.seen, call.candidate))
      /\ local \in Locks
  BY DEF Right_Decode, Idle, Generated
<1> PICK item : item = Completed(call)
  OBVIOUS
<1>1. /\ Valid_Item(local, item) /\ \A t \in call.seen : item[t] = call.candidate[t]
      /\ call.writer = local => Included(local, item) = call.seen
  BY <1>0, CompletedIsValid
<1>2. Item_Fits(local, item)
  BY <1>0, <1>1, ValidFits DEF Valid_Item, Item_Fits
<1>3. ASSUME call.writer = local
      PROVE  Canonical(local, item) = call.input
  <2>1. call.reader.next = Len(call.input)
    BY <1>0 DEF At_End
  <2>2. Field_Octets(local, call.seen, item) = Field_Octets(local, call.seen, call.candidate)
    BY <1>1 DEF Field_Octets
  <2>3. Tags_Laid(call.input, 0, Len(call.input), call.previous, Field_Octets(local, call.seen, item))
    BY <1>0, <1>3, <2>1, <2>2
  <2> QED
    BY <1>0, <1>1, <1>3, <2>3, AllThereWere
<1>4. Right_Item(local, after)
  BY <1>0 DEF Right_Item
<1> QED
  BY <1>0, <1>1, <1>2, <1>3, <1>4 DEF Right_Decode

-----------------------------------------------------------------------------

(* A Decode that begins has read nothing yet.                              *)
LEMMA DecodeStarts ==
  ASSUME Generated, UNCHANGED generated, NEW writer, NEW input \in Seq(Octet), NEW sent,
         Begin_Decode(writer, input, sent)
  PROVE  Right_Decode(local, decoding')
<1> PICK read \in Seq(Octet) : read = IF Relationship(writer) \in {"Exact", "Compatible"} THEN input ELSE Nothing
  <2>1. Nothing \in Seq(Octet)
    BY DEF Nothing
  <2> QED
    BY <2>1
<1>1. /\ decoding'.status \in {"Decoding", "Incompatible"} /\ decoding'.input = read
      /\ decoding'.reader = Initialize_Whole(read) /\ decoding'.previous = No_Tag
      /\ decoding'.candidate = failure_value(local) /\ decoding'.seen = {}
      /\ decoding'.item = failure_value(local)
  BY DEF Begin_Decode
<1> QED
  BY <1>1, DecodeBegins DEF Generated

(* What `after' is of the call that took this value of a field.            *)
Goes_Past(call, header, value, after) ==
  /\ call.status = "Decoding"
  /\ header = Read_Field_Header(call.input, call.reader, call.previous) /\ header.status = "Read"
  /\ value = Accepted_Value(call, header.tag, header.value) /\ value.status = "Decoded"
  /\ after.status = "Decoding" /\ after.input = call.input /\ after.writer = call.writer
  /\ after.reader = header.cursor /\ after.previous = header.previous /\ after.item = call.item
  /\ after.candidate = [k \in DOMAIN call.candidate |->
                          IF k = header.tag THEN value.content ELSE call.candidate[k]]
  /\ after.seen = call.seen \cup ({header.tag} \cap Fields(local))

(* A field whose value is accepted was read, or is not one of the codec's. *)
LEMMA FieldPassed ==
  ASSUME Generated, NEW call, Right_Decode(local, call), NEW header, NEW value, NEW after,
         Goes_Past(call, header, value, after)
  PROVE  Right_Decode(local, after)
<1>0. /\ call.status = "Decoding"
      /\ header = Read_Field_Header(call.input, call.reader, call.previous) /\ header.status = "Read"
      /\ value = Accepted_Value(call, header.tag, header.value) /\ value.status = "Decoded"
      /\ after.status = "Decoding" /\ after.input = call.input /\ after.writer = call.writer
      /\ after.reader = header.cursor /\ after.previous = header.previous /\ after.item = call.item
      /\ after.candidate = [k \in DOMAIN call.candidate |->
                              IF k = header.tag THEN value.content ELSE call.candidate[k]]
      /\ after.seen = call.seen \cup ({header.tag} \cap Fields(local))
  BY DEF Goes_Past
<1> PICK lock \in Locks : lock = local
  BY DEF Generated
<1> PICK t : t = header.tag
  OBVIOUS
<1>1. Right_Decode(lock, call)
  BY SMTT(60)
<1>2. DOMAIN call.candidate = Fields(lock)
  BY <1>0, <1>1 DEF Right_Decode, Right_Item, Idle
<1>3. CASE t \in Fields(local)
  <2>1. t \in Fields(lock)
    BY <1>3, SMTT(60)
  <2>2. value = Read_Value(lock, t, call.input, header.value)
    BY <1>0, <1>3 DEF Accepted_Value, Turned_Down
  <2>3. after.seen = call.seen \cup {t}
    BY <1>0, <1>3
  <2>4. after.candidate = [k \in DOMAIN call.candidate |-> IF k = t THEN value.content ELSE call.candidate[k]]
    BY <1>0, SMTT(60)
  <2>5. Right_Decode(lock, after)
    BY <1>0, <1>1, <2>1, <2>2, <2>3, <2>4, FieldDecoded, SMTT(60)
  <2> QED
    BY <2>5
<1>4. CASE t \notin Fields(local)
  <2>1. Ignorable(call, t)
    BY <1>0, <1>4 DEF Accepted_Value, Turned_Down
  <2>2. call.writer # lock
    BY <2>1 DEF Ignorable, Relationship, Classify
  <2>3. after.seen = call.seen
    BY <1>0, <1>4
  <2>4. DOMAIN after.candidate = Fields(lock)
    BY <1>0, <1>2
  <2>5. \A k \in Fields(lock) : after.candidate[k] = call.candidate[k]
    BY <1>0, <1>2, <1>4, SMTT(60)
  <2>6. Right_Decode(lock, after)
    BY <1>0, <1>1, <2>2, <2>3, <2>4, <2>5, FieldIgnored
  <2> QED
    BY <2>6
<1> QED
  BY <1>3, <1>4

(* One turn of the loop fails or goes past a field.                        *)
LEMMA OneTurn ==
  ASSUME Shape, Decode_Field,
         NEW header, header = Read_Field_Header(decoding.input, decoding.reader, decoding.previous),
         NEW value, value = Accepted_Value(decoding, header.tag, header.value)
  PROVE  \/ header.status # "Read" /\ Decode_Fails(Map_Read_Error(header.status))
         \/ header.status = "Read" /\ value.status # "Decoded" /\ Decode_Fails(value.status)
         \/ Goes_Past(decoding, header, value, decoding') /\ decoding'.sent = decoding.sent
<1>1. decoding.status = "Decoding"
  BY DEF Decode_Field
<1>2. decoding = [status |-> decoding.status, writer |-> decoding.writer, input |-> decoding.input,
                    sent |-> decoding.sent, reader |-> decoding.reader, previous |-> decoding.previous,
                    candidate |-> decoding.candidate, seen |-> decoding.seen, item |-> decoding.item]
  BY <1>1 DEF Shape, Idle
<1>3. PICK head \in {Read_Field_Header(decoding.input, decoding.reader, decoding.previous)} :
        \/ head.status # "Read" /\ Decode_Fails(Map_Read_Error(head.status))
        \/ /\ head.status = "Read"
           /\ \E taken \in {Accepted_Value(decoding, head.tag, head.value)} :
                \/ taken.status # "Decoded" /\ Decode_Fails(taken.status)
                \/ /\ taken.status = "Decoded"
                   /\ decoding' = [decoding EXCEPT
                        !.reader = head.cursor, !.previous = head.previous,
                        !.candidate = [t \in DOMAIN @ |-> IF t = head.tag THEN taken.content ELSE @[t]],
                        !.seen = @ \cup ({head.tag} \cap Fields(local))]
  BY Zenon DEF Decode_Field
<1>4. head = header
  OBVIOUS
<1>5. CASE header.status # "Read"
  BY <1>3, <1>4, <1>5
<1>6. CASE header.status = "Read"
  <2>1. PICK taken \in {Accepted_Value(decoding, head.tag, head.value)} :
          \/ taken.status # "Decoded" /\ Decode_Fails(taken.status)
          \/ /\ taken.status = "Decoded"
             /\ decoding' = [decoding EXCEPT
                  !.reader = head.cursor, !.previous = head.previous,
                  !.candidate = [t \in DOMAIN @ |-> IF t = head.tag THEN taken.content ELSE @[t]],
                  !.seen = @ \cup ({head.tag} \cap Fields(local))]
    BY <1>3, <1>4, <1>6
  <2>2. taken = value
    BY <1>4
  <2>3. CASE value.status # "Decoded"
    BY <1>6, <2>1, <2>2, <2>3, SMTT(60)
  <2>4. CASE value.status = "Decoded"
    <3>1. PICK after : /\ after = decoding'
                       /\ after = [decoding EXCEPT
                            !.reader = head.cursor, !.previous = head.previous,
                            !.candidate = [t \in DOMAIN @ |-> IF t = head.tag THEN taken.content ELSE @[t]],
                            !.seen = @ \cup ({head.tag} \cap Fields(local))]
      BY <2>1, <2>2, <2>4, Zenon
    <3>2. /\ after.status = "Decoding" /\ after.input = decoding.input /\ after.writer = decoding.writer
          /\ after.reader = header.cursor /\ after.previous = header.previous /\ after.item = decoding.item
          /\ after.candidate = [k \in DOMAIN decoding.candidate |->
                                  IF k = header.tag THEN value.content ELSE decoding.candidate[k]]
          /\ after.seen = decoding.seen \cup ({header.tag} \cap Fields(local))
          /\ after.sent = decoding.sent
      BY <1>1, <1>2, <1>4, <2>2, <3>1
    <3> QED
      BY <1>1, <1>6, <2>4, <3>1, <3>2 DEF Goes_Past
  <2> QED
    BY <2>3, <2>4
<1> QED
  BY <1>5, <1>6

(* It reads a field, ignores one or fails.                                 *)
LEMMA DecodeTurns ==
  ASSUME Generated, Receiving, Right_Decode(local, decoding), Decode_Field
  PROVE  Right_Decode(local, decoding')
<1>0. local \in Locks /\ decoding.status = "Decoding"
  BY DEF Decode_Field, Generated
<1>1. PICK header, value : /\ header = Read_Field_Header(decoding.input, decoding.reader, decoding.previous)
                           /\ value = Accepted_Value(decoding, header.tag, header.value)
  OBVIOUS
<1>2. \/ header.status # "Read" /\ Decode_Fails(Map_Read_Error(header.status))
      \/ header.status = "Read" /\ value.status # "Decoded" /\ Decode_Fails(value.status)
      \/ Goes_Past(decoding, header, value, decoding')
  BY <1>1, OneTurn DEF Receiving
<1>3. ASSUME NEW status \in Value_Refusals, Decode_Fails(status)
      PROVE  Right_Decode(local, decoding')
  <2>1. decoding = [status |-> decoding.status, writer |-> decoding.writer, input |-> decoding.input,
                    sent |-> decoding.sent, reader |-> decoding.reader, previous |-> decoding.previous,
                    candidate |-> decoding.candidate, seen |-> decoding.seen, item |-> decoding.item]
    BY <1>0, SMTT(60) DEF Receiving, Shape, Idle
  <2> QED
    BY <1>0, <1>3, <2>1, DecodeFails DEF Decode_Fails
<1>4. CASE header.status # "Read"
  BY <1>1, <1>2, <1>3, <1>4, ErrorsMapped DEF Goes_Past
<1>5. CASE header.status = "Read" /\ value.status # "Decoded" /\ Decode_Fails(value.status)
  <2>1. /\ header.tag \in Field_Tag /\ header.value \in Regions
        /\ decoding.input \in Seq(Octet)
    <3>1. /\ decoding.input \in Seq(Octet) /\ decoding.previous \in Tag_Number
          /\ decoding.reader \in Cursor_Record /\ Is_Valid(decoding.reader, Len(decoding.input))
      BY <1>0 DEF Right_Decode, Idle
    <3> QED
      BY <1>1, <1>5, <3>1, HeaderTaken
  <2>2. CASE header.tag \in Fields(local) /\ ~ Prohibited(decoding, header.tag)
    <3>1. value = Read_Value(local, header.tag, decoding.input, header.value)
      BY <1>1, <2>2 DEF Accepted_Value
    <3>2. value.status \in Value_Refusals \/ Value_Taken(local, header.tag, decoding.input, header.value, value)
      BY <1>0, <2>1, <2>2, <3>1, ValueRead
    <3>3. value.status \in Value_Refusals
      BY <1>5, <3>2, SMTT(60) DEF Value_Taken
    <3> QED
      BY <1>3, <1>5, <3>3
  <2>3. CASE ~ (header.tag \in Fields(local) /\ ~ Prohibited(decoding, header.tag))
    <3>1. value.status \in Value_Refusals
      BY <1>1, <1>5, <2>3 DEF Accepted_Value, Turned_Down, Taken, Value_Refusals
    <3> QED
      BY <1>3, <1>5, <3>1
  <2> QED
    BY <2>2, <2>3
<1>6. CASE Goes_Past(decoding, header, value, decoding')
  BY <1>6, FieldPassed
<1> QED
  BY <1>2, <1>4, <1>5, <1>6

(* The test behind the loop completes what was read, or fails.             *)
LEMMA DecodeReturns ==
  ASSUME Generated, Receiving, Right_Decode(local, decoding), End_Decode
  PROVE  Right_Decode(local, decoding')
<1>0. /\ local \in Locks /\ decoding.status = "Decoding" /\ At_End(decoding.reader)
      /\ decoding = [status |-> decoding.status, writer |-> decoding.writer, input |-> decoding.input,
                     sent |-> decoding.sent, reader |-> decoding.reader, previous |-> decoding.previous,
                     candidate |-> decoding.candidate, seen |-> decoding.seen, item |-> decoding.item]
      /\ Relationship(decoding.writer) \in {"Exact", "Compatible"}
  <2>1. local \in Locks /\ decoding.status = "Decoding" /\ At_End(decoding.reader)
    BY DEF End_Decode, Generated
  <2> QED
    BY <2>1 DEF Receiving, Shape, Accepted, Idle
<1>1. CASE Fields_With(local, "required") \subseteq decoding.seen \cup {s[1] : s \in Supplied(decoding)}
  <2> PICK after : after = decoding' /\ after = [decoding EXCEPT !.status = "Decoded", !.item = Completed(decoding)]
    BY <1>1 DEF End_Decode
  <2>1. /\ after.status = "Decoded" /\ after.item = Completed(decoding)
        /\ after.input = decoding.input /\ after.writer = decoding.writer /\ after.previous = decoding.previous
        /\ after.reader = decoding.reader /\ after.candidate = decoding.candidate /\ after.seen = decoding.seen
    BY <1>0
  <2>2. Right_Decode(local, after)
    BY <1>0, <1>1, <2>1, DecodeEnds, Zenon
  <2> QED
    BY <2>2
<1>2. CASE ~ (Fields_With(local, "required") \subseteq decoding.seen \cup {s[1] : s \in Supplied(decoding)})
  <2> PICK after : after = decoding' /\ after = [decoding EXCEPT !.status = "Invalid_Value"]
    BY <1>2 DEF End_Decode
  <2>1. "Invalid_Value" \in Value_Refusals
    BY DEF Value_Refusals
  <2>2. Right_Decode(local, after)
    BY <1>0, <2>1, DecodeFails
  <2> QED
    BY <2>2
<1> QED
  BY <1>1, <1>2

-----------------------------------------------------------------------------

(***************************************************************************)
(* What a write puts into the array, to the octet.                         *)
(***************************************************************************)

(* A number, as it is written.                                             *)
LEMMA ScalarSpan ==
  ASSUME NEW n \in Nat, NEW before \in [1 .. n -> Octet], NEW c \in Cursor_Record, Is_Valid(c, n),
         NEW value, Proper(value), value.kind \in Simple, NEW number, Number(value, number), Truth(value, number),
         NEW size, size = scalar_size(value, number), size <= Remaining(c)
  PROVE  Spans(scalar_write(value, before, c, number).output, c.next, c.next + size, Scalar_Octets(value, number))
<1> PICK next \in Nat, limit \in Nat : next = c.next /\ limit = c.limit
  BY CursorFields
<1>1. CASE value.kind = "boolean"
  <2>1. scalar_write(value, before, c, number) = Write_Boolean(before, c, number = 1) /\ size = 1
        /\ number \in 0 .. 1
    BY <1>1 DEF scalar_write, scalar_size, Truth
  <2>2. next + 1 <= n /\ Remaining(c) # 0 /\ (number = 1) \in BOOLEAN
    BY <2>1, CursorFields DEF Is_Valid
  <2> PICK after : after = Write_Boolean(before, c, number = 1).output
    OBVIOUS
  <2>3. after \in [1 .. n -> Octet]
    BY <2>2, BooleanStored, Zenon DEF Stores
  <2>4. Len(before) = n
    BY LengthOf
  <2>5. after = [i \in 1 .. Len(before) |-> IF i = next + 1 THEN (IF number = 1 THEN 1 ELSE 0) ELSE before[i]]
    BY <2>2, <2>4 DEF Write_Boolean
  <2>6. after[next + 1] = number
    BY <2>1, <2>2, <2>4, <2>5
  <2>7. Spans(after, next, next + 1, <<number>>)
    BY <2>2, <2>3, <2>6, OneSpans, Zenon
  <2> QED
    BY <1>1, <2>1, <2>7 DEF Scalar_Octets
<1>2. CASE value.kind # "boolean"
  <2>1. PICK wire \in Nat : wire = Wire(value, number)
    BY <1>2, WireIsNat
  <2>2. scalar_write(value, before, c, number) = Write_Unsigned(before, c, wire)
    BY <1>2, <2>1 DEF scalar_write, Wire, Write_Signed
  <2>3. size = Unsigned_Size(wire)
    BY <1>2, <2>1 DEF scalar_size
  <2>4. Scalar_Octets(value, number) = Digits(wire)
    BY <1>2, <2>1 DEF Scalar_Octets
  <2> QED
    BY <2>2, <2>3, <2>4, UnsignedSpan
<1> QED
  BY <1>1, <1>2

Fills(n, header, length, value, x) ==
  \E inner : /\ inner = Initialize(header.output, header.value).cursor
             /\ Stores(n, header.output, inner, value, length, length)
             /\ Spans(value.output, inner.next, inner.next + length, x)

LEMMA FilledSpan ==
  ASSUME NEW n \in Nat, NEW before \in [1 .. n -> Octet], NEW c \in Cursor_Record, Is_Valid(c, n),
         NEW size \in Nat, NEW length \in Nat, NEW header, NEW h, Heads(n, before, c, header, size, length, h),
         NEW value, NEW x, Fills(n, header, length, value, x)
  PROVE  Spans(Behind(header, value).output, c.next, c.next + (size + length), h \o x) /\ Len(x) = length
<1> PICK next \in Nat : next = c.next
  BY CursorFields
<1> PICK m \in Nat : m = next + size
  OBVIOUS
<1> PICK e \in Nat : e = m + length
  OBVIOUS
<1>0. PICK inner : /\ inner = Initialize(header.output, header.value).cursor
                   /\ Stores(n, header.output, inner, value, length, length)
                   /\ Spans(value.output, inner.next, inner.next + length, x)
  BY Zenon DEF Fills
<1>1. Opened(n, c, header, size, length)
  <2>1. Stores(n, before, c, header, size, size + length) /\ header.value = Extent(c.next + size, length)
    BY DEF Heads
  <2> QED
    BY <2>1, Opening, Zenon
<1>2. inner.next = m
  BY <1>0, <1>1 DEF Opened
<1>3. Behind(header, value).output = value.output
  BY DEF Behind, Core_Parts, Heads
<1> PICK after \in [1 .. n -> Octet] : after = value.output
  BY <1>0 DEF Stores
<1> PICK opened \in [1 .. n -> Octet] : opened = header.output
  BY Zenon DEF Stores, Heads
<1>4. Keeps(n, opened, after, m, length) /\ Spans(after, m, e, x) /\ Spans(opened, next, m, h)
  BY <1>0, <1>2, Zenon DEF Stores, Heads
<1>5. Spans(after, next, m, h)
  <2>1. m <= m
    OBVIOUS
  <2> QED
    BY <1>4, <2>1, SpanKept, Zenon
<1>6. Spans(after, next, e, h \o x)
  BY <1>4, <1>5, SpansJoin
<1>7. Len(x) = length
  <2>1. x \in Seq(Octet) /\ e = m + Len(x)
    BY <1>4 DEF Spans
  <2> QED
    BY <2>1, SMTT(60)
<1> QED
  <2>1. e = c.next + (size + length)
    OBVIOUS
  <2> QED
    BY <1>3, <1>6, <1>7, <2>1

(* A value behind its length ...                                           *)
LEMMA DelimitedFilled ==
  ASSUME NEW n \in Nat, NEW before \in [1 .. n -> Octet], NEW c \in Cursor_Record, Is_Valid(c, n),
         NEW length \in Nat, Length_And(length) <= Remaining(c),
         NEW header, header = Write_Length_Delimited(before, c, length),
         NEW value, NEW x, Fills(n, header, length, value, x)
  PROVE  Spans(Behind(header, value).output, c.next, c.next + Length_And(length), Delimited(x))
<1> PICK size \in Nat : size = Unsigned_Size(length)
  BY SizeOfAny, ProfileAssumption
<1> PICK next \in Nat, limit \in Nat : next = c.next /\ limit = c.limit
  BY CursorFields
<1>1. Length_And(length) = size + length /\ size + length <= Remaining(c)
  BY DEF Length_And
<1>2. Stores(n, before, c, header, size, size + length) /\ header.value = Extent(c.next + size, length)
  BY <1>1, DelimitedStored
<1>3. next + size <= n /\ Len(before) = n
  BY <1>1, CursorFields, LengthOf DEF Is_Valid
<1>4. header.output = Put_Unsigned(before, next, length)
  <2>1. Has_Room(before, c, size, length)
    BY <1>1, <1>3, CursorFields, SMTT(60) DEF Has_Room
  <2> QED
    BY <2>1 DEF Write_Length_Delimited
<1>5. Spans(header.output, next, next + size, Digits(length))
  BY <1>3, <1>4, PutSpan
<1>6. Core_Parts \subseteq DOMAIN header
  BY HeaderParts
<1>7. Spans(Behind(header, value).output, c.next, c.next + (size + length), Digits(length) \o x) /\ Len(x) = length
  <2>1. Heads(n, before, c, header, size, length, Digits(length))
    BY <1>2, <1>5, <1>6 DEF Heads
  <2> QED
    BY <2>1, FilledSpan
<1> QED
  BY <1>1, <1>7 DEF Delimited

LEMMA FieldHeld ==
  ASSUME NEW n \in Nat, NEW before \in [1 .. n -> Octet], NEW c \in Cursor_Record, Is_Valid(c, n),
         NEW tag \in Nat, NEW length \in Nat, NEW size \in Nat,
         NEW header, Heads(n, before, c, header, size, length, Digits(tag) \o Digits(length)),
         NEW value, NEW x, Fills(n, header, length, value, x)
  PROVE  Spans(Behind(header, value).output, c.next, c.next + (size + length), Digits(tag) \o Delimited(x))
<1>1. /\ Spans(Behind(header, value).output, c.next, c.next + (size + length), (Digits(tag) \o Digits(length)) \o x)
      /\ Len(x) = length
  BY FilledSpan
<1>2. (Digits(tag) \o Digits(length)) \o x = Digits(tag) \o (Digits(length) \o x)
  <2>1. Digits(tag) \in Seq(Octet) /\ Digits(length) \in Seq(Octet)
    BY DigitsOctets
  <2>2. x \in Seq(Octet)
    BY DEF Spans, Fills
  <2> QED
    BY <2>1, <2>2, Associative, Zenon
<1> QED
  BY <1>1, <1>2 DEF Delimited

LEMMA FieldFilled ==
  ASSUME NEW n \in Nat, NEW before \in [1 .. n -> Octet], NEW c \in Cursor_Record, Is_Valid(c, n),
         NEW previous \in Nat, NEW tag \in Nat, previous < tag,
         NEW length \in Nat, Need(tag, length) <= Remaining(c),
         NEW header, header = Write_Field_Header(before, c, previous, tag, length),
         NEW value, NEW x, Fills(n, header, length, value, x)
  PROVE  Spans(Behind(header, value).output, c.next, c.next + Need(tag, length), Digits(tag) \o Delimited(x))
<1> PICK size \in Nat : /\ Need(tag, length) = size + length
                        /\ Heads(n, before, c, header, size, length, Digits(tag) \o Digits(length))
  BY FieldHeads, Zenon
<1> QED
  BY FieldHeld

(* An element, behind what there is.                                       *)
LEMMA ElementSpanned ==
  ASSUME NEW n \in Nat, NEW before \in [1 .. n -> Octet], NEW c \in Cursor_Record, Is_Valid(c, n),
         NEW element, Proper(element), element.kind \in Simple,
         NEW content, NEW i, Number(element, content[i]), Truth(element, content[i]),
         NEW written, written.status = "Wrote", written.output = before, written.cursor = c,
         NEW need \in Nat, need = Length_And(scalar_size(element, content[i])), need <= Remaining(c),
         NEW after, after = Next_Element(element, content, written, i)
  PROVE  /\ after.output \in [1 .. n -> Octet] /\ Keeps(n, before, after.output, c.next, need)
         /\ Spans(after.output, c.next, c.next + need, Delimited(Scalar_Octets(element, content[i])))
<1>1. PICK size \in Nat : size = scalar_size(element, content[i])
  BY ScalarSize
<1>2. PICK header : header = Write_Length_Delimited(before, c, size)
  OBVIOUS
<1>3. need = Length_And(size) /\ Length_And(size) <= Remaining(c)
  BY <1>1
<1>4. Opens(n, before, c, header, size, Length_And(size))
  BY <1>2, <1>3, DelimitedRoom, Zenon
<1>5. PICK inner \in Cursor_Record :
        /\ inner = Initialize(header.output, header.value).cursor
        /\ Is_Valid(inner, n) /\ Remaining(inner) = size
        /\ \A value : Stores(n, header.output, inner, value, size, size) =>
             Stores(n, before, c, Behind(header, value), need, need)
  BY <1>3, <1>4 DEF Opens
<1>6. header.status = "Wrote" /\ header.output \in [1 .. n -> Octet] /\ Inside(header.value, header.output)
  BY <1>4 DEF Opens
<1>7. PICK value : value = scalar_write(element, header.output, inner, content[i])
  OBVIOUS
<1>8. Stores(n, header.output, inner, value, size, size)
  BY <1>1, <1>5, <1>6, <1>7, ScalarStored
<1>9. Spans(value.output, inner.next, inner.next + size, Scalar_Octets(element, content[i]))
  BY <1>1, <1>5, <1>6, <1>7, ScalarSpan, SMTT(60)
<1>10. after = Behind(header, value)
  BY <1>1, <1>2, <1>5, <1>6, <1>7 DEF Next_Element, In_Extent
<1>11. Fills(n, header, size, value, Scalar_Octets(element, content[i]))
  BY <1>5, <1>8, <1>9 DEF Fills
<1>12. Spans(Behind(header, value).output, c.next, c.next + Length_And(size), Delimited(Scalar_Octets(element, content[i])))
  BY <1>2, <1>3, <1>11, DelimitedFilled, Zenon
<1>13. Stores(n, before, c, after, need, need)
  BY <1>5, <1>8, <1>10
<1> QED
  BY <1>3, <1>10, <1>12, <1>13 DEF Stores

(* The count and the first elements, up to pos[i].                         *)
Elements_Stand(array, start, pos, element, content, i) ==
  /\ Spans(array, start, pos[0], Digits(Len(content)))
  /\ \A j \in 1 .. i : Spans(array, pos[j - 1], pos[j], Delimited(Scalar_Octets(element, content[j])))
  /\ \A j \in 0 .. i : pos[j] <= pos[i]

LEMMA ElementsKept ==
  ASSUME NEW n \in Nat, NEW before \in [1 .. n -> Octet], NEW after \in [1 .. n -> Octet],
         NEW start, NEW top \in Nat, NEW pos \in [0 .. top -> Nat], NEW element, NEW content,
         NEW below \in 0 .. top, NEW i \in 0 .. top, i = below + 1,
         Elements_Stand(before, start, pos, element, content, below),
         NEW need \in Nat, pos[i] = pos[below] + need, Keeps(n, before, after, pos[below], need),
         Spans(after, pos[below], pos[i], Delimited(Scalar_Octets(element, content[i])))
  PROVE  Elements_Stand(after, start, pos, element, content, i)
<1>0. pos[below] \in Nat /\ pos[i] \in Nat /\ pos[0] \in Nat /\ 0 \in 0 .. below
  OBVIOUS
<1>1. Spans(after, start, pos[0], Digits(Len(content)))
  <2>1. Spans(before, start, pos[0], Digits(Len(content))) /\ pos[0] <= pos[below]
    BY <1>0 DEF Elements_Stand
  <2> QED
    BY <1>0, <2>1, SpanKept, Zenon
<1>2. ASSUME NEW j \in 1 .. i
      PROVE  Spans(after, pos[j - 1], pos[j], Delimited(Scalar_Octets(element, content[j])))
  <2>1. CASE j = i
    BY <2>1
  <2>2. CASE j # i
    <3>1. j \in 1 .. below /\ j \in 0 .. below
      BY <2>2
    <3>2. Spans(before, pos[j - 1], pos[j], Delimited(Scalar_Octets(element, content[j]))) /\ pos[j] <= pos[below]
      BY <3>1, Zenon DEF Elements_Stand
    <3> QED
      BY <1>0, <3>2, SpanKept, Zenon
  <2> QED
    BY <2>1, <2>2
<1>3. ASSUME NEW j \in 0 .. i
      PROVE  pos[j] <= pos[i]
  <2>1. CASE j = i
    BY <1>0, <2>1
  <2>2. CASE j # i
    <3>1. j \in 0 .. below /\ pos[j] \in Nat
      BY <2>2
    <3>2. pos[j] <= pos[below]
      BY <3>1, Zenon DEF Elements_Stand
    <3> QED
      BY <1>0, <3>1, <3>2, SMTT(60)
  <2> QED
    BY <2>1, <2>2
<1> QED
  BY <1>1, <1>2, <1>3 DEF Elements_Stand

(* A sequence is its count and its elements.                               *)
LEMMA ElementsSpanned ==
  ASSUME NEW n \in Nat, NEW before \in [1 .. n -> Octet], NEW c \in Cursor_Record, Is_Valid(c, n),
         NEW element, Proper(element), element.kind \in Simple,
         NEW content \in Seq(Int),
         \A i \in 1 .. Len(content) : Number(element, content[i]) /\ Truth(element, content[i]),
         NEW upto, Elements_Add_Up(upto, element, content),
         NEW size, size = upto[Len(content)], size <= Remaining(c),
         NEW parts, parts = [i \in DOMAIN content |-> Delimited(Scalar_Octets(element, content[i]))]
  PROVE  Spans(Write_Elements(element, before, c, content).output, c.next, c.next + size,
               Digits(Len(content)) \o Joined(parts, Len(content)))
<1> DEFINE wrote == CHOOSE f : Elements_Written(f, Len(content), element, before, c, content)
<1>1. PICK top \in Nat : top = Len(content)
  OBVIOUS
<1>0. Remaining(c) \in Int
  BY CursorFields
<1>2. PICK next \in Nat : next = c.next
  BY CursorFields, Zenon
<1>3. Elements_Written(wrote, top, element, before, c, content)
  BY <1>1, ElementsWrittenExists
<1>4. Write_Elements(element, before, c, content) = wrote[top]
  BY <1>1 DEF Write_Elements, Elements_Written, Next_Element
<1> HIDE DEF wrote
<1>5. wrote[0] = Write_Unsigned(before, c, top)
  BY <1>1, <1>3 DEF Elements_Written
<1>6. \A i \in 1 .. top : wrote[i] = Next_Element(element, content, wrote[i - 1], i)
  <2> SUFFICES ASSUME NEW i \in 1 .. top
               PROVE  wrote[i] = Next_Element(element, content, wrote[i - 1], i)
    OBVIOUS
  <2>1. i \in 0 .. top /\ i # 0
    OBVIOUS
  <2> QED
    BY <1>3, <2>1 DEF Elements_Written
<1>7. PICK pos \in [0 .. top -> Nat] : \A i \in 0 .. top : pos[i] = next + upto[i]
  <2>1. \A i \in 0 .. top : upto[i] \in Nat
    BY <1>1, Zenon DEF Elements_Add_Up
  <2>2. [i \in 0 .. top |-> next + upto[i]] \in [0 .. top -> Nat]
    BY <2>1
  <2> QED
    BY <2>2, Zenon
<1> DEFINE Stand(i) == upto[i] <= Remaining(c) =>
                         /\ Stores(n, before, c, wrote[i], upto[i], upto[i])
                         /\ Elements_Stand(wrote[i].output, next, pos, element, content, i)
           G == {i \in 0 .. top : Stand(i)}
<1> HIDE DEF G
<1>8. ASSUME NEW i \in 0 .. top, \A k \in 0 .. i - 1 : k \in G
      PROVE  i \in G
  <2>1. CASE i = 0
    <3>1. upto[i] = Unsigned_Size(top)
      BY <1>1, <2>1 DEF Elements_Add_Up
    <3>2. upto[i] <= Remaining(c) =>
            /\ Stores(n, before, c, Write_Unsigned(before, c, top), upto[i], upto[i])
            /\ Spans(Write_Unsigned(before, c, top).output, c.next, c.next + upto[i], Digits(top))
      BY <3>1, UnsignedStored, UnsignedSpan, Zenon
    <3>3. pos[0] = c.next + upto[0] /\ pos[0] \in Nat /\ (\A j \in 0 .. 0 : j = 0) /\ 1 .. 0 = {}
      BY <1>2, <1>7
    <3>4. upto[i] <= Remaining(c) => Elements_Stand(wrote[i].output, next, pos, element, content, 0)
      BY <1>1, <1>2, <1>5, <2>1, <3>2, <3>3 DEF Elements_Stand
    <3> QED
      BY <1>5, <2>1, <3>2, <3>4 DEF G
  <2>2. CASE i > 0 /\ upto[i] <= Remaining(c)
    <3>1. PICK below \in 0 .. i - 1 : below = i - 1
      BY <2>2
    <3>2. PICK need : need = Length_And(scalar_size(element, content[i]))
      OBVIOUS
    <3>3. i \in 1 .. top /\ below \in G /\ below \in 0 .. top /\ i = below + 1
      BY <1>8, <2>2, <3>1
    <3>4. upto[below] \in Nat /\ upto[i] = upto[below] + need
      BY <1>1, <3>1, <3>2, <3>3, Zenon DEF Elements_Add_Up
    <3>5. need \in Nat
      BY <3>2, ScalarSize, SizeOfAny, ProfileAssumption, SMTT(60) DEF Length_And
    <3>6. upto[below] <= Remaining(c) /\ upto[below] + need <= Remaining(c)
      BY <1>0, <2>2, <3>4, <3>5, SMTT(60)
    <3>7. /\ Stores(n, before, c, wrote[below], upto[below], upto[below])
          /\ Elements_Stand(wrote[below].output, next, pos, element, content, below)
      BY <3>3, <3>6 DEF G
    <3>8. /\ Number(element, content[i]) /\ Truth(element, content[i])
          /\ wrote[i] = Next_Element(element, content, wrote[below], i)
      BY <1>1, <1>6, <3>1, <3>3
    <3>9. Stores(n, before, c, wrote[i], upto[i], upto[i])
      BY <3>2, <3>4, <3>6, <3>7, <3>8, ElementStored, Zenon
    <3>10. PICK written : written = wrote[below]
      OBVIOUS
    <3>11. PICK k \in Cursor_Record :
             /\ k = written.cursor /\ Is_Valid(k, n) /\ k.next = c.next + upto[below]
             /\ Remaining(k) = Remaining(c) - upto[below]
             /\ written.output \in [1 .. n -> Octet] /\ written.status = "Wrote"
      <4>1. Stores(n, before, c, written, upto[below], upto[below])
        BY <3>7, <3>10
      <4>2. written.status = "Wrote"
        BY <4>1 DEF Stores
      <4>3. /\ written.cursor \in Cursor_Record /\ Is_Valid(written.cursor, n)
            /\ written.cursor.next = c.next + upto[below]
            /\ Remaining(written.cursor) = Remaining(c) - upto[below]
            /\ written.output \in [1 .. n -> Octet]
        BY <3>4, <4>1, Moved, Zenon
      <4> QED
        BY <4>2, <4>3
    <3>12. need <= Remaining(k)
      BY <1>0, <3>4, <3>5, <3>6, <3>11, SMTT(60)
    <3>13. PICK array \in [1 .. n -> Octet] : array = written.output
      BY <3>11
    <3>14. /\ wrote[i].output \in [1 .. n -> Octet] /\ Keeps(n, array, wrote[i].output, k.next, need)
           /\ Spans(wrote[i].output, k.next, k.next + need, Delimited(Scalar_Octets(element, content[i])))
      <4>1. PICK after : after = wrote[i]
        OBVIOUS
      <4>2. /\ written.status = "Wrote" /\ written.output = array /\ written.cursor = k
            /\ after = Next_Element(element, content, written, i)
        BY <3>8, <3>10, <3>11, <3>13, <4>1
      <4>3. /\ after.output \in [1 .. n -> Octet] /\ Keeps(n, array, after.output, k.next, need)
            /\ Spans(after.output, k.next, k.next + need, Delimited(Scalar_Octets(element, content[i])))
        BY <3>2, <3>5, <3>8, <3>11, <3>12, <4>2, ElementSpanned, ZenonT(60)
      <4> QED
        BY <4>1, <4>3, Zenon
    <3>15. pos[below] = k.next /\ pos[i] = pos[below] + need
      BY <1>2, <1>7, <3>3, <3>4, <3>5, <3>11, SMTT(60)
    <3>16. Elements_Stand(wrote[i].output, next, pos, element, content, i)
      BY <3>3, <3>5, <3>7, <3>10, <3>13, <3>14, <3>15, ElementsKept, Zenon
    <3> QED
      BY <3>9, <3>16 DEF G
  <2>3. CASE ~ (upto[i] <= Remaining(c))
    BY <2>3 DEF G
  <2> QED
    BY <2>1, <2>2, <2>3
<1>9. top \in G
  <2>1. \A i \in 0 .. top : (\A k \in 0 .. i - 1 : k \in G) => i \in G
    BY <1>8
  <2>2. \A i \in 0 .. top : i \in G
    BY <2>1, AllNumbers, Zenon
  <2> QED
    BY <2>2
<1>10. PICK output \in [1 .. n -> Octet] : output = wrote[top].output
  BY <1>1, <1>9 DEF G, Stores
<1>11. Elements_Stand(output, next, pos, element, content, top)
  BY <1>1, <1>9, <1>10 DEF G
<1>12. Laid_Out(output, pos, parts, top)
  <2>1. DOMAIN content = 1 .. top
    BY <1>1
  <2> QED
    BY <1>11, <2>1 DEF Laid_Out, Elements_Stand
<1>13. output \in Seq(Octet) /\ pos[0] <= Len(output) /\ Spans(output, next, pos[0], Digits(top))
  <2>1. output \in Seq(Octet)
    BY LengthOf
  <2> QED
    BY <1>1, <1>11, <2>1 DEF Elements_Stand, Spans
<1>14. Spans(output, pos[0], pos[top], Joined(parts, top))
  BY <1>12, <1>13, JoinedSpan, Zenon
<1>15. Spans(output, next, pos[top], Digits(top) \o Joined(parts, top))
  BY <1>13, <1>14, SpansJoin
<1>16. pos[top] = c.next + size
  BY <1>1, <1>2, <1>7
<1> QED
  BY <1>1, <1>2, <1>4, <1>10, <1>15, <1>16

(* A member with its number. *)
Has_Member(lock, t, content, m, value, number) ==
  /\ m \in Payload_Tags(lock, t, content[1]) /\ m \in Field_Tag
  /\ value = Member(lock, t, content[1], m) /\ Proper(value) /\ value.kind \in Simple
  /\ number = content[Slot(lock, t, content[1], m)] /\ Number(value, number) /\ Truth(value, number)

(* A member, behind what there is.                                         *)
LEMMA MemberSpanned ==
  ASSUME NEW n \in Nat, NEW before \in [1 .. n -> Octet], NEW c \in Cursor_Record, Is_Valid(c, n),
         NEW lock, NEW t, NEW content, NEW m, NEW value, NEW number, Has_Member(lock, t, content, m, value, number),
         NEW written, written.status = "Wrote", written.output = before, written.cursor = c,
         written.previous \in Nat, written.previous < m,
         NEW need \in Nat, need = Need(m, scalar_size(value, number)), need <= Remaining(c),
         NEW after, after = Next_Member(lock, t, content, written, m)
  PROVE  /\ after.output \in [1 .. n -> Octet] /\ Keeps(n, before, after.output, c.next, need)
         /\ Spans(after.output, c.next, c.next + need, Digits(m) \o Delimited(Scalar_Octets(value, number)))
<1>0. /\ m \in Payload_Tags(lock, t, content[1]) /\ m \in Field_Tag
      /\ value = Member(lock, t, content[1], m) /\ Proper(value) /\ value.kind \in Simple
      /\ number = content[Slot(lock, t, content[1], m)] /\ Number(value, number) /\ Truth(value, number)
  BY DEF Has_Member
<1>1. PICK size \in Nat : size = scalar_size(value, number)
  BY <1>0, ScalarSize
<1>2. PICK header : header = Write_Field_Header(before, c, written.previous, m, size)
  OBVIOUS
<1>3. need = Need(m, size) /\ Need(m, size) <= Remaining(c) /\ m \in Nat
  BY <1>0, <1>1 DEF Field_Tag
<1>4. Opens(n, before, c, header, size, Need(m, size))
  BY <1>2, <1>3, FieldRoom, Zenon
<1>5. PICK inner \in Cursor_Record :
        /\ inner = Initialize(header.output, header.value).cursor
        /\ Is_Valid(inner, n) /\ Remaining(inner) = size
        /\ \A stored : Stores(n, header.output, inner, stored, size, size) =>
             Stores(n, before, c, Behind(header, stored), need, need)
  BY <1>3, <1>4 DEF Opens
<1>6. header.status = "Wrote" /\ header.output \in [1 .. n -> Octet] /\ Inside(header.value, header.output)
  BY <1>4 DEF Opens
<1>7. PICK stored : stored = scalar_write(value, header.output, inner, number)
  OBVIOUS
<1>8. Stores(n, header.output, inner, stored, size, size)
  BY <1>0, <1>1, <1>5, <1>6, <1>7, ScalarStored, SMTT(60)
<1>9. Spans(stored.output, inner.next, inner.next + size, Scalar_Octets(value, number))
  BY <1>0, <1>1, <1>5, <1>6, <1>7, ScalarSpan, SMTT(60)
<1>10. after = Behind(header, stored)
  BY <1>0, <1>1, <1>2, <1>5, <1>6, <1>7, Zenon DEF Next_Member, In_Extent
<1>11. Fills(n, header, size, stored, Scalar_Octets(value, number))
  BY <1>5, <1>8, <1>9 DEF Fills
<1>12. Spans(Behind(header, stored).output, c.next, c.next + Need(m, size), Digits(m) \o Delimited(Scalar_Octets(value, number)))
  BY <1>2, <1>3, <1>11, FieldFilled, Zenon
<1>13. Stores(n, before, c, after, need, need)
  BY <1>5, <1>8, <1>10
<1> QED
  BY <1>3, <1>10, <1>12, <1>13 DEF Stores

LEMMA PayloadIsParts ==
  ASSUME NEW lock, NEW t, NEW a, NEW content
  PROVE  Payload_Octets(lock, t, a, content)
           = Joined(Tagged_Parts(Member_Octets(lock, t, a, Payload_Tags(lock, t, a), content)), MaxFieldTag)
<1>1. Tagged_Parts(Member_Octets(lock, t, a, Payload_Tags(lock, t, a), content))
        = [k \in 1 .. MaxFieldTag |->
             IF k \in Payload_Tags(lock, t, a)
               THEN Digits(k) \o Delimited(Scalar_Octets(Member(lock, t, a, k), content[Slot(lock, t, a, k)]))
             ELSE <<>>]
  BY DEF Tagged_Parts, Member_Octets
<1> QED
  BY <1>1 DEF Payload_Octets, Tagged_Octets

Members_Upto(lock, t, a, tag) == {m \in Payload_Tags(lock, t, a) : m <= tag}

(* The members up to a tag stand where they were written.                  *)
Members_Stand(n, before, c, lock, t, content, written, at, tag) ==
  /\ Wrote_Upto(n, before, c, written, at, tag)
  /\ Tags_Laid(written.output, c.next, c.next + at, tag,
               Member_Octets(lock, t, content[1], Members_Upto(lock, t, content[1], tag), content))

LEMMA MemberBehind ==
  ASSUME NEW n \in Nat, NEW before \in [1 .. n -> Octet], NEW after \in [1 .. n -> Octet],
         NEW start, NEW stop \in Nat, NEW lock, NEW t, NEW content, NEW a,
         Payload_Tags(lock, t, a) \subseteq Field_Tag, NEW below \in Tag_Number,
         NEW m \in Payload_Tags(lock, t, a), m = below + 1,
         Tags_Laid(before, start, stop, below,
                   Member_Octets(lock, t, a, Members_Upto(lock, t, a, below), content)),
         NEW need \in Nat, Keeps(n, before, after, stop, need),
         Spans(after, stop, stop + need,
               Digits(m) \o Delimited(Scalar_Octets(Member(lock, t, a, m), content[Slot(lock, t, a, m)])))
  PROVE  Tags_Laid(after, start, stop + need, m,
                   Member_Octets(lock, t, a, Members_Upto(lock, t, a, m), content))
<1>1. PICK octets : octets = Member_Octets(lock, t, a, Members_Upto(lock, t, a, below), content)
  OBVIOUS
<1>2. PICK more : more = Member_Octets(lock, t, a, Members_Upto(lock, t, a, m), content)
  OBVIOUS
<1>3. PICK x : x = Scalar_Octets(Member(lock, t, a, m), content[Slot(lock, t, a, m)])
  OBVIOUS
<1>4. PICK tags : tags = Payload_Tags(lock, t, a)
  OBVIOUS
<1>5. m \in Field_Tag /\ m \in tags /\ m \in Nat /\ below \in Nat /\ m > below
  BY <1>4, Limits DEF Tag_Number, Field_Tag
<1>6. \A j \in tags : j <= m <=> (j <= below \/ j = m)
  <2>1. \A j \in tags : j \in Nat
    BY <1>4 DEF Field_Tag
  <2> QED
    BY <1>5, <2>1
<1>7. {k \in tags : k <= m} = {k \in tags : k <= below} \cup {m}
  BY <1>5, <1>6, Zenon
<1>8. DOMAIN octets = {k \in tags : k <= below} /\ DOMAIN more = {k \in tags : k <= m}
  BY <1>1, <1>2, <1>4 DEF Member_Octets, Members_Upto
<1>9. /\ DOMAIN more = DOMAIN octets \cup {m} /\ more[m] = x
      /\ \A j \in DOMAIN octets : more[j] = octets[j]
  BY <1>1, <1>2, <1>3, <1>4, <1>7, <1>8 DEF Member_Octets
<1>10. Tags_Laid(before, start, stop, below, octets)
  BY <1>1
<1>11. Spans(after, stop, stop + need, Digits(m) \o Delimited(x))
  BY <1>3
<1>12. Tags_Laid(after, start, stop + need, m, more)
  BY <1>5, <1>9, <1>10, <1>11, TagsWritten, ZenonT(60)
<1> QED
  BY <1>2, <1>12

LEMMA MemberStands ==
  ASSUME NEW n \in Nat, NEW before \in [1 .. n -> Octet], NEW c \in Cursor_Record, Is_Valid(c, n),
         NEW lock, NEW t, NEW content, NEW m, NEW value, NEW number, Has_Member(lock, t, content, m, value, number),
         Payload_Tags(lock, t, content[1]) \subseteq Field_Tag,
         NEW below \in Tag_Number, m = below + 1,
         NEW written, NEW at \in Nat, Members_Stand(n, before, c, lock, t, content, written, at, below),
         NEW need \in Nat, need = Need(m, scalar_size(value, number)), at + need <= Remaining(c),
         NEW after, after = Next_Member(lock, t, content, written, m)
  PROVE  Members_Stand(n, before, c, lock, t, content, after, at + need, m)
<1>0. Remaining(c) \in Int /\ MaxFieldTag \in Nat
  BY CursorFields, Limits
<1>1. Wrote_Upto(n, before, c, written, at, below)
  BY DEF Members_Stand
<1>2. below \in Nat /\ m \in Nat /\ m - 1 = below
  BY <1>0 DEF Tag_Number
<1>3. Wrote_Upto(n, before, c, after, at + need, m)
  <2>1. Wrote_Upto(n, before, c, written, at, m - 1)
    BY <1>1, <1>2
  <2> QED
    BY <2>1, MemberStored DEF Has_Member
<1>4. PICK w \in Cursor_Record :
        /\ w = written.cursor /\ Is_Valid(w, n) /\ w.next = c.next + at /\ Remaining(w) = Remaining(c) - at
        /\ written.output \in [1 .. n -> Octet] /\ written.status = "Wrote"
        /\ written.previous \in Nat /\ written.previous < m
  <2>1. Stores(n, before, c, written, at, at) /\ written.previous \in 0 .. below
    BY <1>1 DEF Wrote_Upto
  <2>2. written.status = "Wrote"
    BY <2>1 DEF Stores
  <2>3. /\ written.cursor \in Cursor_Record /\ Is_Valid(written.cursor, n)
        /\ written.cursor.next = c.next + at
        /\ Remaining(written.cursor) = Remaining(c) - at
        /\ written.output \in [1 .. n -> Octet]
    BY <2>1, Moved, Zenon
  <2>4. written.previous \in Nat /\ written.previous < m
    BY <1>2, <2>1
  <2> QED
    BY <2>2, <2>3, <2>4
<1>5. need <= Remaining(w)
  BY <1>0, <1>4
<1>6. PICK array \in [1 .. n -> Octet] : array = written.output
  BY <1>4
<1>7. /\ after.output \in [1 .. n -> Octet] /\ Keeps(n, array, after.output, w.next, need)
      /\ Spans(after.output, w.next, w.next + need, Digits(m) \o Delimited(Scalar_Octets(value, number)))
  <2>1. written.status = "Wrote" /\ written.output = array /\ written.cursor = w
    BY <1>4, <1>6
  <2>2. written.previous \in Nat /\ written.previous < m /\ Is_Valid(w, n)
    BY <1>4
  <2>3. need = Need(m, scalar_size(value, number)) /\ need <= Remaining(w)
    BY <1>5
  <2> QED
    BY <2>1, <2>2, <2>3, MemberSpanned
<1>8. PICK stop \in Nat : stop = w.next
  BY CursorFields
<1>9. PICK now \in [1 .. n -> Octet] : now = after.output
  BY <1>7
<1>10. PICK a : a = content[1]
  OBVIOUS
<1>11. Tags_Laid(array, c.next, stop, below, Member_Octets(lock, t, a, Members_Upto(lock, t, a, below), content))
  BY <1>4, <1>6, <1>8, <1>10 DEF Members_Stand
<1>12. /\ Keeps(n, array, now, stop, need) /\ m \in Payload_Tags(lock, t, a) /\ Payload_Tags(lock, t, a) \subseteq Field_Tag
       /\ Spans(now, stop, stop + need, Digits(m) \o Delimited(Scalar_Octets(Member(lock, t, a, m), content[Slot(lock, t, a, m)])))
  BY <1>7, <1>8, <1>9, <1>10 DEF Has_Member
<1>13. Tags_Laid(now, c.next, stop + need, m, Member_Octets(lock, t, a, Members_Upto(lock, t, a, m), content))
  BY <1>11, <1>12, MemberBehind, Zenon
<1>14. stop + need = c.next + (at + need)
  <2>1. c.next \in Nat
    BY CursorFields
  <2> QED
    BY <1>4, <1>8, <2>1
<1> QED
  BY <1>3, <1>9, <1>10, <1>13, <1>14 DEF Members_Stand

LEMMA MembersSpanned ==
  ASSUME NEW n \in Nat, NEW before \in [1 .. n -> Octet], NEW c \in Cursor_Record, Is_Valid(c, n),
         NEW lock \in Locks, NEW t \in Fields(lock), Field(lock, t).kind = "variant",
         NEW content \in Seq(Int), content[1] \in Field(lock, t).tags,
         Len(content) = 1 + Cardinality(Members(lock, t)), Truths(lock, t, content),
         NEW payload, payload = Measure_Payload(lock, t, content), payload.status = "Measured",
         payload.size <= Remaining(c)
  PROVE  Spans(Write_Members(lock, t, before, c, content).output, c.next, c.next + payload.size,
               Payload_Octets(lock, t, content[1], content))
<1> DEFINE wrote == CHOOSE f : Members_Written(f, MaxFieldTag, lock, t, before, c, content)
           tags == Payload_Tags(lock, t, content[1])
           value(m) == Member(lock, t, content[1], m)
           number(m) == content[Slot(lock, t, content[1], m)]
           sizes == Member_Sizes(lock, t, content)
<1>1. MaxFieldTag \in Nat /\ Remaining(c) \in Int /\ c.next \in Nat
  <2>1. MaxFieldTag \in Nat
    BY Limits
  <2>2. Remaining(c) \in Int /\ c.next \in Nat
    BY CursorFields
  <2> QED
    BY <2>1, <2>2
<1>2. Members_Written(wrote, MaxFieldTag, lock, t, before, c, content)
  BY <1>1, MembersWrittenExists
<1>3. Write_Members(lock, t, before, c, content) = wrote[MaxFieldTag]
  BY DEF Write_Members, Members_Written, Next_Member
<1> HIDE DEF wrote
<1>4. wrote[0] = [status |-> "Wrote", output |-> before, cursor |-> c, previous |-> No_Tag]
  BY <1>1, <1>2 DEF Members_Written
<1>5. \A m \in Field_Tag : wrote[m] = Next_Member(lock, t, content, wrote[m - 1], m)
  <2> SUFFICES ASSUME NEW m \in Field_Tag
               PROVE  wrote[m] = Next_Member(lock, t, content, wrote[m - 1], m)
    OBVIOUS
  <2>1. m \in 0 .. MaxFieldTag /\ m # 0
    BY <1>1 DEF Field_Tag
  <2> QED
    BY <1>2, <2>1, Zenon DEF Members_Written
<1>6. PICK upto : Adds_Up(upto, sizes, payload.size)
  BY PayloadMeasured
<1>7. \A m \in tags : m \in Field_Tag /\ Has_Member(lock, t, content, m, value(m), number(m))
  <2> SUFFICES ASSUME NEW m \in tags
               PROVE  m \in Field_Tag /\ Has_Member(lock, t, content, m, value(m), number(m))
    OBVIOUS
  <2>1. m \in Field_Tag /\ Proper(value(m)) /\ value(m).kind \in Scalars
    BY MemberIsProper, Zenon
  <2>2. Slot(lock, t, content[1], m) \in 1 .. Len(content)
    BY SlotIsAnIndex
  <2>3. number(m) \in Int
    BY <2>2
  <2>4. ~ scalar_invalid(value(m), number(m))
    BY PayloadMeasured, Zenon
  <2>5. Truth(value(m), number(m))
    <3>1. <<content[1], m>> \in Members(lock, t)
      BY MemberIsProper
    <3>2. \A o \in Members(lock, t) : Truth(Member(lock, t, o[1], o[2]), content[Slot(lock, t, o[1], o[2])])
      BY DEF Truths
    <3> QED
      BY <3>1, <3>2
  <2>6. value(m) = Member(lock, t, content[1], m) /\ number(m) = content[Slot(lock, t, content[1], m)]
    OBVIOUS
  <2> HIDE DEF value, number
  <2>7. Number(value(m), number(m))
    BY <2>1, <2>3, <2>4, NumberIsValid
  <2> QED
    BY <2>1, <2>5, <2>6, <2>7 DEF Simple, Has_Member
<1>8. \A m \in Field_Tag :
        upto[m] = IF m \in tags THEN upto[m - 1] + Need(m, scalar_size(value(m), number(m))) ELSE upto[m - 1]
  BY <1>6, Zenon DEF Adds_Up, Member_Sizes, Sized
<1>9. tags = Payload_Tags(lock, t, content[1]) /\ tags \subseteq Field_Tag
  BY <1>7
<1> HIDE DEF tags, value, number, sizes
<1> DEFINE Stood(m) == upto[m] <= Remaining(c) => Members_Stand(n, before, c, lock, t, content, wrote[m], upto[m], m)
           G == {m \in 0 .. MaxFieldTag : Stood(m)}
<1> HIDE DEF G
<1>10. ASSUME NEW m \in 0 .. MaxFieldTag, \A k \in 0 .. m - 1 : k \in G
       PROVE  m \in G
  <2>1. CASE m = 0
    <3>1. upto[0] = 0
      BY <1>6 DEF Adds_Up
    <3>2. Stores(n, before, c, wrote[0], 0, 0)
      <4>1. Advance(c, 0) = c
        BY CursorFields DEF Cursor_Record
      <4>2. 0 <= Remaining(c)
        BY CursorFields DEF Is_Valid
      <4> QED
        BY <1>4, <4>1, <4>2 DEF Stores, Keeps
    <3>3. Tags_Laid(before, c.next, c.next, No_Tag, Member_Octets(lock, t, content[1], Members_Upto(lock, t, content[1], 0), content))
      <4>1. c.next <= Len(before)
        BY CursorFields, LengthOf DEF Is_Valid
      <4>2. Members_Upto(lock, t, content[1], 0) = {}
        BY <1>9 DEF Members_Upto, Field_Tag
      <4> QED
        BY <1>1, <4>1, <4>2, NoTags, Zenon DEF Member_Octets
    <3> QED
      BY <1>1, <1>4, <2>1, <3>1, <3>2, <3>3 DEF G, Members_Stand, Wrote_Upto, No_Tag
  <2>2. CASE m > 0 /\ upto[m] <= Remaining(c)
    <3>0. PICK below \in 0 .. m - 1 : below = m - 1
      BY <2>2
    <3>1. m \in Field_Tag /\ below \in G /\ below \in 0 .. MaxFieldTag /\ m = below + 1
      BY <1>1, <1>10, <2>2, <3>0 DEF Field_Tag
    <3>2. upto[below] \in Nat /\ upto[m] \in Nat
      BY <1>6, <3>1, Zenon DEF Adds_Up
    <3>3. wrote[m] = Next_Member(lock, t, content, wrote[below], m)
      BY <1>5, <3>0, <3>1
    <3>4. CASE m \in tags
      <4>0. PICK need : need = Need(m, scalar_size(value(m), number(m)))
        OBVIOUS
      <4>1. need \in Nat
        BY <4>0, ScalarSize, SizeOfAny, ProfileAssumption DEF Need
      <4>2. upto[m] = upto[below] + need
        BY <1>8, <3>0, <3>1, <3>4, <4>0
      <4>3. upto[below] <= Remaining(c) /\ upto[below] + need <= Remaining(c)
        BY <1>1, <2>2, <3>2, <4>1, <4>2, SMTT(60)
      <4>4. Members_Stand(n, before, c, lock, t, content, wrote[below], upto[below], below)
        BY <3>1, <4>3 DEF G
      <4>5. Has_Member(lock, t, content, m, value(m), number(m)) /\ below \in Tag_Number
        BY <1>7, <3>1, <3>4 DEF Tag_Number
      <4>6. Members_Stand(n, before, c, lock, t, content, wrote[m], upto[below] + need, m)
        BY <1>9, <3>1, <3>2, <3>3, <4>0, <4>1, <4>3, <4>4, <4>5, MemberStands, Zenon
      <4> QED
        BY <4>2, <4>6 DEF G
    <3>5. CASE m \notin tags
      <4>1. upto[m] = upto[below]
        BY <1>8, <3>0, <3>1, <3>5
      <4>2. wrote[m] = wrote[below]
        BY <1>9, <3>3, <3>5 DEF Next_Member
      <4>3. Members_Stand(n, before, c, lock, t, content, wrote[below], upto[below], below)
        BY <2>2, <3>1, <4>1 DEF G
      <4>4. Members_Upto(lock, t, content[1], m) = Members_Upto(lock, t, content[1], below)
        <5>1. \A k \in tags : k <= m <=> k <= below
          BY <1>9, <3>1, <3>5 DEF Field_Tag
        <5> QED
          BY <1>9, <5>1 DEF Members_Upto
      <4>5. Members_Stand(n, before, c, lock, t, content, wrote[m], upto[m], m)
        <5>1. below \in Nat /\ m \in Nat /\ below <= m
          BY <3>1
        <5>2. Wrote_Upto(n, before, c, wrote[m], upto[m], m)
          BY <4>1, <4>2, <4>3, <5>1 DEF Members_Stand, Wrote_Upto
        <5>3. Tags_Laid(wrote[m].output, c.next, c.next + upto[m], below,
                        Member_Octets(lock, t, content[1], Members_Upto(lock, t, content[1], m), content))
          BY <4>1, <4>2, <4>3, <4>4 DEF Members_Stand
        <5>4. Tags_Laid(wrote[m].output, c.next, c.next + upto[m], m,
                        Member_Octets(lock, t, content[1], Members_Upto(lock, t, content[1], m), content))
          BY <5>1, <5>3, TagsPast
        <5> QED
          BY <5>2, <5>4 DEF Members_Stand
      <4> QED
        BY <4>5 DEF G
    <3> QED
      BY <3>4, <3>5
  <2>3. CASE ~ (upto[m] <= Remaining(c))
    BY <2>3 DEF G
  <2> QED
    BY <2>1, <2>2, <2>3
<1>11. MaxFieldTag \in G
  <2>1. MaxFieldTag \in Nat
    BY <1>1
  <2>2. \A m \in 0 .. MaxFieldTag : (\A k \in 0 .. m - 1 : k \in G) => m \in G
    BY <1>10
  <2>3. \A m \in 0 .. MaxFieldTag : m \in G
    BY <2>1, <2>2, AllNumbers, Zenon
  <2> QED
    BY <2>1, <2>3
<1>12. upto[MaxFieldTag] = payload.size
  BY <1>6 DEF Adds_Up
<1>13. PICK output \in [1 .. n -> Octet] : output = wrote[MaxFieldTag].output
  BY <1>11, <1>12 DEF G, Members_Stand, Wrote_Upto, Stores
<1>14. Members_Upto(lock, t, content[1], MaxFieldTag) = Payload_Tags(lock, t, content[1])
  BY <1>1, <1>9 DEF Members_Upto, Field_Tag
<1>15. Tags_Laid(output, c.next, c.next + payload.size, MaxFieldTag,
                 Member_Octets(lock, t, content[1], Payload_Tags(lock, t, content[1]), content))
  BY <1>11, <1>12, <1>13, <1>14 DEF G, Members_Stand
<1>16. Spans(output, c.next, c.next + payload.size, Payload_Octets(lock, t, content[1], content))
  <2>1. output \in Seq(Octet) /\ c.next <= Len(output) /\ MaxFieldTag \in Tag_Number
    BY <1>1, CursorFields, LengthOf, SMTT(60) DEF Is_Valid, Tag_Number
  <2> QED
    BY <1>1, <1>15, <2>1, TagsJoined, PayloadIsParts
<1> QED
  BY <1>3, <1>13, <1>16

(* The tag of an alternative, and its members behind their length.         *)
LEMMA VariantSpanned ==
  ASSUME NEW n \in Nat, NEW before \in [1 .. n -> Octet], NEW c \in Cursor_Record, Is_Valid(c, n),
         NEW lock \in Locks, NEW t \in Fields(lock), Field(lock, t).kind = "variant",
         NEW content \in Seq(Int), content[1] \in Field(lock, t).tags,
         Len(content) = 1 + Cardinality(Members(lock, t)), Truths(lock, t, content),
         NEW measured, measured = Measure_Variant(lock, t, content), measured.status = "Measured",
         measured.size = Remaining(c)
  PROVE  Spans(Write_Variant(lock, t, before, c, content).output, c.next, c.next + measured.size,
               Value_Octets(lock, t, content))
<1>1. PICK payload : payload = Measure_Payload(lock, t, content)
  OBVIOUS
<1>2. PICK one \in Nat : one = Unsigned_Size(content[1])
  BY SizeOfAny, ProfileAssumption
<1>3. /\ payload.status = "Measured" /\ payload.size \in Nat
      /\ measured = Sized(one + Length_And(payload.size))
  BY <1>1, <1>2, VariantMeasured
<1>4. PICK size \in Nat : size = payload.size
  BY <1>3
<1>5. PICK two \in Nat : two = Length_And(size)
  BY SizeOfAny, ProfileAssumption DEF Length_And
<1>6. measured.size = one + two
  BY <1>3, <1>4, <1>5, SizeOfSized, Zenon
<1>7. PICK tag : tag = Write_Unsigned(before, c, content[1])
  OBVIOUS
<1>8. PICK header : header = Write_Length_Delimited(tag.output, tag.cursor, size)
  OBVIOUS
<1>9. Write_Variant(lock, t, before, c, content) = Write_Alternative(lock, t, content, tag, header)
  BY <1>1, <1>4, <1>7, <1>8 DEF Write_Variant
<1>10. Remaining(c) = one + two /\ one <= Remaining(c) /\ content[1] \in Nat /\ Remaining(c) \in Int
  <2>1. content[1] \in Nat
    BY MemberIsProper DEF Field_Tag
  <2> QED
    BY <1>6, <2>1
<1>11. Stores(n, before, c, tag, one, one) /\ Spans(tag.output, c.next, c.next + one, Digits(content[1]))
  BY <1>2, <1>7, <1>10, UnsignedStored, UnsignedSpan, Zenon
<1>12. PICK k \in Cursor_Record :
         /\ k = tag.cursor /\ Is_Valid(k, n) /\ k.next = c.next + one /\ Remaining(k) = Remaining(c) - one
         /\ tag.output \in [1 .. n -> Octet]
  <2>1. /\ tag.cursor \in Cursor_Record /\ Is_Valid(tag.cursor, n) /\ tag.cursor.next = c.next + one
        /\ Remaining(tag.cursor) = Remaining(c) - one /\ tag.output \in [1 .. n -> Octet]
    <3>1. Moves(n, c, tag, one)
      BY <1>2, <1>11, MovedOn, Zenon
    <3> QED
      BY <3>1 DEF Moves
  <2> QED
    BY <2>1
<1>13. PICK array \in [1 .. n -> Octet] : array = tag.output
  BY <1>12
<1>14. header = Write_Length_Delimited(array, k, size) /\ two <= Remaining(k) /\ two = Remaining(k)
  BY <1>8, <1>10, <1>12, <1>13
<1>15. Opens(n, array, k, header, size, two) /\ At_End(header.cursor)
  <2>1. Length_And(size) <= Remaining(k) /\ Length_And(size) = Remaining(k)
    BY <1>5, <1>14
  <2>2. Opens(n, array, k, header, size, Length_And(size)) /\ At_End(header.cursor)
    BY <1>12, <1>14, <2>1, DelimitedRoom, ZenonT(60)
  <2> QED
    BY <1>5, <2>2
<1>16. PICK inner \in Cursor_Record :
         /\ inner = Initialize(header.output, header.value).cursor
         /\ Is_Valid(inner, n) /\ Remaining(inner) = size
         /\ \A value : Stores(n, header.output, inner, value, size, size) =>
              Stores(n, array, k, Behind(header, value), two, two)
  BY <1>15 DEF Opens
<1>17. header.status = "Wrote" /\ header.output \in [1 .. n -> Octet] /\ Inside(header.value, header.output)
  BY <1>15 DEF Opens
<1>18. PICK value : value = Write_Members(lock, t, header.output, inner, content)
  OBVIOUS
<1>19. PICK x : x = Payload_Octets(lock, t, content[1], content)
  OBVIOUS
<1>20. Stores(n, header.output, inner, value, size, size) /\ Spans(value.output, inner.next, inner.next + size, x)
  <2>1. payload.size <= Remaining(inner)
    BY <1>4, <1>16
  <2>2. Stores(n, header.output, inner, Write_Members(lock, t, header.output, inner, content), payload.size, payload.size)
    BY <1>1, <1>3, <1>16, <1>17, <2>1, MembersStored, Zenon
  <2>3. Spans(Write_Members(lock, t, header.output, inner, content).output, inner.next, inner.next + payload.size,
              Payload_Octets(lock, t, content[1], content))
    BY <1>1, <1>3, <1>16, <1>17, <2>1, MembersSpanned, ZenonT(60)
  <2> QED
    BY <1>4, <1>18, <1>19, <2>2, <2>3
<1>21. Fills(n, header, size, value, x)
  BY <1>16, <1>20 DEF Fills
<1>22. Spans(Behind(header, value).output, k.next, k.next + Length_And(size), Delimited(x))
  <2>1. Length_And(size) <= Remaining(k)
    BY <1>5, <1>14
  <2> QED
    BY <1>12, <1>14, <1>21, <2>1, DelimitedFilled, Zenon
<1>23. PICK after \in [1 .. n -> Octet] : after = Behind(header, value).output /\ Keeps(n, array, after, k.next, two)
  <2>1. Stores(n, array, k, Behind(header, value), two, two)
    BY <1>16, <1>20
  <2> QED
    BY <2>1 DEF Stores
<1>24. PICK start \in Nat, stop \in Nat : start = c.next /\ stop = k.next
  BY CursorFields
<1>25. Spans(after, start, stop, Digits(content[1]))
  <2>1. Spans(array, start, stop, Digits(content[1])) /\ Keeps(n, array, after, stop, two) /\ stop <= stop
    BY <1>11, <1>12, <1>13, <1>23, <1>24
  <2> QED
    BY <2>1, SpanKept, Zenon
<1>26. Spans(after, stop, stop + two, Delimited(x))
  BY <1>5, <1>22, <1>23, <1>24
<1>27. Spans(after, start, stop + two, Digits(content[1]) \o Delimited(x))
  BY <1>25, <1>26, SpansJoin
<1>28. Value_Octets(lock, t, content) = Digits(content[1]) \o Delimited(x)
  BY <1>19, Zenon DEF Value_Octets, Payload_Octets
<1>29. Write_Alternative(lock, t, content, tag, header) = Behind(header, value)
  <2>1. tag.status = "Wrote"
    BY <1>11 DEF Stores
  <2> QED
    BY <1>15, <1>16, <1>17, <1>18, <2>1 DEF Write_Alternative, In_Extent
<1>30. stop + two = c.next + measured.size
  <2>1. c.next \in Nat
    BY CursorFields
  <2> QED
    BY <1>6, <1>12, <1>24, <2>1
<1> QED
  BY <1>9, <1>23, <1>24, <1>27, <1>28, <1>29, <1>30

(* Any value ...                                                           *)
LEMMA ValueSpanned ==
  ASSUME NEW n \in Nat, NEW before \in [1 .. n -> Octet], NEW c \in Cursor_Record, Is_Valid(c, n),
         NEW lock \in Locks, NEW item, Item_Of(lock, item), NEW t \in Included(lock, item),
         ~ Invalid_Field(lock, item, t), Truths(lock, t, item[t]),
         NEW measured, measured = Measure_Value(lock, t, item[t]), measured.status = "Measured",
         NEW size, size = measured.size, size = Remaining(c)
  PROVE  Spans(Write_Value(lock, t, before, c, item[t]).output, c.next, c.next + size, Value_Octets(lock, t, item[t]))
<1> DEFINE field == Field(lock, t)
<1>0. PICK content : content = item[t]
  OBVIOUS
<1>1. t \in Fields(lock)
  BY DEF Included
<1>2. Component(lock, t, content) /\ content \in Seq(Int) /\ Len(content) \in Nat /\ Truths(lock, t, content)
  BY <1>0, <1>1 DEF Item_Of, Component
<1>3. Proper(field) /\ field.kind \in Simple \cup {"bytes", "sequence", "variant"} /\ Remaining(c) \in Int
  <2>1. Remaining(c) \in Int
    BY CursorFields
  <2> QED
    BY <1>1, <2>1, FieldIsProper, Zenon
<1>4. CASE field.kind = "bytes"
  <2>1. content \in Seq(Octet)
    BY <1>2, <1>4 DEF Component
  <2>2. measured = Sized(Len(content))
    BY <1>0, <1>4 DEF Measure_Value
  <2>3. measured.size = Len(content)
    BY <2>2, SizeOfSized, Zenon
  <2>4. size = Len(content) /\ size <= Remaining(c)
    <3>1. size = Len(content)
      BY <2>3, Zenon
    <3> QED
      BY <1>2, <3>1
  <2>5. Write_Value(lock, t, before, c, item[t]) = Write_Octets(before, c, content, size)
    BY <1>0, <1>4, <2>4 DEF Write_Value
  <2>6. Value_Octets(lock, t, item[t]) = content
    BY <1>0, <1>4 DEF Value_Octets
  <2> QED
    BY <2>1, <2>4, <2>5, <2>6, OctetsSpan, Zenon
<1>5. CASE field.kind = "sequence"
  <2>1. measured = Measure_Sequence(lock, t, content)
    BY <1>0, <1>5 DEF Measure_Value
  <2>2. PICK element : element = Element(lock, t)
    OBVIOUS
  <2>3. Proper(element) /\ element.kind \in Simple /\ element.kind \in Scalars
    BY <1>1, <1>5, <2>2, ElementIsProper, ExchangeAssumption DEF validate_binding
  <2>4. Elements_Vouched(lock, t, content, measured)
    BY <1>2, <2>1, ElementsMeasured, Zenon
  <2>5. PICK upto : Elements_Add_Up(upto, element, content) /\ upto[Len(content)] = size
    BY <2>2, <2>4 DEF Elements_Vouched
  <2>6. ASSUME NEW i \in 1 .. Len(content)
        PROVE  Number(element, content[i]) /\ Truth(element, content[i])
    <3>1. content[i] \in Int /\ ~ scalar_invalid(element, content[i])
      BY <1>2, <2>2, <2>4 DEF Elements_Vouched
    <3>2. Truth(element, content[i])
      BY <1>2, <1>5, <2>2 DEF Truths
    <3> QED
      BY <2>3, <3>1, <3>2, NumberIsValid
  <2>7. Write_Value(lock, t, before, c, item[t]) = Write_Elements(element, before, c, content)
    BY <1>0, <1>5, <2>2 DEF Write_Value
  <2>8. size <= Remaining(c) /\ size = upto[Len(content)]
    BY <1>3, <2>5
  <2>9. PICK parts : parts = [i \in DOMAIN content |-> Delimited(Scalar_Octets(element, content[i]))]
    BY Zenon
  <2>10. Spans(Write_Elements(element, before, c, content).output, c.next, c.next + size,
               Digits(Len(content)) \o Joined(parts, Len(content)))
    BY <1>2, <2>3, <2>5, <2>6, <2>8, <2>9, ElementsSpanned, Zenon
  <2>11. Value_Octets(lock, t, item[t]) = Digits(Len(content)) \o Joined(parts, Len(content))
    BY <1>0, <1>5, <2>2, <2>9 DEF Value_Octets
  <2> QED
    BY <2>7, <2>10, <2>11
<1>6. CASE field.kind = "variant"
  <2>1. measured = Measure_Variant(lock, t, content) /\ measured.size = Remaining(c)
    BY <1>0, <1>6 DEF Measure_Value
  <2>2. Write_Value(lock, t, before, c, item[t]) = Write_Variant(lock, t, before, c, content)
    BY <1>0, <1>6 DEF Write_Value
  <2>3. content[1] \in field.tags /\ Len(content) = 1 + Cardinality(Members(lock, t))
    BY <1>0, <1>2, <1>6, InvalidField DEF Component
  <2> QED
    BY <1>0, <1>1, <1>2, <1>6, <2>1, <2>2, <2>3, VariantSpanned, Zenon
<1>7. CASE field.kind \in Simple
  <2>1. measured = Sized(scalar_size(field, content[1]))
    BY <1>0, <1>7 DEF Measure_Value, Simple, Scalars
  <2>2. Write_Value(lock, t, before, c, item[t]) = scalar_write(field, before, c, content[1])
    BY <1>0, <1>7 DEF Write_Value, Simple, Scalars
  <2>3. Number(field, content[1]) /\ Len(content) = 1
    BY <1>0, <1>7, ValueIsNumber
  <2>4. size = scalar_size(field, content[1])
    BY <2>1, SizeOfSized, Zenon
  <2>5. size <= Remaining(c)
    BY <1>3
  <2>6. Truth(field, content[1])
    <3>1. CASE field.kind \in Scalars
      <4>1. content # <<>>
        <5>1. content \in Seq(Int) /\ Len(content) = 1
          BY <1>2, <2>3
        <5> QED
          BY <5>1, OneIsSome
      <4> QED
        BY <1>2, <3>1, <4>1 DEF Truths
    <3>2. CASE field.kind = "enumeration"
      BY <3>2 DEF Truth
    <3> QED
      BY <1>7, <3>1, <3>2 DEF Simple
  <2>7. Value_Octets(lock, t, item[t]) = Scalar_Octets(field, content[1])
    BY <1>0, <1>7 DEF Value_Octets, Simple, Scalars
  <2> QED
    BY <1>3, <1>7, <2>2, <2>3, <2>4, <2>5, <2>6, <2>7, ScalarSpan, Zenon
<1> QED
  BY <1>3, <1>4, <1>5, <1>6, <1>7

(* ... and a field, where the call has come to.                            *)
LEMMA FieldSpanned ==
  ASSUME NEW n \in Nat, NEW before \in [1 .. n -> Octet], NEW c \in Cursor_Record, Is_Valid(c, n),
         NEW lock \in Locks, NEW item, Item_Of(lock, item), NEW t \in Included(lock, item),
         ~ Invalid_Field(lock, item, t), Truths(lock, t, item[t]),
         NEW measured, measured = Measure_Value(lock, t, item[t]), measured.status = "Measured",
         NEW previous \in Nat, previous < t,
         NEW need, need = Need(t, measured.size), need <= Remaining(c),
         NEW result, result = Write_Field(lock, item, t, before, c, previous)
  PROVE  /\ Stores(n, before, c, result, need, need) /\ need \in Nat
         /\ Spans(result.output, c.next, c.next + need, Digits(t) \o Delimited(Value_Octets(lock, t, item[t])))
<1>1. measured.size \in Nat
  BY ValueMeasured, Zenon
<1>2. PICK size \in Nat : size = measured.size
  BY <1>1
<1>3. need \in Nat /\ need = Need(t, size) /\ t \in Nat
  <2>1. t \in Field_Tag
    BY FieldIsProper, Zenon DEF Included
  <2>2. Unsigned_Size(t) \in Nat /\ Unsigned_Size(size) \in Nat
    BY SizeOfAny, ProfileAssumption
  <2> QED
    BY <1>2, <2>1, <2>2, SMTT(60) DEF Need, Field_Tag
<1>4. PICK header : header = Write_Field_Header(before, c, previous, t, size)
  OBVIOUS
<1>5. Need(t, size) <= Remaining(c)
  BY <1>3
<1>6. Opens(n, before, c, header, size, Need(t, size))
  BY <1>3, <1>4, <1>5, FieldRoom, Zenon
<1>7. PICK inner \in Cursor_Record :
        /\ inner = Initialize(header.output, header.value).cursor
        /\ Is_Valid(inner, n) /\ Remaining(inner) = size
        /\ \A value : Stores(n, header.output, inner, value, size, size) =>
             Stores(n, before, c, Behind(header, value), need, need)
  BY <1>3, <1>6 DEF Opens
<1>8. header.status = "Wrote" /\ header.output \in [1 .. n -> Octet] /\ Inside(header.value, header.output)
  BY <1>6 DEF Opens
<1>9. PICK value : value = Write_Value(lock, t, header.output, inner, item[t])
  OBVIOUS
<1>10. PICK x : x = Value_Octets(lock, t, item[t])
  OBVIOUS
<1>11. Stores(n, header.output, inner, value, size, size) /\ Spans(value.output, inner.next, inner.next + size, x)
  <2>1. size = Remaining(inner)
    BY <1>7
  <2>2. Stores(n, header.output, inner, Write_Value(lock, t, header.output, inner, item[t]), size, size)
    BY <1>2, <1>7, <1>8, <2>1, ValueStored
  <2>3. Spans(Write_Value(lock, t, header.output, inner, item[t]).output, inner.next, inner.next + size, Value_Octets(lock, t, item[t]))
    BY <1>2, <1>7, <1>8, <2>1, ValueSpanned
  <2> QED
    BY <1>9, <1>10, <2>2, <2>3
<1>12. Fills(n, header, size, value, x)
  BY <1>7, <1>11 DEF Fills
<1>13. Spans(Behind(header, value).output, c.next, c.next + Need(t, size), Digits(t) \o Delimited(x))
  BY <1>3, <1>4, <1>5, <1>12, FieldFilled
<1>14. result = Behind(header, value)
  BY <1>2, <1>4, <1>7, <1>8, <1>9, Zenon DEF Write_Field, In_Extent
<1>15. Stores(n, before, c, result, need, need)
  BY <1>7, <1>11, <1>14
<1> QED
  BY <1>3, <1>10, <1>13, <1>14, <1>15

-----------------------------------------------------------------------------

(***************************************************************************)
(* What a call of Encode has written are the octets of the fields that had *)
(* their turn; in the end they are the canonical ones of the item.         *)
(***************************************************************************)
Had_Turn(call) == {t \in Included(call.lock, call.item) : t <= call.previous}

Spelled(call) ==
  call # Idle =>
    /\ \A t \in Fields(call.lock) : Truths(call.lock, t, call.item[t])
    /\ call.status = "Encoding" =>
         Tags_Laid(call.output, 0, call.writer.next, call.previous, Field_Octets(call.lock, Had_Turn(call), call.item))
    /\ call.status = "Encoded" =>
         Spans(call.output, 0, call.written, Canonical(call.lock, call.item))

LEMMA CallHasFields ==
  ASSUME NEW call, Right(call), call # Idle
  PROVE  /\ call.lock \in Locks /\ Item_Of(call.lock, call.item) /\ call.output \in Seq(Octet)
         /\ call.previous \in Tag_Number
         /\ Included(call.lock, call.item) \subseteq Fields(call.lock)
         /\ Included(call.lock, call.item) \subseteq Field_Tag
<1>1. /\ call.lock \in Locks /\ Item_Of(call.lock, call.item) /\ call.output \in Seq(Octet)
      /\ call.previous \in Tag_Number
  BY DEF Right
<1> QED
  BY <1>1, Root DEF Included

(* Before the first field there are none.                                  *)
LEMMA SpellingBegins ==
  ASSUME NEW lock \in Locks, NEW item \in Items[lock], NEW room \in Rooms,
         NEW measured, measured = Measure(lock, item),
         NEW call,
         call = Encode_Call(Fitting(measured, room), lock, item, Blank(room),
                            IF Fitting(measured, room) = "Encoding"
                              THEN Initialize(Blank(room), Extent(0, measured.size)).cursor
                              ELSE Cursor(0, 0, 0),
                            No_Tag, 0)
  PROVE  Spelled(call)
<1>1. /\ Item_Of(lock, item) /\ room \in Nat
      /\ \A t \in Fields(lock) : Truths(lock, t, item[t])
  BY ExchangeAssumption
<1>2. /\ call.status = Fitting(measured, room) /\ call.lock = lock /\ call.item = item /\ call.output = Blank(room)
      /\ call.previous = No_Tag
      /\ Fitting(measured, room) = "Encoding" =>
           call.writer = Initialize(Blank(room), Extent(0, measured.size)).cursor
  BY CallParts
<1>3. measured.status \in Outcomes
  BY <1>1, MeasureStatus
<1>4. call.status # "Encoded"
  BY <1>2, <1>3 DEF Fitting, Outcomes
<1>5. ASSUME call.status = "Encoding"
      PROVE  Tags_Laid(call.output, 0, call.writer.next, call.previous, Field_Octets(lock, Had_Turn(call), item))
  <2>1. measured.status = "Measured" /\ ~ (room < measured.size) /\ measured.size \in Nat
    BY <1>1, <1>2, <1>3, <1>5, Vouched DEF Fitting, Outcomes
  <2>2. Blank(room) \in Seq(Octet) /\ Len(Blank(room)) = room
    BY <1>1, BlankArray
  <2>3. call.writer.next = 0
    <3>1. Inside(Extent(0, measured.size), Blank(room))
      BY <1>1, <2>1, <2>2 DEF Inside, Extent
    <3> QED
      BY <1>2, <1>5, <3>1 DEF Initialize, Extent, Cursor
  <2>4. Had_Turn(call) = {}
    <3>1. Included(lock, item) \subseteq Field_Tag
      BY Root DEF Included
    <3> QED
      BY <1>2, <3>1 DEF Had_Turn, Field_Tag, No_Tag
  <2>5. DOMAIN Field_Octets(lock, Had_Turn(call), item) = {}
    BY <2>4 DEF Field_Octets
  <2> QED
    BY <1>1, <1>2, <2>2, <2>3, <2>5, NoTags
<1> QED
  BY <1>1, <1>2, <1>4, <1>5 DEF Spelled

(* A turn puts one field behind the others.                                *)
LEMMA TurnSpelled ==
  ASSUME NEW call, Right(call), call.status = "Encoding", Spelled(call),
         NEW t, Room_For(call, t),
         NEW wrote, wrote = Write_Field(call.lock, call.item, t, call.output, call.writer, call.previous)
  PROVE  Tags_Laid(wrote.output, 0, wrote.cursor.next, t,
                   Field_Octets(call.lock, Had_Turn(call) \cup {t}, call.item))
<1>1. /\ call # Idle /\ call.lock \in Locks /\ Item_Of(call.lock, call.item) /\ call.output \in Seq(Octet)
      /\ call.previous \in Tag_Number
      /\ Included(call.lock, call.item) \subseteq Fields(call.lock)
      /\ Included(call.lock, call.item) \subseteq Field_Tag
  BY CallHasFields DEF Idle
<1>2. PICK lock \in Locks : lock = call.lock
  BY <1>1
<1>3. PICK item : item = call.item
  OBVIOUS
<1>4. PICK n \in Nat : n = Len(call.output)
  BY <1>1
<1>5. PICK before \in [1 .. n -> Octet] : before = call.output
  BY <1>1, <1>4, LengthOf
<1>6. PICK c \in Cursor_Record : c = call.writer /\ Is_Valid(c, n)
  BY <1>4 DEF Room_For
<1>7. PICK previous \in Tag_Number : previous = call.previous
  BY <1>1
<1>8. PICK measured : measured = Measure_Value(lock, t, item[t])
  OBVIOUS
<1>9. /\ t \in Included(lock, item) /\ previous < t /\ ~ Invalid_Field(lock, item, t)
      /\ measured.status = "Measured" /\ Need(t, measured.size) <= Remaining(c)
  BY <1>2, <1>3, <1>6, <1>7, <1>8 DEF Room_For
<1>10. Item_Of(lock, item) /\ Truths(lock, t, item[t]) /\ previous \in Nat /\ t \in Field_Tag
  <2>1. \A s \in Fields(call.lock) : Truths(call.lock, s, call.item[s])
    BY <1>1 DEF Spelled
  <2> QED
    BY <1>1, <1>2, <1>3, <1>7, <1>9, <2>1, Limits DEF Tag_Number
<1>11. wrote = Write_Field(lock, item, t, before, c, previous)
  BY <1>2, <1>3, <1>5, <1>6, <1>7
<1>12. PICK need : need = Need(t, measured.size)
  OBVIOUS
<1>13. /\ wrote.output \in [1 .. n -> Octet] /\ Keeps(n, before, wrote.output, c.next, need) /\ need \in Nat
       /\ Spans(wrote.output, c.next, c.next + need, Digits(t) \o Delimited(Value_Octets(lock, t, item[t])))
       /\ wrote.cursor.next = c.next + need
  <2>1. /\ Stores(n, before, c, wrote, need, need) /\ need \in Nat
        /\ Spans(wrote.output, c.next, c.next + need, Digits(t) \o Delimited(Value_Octets(lock, t, item[t])))
    BY <1>6, <1>8, <1>9, <1>10, <1>11, <1>12, FieldSpanned
  <2>2. Moves(n, c, wrote, need)
    BY <1>6, <2>1, MovedOn
  <2> QED
    BY <2>1, <2>2 DEF Stores, Moves
<1>14. PICK stop \in Nat : stop = c.next
  BY CursorFields
<1>15. PICK octets : octets = Field_Octets(lock, Had_Turn(call), item)
  OBVIOUS
<1>16. PICK more : more = Field_Octets(lock, Had_Turn(call) \cup {t}, item)
  OBVIOUS
<1>17. Tags_Laid(before, 0, stop, previous, octets)
  BY <1>1, <1>2, <1>3, <1>5, <1>6, <1>7, <1>14, <1>15 DEF Spelled
<1>18. /\ DOMAIN more = DOMAIN octets \cup {t} /\ more[t] = Value_Octets(lock, t, item[t])
       /\ \A k \in DOMAIN octets : more[k] = octets[k]
  BY <1>15, <1>16 DEF Field_Octets
<1>19. PICK now \in [1 .. n -> Octet] : now = wrote.output
  BY <1>13
<1>20. PICK x : x = Value_Octets(lock, t, item[t])
  OBVIOUS
<1>21. Tags_Laid(now, 0, stop + need, t, more)
  <2>1. Keeps(n, before, now, stop, need) /\ Spans(now, stop, stop + need, Digits(t) \o Delimited(x)) /\ more[t] = x
    BY <1>13, <1>14, <1>18, <1>19, <1>20
  <2>2. t > previous /\ need \in Nat
    BY <1>9, <1>13
  <2> QED
    BY <1>10, <1>17, <1>18, <2>1, <2>2, TagsWritten, Zenon
<1> QED
  BY <1>2, <1>3, <1>13, <1>14, <1>16, <1>19, <1>21

LEMMA SpellingGoesOn ==
  ASSUME NEW call, Right(call), call.status = "Encoding", Spelled(call),
         NEW turn, turn = {t \in Included(call.lock, call.item) : t > call.previous}, turn # {},
         NEW wrote, wrote = Write_Field(call.lock, call.item, Min(turn), call.output, call.writer, call.previous)
  PROVE  Spelled(Encode_Call("Encoding", call.lock, call.item, wrote.output, wrote.cursor,
                             wrote.previous, call.written))
<1>1. PICK t : t = Min(turn)
  OBVIOUS
<1>2. wrote = Write_Field(call.lock, call.item, t, call.output, call.writer, call.previous)
  BY <1>1
<1>3. Room_For(call, t) /\ wrote.previous = t
  BY <1>1, CallGoesOn
<1>4. Tags_Laid(wrote.output, 0, wrote.cursor.next, t, Field_Octets(call.lock, Had_Turn(call) \cup {t}, call.item))
  BY <1>2, <1>3, TurnSpelled
<1>5. PICK next : next = Encode_Call("Encoding", call.lock, call.item, wrote.output, wrote.cursor,
                                     wrote.previous, call.written)
  BY SMTT(60)
<1>6. /\ next.status = "Encoding" /\ next.lock = call.lock /\ next.item = call.item
      /\ next.output = wrote.output /\ next.writer = wrote.cursor /\ next.previous = t
  BY <1>3, <1>5, CallParts
<1>7. Had_Turn(next) = Had_Turn(call) \cup {t}
  <2>1. /\ Included(call.lock, call.item) \subseteq Field_Tag /\ call.previous \in Tag_Number
    BY CallHasFields DEF Idle
  <2>2. \A s \in Included(call.lock, call.item) : s \in Nat
    BY <2>1 DEF Field_Tag
  <2>3. call.previous \in Nat /\ t \in Included(call.lock, call.item) /\ t \in Nat
    BY <1>3, <2>1, <2>2, Limits DEF Room_For, Tag_Number
  <2>4. call.previous < t /\ \A s \in Included(call.lock, call.item) : s > call.previous => t <= s
    BY <1>3 DEF Room_For
  <2>5. \A s \in Included(call.lock, call.item) : s <= t <=> (s <= call.previous \/ s = t)
    BY <2>2, <2>3, <2>4
  <2> QED
    BY <1>6, <2>3, <2>5 DEF Had_Turn
<1>8. \A s \in Fields(call.lock) : Truths(call.lock, s, call.item[s])
  BY DEF Spelled, Idle
<1>9. Spelled(next)
  BY <1>4, <1>6, <1>7, <1>8 DEF Spelled
<1> QED
  BY <1>5, <1>9

(* The writer started at the start of the array.                           *)
LEMMA WriterStands ==
  ASSUME NEW call, Right(call), call.status = "Encoding"
  PROVE  call.writer.next \in Nat /\ Consumed(call.writer) = call.writer.next /\ call.writer.next <= Len(call.output)
<1>1. Halfway(call) /\ Measure(call.lock, call.item).size \in Nat /\ call.output \in Seq(Octet) /\ call.previous \in Tag_Number
  <2>1. Halfway(call) /\ call.lock \in Locks /\ Item_Of(call.lock, call.item) /\ call.output \in Seq(Octet)
        /\ call.previous \in Tag_Number
    BY DEF Right, Idle
  <2>2. Measure(call.lock, call.item).status = "Measured"
    BY <2>1 DEF Halfway
  <2> QED
    BY <2>1, <2>2, Vouched
<1>2. PICK size \in Nat : size = Measure(call.lock, call.item).size
  BY <1>1
<1>3. PICK upto : /\ Adds_Up(upto, Field_Sizes(call.lock, call.item), size)
                  /\ Stores(Len(call.output), Blank(Len(call.output)), Cursor(0, 0, size),
                            [status |-> "Wrote", output |-> call.output, cursor |-> call.writer],
                            upto[call.previous], upto[call.previous])
  BY <1>1, <1>2 DEF Halfway
<1>4. PICK k \in Nat : k = upto[call.previous]
  BY <1>1, <1>3 DEF Adds_Up, Tag_Number
<1>5. k <= Remaining(Cursor(0, 0, size)) /\ call.writer = Advance(Cursor(0, 0, size), k) /\ size <= Len(call.output)
  BY <1>1, <1>2, <1>3, <1>4 DEF Stores, Halfway
<1>6. Remaining(Cursor(0, 0, size)) = size /\ Advance(Cursor(0, 0, size), k) = Cursor(0, 0 + k, size)
  <2>1. PICK n \in Nat : n = Len(call.output)
    BY <1>1
  <2> QED
    BY <1>5, <2>1, WholeRoom
<1>7. call.writer = Cursor(0, k, size) /\ k <= size
  BY <1>5, <1>6
<1>8. Len(call.output) \in Nat
  BY <1>1
<1> QED
  BY <1>5, <1>7, <1>8 DEF Consumed, Cursor

LEMMA SpellingEnds ==
  ASSUME NEW call, Right(call), call.status = "Encoding", Spelled(call),
         {t \in Included(call.lock, call.item) : t > call.previous} = {}
  PROVE  Spelled(Encode_Call("Encoded", call.lock, call.item, call.output, call.writer,
                             call.previous, Consumed(call.writer)))
<1>1. PICK last : last = Encode_Call("Encoded", call.lock, call.item, call.output, call.writer,
                                     call.previous, Consumed(call.writer))
  OBVIOUS
<1>2. /\ last.status = "Encoded" /\ last.lock = call.lock /\ last.item = call.item
      /\ last.output = call.output /\ last.written = Consumed(call.writer)
  BY <1>1, CallParts
<1>3. PICK stop \in Nat : stop = call.writer.next /\ Consumed(call.writer) = stop
  BY WriterStands
<1>4. /\ call # Idle /\ Included(call.lock, call.item) \subseteq Field_Tag /\ call.previous \in Tag_Number
      /\ call.output \in Seq(Octet)
  BY CallHasFields DEF Idle
<1>5. Had_Turn(call) = Included(call.lock, call.item)
  BY <1>4, Limits DEF Had_Turn, Tag_Number, Field_Tag
<1>6. PICK octets : octets = Field_Octets(call.lock, Included(call.lock, call.item), call.item)
  OBVIOUS
<1>7. Tags_Laid(call.output, 0, stop, call.previous, octets)
  BY <1>3, <1>4, <1>5, <1>6 DEF Spelled
<1>8. Spans(call.output, 0, stop, Joined(Tagged_Parts(octets), MaxFieldTag))
  <2>1. 0 <= Len(call.output)
    BY <1>4
  <2> QED
    BY <1>4, <1>7, <2>1, TagsJoined
<1>9. Joined(Tagged_Parts(octets), MaxFieldTag) = Canonical(call.lock, call.item)
  BY <1>6, CanonicalIsParts
<1>10. \A s \in Fields(call.lock) : Truths(call.lock, s, call.item[s])
  BY <1>4 DEF Spelled
<1>11. Spelled(last)
  BY <1>2, <1>3, <1>8, <1>9, <1>10 DEF Spelled
<1> QED
  BY <1>1, <1>11

-----------------------------------------------------------------------------

(* A number is an integer on the wire that fits there.                     *)
LEMMA WireIsUnsigned ==
  ASSUME NEW value, Proper(value), value.kind \in Simple \ {"boolean"}, NEW number, Number(value, number)
  PROVE  /\ Wire(value, number) \in Unsigned
         /\ value.kind = "signed" => ZigZag_Decode(Wire(value, number)) = number
<1>1. number \in Int /\ value.minimum \in Int /\ value.maximum \in Int /\ MaxUnsigned \in Nat /\ MaxFieldTag <= MaxUnsigned
  BY Limits, TagAssumption DEF Proper, Value, Number
<1>2. CASE value.kind = "signed"
  <2>1. value.minimum \in Integer_64 /\ value.maximum \in Integer_64 /\ number \in value.minimum .. value.maximum
    BY <1>2 DEF Proper, Wire_Bounds, Number
  <2>2. PICK half \in Nat : half = Radix ^ LastGroup
    BY Limits
  <2>3. Integer_64 = - half .. half - 1
    BY <2>2 DEF Integer_64
  <2>4. number \in Integer_64
    BY <1>1, <2>1, <2>3
  <2> QED
    BY <1>2, <2>4, ZigZagEncoded DEF Wire
<1>3. CASE value.kind = "unsigned"
  <2>1. value.minimum >= 0 /\ number \in value.minimum .. value.maximum /\ value.maximum \in Unsigned
    BY <1>1, <1>3 DEF Proper, Bounded, Number, Wire_Bounds
  <2>2. number \in Unsigned
    BY <1>1, <2>1 DEF Unsigned
  <2> QED
    BY <1>3, <2>2 DEF Wire
<1>4. CASE value.kind = "enumeration"
  <2>1. number \in Field_Tag
    BY <1>4 DEF Proper, Wire_Bounds, Number
  <2>2. number \in Unsigned
    BY <1>1, <2>1, Limits DEF Field_Tag, Unsigned
  <2> QED
    BY <1>4, <2>2 DEF Wire
<1> QED
  BY <1>2, <1>3, <1>4 DEF Simple, Scalars

LEMMA ScalarOctets ==
  ASSUME NEW value, Proper(value), value.kind \in Simple, NEW number, Number(value, number), Truth(value, number)
  PROVE  Scalar_Octets(value, number) \in Seq(Octet)
<1>1. CASE value.kind = "boolean"
  <2>1. number \in Octet
    BY <1>1, Limits DEF Truth, Octet
  <2>2. <<number>> \in Seq(Octet)
    BY <2>1
  <2> QED
    BY <1>1, <2>2 DEF Scalar_Octets
<1>2. CASE value.kind # "boolean"
  <2>1. PICK wire \in Nat : wire = Wire(value, number)
    BY <1>2, WireIsNat
  <2>2. Digits(wire) \in Seq(Octet)
    BY DigitsOctets
  <2> QED
    BY <1>2, <2>1, <2>2 DEF Scalar_Octets
<1> QED
  BY <1>1, <1>2

(* A number arrives where its octets fill an extent.                       *)
LEMMA ScalarArrives ==
  ASSUME NEW input \in Seq(Octet), NEW region \in Regions, Inside(region, input),
         NEW value, Proper(value), value.kind \in Simple, NEW n, Number(value, n), Truth(value, n),
         Spans(input, region.start, End(region), Scalar_Octets(value, n))
  PROVE  Read_Scalar(value, input, region) = Taken(<<n>>)
<1>1. PICK c \in Cursor_Record, start \in Nat, stop \in Nat :
        /\ c = Initialize(input, region).cursor /\ Is_Valid(c, Len(input))
        /\ start = region.start /\ stop = End(region) /\ stop <= Len(input)
        /\ c.first = start /\ c.next = start /\ c.limit = stop
  BY ExtentCursor
<1>2. PICK read : read = scalar_read(value, input, c)
  OBVIOUS
<1>3. read.status = "Read" /\ At_End(read.cursor) /\ read.value = n
  <2>1. CASE value.kind = "boolean"
    <3>1. n \in 0 .. 1 /\ Scalar_Octets(value, n) = <<n>>
      BY <2>1 DEF Truth, Scalar_Octets
    <3>2. <<n>> \in Seq(Octet) /\ Len(<<n>>) = 1 /\ <<n>>[1] = n
      <4>1. n \in Octet
        BY <3>1, Limits DEF Octet
      <4> QED
        BY <4>1
    <3>3. Spans(input, start, stop, <<n>>)
      BY <1>1, <3>1
    <3>4. stop = start + 1 /\ input[start + 1] = n
      BY <3>2, <3>3 DEF Spans
    <3>5. PICK bool : bool = Read_Boolean(input, c)
      OBVIOUS
    <3>6. ~ Exhausted(c, c.next) /\ ~ Faults(input, c.next) /\ ~ (input[c.next + 1] > 1)
      <4>1. Len(input) \in Nat
        OBVIOUS
      <4> QED
        BY <1>1, <3>1, <3>4, <4>1 DEF Exhausted, Faults
    <3>7. bool = [status |-> "Read", value |-> input[c.next + 1] = 1, cursor |-> Advance(c, 1)]
      BY <1>1, <3>5, <3>6 DEF Read_Boolean
    <3>8. bool = [status |-> "Read", value |-> n = 1, cursor |-> Advance(c, 1)]
      BY <1>1, <3>4, <3>7
    <3>9. read = [bool EXCEPT !.value = IF @ THEN 1 ELSE 0]
      BY <1>2, <2>1, <3>5 DEF scalar_read
    <3>10. read.status = "Read" /\ read.cursor = Advance(c, 1) /\ read.value = IF n = 1 THEN 1 ELSE 0
      BY <3>8, <3>9, Zenon
    <3>11. Advance(c, 1) = [first |-> c.first, next |-> c.next + 1, limit |-> c.limit]
      BY CursorFields
    <3> QED
      BY <1>1, <3>1, <3>4, <3>10, <3>11 DEF At_End
  <2>2. CASE value.kind # "boolean"
    <3>1. PICK wire \in Unsigned :
            wire = Wire(value, n) /\ (value.kind = "signed" => ZigZag_Decode(wire) = n)
      BY <2>2, WireIsUnsigned
    <3>2. Spans(input, c.next, stop, Digits(wire))
      BY <1>1, <2>2, <3>1 DEF Scalar_Octets
    <3>3. stop <= c.limit
      BY <1>1
    <3>4. Read_Unsigned(input, c) = [status |-> "Read", value |-> wire, cursor |-> MovedTo(c, stop)]
      BY <1>1, <3>2, <3>3, DigitsArrive
    <3>5. At_End(MovedTo(c, stop))
      BY <1>1 DEF MovedTo, Cursor, At_End
    <3>6. CASE value.kind = "signed"
      <4>1. read = Read_Signed(input, c)
        BY <1>2, <3>6 DEF scalar_read
      <4>2. read = [Read_Unsigned(input, c) EXCEPT !.value = ZigZag_Decode(@)]
        BY <3>4, <4>1 DEF Read_Signed
      <4>3. read.status = "Read" /\ read.value = ZigZag_Decode(wire) /\ read.cursor = MovedTo(c, stop)
        BY <3>4, <4>2
      <4> QED
        BY <3>1, <3>5, <3>6, <4>3
    <3>7. CASE value.kind # "signed"
      <4>1. read = Read_Unsigned(input, c)
        BY <1>2, <2>2, <3>7 DEF scalar_read
      <4>2. wire = n
        BY <3>1, <3>7 DEF Wire
      <4> QED
        BY <3>4, <3>5, <4>1, <4>2
    <3> QED
      BY <3>6, <3>7
  <2> QED
    BY <2>1, <2>2
<1>4. ~ (value.kind \in Scalars /\ scalar_invalid(value, n))
  BY DEF scalar_invalid, Scalars, Number
<1>5. Read_Scalar(value, input, region) = Scalar_Taken(value, read)
  BY <1>1, <1>2 DEF Read_Scalar
<1> QED
  BY <1>3, <1>4, <1>5 DEF Scalar_Taken

(* What was sent of a field: valid, not left out, and Booleans in a        *)
(* Boolean.                                                                *)
Sound(lock, t, content) ==
  Valid_Content(lock, t, content) /\ Sendable(lock, t, content) /\ Truths(lock, t, content)

LEMMA SoundNumber ==
  ASSUME NEW lock \in Locks, NEW t \in Fields(lock), Field(lock, t).kind \in Simple, NEW content, Sound(lock, t, content)
  PROVE  \E n \in Int : /\ content = <<n>> /\ Number(Field(lock, t), n) /\ Truth(Field(lock, t), n)
                        /\ Value_Octets(lock, t, content) = Scalar_Octets(Field(lock, t), n)
<1>1. PICK kind : kind = Field(lock, t).kind
  OBVIOUS
<1>2. kind \in Scalars \cup {"enumeration"} /\ kind \notin {"bytes", "sequence", "variant"}
  BY <1>1 DEF Simple, Scalars
<1>3. content \in Seq(Int) /\ (Len(content) = 1 \/ (Field(lock, t).presence = "optional" /\ content = <<>>))
  BY <1>1, <1>2 DEF Sound, Valid_Content, Component
<1>4. Len(content) = 1
  BY <1>3 DEF Sound, Sendable
<1>5. PICK n \in Int : content = <<n>> /\ content[1] = n /\ content # <<>>
  BY <1>3, <1>4, OneInSequence, OneIsSome
<1>6. Value_Octets(lock, t, content) = Scalar_Octets(Field(lock, t), n)
  BY <1>1, <1>2, <1>5, Zenon DEF Value_Octets
<1>7. Number(Field(lock, t), n)
  <2>1. kind \in Scalars => ~ scalar_invalid(Field(lock, t), n)
    BY <1>1, <1>5 DEF Sound, Valid_Content
  <2>2. kind = "enumeration" => n \in Field(lock, t).tags
    BY <1>1, <1>5 DEF Sound, Valid_Content
  <2> QED
    BY <1>1, <2>1, <2>2 DEF Number, scalar_invalid, Scalars
<1>8. Truth(Field(lock, t), n)
  <2>1. kind \in Scalars => Truth(Field(lock, t), n)
    BY <1>1, <1>5 DEF Sound, Truths
  <2> QED
    BY <1>1, <1>2, <2>1 DEF Truth
<1> QED
  BY <1>5, <1>6, <1>7, <1>8

LEMMA SimpleArrives ==
  ASSUME NEW input \in Seq(Octet), NEW region \in Regions, Inside(region, input),
         NEW lock \in Locks, NEW t \in Fields(lock), Field(lock, t).kind \in Simple, NEW content, Sound(lock, t, content),
         Spans(input, region.start, End(region), Value_Octets(lock, t, content))
  PROVE  Read_Value(lock, t, input, region) = Taken(content)
<1>1. PICK n \in Int : /\ content = <<n>> /\ Number(Field(lock, t), n) /\ Truth(Field(lock, t), n)
                       /\ Value_Octets(lock, t, content) = Scalar_Octets(Field(lock, t), n)
  BY SoundNumber
<1>2. PICK scalar : scalar = Read_Scalar(Field(lock, t), input, region)
  OBVIOUS
<1>3. scalar = Taken(<<n>>)
  <2>1. Proper(Field(lock, t))
    BY FieldIsProper, Zenon
  <2> QED
    BY <1>1, <1>2, <2>1, ScalarArrives
<1>4. CASE Field(lock, t).kind = "enumeration"
  <2>1. Read_Value(lock, t, input, region) = Read_Enumeration(Field(lock, t), input, region)
    BY <1>4 DEF Read_Value
  <2>2. scalar.content[1] = n /\ n \in Field(lock, t).tags
    BY <1>1, <1>3, <1>4 DEF Taken, Number
  <2>3. Read_Enumeration(Field(lock, t), input, region) = scalar
    BY <1>2, <2>2 DEF Read_Enumeration
  <2> QED
    BY <1>1, <1>3, <2>1, <2>3
<1>5. CASE Field(lock, t).kind \in Scalars
  <2>1. Read_Value(lock, t, input, region) = Read_Scalar_Field(Field(lock, t), input, region)
    BY <1>5 DEF Read_Value, Scalars
  <2>2. Field(lock, t).presence = "defaulted" => <<n>> # <<Field(lock, t).default>>
    BY <1>1 DEF Sound, Sendable
  <2>3. Field(lock, t).presence = "defaulted" => scalar # Taken(<<Field(lock, t).default>>)
    BY <1>3, <2>2 DEF Taken
  <2>4. Read_Scalar_Field(Field(lock, t), input, region) = scalar
    BY <1>2, <2>3 DEF Read_Scalar_Field
  <2> QED
    BY <1>1, <1>3, <2>1, <2>4
<1> QED
  BY <1>4, <1>5 DEF Simple

LEMMA BytesArrive ==
  ASSUME NEW input \in Seq(Octet), NEW region \in Regions, Inside(region, input),
         NEW lock \in Locks, NEW t \in Fields(lock), Field(lock, t).kind = "bytes", NEW content, Sound(lock, t, content),
         Spans(input, region.start, End(region), Value_Octets(lock, t, content))
  PROVE  Read_Value(lock, t, input, region) = Taken(content)
<1>1. PICK minimum \in Nat, maximum \in Nat : minimum = Field(lock, t).minimum /\ maximum = Field(lock, t).maximum
  BY FieldBounds
<1>2. Value_Octets(lock, t, content) = content /\ Len(content) \in minimum .. maximum
  BY <1>1 DEF Value_Octets, Sound, Valid_Content
<1>3. PICK c \in Cursor_Record, start \in Nat, length \in Nat :
        /\ c = Initialize(input, region).cursor /\ Is_Valid(c, Len(input))
        /\ start = region.start /\ length = region.length
        /\ c.first = start /\ c.next = start /\ c.limit = start + length /\ End(region) = start + length
        /\ start + length <= Len(input)
  BY ExtentCursor
<1>4. length = Len(content) /\ length \in minimum .. maximum
  BY <1>2, <1>3, SMTT(60) DEF Spans
<1>5. PICK room, read : room = [i \in 1 .. maximum |-> 0] /\ read = Read_Octets(input, c, room, length)
  BY Zenon
<1>6. Len(room) = maximum
  BY <1>5, LengthOf
<1>7. Copied(input, c.next, length) = length /\ Remaining(c) = length
  BY <1>3 DEF Copied, Remaining
<1>8. read.status = "Read" /\ read.cursor = Advance(c, length)
  BY <1>4, <1>5, <1>6, <1>7 DEF Read_Octets
<1>9. At_End(read.cursor)
  <2>1. Advance(c, length) = [first |-> c.first, next |-> c.next + length, limit |-> c.limit]
    BY CursorFields
  <2> QED
    BY <1>3, <1>8, <2>1 DEF At_End
<1>10. PICK result : result = Read_Bytes(Field(lock, t), input, region)
  OBVIOUS
<1>11. result = Taken(SubSeq(read.value, 1, length))
  <2>1. Initialize(input, region).status = "Cursor_Ready"
    BY DEF Initialize
  <2>2. Octets_Within(Field(lock, t), region)
    BY <1>1, <1>3, <1>4 DEF Octets_Within
  <2> QED
    BY <1>1, <1>3, <1>5, <1>8, <1>9, <1>10, <2>1, <2>2 DEF Read_Bytes
<1>12. Value_Taken(lock, t, input, region, result)
  <2>1. result.status \notin Value_Refusals
    BY <1>11 DEF Taken, Value_Refusals
  <2>2. Field(lock, t).presence = "required"
    BY FieldIsProper, Zenon DEF Scalars
  <2> QED
    BY <1>1, <1>10, <2>1, <2>2, BytesRead
<1>13. Value_Octets(lock, t, result.content) = result.content
  BY DEF Value_Octets
<1>14. result.content = content
  BY <1>2, <1>12, <1>13, SameSpan DEF Value_Taken
<1>15. result = Taken(result.content)
  BY <1>11 DEF Taken
<1>16. Read_Value(lock, t, input, region) = result
  BY <1>10 DEF Read_Value
<1> QED
  BY <1>14, <1>15, <1>16

-----------------------------------------------------------------------------

(* Elements that stand one behind the other from a cursor on are read one  *)
(* after the other.                                                        *)
Elements_Come(input, c, pos, element, content) ==
  /\ pos \in [0 .. Len(content) -> Nat]
  /\ \A i \in 1 .. Len(content) :
       /\ c.next <= pos[i - 1] /\ pos[i] <= c.limit
       /\ Number(element, content[i]) /\ Truth(element, content[i])
       /\ Spans(input, pos[i - 1], pos[i], Delimited(Scalar_Octets(element, content[i])))

Came(content, c, pos, i) == [status |-> "Decoded", content |-> SubSeq(content, 1, i), cursor |-> MovedTo(c, pos[i])]

LEMMA ElementArrives ==
  ASSUME NEW input \in Seq(Octet), Len(input) <= MaxUnsigned, NEW c \in Cursor_Record, Is_Valid(c, Len(input)),
         NEW element, Proper(element), element.kind \in Simple, NEW content \in Seq(Int),
         NEW pos, Elements_Come(input, c, pos, element, content), NEW i \in 1 .. Len(content)
  PROVE  Next_Read(element, input, Came(content, c, pos, i - 1)) = Came(content, c, pos, i)
<1>1. PICK below \in Nat, n \in Int : below = i - 1 /\ n = content[i]
  <2>1. i - 1 \in Nat /\ content[i] \in Int
    OBVIOUS
  <2> QED
    BY <2>1, Zenon
<1>2. PICK x : x = Scalar_Octets(element, n)
  OBVIOUS
<1>3. /\ Number(element, n) /\ Truth(element, n) /\ x \in Seq(Octet)
      /\ Spans(input, pos[below], pos[i], Delimited(x))
  <2>1. Number(element, n) /\ Truth(element, n) /\ Spans(input, pos[below], pos[i], Delimited(x))
    BY <1>1, <1>2 DEF Elements_Come
  <2> QED
    BY <1>2, <2>1, ScalarOctets
<1>4. PICK a \in Nat, b \in Nat : a = pos[below] /\ b = pos[i] /\ c.next <= a /\ a <= c.limit /\ b <= c.limit
  <2>1. pos[below] \in Nat /\ pos[i] \in Nat /\ pos[below] <= pos[i]
    BY <1>3, SpanGoesOn
  <2>2. c.limit \in Nat /\ c.next \in Nat
    BY CursorFields
  <2>3. c.next <= pos[below] /\ pos[i] <= c.limit
    BY <1>1 DEF Elements_Come
  <2> QED
    BY <1>1, <2>1, <2>2, <2>3
<1>5. PICK d : d = MovedTo(c, a)
  OBVIOUS
<1>6. d \in Cursor_Record /\ Is_Valid(d, Len(input)) /\ d.next = a /\ d.limit = c.limit
  BY <1>4, <1>5, MovesOn
<1>7. PICK region \in Regions :
        /\ Read_Extent(input, d) = [status |-> "Read", value |-> region, cursor |-> MovedTo(d, b)]
        /\ Arrives(input, d, region, b, x)
  BY <1>3, <1>4, <1>6, ExtentArrives, Zenon
<1>8. Read_Scalar(element, input, region) = Taken(<<n>>)
  <2>1. Inside(region, input) /\ Spans(input, region.start, End(region), Scalar_Octets(element, n))
    BY <1>2, <1>7 DEF Arrives
  <2> QED
    BY <1>3, <2>1, ScalarArrives
<1>9. MovedTo(d, b) = MovedTo(c, b)
  BY <1>5 DEF MovedTo, Cursor
<1>10. PICK before, extent :
         /\ before = Came(content, c, pos, below)
         /\ extent = [status |-> "Read", value |-> region, cursor |-> MovedTo(c, b)]
  BY Zenon
<1>11. before.status = "Decoded" /\ before.content = SubSeq(content, 1, below) /\ before.cursor = d
  BY <1>4, <1>5, <1>10 DEF Came
<1>12. Next_Read(element, input, before) = Element_Taken(before, extent, Taken(<<n>>))
  BY <1>7, <1>8, <1>9, <1>10, <1>11 DEF Next_Read, Read_Element, Read_Length_Delimited
<1>13. Element_Taken(before, extent, Taken(<<n>>))
         = [status |-> "Decoded", content |-> SubSeq(content, 1, below) \o <<n>>, cursor |-> MovedTo(c, b)]
  BY <1>10, <1>11 DEF Element_Taken, Taken
<1>14. SubSeq(content, 1, below) \o <<n>> = SubSeq(content, 1, i)
  BY <1>1, OneElementMore
<1> QED
  BY <1>1, <1>4, <1>10, <1>12, <1>13, <1>14, Zenon DEF Came

LEMMA ElementsArrive ==
  ASSUME NEW input \in Seq(Octet), Len(input) <= MaxUnsigned, NEW c \in Cursor_Record, Is_Valid(c, Len(input)),
         NEW element, Proper(element), element.kind \in Simple, NEW content \in Seq(Int),
         NEW pos, Elements_Come(input, c, pos, element, content), NEW count \in Nat, count = Len(content),
         NEW number, number.cursor = MovedTo(c, pos[0]),
         NEW top \in Nat, count <= top, NEW f, Elements_Read(f, top, element, input, number)
  PROVE  f[count] = Came(content, c, pos, count)
<1> DEFINE G == {i \in 0 .. count : f[i] = Came(content, c, pos, i)}
<1> HIDE DEF G
<1>1. pos \in [0 .. count -> Nat] /\ c.limit \in Nat
  BY CursorFields DEF Elements_Come
<1>2. ASSUME NEW i \in 0 .. count, \A k \in 0 .. i - 1 : k \in G
      PROVE  i \in G
  <2>1. i \in 0 .. top
    OBVIOUS
  <2>2. CASE i = 0
    <3>1. f[i] = No_Elements(number)
      BY <2>1, <2>2 DEF Elements_Read
    <3>2. SubSeq(content, 1, i) = <<>>
      BY <2>2
    <3>3. Came(content, c, pos, i) = No_Elements(number)
      BY <2>2, <3>2 DEF Came, No_Elements
    <3> QED
      BY <3>1, <3>3 DEF G
  <2>3. CASE i > 0
    <3>1. PICK below \in 0 .. i - 1 : below = i - 1
      BY <2>3
    <3>2. f[i] = Next_Read(element, input, f[below])
      BY <2>1, <2>3, <3>1, SMTT(60) DEF Elements_Read
    <3>3. f[below] = Came(content, c, pos, below)
      BY <1>2, <3>1 DEF G
    <3>4. i \in 1 .. Len(content)
      BY <2>3
    <3>6. Next_Read(element, input, Came(content, c, pos, below)) = Came(content, c, pos, i)
      BY <3>1, <3>4, ElementArrives
    <3> QED
      BY <3>2, <3>3, <3>6 DEF G
  <2> QED
    BY <2>2, <2>3
<1>3. \A i \in 0 .. count : i \in G
  BY <1>2, AllNumbers, Zenon
<1> QED
  BY <1>3 DEF G

(* The elements of a sound sequence. *)
LEMMA SoundSequence ==
  ASSUME NEW lock \in Locks, NEW t \in Fields(lock), Field(lock, t).kind = "sequence", NEW content, Sound(lock, t, content),
         NEW element, element = Element(lock, t),
         NEW parts, parts = [i \in DOMAIN content |-> Delimited(Scalar_Octets(element, content[i]))]
  PROVE  /\ content \in Seq(Int) /\ Len(content) \in Field(lock, t).minimum .. Field(lock, t).maximum
         /\ Proper(element) /\ element.kind \in Simple
         /\ \A i \in 1 .. Len(content) :
              /\ Number(element, content[i]) /\ Truth(element, content[i])
              /\ parts[i] = Delimited(Scalar_Octets(element, content[i]))
              /\ parts[i] \in Seq(Octet) /\ Len(parts[i]) > 0
         /\ Value_Octets(lock, t, content) = Digits(Len(content)) \o Joined(parts, Len(content))
<1>2. Proper(element) /\ element.kind \in Simple
  BY ElementIsProper
<1>3. element.kind \in Scalars
  BY ExchangeAssumption DEF validate_binding
<1>4. content \in Seq(Int) /\ Len(content) \in Field(lock, t).minimum .. Field(lock, t).maximum
  BY DEF Sound, Valid_Content, Component
<1>5. ASSUME NEW i \in 1 .. Len(content)
      PROVE  /\ Number(element, content[i]) /\ Truth(element, content[i])
             /\ parts[i] = Delimited(Scalar_Octets(element, content[i]))
             /\ parts[i] \in Seq(Octet) /\ Len(parts[i]) > 0
  <2>1. PICK n \in Int : n = content[i]
    <3>1. content[i] \in Int
      BY <1>4
    <3> QED
      BY <3>1
  <2>2. ~ scalar_invalid(element, n) /\ Truth(element, n)
    BY <2>1 DEF Sound, Valid_Content, Truths
  <2>3. Number(element, n)
    BY <1>3, <2>2, NumberIsValid
  <2>4. PICK x : x = Scalar_Octets(element, n)
    OBVIOUS
  <2>5. x \in Seq(Octet)
    BY <1>2, <2>2, <2>3, <2>4, ScalarOctets
  <2>6. Delimited(x) \in Seq(Octet) /\ Len(Delimited(x)) > 0
    BY <2>5, DelimitedSome
  <2>7. parts[i] = Delimited(x)
    BY <1>4, <2>1, <2>4
  <2> QED
    BY <2>1, <2>2, <2>3, <2>4, <2>6, <2>7
<1>6. Value_Octets(lock, t, content) = Digits(Len(content)) \o Joined(parts, Len(content))
  BY DEF Value_Octets
<1> QED
  BY <1>2, <1>4, <1>5, <1>6, Zenon

LEMMA SequenceArrives ==
  ASSUME NEW input \in Seq(Octet), Len(input) <= MaxUnsigned, NEW region \in Regions, Inside(region, input),
         NEW lock \in Locks, NEW t \in Fields(lock), Field(lock, t).kind = "sequence", NEW content, Sound(lock, t, content),
         Spans(input, region.start, End(region), Value_Octets(lock, t, content))
  PROVE  Read_Value(lock, t, input, region) = Taken(content)
<1>1. PICK minimum \in Nat, maximum \in Nat : minimum = Field(lock, t).minimum /\ maximum = Field(lock, t).maximum
  BY FieldBounds
<1>2. PICK element, parts :
        /\ element = Element(lock, t)
        /\ parts = [i \in DOMAIN content |-> Delimited(Scalar_Octets(element, content[i]))]
  BY Zenon
<1>3. /\ content \in Seq(Int) /\ Len(content) \in minimum .. maximum
      /\ Proper(element) /\ element.kind \in Simple
      /\ \A i \in 1 .. Len(content) :
           /\ Number(element, content[i]) /\ Truth(element, content[i])
           /\ parts[i] = Delimited(Scalar_Octets(element, content[i]))
           /\ parts[i] \in Seq(Octet) /\ Len(parts[i]) > 0
      /\ Value_Octets(lock, t, content) = Digits(Len(content)) \o Joined(parts, Len(content))
  <2>1. /\ content \in Seq(Int) /\ Len(content) \in Field(lock, t).minimum .. Field(lock, t).maximum
        /\ Proper(element) /\ element.kind \in Simple
        /\ \A i \in 1 .. Len(content) :
             /\ Number(element, content[i]) /\ Truth(element, content[i])
             /\ parts[i] = Delimited(Scalar_Octets(element, content[i]))
             /\ parts[i] \in Seq(Octet) /\ Len(parts[i]) > 0
        /\ Value_Octets(lock, t, content) = Digits(Len(content)) \o Joined(parts, Len(content))
    BY <1>2, SoundSequence, SMTT(60)
  <2> QED
    BY <1>1, <2>1
<1>4. PICK count \in Nat : count = Len(content) /\ count \in minimum .. maximum
  BY <1>3
<1>5. PICK c \in Cursor_Record, start \in Nat, stop \in Nat :
        /\ c = Initialize(input, region).cursor /\ Is_Valid(c, Len(input))
        /\ start = region.start /\ stop = End(region) /\ stop <= Len(input)
        /\ c.first = start /\ c.next = start /\ c.limit = stop
  BY ExtentCursor
<1>6. PICK digits \in Seq(Octet), joined \in Seq(Octet) : digits = Digits(count) /\ joined = Joined(parts, count)
  <2>1. Digits(count) \in Seq(Octet)
    BY DigitsOctets
  <2>2. Joined(parts, count) \in Seq(Octet)
    BY <1>3, <1>4, JoinedOctets, Zenon
  <2> QED
    BY <2>1, <2>2
<1>7. Spans(input, start, stop, digits \o joined)
  BY <1>3, <1>4, <1>5, <1>6
<1>8. PICK at \in Nat : Spans(input, start, at, digits) /\ Spans(input, at, stop, joined)
  BY <1>6, <1>7, SpansSplit
<1>9. PICK pos : Laid_Out(input, pos, parts, count) /\ pos[0] = at /\ pos[count] = stop
  BY <1>3, <1>4, <1>6, <1>8, JoinedLaidOut, SMTT(60)
<1>10. count \in Unsigned
  <2>1. count <= Len(input)
    BY <1>3, <1>4, <1>5, <1>9, PartsTakeRoom, Zenon
  <2>2. Len(input) \in Nat /\ MaxUnsigned \in Nat
    BY Limits
  <2> QED
    BY <2>1, <2>2 DEF Unsigned
<1>11. Read_Unsigned(input, c) = [status |-> "Read", value |-> count, cursor |-> MovedTo(c, at)]
  <2>1. at <= c.limit
    BY <1>5, <1>8, SpanGoesOn
  <2>2. Spans(input, c.next, at, Digits(count))
    BY <1>5, <1>6, <1>8
  <2> QED
    BY <1>5, <1>10, <2>1, <2>2, DigitsArrive
<1>12. PICK number : number = Read_Unsigned(input, c)
  OBVIOUS
<1> DEFINE f == CHOOSE g : Elements_Read(g, maximum, element, input, number)
<1>13. Elements_Read(f, maximum, element, input, number)
  BY ElementsReadExists
<1>14. Read_Value(lock, t, input, region)
         = IF number.status # "Read" THEN Turned_Down(Map_Read_Error(number.status))
           ELSE IF number.value \notin minimum .. maximum THEN Turned_Down("Invalid_Value")
           ELSE Elements_Taken(f[number.value])
  BY <1>1, <1>2, <1>5, <1>12 DEF Read_Value, Read_Sequence, Read_Elements, Elements_Read, No_Elements, Next_Read
<1> HIDE DEF f
<1>15. f[count] = Came(content, c, pos, count)
  <2>2. pos \in [0 .. count -> Nat] /\ at = pos[0] /\ stop = pos[count] /\ c.next <= at /\ stop = c.limit
    BY <1>5, <1>8, <1>9, SpanGoesOn, SMTT(60) DEF Laid_Out
  <2>3. \A i \in 1 .. count : c.next <= pos[i - 1] /\ pos[i] <= c.limit
    <3> SUFFICES ASSUME NEW i \in 1 .. count
                 PROVE  c.next <= pos[i - 1] /\ pos[i] <= c.limit
      OBVIOUS
    <3>1. PICK below \in 0 .. count : below = i - 1
      OBVIOUS
    <3>2. 0 \in 0 .. below /\ i \in 0 .. count /\ count \in 0 .. count
      OBVIOUS
    <3>3. pos[0] <= pos[below] /\ pos[i] <= pos[count]
      BY <1>9, <3>1, <3>2, PartsInOrder, Zenon
    <3>4. PICK low \in Nat, high \in Nat : low = pos[below] /\ high = pos[i]
      BY <2>2, <3>1, SMTT(60)
    <3>5. c.next \in Nat /\ c.limit \in Nat
      BY CursorFields
    <3>6. c.next <= low /\ high <= c.limit
      BY <2>2, <3>3, <3>4, <3>5, SMTT(60)
    <3> QED
      BY <3>1, <3>4, <3>6
  <2>1. Elements_Come(input, c, pos, element, content)
    BY <1>3, <1>4, <1>9, <2>3, Zenon DEF Elements_Come, Laid_Out
  <2>4. number.cursor = MovedTo(c, pos[0])
    BY <1>9, <1>11, <1>12
  <2>5. count <= maximum /\ count = Len(content) /\ content \in Seq(Int) /\ Proper(element) /\ element.kind \in Simple
    BY <1>1, <1>3, <1>4
  <2>6. PICK g : g = f
    OBVIOUS
  <2>7. /\ c \in Cursor_Record /\ Is_Valid(c, Len(input)) /\ count \in Nat /\ maximum \in Nat
        /\ Elements_Read(g, maximum, element, input, number)
    BY <1>1, <1>4, <1>5, <1>13, <2>6
  <2>8. g[count] = Came(content, c, pos, count)
    BY <2>1, <2>4, <2>5, <2>7, ElementsArrive
  <2> QED
    BY <2>6, <2>8
<1>16. number.status = "Read" /\ number.value = count
  BY <1>11, <1>12
<1>17. PICK read : read = f[count]
  OBVIOUS
<1>18. Read_Value(lock, t, input, region) = Elements_Taken(read)
  BY <1>4, <1>14, <1>16, <1>17
<1>19. read.status = "Decoded" /\ read.cursor = MovedTo(c, stop) /\ read.content = SubSeq(content, 1, count)
  BY <1>9, <1>15, <1>17 DEF Came
<1>20. SubSeq(content, 1, count) = content
  BY <1>3, <1>4
<1>21. At_End(read.cursor)
  BY <1>5, <1>19 DEF MovedTo, Cursor, At_End
<1> QED
  BY <1>18, <1>19, <1>20, <1>21, Zenon DEF Elements_Taken

(* A sound variant: an alternative there is, and numbers for its members.  *)
LEMMA SoundVariant ==
  ASSUME NEW lock \in Locks, NEW t \in Fields(lock), Field(lock, t).kind = "variant", NEW content, Sound(lock, t, content),
         NEW a, a = content[1]
  PROVE  /\ a \in Field(lock, t).tags /\ a \in Unsigned /\ Payload_Tags(lock, t, a) \subseteq Field_Tag
         /\ content \in [1 .. 1 + Cardinality(Members(lock, t)) -> Int]
         /\ \A m \in Payload_Tags(lock, t, a) :
              Has_Member(lock, t, content, m, Member(lock, t, a, m), content[Slot(lock, t, a, m)])
<1>1. PICK n \in Nat : n = Cardinality(Members(lock, t))
  BY MembersArePairs
<1>2. a \in Field(lock, t).tags /\ content \in Seq(Int) /\ Len(content) = 1 + n /\ Truths(lock, t, content)
  BY <1>1 DEF Sound, Valid_Content, Component
<1>3. a \in Field_Tag /\ Payload_Tags(lock, t, a) \subseteq Field_Tag
  BY <1>2, MemberIsProper
<1>4. content \in [1 .. 1 + n -> Int]
  BY <1>1, <1>2
<1>5. ASSUME NEW m \in Payload_Tags(lock, t, a)
      PROVE  Has_Member(lock, t, content, m, Member(lock, t, a, m), content[Slot(lock, t, a, m)])
  <2>1. PICK value, slot : value = Member(lock, t, a, m) /\ slot = Slot(lock, t, a, m)
    OBVIOUS
  <2>2. slot \in 1 .. 1 + n
    BY <1>1, <1>2, <2>1, SlotIsAnIndex
  <2>3. PICK number \in Int : number = content[slot]
    BY <1>4, <2>2
  <2>4. m \in Field_Tag /\ Proper(value) /\ value.kind \in Scalars /\ <<a, m>> \in Members(lock, t)
    BY <1>2, <2>1, MemberIsProper
  <2>5. ~ scalar_invalid(value, number)
    BY <2>1, <2>3 DEF Sound, Valid_Content
  <2>6. Truth(value, number)
    <3>1. \A o \in Members(lock, t) : Truth(Member(lock, t, o[1], o[2]), content[Slot(lock, t, o[1], o[2])])
      BY <1>2 DEF Truths
    <3> QED
      BY <2>1, <2>3, <2>4, <3>1
  <2>7. Number(value, number)
    BY <2>4, <2>5, NumberIsValid
  <2> QED
    BY <2>1, <2>3, <2>4, <2>6, <2>7 DEF Simple, Has_Member
<1>6. a \in Unsigned
  BY <1>3, TagAssumption, Limits DEF Field_Tag, Unsigned
<1> QED
  BY <1>1, <1>2, <1>3, <1>4, <1>5, <1>6

(* The components of the members that were read, and of the others.        *)
Kept(lock, t, a, seen, content) ==
  [i \in DOMAIN content |->
     IF i = 1 \/ \E m \in seen : i = Slot(lock, t, a, m) THEN content[i] ELSE initial_variant(lock, t)[i]]

LEMMA NothingKept ==
  ASSUME NEW lock \in Locks, NEW t \in Fields(lock), Field(lock, t).kind = "variant", NEW a, NEW content,
         content \in [1 .. 1 + Cardinality(Members(lock, t)) -> Int], a = content[1]
  PROVE  Kept(lock, t, a, {}, content) = [initial_variant(lock, t) EXCEPT ![1] = a]
<1>1. PICK start : start = initial_variant(lock, t)
  OBVIOUS
<1>2. PICK n \in Nat : n = Cardinality(Members(lock, t)) /\ start \in [1 .. 1 + n -> Int]
  BY <1>1, StartsAsNumbers
<1>3. Kept(lock, t, a, {}, content) = [i \in 1 .. 1 + n |-> IF i = 1 THEN content[i] ELSE start[i]]
  BY <1>1, <1>2 DEF Kept
<1>4. [start EXCEPT ![1] = a] = [i \in 1 .. 1 + n |-> IF i = 1 THEN a ELSE start[i]]
  BY <1>2, Zenon
<1> QED
  BY <1>1, <1>3, <1>4

LEMMA OneMemberKept ==
  ASSUME NEW lock, NEW t, NEW a, NEW seen, NEW content, NEW m,
         NEW slot, slot = Slot(lock, t, a, m), NEW number, number = content[slot]
  PROVE  Kept(lock, t, a, seen \cup {m}, content) = [Kept(lock, t, a, seen, content) EXCEPT ![slot] = number]
BY Zenon DEF Kept

(* Members of a payload arrive: what was read so far is what was sent.     *)
Payload_Arriving(lock, t, a, content, input, region, s) ==
  /\ s.status = "Decoded" /\ s.cursor \in Cursor_Record /\ Is_Valid(s.cursor, Len(input))
  /\ s.cursor.limit = End(region)
  /\ s.seen = Members_Upto(lock, t, a, s.previous)
  /\ s.content = Kept(lock, t, a, s.seen, content)
  /\ Comes_To(input, Member_Octets(lock, t, a, Payload_Tags(lock, t, a), content),
              s.previous, s.cursor.next, End(region))

LEMMA MemberArrives ==
  ASSUME NEW input \in Seq(Octet), Len(input) <= MaxUnsigned, NEW region \in Regions,
         NEW lock \in Locks, NEW t \in Fields(lock), Field(lock, t).kind = "variant", NEW content, Sound(lock, t, content),
         NEW a, a = content[1],
         NEW before, Payload_Arriving(lock, t, a, content, input, region, before), ~ At_End(before.cursor),
         NEW after, after = Next_Payload(lock, t, a, input, before)
  PROVE  /\ Payload_Arriving(lock, t, a, content, input, region, after)
         /\ \E tag : tag \notin before.seen /\ after.seen = before.seen \cup {tag}
<1>1. PICK tags, octets : tags = Payload_Tags(lock, t, a) /\ octets = Member_Octets(lock, t, a, tags, content)
  OBVIOUS
<1>2. PICK previous, stop : previous = before.previous /\ stop = End(region)
  OBVIOUS
<1>3. PICK c \in Cursor_Record :
        /\ c = before.cursor
        /\ Is_Valid(c, Len(input)) /\ c.limit = stop
        /\ Comes_To(input, octets, previous, c.next, stop)
  BY <1>1, <1>2 DEF Payload_Arriving
<1>4. before.status = "Decoded" /\ before.seen = Members_Upto(lock, t, a, previous)
      /\ before.content = Kept(lock, t, a, before.seen, content)
  BY <1>3, <1>2 DEF Payload_Arriving
<1>5. c.next # stop
  BY <1>3 DEF At_End
<1>6. PICK next : \E g \in DOMAIN octets, at \in Regions :
        /\ g > previous /\ \A k \in DOMAIN octets : k > previous => g <= k
        /\ Read_Field_Header(input, c, previous) =
             [status |-> "Read", tag |-> g, value |-> at, cursor |-> MovedTo(c, next), previous |-> g]
        /\ Arrives(input, c, at, next, octets[g])
        /\ Comes_To(input, octets, g, next, stop)
  BY <1>3, <1>5, NextHeader, Zenon DEF At_End
<1>7. PICK tag \in DOMAIN octets, inner \in Regions :
        /\ tag > previous /\ \A k \in DOMAIN octets : k > previous => tag <= k
        /\ Read_Field_Header(input, c, previous) =
             [status |-> "Read", tag |-> tag, value |-> inner, cursor |-> MovedTo(c, next), previous |-> tag]
        /\ Arrives(input, c, inner, next, octets[tag])
        /\ Comes_To(input, octets, tag, next, stop)
  BY <1>6
<1>8. DOMAIN octets = tags /\ tag \in tags /\ tags \subseteq Field_Tag
  <2>1. DOMAIN octets = tags
    BY <1>1 DEF Member_Octets
  <2>2. tags \subseteq Field_Tag
    BY <1>1, SoundVariant
  <2> QED
    BY <1>7, <2>1, <2>2
<1>9. PICK value, number, slot : value = Member(lock, t, a, tag) /\ number = content[slot] /\ slot = Slot(lock, t, a, tag)
  <2>1. content[Slot(lock, t, a, tag)] = content[Slot(lock, t, a, tag)]
    OBVIOUS
  <2> QED
    BY <2>1
<1>10. Proper(value) /\ value.kind \in Simple /\ Number(value, number) /\ Truth(value, number)
  <2>1. Has_Member(lock, t, content, tag, value, number)
    BY <1>1, <1>8, <1>9, SoundVariant, Zenon
  <2> QED
    BY <2>1 DEF Has_Member
<1>11. PICK x \in Seq(Octet) : x = octets[tag] /\ x = Scalar_Octets(value, number)
  <2>1. octets[tag] = Scalar_Octets(value, number)
    BY <1>1, <1>8, <1>9 DEF Member_Octets
  <2>2. octets[tag] \in Seq(Octet)
    BY <1>3, <1>7 DEF Comes_To
  <2> QED
    BY <2>1, <2>2
<1>12. /\ Read_Field_Header(input, c, previous) =
            [status |-> "Read", tag |-> tag, value |-> inner, cursor |-> MovedTo(c, next), previous |-> tag]
       /\ Arrives(input, c, inner, next, x)
  BY <1>7, <1>11
<1>13. Read_Scalar(value, input, inner) = Taken(<<number>>)
  <2>1. Inside(inner, input) /\ Spans(input, inner.start, End(inner), Scalar_Octets(value, number))
    BY <1>11, <1>12 DEF Arrives
  <2> QED
    BY <1>10, <2>1, ScalarArrives
<1>14. PICK header : header = Read_Field_Header(input, c, previous)
  OBVIOUS
<1>15. header.status = "Read" /\ header.tag = tag /\ header.value = inner /\ header.cursor = MovedTo(c, next)
       /\ header.previous = tag
  BY <1>12, <1>14
<1>16. after = Member_Taken(lock, t, a, before, header, Taken(<<number>>))
  <2>1. after = Read_Member(lock, t, a, input, before, header)
    BY <1>3, <1>4, <1>14, <1>2 DEF Next_Payload
  <2>2. Read_Member(lock, t, a, input, before, header)
          = Member_Taken(lock, t, a, before, header, Read_Scalar(value, input, inner))
    BY <1>1, <1>8, <1>9, <1>15 DEF Read_Member
  <2> QED
    BY <1>13, <2>1, <2>2
<1>17. after = [status |-> "Decoded", cursor |-> MovedTo(c, next), previous |-> tag,
                seen |-> before.seen \cup {tag}, content |-> [before.content EXCEPT ![slot] = number]]
  BY <1>9, <1>15, <1>16 DEF Member_Taken, Taken
<1>18. after.status = "Decoded" /\ after.cursor = MovedTo(c, next) /\ after.previous = tag
       /\ after.seen = before.seen \cup {tag} /\ after.content = [before.content EXCEPT ![slot] = number]
  BY <1>17
<1>19. tag \notin before.seen /\ before.seen \cup {tag} = Members_Upto(lock, t, a, tag)
  <2>1. tags \subseteq Nat /\ tag \in Nat /\ previous \in Nat
    BY <1>3, <1>8, Limits DEF Comes_To, Tag_Number, Field_Tag
  <2>2. \A k \in tags : k <= tag <=> k <= previous \/ k = tag
    BY <1>7, <1>8, <2>1
  <2>3. ~ (tag <= previous)
    BY <1>7, <2>1
  <2> QED
    BY <1>1, <1>4, <1>8, <2>2, <2>3 DEF Members_Upto
<1>20. after.content = Kept(lock, t, a, after.seen, content)
  BY <1>4, <1>9, <1>18, OneMemberKept, SMTT(60)
<1>21. MovedTo(c, next) \in Cursor_Record /\ Is_Valid(MovedTo(c, next), Len(input))
       /\ MovedTo(c, next).next = next /\ MovedTo(c, next).limit = c.limit
  BY <1>12 DEF Arrives
<1>22. Payload_Arriving(lock, t, a, content, input, region, after)
  BY <1>1, <1>3, <1>7, <1>18, <1>19, <1>2, <1>20, <1>21, ZenonT(60) DEF Payload_Arriving
<1> QED
  BY <1>18, <1>19, <1>22

LEMMA PayloadOctets ==
  ASSUME NEW lock \in Locks, NEW t \in Fields(lock), Field(lock, t).kind = "variant", NEW content, Sound(lock, t, content),
         NEW a, a = content[1],
         NEW octets, octets = Member_Octets(lock, t, a, Payload_Tags(lock, t, a), content)
  PROVE  /\ DOMAIN octets \subseteq Field_Tag /\ \A m \in DOMAIN octets : octets[m] \in Seq(Octet)
         /\ Payload_Octets(lock, t, a, content) = Joined(Tagged_Parts(octets), MaxFieldTag)
         /\ Payload_Octets(lock, t, a, content) \in Seq(Octet)
<1>1. DOMAIN octets = Payload_Tags(lock, t, a) /\ DOMAIN octets \subseteq Field_Tag
  BY SoundVariant DEF Member_Octets
<1>2. ASSUME NEW m \in DOMAIN octets
      PROVE  octets[m] \in Seq(Octet)
  <2>1. PICK value, number : value = Member(lock, t, a, m) /\ number = content[Slot(lock, t, a, m)]
    OBVIOUS
  <2>2. Has_Member(lock, t, content, m, value, number)
    BY <1>1, <2>1, SoundVariant, Zenon
  <2>3. Scalar_Octets(value, number) \in Seq(Octet)
    BY <2>2, ScalarOctets DEF Has_Member
  <2>4. octets[m] = Scalar_Octets(value, number)
    BY <1>1, <2>1 DEF Member_Octets
  <2> QED
    BY <2>3, <2>4
<1>3. Payload_Octets(lock, t, a, content) = Joined(Tagged_Parts(octets), MaxFieldTag)
  BY PayloadIsParts
<1>4. Joined(Tagged_Parts(octets), MaxFieldTag) \in Seq(Octet)
  <2>1. PICK top \in Nat : top = MaxFieldTag
    BY Limits
  <2>2. \A k \in 1 .. top : Tagged_Parts(octets)[k] \in Seq(Octet)
    BY <1>2, <2>1, PartsOctets DEF Field_Tag
  <2>3. Joined(Tagged_Parts(octets), top) \in Seq(Octet)
    BY <2>2, JoinedOctets
  <2> QED
    BY <2>1, <2>3
<1> QED
  BY <1>1, <1>2, <1>3, <1>4

LEMMA VariantOctets ==
  ASSUME NEW lock, NEW t, Field(lock, t).kind = "variant", NEW content, NEW a, a = content[1]
  PROVE  Value_Octets(lock, t, content) = Digits(a) \o Delimited(Payload_Octets(lock, t, a, content))
<1>1. Value_Octets(lock, t, content) = Digits(content[1]) \o Delimited(Payload_Octets(lock, t, content[1], content))
  BY Zenon DEF Value_Octets, Payload_Octets
<1> QED
  BY <1>1, Zenon

(* A payload arrives whole.                                                *)
LEMMA PayloadArrives ==
  ASSUME NEW input \in Seq(Octet), Len(input) <= MaxUnsigned, NEW region \in Regions, Inside(region, input),
         NEW lock \in Locks, NEW t \in Fields(lock), Field(lock, t).kind = "variant", NEW content, Sound(lock, t, content),
         NEW a, a = content[1], Spans(input, region.start, End(region), Payload_Octets(lock, t, a, content)),
         NEW tags, tags = Payload_Tags(lock, t, a)
  PROVE  Read_Payload(lock, t, a, input, region) = Taken(Kept(lock, t, a, tags, content))
<1>1. IsFiniteSet(tags) /\ tags \subseteq Field_Tag
  <2>1. tags \subseteq Field_Tag
    BY SoundVariant
  <2>2. IsFiniteSet(Field_Tag)
    BY Limits, FS_Interval DEF Field_Tag
  <2>3. tags \in SUBSET Field_Tag
    BY <2>1
  <2> QED
    BY <2>2, <2>3, FS_Subset
<1>2. PICK count \in Nat : count = Cardinality(tags)
  BY <1>1, FS_CardinalityType
<1> DEFINE f == CHOOSE g : Payload_Read(g, count + 1, lock, t, a, input, region)
<1>3. Payload_Read(f, count + 1, lock, t, a, input, region)
  BY PayloadReadExists
<1>4. Read_Payload(lock, t, a, input, region) = Members_Taken(tags, f[count + 1])
  BY <1>2 DEF Read_Payload, Payload_Read, No_Members, Next_Payload
<1> HIDE DEF f
<1>5. PICK octets : octets = Member_Octets(lock, t, a, tags, content)
  OBVIOUS
<1>6. /\ DOMAIN octets = tags /\ DOMAIN octets \subseteq Field_Tag /\ \A m \in DOMAIN octets : octets[m] \in Seq(Octet)
      /\ Spans(input, region.start, End(region), Joined(Tagged_Parts(octets), MaxFieldTag))
  <2>1. DOMAIN octets = tags
    BY <1>5 DEF Member_Octets
  <2>2. octets = Member_Octets(lock, t, a, Payload_Tags(lock, t, a), content)
    BY <1>5
  <2>3. Payload_Octets(lock, t, a, content) = Joined(Tagged_Parts(octets), MaxFieldTag)
    BY <2>2, PayloadIsParts
  <2>4. \A m \in DOMAIN octets : octets[m] \in Seq(Octet)
    BY <2>2, PayloadOctets, Zenon
  <2> QED
    BY <1>1, <2>1, <2>3, <2>4
<1>7. PICK c \in Cursor_Record : /\ c = Initialize(input, region).cursor /\ Is_Valid(c, Len(input))
                                 /\ c.next = region.start /\ c.limit = End(region)
  BY ExtentCursor
<1> DEFINE Good(n, s) == /\ Payload_Arriving(lock, t, a, content, input, region, s)
                         /\ At_End(s.cursor) \/ Cardinality(s.seen) = n
           G == {n \in 0 .. count + 1 : Good(n, f[n])}
<1> HIDE DEF Good, G
<1>8. ASSUME NEW n \in 0 .. count + 1, \A k \in 0 .. n - 1 : k \in G
      PROVE  n \in G
  <2>1. CASE n = 0
    <3>1. PICK s : s = No_Members(lock, t, a, input, region)
      OBVIOUS
    <3>8. f[0] = s
      BY <1>3, <3>1 DEF Payload_Read
    <3>2. s.status = "Decoded" /\ s.cursor = c /\ s.previous = No_Tag /\ s.seen = {}
          /\ s.content = [initial_variant(lock, t) EXCEPT ![1] = a]
      BY <1>7, <3>1 DEF No_Members
    <3>3. s.content = Kept(lock, t, a, s.seen, content)
      BY <3>2, SoundVariant, NothingKept
    <3>4. s.seen = Members_Upto(lock, t, a, s.previous)
      <4>1. \A m \in tags : ~ (m <= No_Tag)
        BY <1>1 DEF No_Tag, Field_Tag
      <4> QED
        BY <3>2, <4>1 DEF Members_Upto
    <3>5. Comes_To(input, octets, No_Tag, region.start, End(region))
      BY <1>6, TagsBegin
    <3>6. Payload_Arriving(lock, t, a, content, input, region, s)
      BY <1>5, <1>7, <3>2, <3>3, <3>4, <3>5 DEF Payload_Arriving
    <3>7. Cardinality(s.seen) = 0
      BY <3>2, FS_EmptySet
    <3> QED
      BY <2>1, <3>6, <3>7, <3>8 DEF G, Good
  <2>2. CASE n > 0
    <3>1. PICK below \in 0 .. n - 1 : below = n - 1
      BY <2>2
    <3>2. PICK before, after : before = f[below] /\ after = f[n]
      OBVIOUS
    <3>3. after = Next_Payload(lock, t, a, input, before)
      BY <1>3, <2>2, <3>1, <3>2 DEF Payload_Read
    <3>4. Good(below, before)
      BY <1>8, <3>1, <3>2 DEF G
    <3>5. CASE At_End(before.cursor)
      <4>1. after = before
        BY <3>3, <3>5 DEF Next_Payload
      <4> QED
        BY <3>2, <3>4, <3>5, <4>1, Zenon DEF G, Good
    <3>6. CASE ~ At_End(before.cursor)
      <4>1. /\ Payload_Arriving(lock, t, a, content, input, region, after)
            /\ \E tag : tag \notin before.seen /\ after.seen = before.seen \cup {tag}
        BY <3>3, <3>4, <3>6, MemberArrives DEF Good
      <4>2. IsFiniteSet(before.seen) /\ Cardinality(before.seen) = below
        <5>1. before.seen \in SUBSET tags
          BY <3>4 DEF Good, Payload_Arriving, Members_Upto
        <5> QED
          BY <1>1, <3>4, <3>6, <5>1, FS_Subset DEF Good
      <4>3. Cardinality(after.seen) = below + 1
        BY <4>1, <4>2, FS_AddElement, ZenonT(60)
      <4>4. below + 1 = n
        BY <3>1
      <4> QED
        BY <3>2, <4>1, <4>3, <4>4, Zenon DEF G, Good
    <3> QED
      BY <3>5, <3>6
  <2> QED
    BY <2>1, <2>2
<1>9. count + 1 \in G
  <2>1. PICK top \in Nat : top = count + 1
    BY <1>2
  <2>2. \A n \in 0 .. top : (\A k \in 0 .. n - 1 : k \in G) => n \in G
    BY <1>8, <2>1
  <2>3. \A n \in 0 .. top : n \in G
    BY <2>2, AllNumbers, Zenon
  <2> QED
    BY <2>1, <2>3
<1>10. PICK s : s = f[count + 1] /\ Good(count + 1, s)
  BY <1>9 DEF G
<1>11. /\ Payload_Arriving(lock, t, a, content, input, region, s)
       /\ At_End(s.cursor) \/ Cardinality(s.seen) = count + 1
  BY <1>10 DEF Good
<1>12. s.seen \subseteq tags
  BY <1>11 DEF Payload_Arriving, Members_Upto
<1>13. At_End(s.cursor)
  <2>1. Cardinality(s.seen) <= count
    BY <1>1, <1>2, <1>12, FS_Subset
  <2> QED
    BY <1>2, <1>11, <2>1
<1>14. s.seen = tags
  <2>1. s.cursor.next = End(region)
    BY <1>11, <1>13 DEF Payload_Arriving, At_End
  <2>2. Comes_To(input, octets, s.previous, End(region), End(region))
    BY <1>5, <1>11, <2>1 DEF Payload_Arriving
  <2>3. \A m \in tags : m <= s.previous
    BY <1>6, <2>2, NoTagLeft
  <2> QED
    BY <1>11, <2>3 DEF Payload_Arriving, Members_Upto
<1> QED
  BY <1>4, <1>10, <1>11, <1>14 DEF Members_Taken, Payload_Arriving

(* A variant arrives, but for the members of other alternatives.           *)
LEMMA VariantArrives ==
  ASSUME NEW input \in Seq(Octet), Len(input) <= MaxUnsigned, NEW region \in Regions, Inside(region, input),
         NEW lock \in Locks, NEW t \in Fields(lock), Field(lock, t).kind = "variant", NEW content, Sound(lock, t, content),
         Spans(input, region.start, End(region), Value_Octets(lock, t, content)), NEW a, a = content[1]
  PROVE  Read_Value(lock, t, input, region) = Taken(Kept(lock, t, a, Payload_Tags(lock, t, a), content))
<1>1. PICK octets \in Seq(Octet) : octets = Payload_Octets(lock, t, a, content)
  <2>1. PICK members : members = Member_Octets(lock, t, a, Payload_Tags(lock, t, a), content)
    OBVIOUS
  <2>2. Payload_Octets(lock, t, a, content) \in Seq(Octet)
    BY <2>1, PayloadOctets
  <2> QED
    BY <2>2
<1>2. Value_Octets(lock, t, content) = Digits(a) \o Delimited(octets)
  BY <1>1, VariantOctets, Zenon
<1>3. PICK c \in Cursor_Record, start \in Nat, stop \in Nat :
        /\ c = Initialize(input, region).cursor /\ Is_Valid(c, Len(input))
        /\ start = region.start /\ stop = End(region) /\ stop <= Len(input)
        /\ c.first = start /\ c.next = start /\ c.limit = stop
  BY ExtentCursor
<1>4. a \in Unsigned /\ a \in Field(lock, t).tags
  BY SoundVariant
<1>5. PICK digits \in Seq(Octet), rest \in Seq(Octet) : digits = Digits(a) /\ rest = Delimited(octets)
  <2>1. a \in Nat
    BY <1>4, Limits DEF Unsigned
  <2>2. Digits(a) \in Seq(Octet)
    BY <2>1, DigitsOctets, Zenon
  <2> QED
    BY <2>2, DelimitedSome
<1>6. Spans(input, start, stop, digits \o rest)
  BY <1>2, <1>3, <1>5
<1>7. PICK at \in Nat : Spans(input, start, at, digits) /\ Spans(input, at, stop, rest)
  BY <1>6, SpansSplit
<1>8. start <= at /\ at <= stop
  BY <1>7, SpanGoesOn
<1>9. PICK tag : tag = Read_Unsigned(input, c)
  OBVIOUS
<1>10. tag = [status |-> "Read", value |-> a, cursor |-> MovedTo(c, at)]
  <2>1. Spans(input, c.next, at, Digits(a)) /\ at <= c.limit
    BY <1>3, <1>5, <1>7, <1>8
  <2> QED
    BY <1>3, <1>4, <1>9, <2>1, DigitsArrive, SMTT(60)
<1>11. PICK d \in Cursor_Record : d = MovedTo(c, at) /\ Is_Valid(d, Len(input)) /\ d.next = at /\ d.limit = stop
  BY <1>3, <1>8, MovesOn
<1>12. PICK inner \in Regions :
         /\ Read_Extent(input, d) = [status |-> "Read", value |-> inner, cursor |-> MovedTo(d, stop)]
         /\ Arrives(input, d, inner, stop, octets)
  <2>1. Spans(input, d.next, stop, Delimited(octets)) /\ stop <= d.limit
    BY <1>5, <1>7, <1>11
  <2> QED
    BY <1>11, <2>1, ExtentArrives, Zenon
<1>13. PICK extent : extent = Read_Length_Delimited(input, tag.cursor)
  OBVIOUS
<1>14. extent.status = "Read" /\ extent.value = inner /\ extent.cursor = MovedTo(d, stop)
  BY <1>10, <1>11, <1>12, <1>13 DEF Read_Length_Delimited
<1>15. At_End(extent.cursor)
  BY <1>11, <1>12, <1>14 DEF Arrives, At_End
<1>16. tag.status = "Read" /\ tag.value = a
  BY <1>10
<1>17. Read_Value(lock, t, input, region) = Read_Payload(lock, t, a, input, inner)
  BY <1>3, <1>4, <1>9, <1>13, <1>14, <1>15, <1>16 DEF Read_Value, Read_Variant, Read_Alternative
<1>18. Inside(inner, input) /\ Spans(input, inner.start, End(inner), Payload_Octets(lock, t, a, content))
  BY <1>1, <1>12 DEF Arrives
<1> QED
  BY <1>17, <1>18, PayloadArrives

(* Every value arrives.                                                    *)
LEMMA ValueArrives ==
  ASSUME NEW input \in Seq(Octet), Len(input) <= MaxUnsigned, NEW region \in Regions, Inside(region, input),
         NEW lock \in Locks, NEW t \in Fields(lock), NEW content, Sound(lock, t, content),
         Spans(input, region.start, End(region), Value_Octets(lock, t, content))
  PROVE  Read_Value(lock, t, input, region) = Taken(Sent(lock, t, content))
<1>1. CASE Field(lock, t).kind = "variant"
  <2>1. PICK a : a = content[1]
    OBVIOUS
  <2>2. Read_Value(lock, t, input, region) = Taken(Kept(lock, t, a, Payload_Tags(lock, t, a), content))
    BY <1>1, <2>1, VariantArrives
  <2>3. Sent(lock, t, content) = Kept(lock, t, a, Payload_Tags(lock, t, a), content)
    BY <1>1, <2>1 DEF Sent, Kept
  <2> QED
    BY <2>2, <2>3
<1>2. CASE Field(lock, t).kind # "variant"
  <2>1. Sent(lock, t, content) = content
    BY <1>2 DEF Sent
  <2>2. Field(lock, t).kind \in Simple \cup {"bytes", "sequence"}
    BY <1>2, FieldIsProper, Zenon
  <2>3. Read_Value(lock, t, input, region) = Taken(content)
    BY <2>2, SimpleArrives, BytesArrive, SequenceArrives
  <2> QED
    BY <2>1, <2>3
<1> QED
  BY <1>1, <1>2

LEMMA ValueOctets ==
  ASSUME NEW lock \in Locks, NEW t \in Fields(lock), NEW content, Sound(lock, t, content)
  PROVE  Value_Octets(lock, t, content) \in Seq(Octet)
<1>1. CASE Field(lock, t).kind \in Simple
  <2>1. PICK n \in Int : /\ content = <<n>> /\ Number(Field(lock, t), n) /\ Truth(Field(lock, t), n)
                         /\ Value_Octets(lock, t, content) = Scalar_Octets(Field(lock, t), n)
    BY <1>1, SoundNumber
  <2>2. Proper(Field(lock, t))
    BY FieldIsProper, Zenon
  <2> QED
    BY <1>1, <2>1, <2>2, ScalarOctets
<1>2. CASE Field(lock, t).kind = "bytes"
  BY <1>2 DEF Sound, Valid_Content, Component, Value_Octets
<1>3. CASE Field(lock, t).kind = "sequence"
  <2>1. PICK element : element = Element(lock, t)
    OBVIOUS
  <2>2. PICK parts : parts = [i \in DOMAIN content |-> Delimited(Scalar_Octets(element, content[i]))]
    BY Zenon
  <2>3. Value_Octets(lock, t, content) = Digits(Len(content)) \o Joined(parts, Len(content))
    BY <1>3, <2>1, <2>2 DEF Value_Octets
  <2>7. content \in Seq(Int)
    BY DEF Sound, Valid_Content, Component
  <2>4. PICK count \in Nat : count = Len(content)
    BY <2>7
  <2>8. ASSUME NEW i \in 1 .. count
        PROVE  parts[i] \in Seq(Octet)
    BY <1>3, <2>1, <2>2, <2>4, SoundSequence, SMTT(60)
  <2>5. Digits(count) \in Seq(Octet) /\ Joined(parts, count) \in Seq(Octet)
    BY <2>4, <2>8, DigitsOctets, JoinedOctets
  <2>6. PICK digits \in Seq(Octet), joined \in Seq(Octet) : digits = Digits(count) /\ joined = Joined(parts, count)
    BY <2>5
  <2> QED
    BY <2>3, <2>4, <2>6
<1>4. CASE Field(lock, t).kind = "variant"
  <2>1. PICK a : a = content[1]
    OBVIOUS
  <2>2. PICK members : members = Member_Octets(lock, t, a, Payload_Tags(lock, t, a), content)
    OBVIOUS
  <2>3. PICK octets \in Seq(Octet) : octets = Payload_Octets(lock, t, a, content)
    <3>1. Payload_Octets(lock, t, a, content) \in Seq(Octet)
      BY <1>4, <2>1, <2>2, PayloadOctets
    <3> QED
      BY <3>1
  <2>4. PICK digits \in Seq(Octet) : digits = Digits(a)
    <3>1. a \in Nat
      BY <1>4, <2>1, SoundVariant, Limits DEF Unsigned
    <3>2. Digits(a) \in Seq(Octet)
      BY <3>1, DigitsOctets
    <3> QED
      BY <3>2
  <2>5. PICK rest \in Seq(Octet) : rest = Delimited(octets)
    BY DelimitedSome
  <2>6. Value_Octets(lock, t, content) = digits \o rest
    BY <1>4, <2>1, <2>3, <2>4, <2>5, VariantOctets, Zenon
  <2> QED
    BY <2>6
<1>5. Field(lock, t).kind \in Simple \cup {"bytes", "sequence", "variant"}
  BY FieldIsProper, Zenon
<1> QED
  BY <1>1, <1>2, <1>3, <1>4, <1>5

-----------------------------------------------------------------------------

(***************************************************************************)
(* Messages between codecs.                                                *)
(***************************************************************************)
(* What Measure has a size for is sound.                                   *)
LEMMA SentIsSound ==
  ASSUME NEW lock \in Locks, NEW item, Item_Of(lock, item), Measure(lock, item).status = "Measured",
         NEW t \in Included(lock, item), Truths(lock, t, item[t])
  PROVE  Sound(lock, t, item[t])
<1> DEFINE content == item[t]
           measured == Measure_Value(lock, t, content)
<1>1. /\ t \in Fields(lock) /\ ~ Invalid_Field(lock, item, t)
      /\ measured.status = "Measured"
  <2>1. Field_Sizes(lock, item)[t].status = "Measured" /\ ~ Invalid_Field(lock, item, t)
    BY Vouched DEF Included
  <2> QED
    BY <2>1 DEF Field_Sizes, Included
<1>2. Component(lock, t, content) /\ content \in Seq(Int)
  BY <1>1 DEF Item_Of, Component
<1>3. /\ Field(lock, t).kind \in {"enumeration", "variant"} => content[1] \in Field(lock, t).tags
      /\ Field(lock, t).kind \in Scalars => content = <<>> \/ ~ scalar_invalid(Field(lock, t), content[1])
  BY <1>1, InvalidField
<1>4. Field(lock, t).kind = "bytes" => Len(content) \in Field(lock, t).minimum .. Field(lock, t).maximum
  <2> SUFFICES ASSUME Field(lock, t).kind = "bytes"
               PROVE  Invalid_Field(lock, item, t)
                        <=> Len(item[t]) \notin Field(lock, t).minimum .. Field(lock, t).maximum
    BY <1>1
  <2> QED
    BY DEF Invalid_Field, Scalars
<1>5. Sendable(lock, t, content)
  BY <1>1 DEF Sendable, Included, include
<1>6. CASE Field(lock, t).kind = "sequence"
  <2>1. measured = Measure_Sequence(lock, t, content)
    BY <1>6 DEF Measure_Value
  <2> HIDE DEF measured, content
  <2>2. Elements_Vouched(lock, t, content, measured)
    BY <1>1, <1>2, <2>1, ElementsMeasured, Zenon
  <2> QED
    BY <1>2, <1>5, <1>6, <2>2 DEF Elements_Vouched, Sound, Valid_Content, Scalars, content
<1>7. CASE Field(lock, t).kind = "variant"
  <2>1. measured = Measure_Variant(lock, t, content) /\ content[1] \in Field(lock, t).tags
    BY <1>3, <1>7 DEF Measure_Value
  <2> HIDE DEF measured, content
  <2>2. Measure_Payload(lock, t, content).status = "Measured"
    BY <1>1, <1>7, <2>1, VariantMeasured, Zenon
  <2>3. \A m \in Payload_Tags(lock, t, content[1]) :
          ~ scalar_invalid(Member(lock, t, content[1], m), content[Slot(lock, t, content[1], m)])
    BY <1>1, <1>7, <2>1, <2>2, PayloadMeasured, Zenon
  <2> QED
    BY <1>2, <1>5, <1>7, <2>1, <2>3 DEF Sound, Valid_Content, Scalars, content
<1> QED
  BY <1>2, <1>3, <1>4, <1>5, <1>6, <1>7 DEF Sound, Valid_Content

(* What a clean comparison of two places says of their values.             *)
Agree(w, r) ==
  /\ w.kind = r.kind /\ w.presence = r.presence
  /\ w.presence = "defaulted" => w.default = r.default
  /\ r.minimum <= w.minimum /\ w.maximum <= r.maximum
  /\ w.kind = "enumeration" => w.tags \subseteq r.tags

LEMMA PlaceAgrees ==
  ASSUME NEW w, NEW r, w.minimum \in Int, w.maximum \in Int, r.minimum \in Int, r.maximum \in Int,
         NEW path, diff_place(w, r, path) = {}
  PROVE  Stops(w, r, path) = {} /\ Agree(w, r)
<1>1. /\ Stops(w, r, path) = {}
      /\ require_count_subset(w, r, path) = {} /\ Unknown_Tags(w, r, path) = {}
  BY DEF diff_place
<1>2. /\ w.kind = r.kind /\ w.presence = r.presence
      /\ w.presence = "defaulted" => w.default = r.default
  BY <1>1 DEF Stops
<1>3. r.minimum <= w.minimum /\ w.maximum <= r.maximum
  BY <1>1 DEF require_count_subset, require_subset, When
<1>4. w.kind = "enumeration" => w.tags \subseteq r.tags
  BY <1>1 DEF Unknown_Tags
<1> QED
  BY <1>1, <1>2, <1>3, <1>4 DEF Agree

LEMMA PlacesAbove ==
  ASSUME NEW t
  PROVE  Above(<<>>) = {} /\ Above(<<t>>) = {<<>>} /\ Above(<<t, Inner>>) = {<<>>, <<t>>}
<1>1. \A p : Len(p) = 0 => Above(p) = {}
  BY DEF Above
<1>2. 0 .. 1 - 1 = {0} /\ 0 .. 2 - 1 = {0, 1}
  OBVIOUS
<1>3. Above(<<t>>) = {SubSeq(<<t>>, 1, 0)}
  BY <1>2 DEF Above
<1>4. Above(<<t, Inner>>) = {SubSeq(<<t, Inner>>, 1, 0), SubSeq(<<t, Inner>>, 1, 1)}
  BY <1>2 DEF Above
<1>5. SubSeq(<<t>>, 1, 0) = <<>> /\ SubSeq(<<t, Inner>>, 1, 0) = <<>> /\ SubSeq(<<t, Inner>>, 1, 1) = <<t>>
  <2>1. SubSeq(<<t>>, 1, 0) = <<>> /\ SubSeq(<<t, Inner>>, 1, 0) = <<>>
    OBVIOUS
  <2> DEFINE one == SubSeq(<<t, Inner>>, 1, 1)
  <2>2. one = [i \in 1 .. 1 |-> <<t, Inner>>[i]]
    OBVIOUS
  <2>3. <<t>> = [i \in 1 .. 1 |-> <<t, Inner>>[i]]
    OBVIOUS
  <2> QED
    BY <2>1, <2>2, <2>3, Zenon
<1> QED
  BY <1>1, <1>3, <1>4, <1>5, Zenon

(* Two locks whose comparison is clean agree on the fields both have, and  *)
(* on the elements of their sequences.                                     *)
LEMMA FieldsAgree ==
  ASSUME NEW writer \in Locks, NEW reader \in Locks, incompatibilities(writer, reader) = {}
  PROVE  /\ <<>> \in Records(writer.root, reader.root)
         /\ \A t \in Fields(writer) \cap Fields(reader) :
              /\ Agree(Field(writer, t), Field(reader, t))
              /\ Field(writer, t).kind = "sequence" => Agree(Element(writer, t), Element(reader, t))
<1> DEFINE w == writer.root
           r == reader.root
<1>1. \A p \in Compared(w, r) : diff_place(w[p], r[p], p) = {}
  BY Zenon DEF incompatibilities, diff_value
<1>2. ASSUME NEW p \in Compared(w, r)
      PROVE  Stops(w[p], r[p], p) = {} /\ Agree(w[p], r[p])
  <2>1. w[p] \in Value /\ r[p] \in Value
    BY Places DEF Compared, Proper
  <2>2. diff_place(w[p], r[p], p) = {}
    BY <1>1
  <2> QED
    BY <2>1, <2>2, PlaceAgrees, Zenon DEF Value
<1>3. <<>> \in Compared(w, r) /\ w[<<>>].kind = "record"
  BY Root, PlacesAbove, Zenon DEF Compared
<1>4. <<>> \in Records(w, r)
  BY <1>2, <1>3, Zenon DEF Records
<1>5. ASSUME NEW t \in Fields(writer) \cap Fields(reader)
      PROVE  /\ Agree(Field(writer, t), Field(reader, t))
             /\ Field(writer, t).kind = "sequence" => Agree(Element(writer, t), Element(reader, t))
  <2>1. <<t>> \in Compared(w, r)
    <3>1. <<t>> \in DOMAIN w /\ <<t>> \in DOMAIN r
      BY FieldIsProper
    <3> QED
      BY <1>2, <1>3, <3>1, PlacesAbove, Zenon DEF Compared
  <2>2. Stops(w[<<t>>], r[<<t>>], <<t>>) = {} /\ Agree(Field(writer, t), Field(reader, t))
    BY <1>2, <2>1 DEF Field
  <2>3. ASSUME Field(writer, t).kind = "sequence"
        PROVE  Agree(Element(writer, t), Element(reader, t))
    <3>1. Field(reader, t).kind = "sequence"
      BY <2>2, <2>3 DEF Agree
    <3>2. \A lock \in {writer, reader} : <<t, Inner>> \in DOMAIN lock.root
      <4> SUFFICES ASSUME NEW lock \in {writer, reader}
                   PROVE  <<t, Inner>> \in DOMAIN lock.root
        OBVIOUS
      <4>1. <<t>> \in DOMAIN lock.root /\ Inner \in Children(Field(lock, t))
        BY <2>3, <3>1, FieldIsProper DEF Children
      <4>2. Append(<<t>>, Inner) \in DOMAIN lock.root
        BY <4>1, Places DEF Field
      <4> QED
        BY <4>2, AppendToOne, Zenon
    <3>3. <<t, Inner>> \in Compared(w, r)
      BY <1>2, <1>3, <2>1, <2>2, <3>2, PlacesAbove, Zenon DEF Compared
    <3> QED
      BY <1>2, <3>3 DEF Element
  <2> QED
    BY <2>2, <2>3
<1> QED
  BY <1>4, <1>5

LEMMA NumbersAgree ==
  ASSUME NEW w, Proper(w), NEW r, Proper(r), Agree(w, r), NEW n
  PROVE  /\ ~ scalar_invalid(w, n) => ~ scalar_invalid(r, n)
         /\ Truth(w, n) => Truth(r, n)
         /\ Scalar_Octets(w, n) = Scalar_Octets(r, n)
<1>1. /\ w.minimum \in Int /\ w.maximum \in Int /\ r.minimum \in Int /\ r.maximum \in Int
      /\ w.kind = r.kind /\ r.minimum <= w.minimum /\ w.maximum <= r.maximum
  BY DEF Proper, Value, Agree
<1>2. ~ scalar_invalid(w, n) => ~ scalar_invalid(r, n)
  BY <1>1 DEF scalar_invalid
<1> QED
  BY <1>1, <1>2 DEF Truth, Scalar_Octets, Wire

(* What is sound for the writer is for a reader that agrees with it, and   *)
(* has the same octets.                                                    *)
LEMMA ContentAgrees ==
  ASSUME NEW writer \in Locks, NEW reader \in Locks, NEW t \in Fields(writer) \cap Fields(reader),
         Agree(Field(writer, t), Field(reader, t)),
         Field(writer, t).kind = "sequence" => Agree(Element(writer, t), Element(reader, t)),
         Field(reader, t).kind # "variant", NEW content, Sound(writer, t, content)
  PROVE  /\ Sound(reader, t, content)
         /\ Value_Octets(reader, t, content) = Value_Octets(writer, t, content)
<1> DEFINE w == Field(writer, t)
           r == Field(reader, t)
<1>1. /\ w.kind = r.kind /\ w.presence = r.presence
      /\ w.presence = "defaulted" => w.default = r.default
      /\ r.minimum <= w.minimum /\ w.maximum <= r.maximum
      /\ w.kind = "enumeration" => w.tags \subseteq r.tags
  BY DEF Agree
<1>2. Proper(w) /\ Proper(r) /\ w.kind \in Simple \cup {"bytes", "sequence"}
  BY <1>1, FieldIsProper, Zenon
<1>3. Component(reader, t, content) /\ Sendable(reader, t, content)
  BY <1>1 DEF Sound, Valid_Content, Component, Sendable
<1>4. ASSUME NEW n
      PROVE  /\ ~ scalar_invalid(w, n) => ~ scalar_invalid(r, n)
             /\ Truth(w, n) => Truth(r, n)
             /\ Scalar_Octets(w, n) = Scalar_Octets(r, n)
  BY <1>2, NumbersAgree
<1>5. CASE w.kind \in Simple
  BY <1>1, <1>3, <1>4, <1>5 DEF Sound, Valid_Content, Truths, Value_Octets, Simple, Scalars
<1>6. w.kind \in {"bytes", "sequence"} =>
        Len(content) \in w.minimum .. w.maximum /\ Len(content) \in r.minimum .. r.maximum
  <2>1. w.minimum \in Int /\ w.maximum \in Int /\ r.minimum \in Int /\ r.maximum \in Int
    BY FieldBounds
  <2>2. w.kind \in {"bytes", "sequence"} => Len(content) \in w.minimum .. w.maximum
    BY DEF Sound, Valid_Content
  <2> QED
    BY <1>1, <2>1, <2>2
<1>7. CASE w.kind = "bytes"
  BY <1>1, <1>3, <1>6, <1>7 DEF Sound, Valid_Content, Truths, Value_Octets, Scalars
<1>8. CASE w.kind = "sequence"
  <2>1. Proper(Element(writer, t)) /\ Proper(Element(reader, t))
    BY <1>1, <1>8, ElementIsProper, Zenon
  <2>2. ASSUME NEW n
        PROVE  /\ ~ scalar_invalid(Element(writer, t), n) => ~ scalar_invalid(Element(reader, t), n)
               /\ Truth(Element(writer, t), n) => Truth(Element(reader, t), n)
               /\ Scalar_Octets(Element(writer, t), n) = Scalar_Octets(Element(reader, t), n)
    BY <1>8, <2>1, NumbersAgree
  <2>3. [i \in DOMAIN content |-> Delimited(Scalar_Octets(Element(writer, t), content[i]))]
          = [i \in DOMAIN content |-> Delimited(Scalar_Octets(Element(reader, t), content[i]))]
    BY <2>2
  <2>4. Value_Octets(reader, t, content) = Value_Octets(writer, t, content)
    BY <1>1, <1>8, <2>3 DEF Value_Octets
  <2> QED
    BY <1>1, <1>3, <1>6, <1>8, <2>2, <2>4 DEF Sound, Valid_Content, Truths, Scalars
<1> QED
  BY <1>2, <1>5, <1>7, <1>8

(* The approval of a writer that is accepted as compatible. *)
LEMMA WriterIsApproved ==
  ASSUME Generated, NEW writer, Relationship(writer) = "Compatible", NEW entry, entry = Entry_Of(writer, entries)
  PROVE  /\ writer \in Locks /\ writer # local
         /\ Approvable(writer, local) /\ validate_approval(entry, local) /\ entry.schema = writer
         /\ \A t \in Fields(local) : Field(local, t).kind # "variant"
<1>1. local \in Locks /\ entries \in Tables[local]
  BY DEF Generated
<1>2. Schemas(entries) \subseteq Locks /\ validate_compatible_writers(local, entries)
  BY <1>1, ExchangeAssumption
<1>3. writer \in Schemas(entries) /\ writer # local
  BY DEF Relationship, Classify
<1>4. entry \in entries /\ entry.schema = writer
  BY <1>3 DEF Entry_Of, Schemas
<1> QED
  BY <1>2, <1>3, <1>4 DEF validate_compatible_writers

(* A codec is related to its own lock and to those of its table alone. *)
LEMMA RelatedWriters ==
  ASSUME Generated, NEW writer \in Locks
  PROVE  Relationship(writer) \in {"Exact", "Compatible"} <=> writer \in {local} \cup Schemas(entries)
<1>1. local \in Locks /\ entries \in Tables[local]
  BY DEF Generated
<1>2. Schemas(entries) \subseteq Locks /\ validate_compatible_writers(local, entries) /\ Nobody \notin Locks
  BY <1>1, ExchangeAssumption
<1>3. ASSUME NEW w \in Schemas(entries)
      PROVE  w # Nobody /\ w # local /\ w.family_id = local.family_id
  <2> PICK entry \in entries : w = entry.schema
    BY <1>3 DEF Schemas
  <2>1. w # local /\ incompatibilities(w, local) = {}
    BY <1>2 DEF validate_compatible_writers, Approvable
  <2> QED
    BY <1>2, <2>1 DEF incompatibilities
<1> QED
  BY <1>1, <1>2, <1>3 DEF Relationship, Classify, Table_Is_Valid

LEMMA OneSidedFields ==
  ASSUME Generated, NEW writer, Relationship(writer) = "Compatible"
  PROVE  /\ Fields(writer) \ Fields(local) \subseteq Ignored(writer, local)
         /\ \A t \in Fields(local) \ Fields(writer) :
              Field(local, t).presence = "required" => t \in Constructed(writer, local)
         /\ \A t \in Constructed(writer, local) : Field(local, t).presence = "required"
<1>1. writer \in Locks /\ local \in Locks /\ incompatibilities(writer, local) = {}
  BY WriterIsApproved DEF Generated, Approvable
<1>2. <<>> \in Records(writer.root, local.root)
  BY <1>1, FieldsAgree
<1>3. \A t : Append(<<>>, t) = <<t>>
  OBVIOUS
<1>4. \A t \in Fields(writer) \ Fields(local) : <<t>> \in ignore_writer_field(writer.root, local.root)
  BY <1>2, <1>3 DEF ignore_writer_field, Fields
<1>5. \A t \in Fields(local) \ Fields(writer) :
        local.root[<<t>>].presence = "required" => <<t>> \in construct_reader_field(writer.root, local.root)
  BY <1>2, <1>3 DEF construct_reader_field, Fields
<1>6. \A f \in construct_reader_field(writer.root, local.root) : local.root[f].presence = "required"
  BY DEF construct_reader_field
<1> QED
  BY <1>4, <1>5, <1>6 DEF Ignored, Constructed, Field

(* What a field that was not seen is in the end. *)
LEMMA CompletedAs ==
  ASSUME Generated, NEW call, Relationship(call.writer) \in {"Exact", "Compatible"},
         DOMAIN call.candidate = Fields(local), NEW t \in Fields(local), t \notin call.seen
  PROVE  /\ Field(local, t).presence = "optional" => Completed(call)[t] = call.candidate[t]
         /\ Field(local, t).presence = "defaulted" => Completed(call)[t] = <<Field(local, t).default>>
         /\ Field(local, t).presence = "required" /\ t \notin Fields(call.writer) =>
              /\ t \in {s[1] : s \in Supplied(call)}
              /\ Completed(call)[t] = <<Entry_Of(call.writer, entries).construct[t]>>
<1> DEFINE construct == Entry_Of(call.writer, entries).construct
<1>1. Completed(call)[t] = IF \E s \in Supplied(call) : s[1] = t
                             THEN <<(CHOOSE s \in Supplied(call) : s[1] = t)[2]>>
                             ELSE call.candidate[t]
  BY DEF Completed
<1>2. ASSUME NEW s \in Supplied(call), s[1] = t
      PROVE  \/ Field(local, t).presence = "defaulted" /\ s[2] = Field(local, t).default
             \/ Field(local, t).presence = "required" /\ s[2] = construct[t]
  <2>1. CASE s \in {<<k, Field(local, k).default>> : k \in Fields_With(local, "defaulted")}
    BY <1>2, <2>1 DEF Fields_With
  <2>2. CASE s \in Constructions(call)
    <3>1. Relationship(call.writer) = "Compatible"
      BY <2>2 DEF Constructions
    <3>2. DOMAIN construct = Constructed(call.writer, local)
      BY <3>1, WriterIsApproved DEF validate_approval
    <3>3. \E k \in DOMAIN construct : s = <<k, construct[k]>>
      BY <2>2, <3>1 DEF Constructions
    <3> QED
      BY <1>2, <3>1, <3>2, <3>3, OneSidedFields
  <2> QED
    BY <2>1, <2>2 DEF Supplied
<1>3. Field(local, t).presence = "defaulted" => \E s \in Supplied(call) : s[1] = t
  <2> SUFFICES ASSUME Field(local, t).presence = "defaulted"
               PROVE  \E s \in Supplied(call) : s[1] = t
    OBVIOUS
  <2>1. <<t, Field(local, t).default>> \in Supplied(call)
    BY DEF Supplied, Fields_With
  <2> QED
    BY <2>1
<1>4. ASSUME Field(local, t).presence = "required", t \notin Fields(call.writer)
      PROVE  \E s \in Supplied(call) : s[1] = t
  <2>1. Relationship(call.writer) = "Compatible"
    BY <1>4, ExactIsLocal
  <2>2. t \in DOMAIN construct
    BY <1>4, <2>1, WriterIsApproved, OneSidedFields DEF validate_approval
  <2>3. <<t, construct[t]>> \in Supplied(call)
    BY <2>1, <2>2 DEF Supplied, Constructions
  <2> QED
    BY <2>3
<1> HIDE DEF construct
<1>5. (\E s \in Supplied(call) : s[1] = t) =>
        \E s \in Supplied(call) : s[1] = t /\ Completed(call)[t] = <<s[2]>>
  BY <1>1, Zenon
<1>6. Field(local, t).presence = "optional" => Completed(call)[t] = call.candidate[t]
  BY <1>1, <1>2
<1>7. Field(local, t).presence = "defaulted" => Completed(call)[t] = <<Field(local, t).default>>
  BY <1>2, <1>3, <1>5
<1>8. Field(local, t).presence = "required" /\ t \notin Fields(call.writer) =>
        t \in {s[1] : s \in Supplied(call)} /\ Completed(call)[t] = <<construct[t]>>
  BY <1>2, <1>4, <1>5
<1> QED
  BY <1>6, <1>7, <1>8 DEF construct

(* A field of an accepted writer arrives, or is passed over.               *)
LEMMA ValueAccepted ==
  ASSUME Generated, NEW call, NEW writer \in Locks, writer = call.writer,
         Relationship(writer) \in {"Exact", "Compatible"},
         NEW input \in Seq(Octet), input = call.input, Len(input) <= MaxUnsigned,
         NEW t \in Fields(writer), NEW content, Sound(writer, t, content),
         NEW region \in Regions, Inside(region, input),
         Spans(input, region.start, End(region), Value_Octets(writer, t, content))
  PROVE  Accepted_Value(call, t, region) = Taken(IF t \in Fields(local) THEN Sent(local, t, content) ELSE <<>>)
<1>1. local \in Locks
  BY DEF Generated
<1>2. CASE t \in Fields(local)
  <2>1. Sound(local, t, content) /\ Value_Octets(local, t, content) = Value_Octets(writer, t, content)
    <3>1. CASE writer = local
      BY <3>1
    <3>2. CASE writer # local
      <4>1. /\ incompatibilities(writer, local) = {}
            /\ Field(local, t).kind # "variant"
        BY <1>2, <3>2, ExactIsLocal, WriterIsApproved DEF Approvable
      <4>2. /\ Agree(Field(writer, t), Field(local, t))
            /\ Field(writer, t).kind = "sequence" => Agree(Element(writer, t), Element(local, t))
        BY <1>1, <1>2, <4>1, FieldsAgree
      <4> QED
        BY <1>1, <1>2, <4>1, <4>2, ContentAgrees
    <3> QED
      BY <3>1, <3>2
  <2>2. Read_Value(local, t, input, region) = Taken(Sent(local, t, content))
    BY <1>1, <1>2, <2>1, ValueArrives
  <2> QED
    BY <1>2, <2>2 DEF Accepted_Value, Prohibited
<1>3. CASE t \notin Fields(local)
  <2>1. Relationship(writer) = "Compatible"
    BY <1>3, ExactIsLocal
  <2>2. t \in Ignored(writer, local) /\ Field(writer, t).kind = "bytes"
    BY <1>3, <2>1, OneSidedFields, WriterIsApproved DEF Approvable
  <2>3. Value_Octets(writer, t, content) = content
    BY <2>2 DEF Value_Octets
  <2>4. Len(content) \in Field(writer, t).minimum .. Field(writer, t).maximum
    BY <2>2 DEF Sound, Valid_Content
  <2>5. region.length = Len(content)
    <3>1. End(region) = region.start + Len(content) /\ Len(content) \in Nat
      BY <2>3, SpanGoesOn
    <3> QED
      BY <3>1, Limits DEF End, Regions, Unsigned
  <2> QED
    BY <1>3, <2>1, <2>2, <2>4, <2>5 DEF Accepted_Value, Ignorable, Octets_Within
<1> QED
  BY <1>2, <1>3

(* An item that a codec could encode.                                      *)
Message(writer, sent) ==
  /\ writer \in Locks /\ Item_Of(writer, sent)
  /\ \A t \in Included(writer, sent) : Sound(writer, t, sent[t])

(* The fields that are still to come, and what those before became.        *)
Underway(lock, call) ==
  LET fields == Included(call.writer, call.sent)
  IN  /\ Comes_To(call.input, Field_Octets(call.writer, fields, call.sent), call.previous,
                  call.reader.next, Len(call.input))
      /\ call.seen = {t \in fields \cap Fields(lock) : t <= call.previous}
      /\ \A t \in call.seen : call.candidate[t] = Sent(lock, t, call.sent[t])

(* A message of a writer that is accepted is on its way, and was not       *)
(* refused.                                                                *)
Arriving(lock, table, call) ==
  call # Idle /\ call.sent # Nothing =>
    /\ Message(call.writer, call.sent)
    /\ IF Classify(lock, call.writer, Schemas(table), Nobody) \in {"Exact", "Compatible"}
         THEN /\ call.status \in {"Decoding", "Decoded"}
              /\ call.status = "Decoding" => Len(call.input) <= MaxUnsigned /\ Underway(lock, call)
         ELSE call.status = "Incompatible"

LEMMA MessageParts ==
  ASSUME NEW writer, NEW sent, Message(writer, sent), NEW fields, fields = Included(writer, sent),
         NEW octets, octets = Field_Octets(writer, fields, sent)
  PROVE  /\ DOMAIN octets = fields /\ fields \subseteq Field_Tag /\ fields \subseteq Fields(writer)
         /\ \A t \in fields : octets[t] = Value_Octets(writer, t, sent[t]) /\ octets[t] \in Seq(Octet)
<1>1. DOMAIN octets = fields /\ fields \subseteq Fields(writer) /\ writer \in Locks
  BY DEF Field_Octets, Included, Message
<1>2. fields \subseteq Field_Tag
  BY <1>1, Root
<1>3. ASSUME NEW t \in fields
      PROVE  octets[t] = Value_Octets(writer, t, sent[t]) /\ octets[t] \in Seq(Octet)
  <2>1. octets[t] = Value_Octets(writer, t, sent[t])
    BY DEF Field_Octets
  <2>2. Sound(writer, t, sent[t]) /\ t \in Fields(writer)
    BY <1>1 DEF Message
  <2> QED
    BY <1>1, <2>1, <2>2, ValueOctets
<1> QED
  BY <1>1, <1>2, <1>3

(* Before the loop all fields are to come. *)
LEMMA ArrivalBegins ==
  ASSUME NEW writer, NEW input \in Seq(Octet), NEW sent,
         sent # Nothing => Message(writer, sent) /\ Len(input) <= MaxUnsigned /\ input = Canonical(writer, sent),
         Begin_Decode(writer, input, sent)
  PROVE  Arriving(local, entries, decoding')
<1> PICK call : call = decoding'
  OBVIOUS
<1>1. /\ call.writer = writer /\ call.sent = sent /\ call.seen = {} /\ call.previous = No_Tag
      /\ IF Relationship(writer) \in {"Exact", "Compatible"}
           THEN call.status = "Decoding" /\ call.input = input /\ call.reader = Initialize_Whole(input)
           ELSE call.status = "Incompatible"
  BY DEF Begin_Decode
<1> SUFFICES ASSUME sent # Nothing, Relationship(writer) \in {"Exact", "Compatible"}
             PROVE  Underway(local, call)
  BY <1>1 DEF Arriving, Relationship
<1> PICK fields, octets : fields = Included(writer, sent) /\ octets = Field_Octets(writer, fields, sent)
  OBVIOUS
<1>2. /\ DOMAIN octets = fields /\ fields \subseteq Field_Tag
      /\ \A t \in fields : octets[t] \in Seq(Octet)
  BY MessageParts
<1> PICK start \in Nat, stop \in Nat : start = 0 /\ stop = Len(input)
  OBVIOUS
<1>3. Spans(input, start, stop, input)
  BY DEF Spans
<1>4. Comes_To(input, octets, No_Tag, start, stop)
  BY <1>2, <1>3, CanonicalIsParts, TagsBegin
<1>5. \A t \in fields : ~ (t <= No_Tag)
  BY <1>2, Limits DEF Field_Tag, No_Tag
<1>6. call.reader.next = start
  BY <1>1 DEF Initialize_Whole, Cursor
<1> QED
  BY <1>1, <1>4, <1>5, <1>6 DEF Underway

(* The next field that is to come arrives, whatever it is. *)
Lands_Next(call, header, value, t) ==
  /\ header.status = "Read" /\ header.tag = t /\ header.previous = t
  /\ t \in Included(call.writer, call.sent)
  /\ value = Taken(IF t \in Fields(local) THEN Sent(local, t, call.sent[t]) ELSE <<>>)
  /\ \A k \in Included(call.writer, call.sent) : k <= t <=> k <= call.previous \/ k = t
  /\ Comes_To(call.input, Field_Octets(call.writer, Included(call.writer, call.sent), call.sent), t,
              header.cursor.next, Len(call.input))

LEMMA NextArrives ==
  ASSUME Generated, NEW call, Right_Decode(local, call), call.status = "Decoding",
         Relationship(call.writer) \in {"Exact", "Compatible"}, ~ At_End(call.reader),
         Message(call.writer, call.sent), Len(call.input) <= MaxUnsigned, Underway(local, call),
         NEW header, header = Read_Field_Header(call.input, call.reader, call.previous),
         NEW value, value = Accepted_Value(call, header.tag, header.value)
  PROVE  \E t : Lands_Next(call, header, value, t)
<1>1. /\ call.input \in Seq(Octet) /\ call.previous \in Tag_Number /\ call.reader \in Cursor_Record
      /\ Is_Valid(call.reader, Len(call.input)) /\ call.reader.limit = Len(call.input)
  BY DEF Right_Decode, Idle
<1>2. PICK octets : octets = Field_Octets(call.writer, Included(call.writer, call.sent), call.sent)
  OBVIOUS
<1>3. PICK fields : fields = Included(call.writer, call.sent)
  OBVIOUS
<1>4. PICK writer \in Locks : writer = call.writer
  BY DEF Message
<1>5. /\ DOMAIN octets = fields /\ fields \subseteq Field_Tag /\ fields \subseteq Fields(writer)
      /\ \A t \in fields : octets[t] = Value_Octets(writer, t, call.sent[t])
  BY <1>2, <1>3, <1>4, MessageParts
<1>6. Comes_To(call.input, octets, call.previous, call.reader.next, call.reader.limit)
  BY <1>1, <1>2 DEF Underway
<1>7. PICK next : \E t \in DOMAIN octets, region \in Regions :
        /\ t > call.previous /\ \A k \in DOMAIN octets : k > call.previous => t <= k
        /\ Read_Field_Header(call.input, call.reader, call.previous) =
             [status |-> "Read", tag |-> t, value |-> region, cursor |-> MovedTo(call.reader, next), previous |-> t]
        /\ Arrives(call.input, call.reader, region, next, octets[t])
        /\ Comes_To(call.input, octets, t, next, call.reader.limit)
  BY <1>1, <1>6, NextHeader, Zenon
<1>8. PICK t \in DOMAIN octets, region \in Regions :
        /\ t > call.previous /\ \A k \in DOMAIN octets : k > call.previous => t <= k
        /\ header = [status |-> "Read", tag |-> t, value |-> region, cursor |-> MovedTo(call.reader, next), previous |-> t]
        /\ Arrives(call.input, call.reader, region, next, octets[t])
        /\ Comes_To(call.input, octets, t, next, call.reader.limit)
  BY <1>7
<1>9. header.tag = t /\ header.value = region /\ header.status = "Read" /\ header.previous = t
      /\ header.cursor.next = next
  BY <1>8 DEF Arrives
<1>10. PICK content : content = call.sent[t]
  OBVIOUS
<1>11. Sound(writer, t, content) /\ t \in Fields(writer)
  BY <1>3, <1>4, <1>5, <1>10 DEF Message
<1>12. Inside(region, call.input) /\ Spans(call.input, region.start, End(region), Value_Octets(writer, t, content))
  <2>1. octets[t] = Value_Octets(writer, t, content)
    BY <1>5, <1>10
  <2> QED
    BY <1>8, <2>1 DEF Arrives
<1>13. value = Taken(IF t \in Fields(local) THEN Sent(local, t, content) ELSE <<>>)
  <2>1. Accepted_Value(call, t, region) = Taken(IF t \in Fields(local) THEN Sent(local, t, content) ELSE <<>>)
    <3>1. Relationship(writer) \in {"Exact", "Compatible"}
      BY <1>4
    <3> QED
      BY <1>1, <1>4, <1>11, <1>12, <3>1, ValueAccepted
  <2> QED
    BY <1>9, <2>1
<1>14. \A k \in fields : k <= t <=> k <= call.previous \/ k = t
  <2>1. call.previous \in Nat /\ \A k \in fields : k \in Nat
    BY <1>1, <1>5, Limits DEF Field_Tag, Tag_Number
  <2> QED
    BY <1>5, <1>8, <2>1
<1>15. Comes_To(call.input, octets, t, header.cursor.next, Len(call.input)) /\ t \in fields
  BY <1>1, <1>5, <1>8, <1>9
<1> QED
  BY <1>2, <1>3, <1>9, <1>10, <1>13, <1>14, <1>15 DEF Lands_Next

LEMMA ArrivalGoesOn ==
  ASSUME Generated, NEW call, Arriving(local, entries, call), Underway(local, call),
         Message(call.writer, call.sent), Len(call.input) <= MaxUnsigned,
         Relationship(call.writer) \in {"Exact", "Compatible"}, DOMAIN call.candidate = Fields(local),
         NEW header, NEW value, NEW t, Lands_Next(call, header, value, t),
         NEW after, after.sent = call.sent, Goes_Past(call, header, value, after)
  PROVE  Arriving(local, entries, after)
<1>1. /\ after.writer = call.writer /\ after.input = call.input /\ after.previous = t
      /\ after.reader = header.cursor /\ after.status = "Decoding"
      /\ after.seen = call.seen \cup ({t} \cap Fields(local))
      /\ \A k \in Fields(local) : after.candidate[k] = IF k = t THEN value.content ELSE call.candidate[k]
  BY DEF Goes_Past, Lands_Next
<1> PICK fields : fields = Included(call.writer, call.sent)
  OBVIOUS
<1>2. call.seen = {k \in fields \cap Fields(local) : k <= call.previous}
  BY DEF Underway
<1>3. after.seen = {k \in fields \cap Fields(local) : k <= t}
  BY <1>1, <1>2 DEF Lands_Next
<1>4. \A k \in after.seen : after.candidate[k] = Sent(local, k, call.sent[k])
  BY <1>1, <1>2, <1>3 DEF Underway, Lands_Next, Taken
<1>5. Underway(local, after)
  BY <1>1, <1>3, <1>4 DEF Underway, Lands_Next
<1> QED
  BY <1>1, <1>5 DEF Arriving, Relationship

(* Where all fields were seen, what was not sent is what it should be.     *)
LEMMA ArrivalEnds ==
  ASSUME Generated, NEW call, Right_Decode(local, call), call.status = "Decoding", At_End(call.reader),
         Relationship(call.writer) \in {"Exact", "Compatible"},
         Message(call.writer, call.sent), Underway(local, call)
  PROVE  /\ Fields_With(local, "required") \subseteq call.seen \cup {s[1] : s \in Supplied(call)}
         /\ Completed(call) = Understood(call.writer, call.sent)
<1> PICK writer \in Locks : writer = call.writer
  BY DEF Message
<1> PICK sent : sent = call.sent
  OBVIOUS
<1> PICK fields, octets : fields = Included(writer, sent) /\ octets = Field_Octets(writer, fields, sent)
  OBVIOUS
<1>1. /\ call.input \in Seq(Octet) /\ call.reader.next = Len(call.input)
      /\ DOMAIN call.candidate = Fields(local) /\ call.seen \subseteq Fields(local)
      /\ \A t \in Fields(local) \ call.seen : call.candidate[t] = failure_value(local)[t]
  BY DEF Right_Decode, Right_Item, At_End, Idle
<1>2. call.seen = fields \cap Fields(local)
  <2>1. Comes_To(call.input, octets, call.previous, call.reader.next, call.reader.next)
    BY <1>1 DEF Underway
  <2>2. DOMAIN octets = fields
    BY MessageParts
  <2>3. \A t \in fields : t <= call.previous
    BY <1>1, <2>1, <2>2, NoTagLeft
  <2> QED
    BY <2>3 DEF Underway
<1>3. local \in Locks
  BY DEF Generated
<1>4. ASSUME NEW t \in Fields(local) \cap Fields(writer)
      PROVE  /\ Field(writer, t).presence = Field(local, t).presence
             /\ Field(writer, t).presence = "defaulted" => Field(writer, t).default = Field(local, t).default
  <2>1. CASE writer = local
    BY <2>1
  <2>2. CASE writer # local
    <3>1. incompatibilities(writer, local) = {}
      BY <2>2, ExactIsLocal, WriterIsApproved DEF Approvable
    <3> QED
      BY <1>3, <3>1, FieldsAgree DEF Agree
  <2> QED
    BY <2>1, <2>2
<1>5. ASSUME NEW t \in Fields(local) \ call.seen, t \in Fields(writer)
      PROVE  /\ \/ Field(local, t).presence = "optional" /\ sent[t] = <<>>
                \/ Field(local, t).presence = "defaulted" /\ sent[t] = <<Field(local, t).default>>
             /\ Sent(local, t, sent[t]) = sent[t]
  <2>1. ~ include(writer, sent, t)
    BY <1>2, <1>5 DEF Included
  <2>2. \/ Field(writer, t).presence = "optional" /\ sent[t] = <<>>
        \/ Field(writer, t).presence = "defaulted" /\ sent[t] = <<Field(writer, t).default>>
    BY <2>1 DEF include
  <2>3. \/ Field(local, t).presence = "optional" /\ sent[t] = <<>>
        \/ Field(local, t).presence = "defaulted" /\ sent[t] = <<Field(local, t).default>>
    BY <1>4, <1>5, <2>2
  <2>4. Field(local, t).kind # "variant"
    BY <1>3, <2>3, FieldIsProper, Zenon DEF Scalars
  <2> QED
    BY <2>3, <2>4 DEF Sent
<1>6. ASSUME NEW t \in Fields(local) \ call.seen, Field(local, t).presence = "required"
      PROVE  t \notin Fields(writer) /\ t \in {s[1] : s \in Supplied(call)}
  BY <1>1, <1>5, <1>6, CompletedAs
<1>7. ASSUME NEW t \in Fields(local)
      PROVE  Completed(call)[t] = Understood(writer, sent)[t]
  <2>1. Field(local, t).presence \in {"required", "optional", "defaulted"}
    BY <1>3, FieldBounds DEF Presence
  <2>2. CASE t \in call.seen
    <3>1. Completed(call)[t] = Sent(local, t, sent[t])
      BY <1>1, <2>2 DEF Completed, Underway
    <3>2. t \in Fields(writer)
      BY <1>2, <2>2 DEF Included
    <3> QED
      BY <3>1, <3>2 DEF Understood
  <2>3. CASE t \notin call.seen
    <3>1. Field(local, t).presence = "optional" => Completed(call)[t] = <<>>
      BY <1>1, <1>3, <2>3, CompletedAs, AbsentIsValid
    <3>2. Field(local, t).presence = "defaulted" => Completed(call)[t] = <<Field(local, t).default>>
      BY <1>1, <2>3, CompletedAs
    <3>3. Field(local, t).presence = "required" =>
            t \notin Fields(writer) /\ Completed(call)[t] = <<Entry_Of(writer, entries).construct[t]>>
      BY <1>1, <1>6, <2>3, CompletedAs
    <3>4. t \in Fields(writer) => Understood(writer, sent)[t] = sent[t]
      BY <1>5, <2>3 DEF Understood
    <3>5. CASE t \in Fields(writer)
      BY <1>5, <2>3, <3>1, <3>2, <3>4, <3>5
    <3>6. CASE t \notin Fields(writer)
      BY <2>1, <3>1, <3>2, <3>3, <3>6 DEF Understood
    <3> QED
      BY <3>5, <3>6
  <2> QED
    BY <2>2, <2>3
<1>8. Completed(call) = Understood(writer, sent)
  <2>1. /\ Completed(call) = [t \in Fields(local) |-> Completed(call)[t]]
        /\ Understood(writer, sent) = [t \in Fields(local) |-> Understood(writer, sent)[t]]
    BY <1>1 DEF Completed, Understood
  <2> QED
    BY <1>7, <2>1
<1> QED
  BY <1>6, <1>8 DEF Fields_With

Told(call) ==
  call # Idle /\ call.sent # Nothing /\ call.status = "Decoded" => call.item = Understood(call.writer, call.sent)

LEMMA EncodedArrives ==
  ASSUME Generated, Right(encoding), Spelled(encoding), Receive_Encoded
  PROVE  Arriving(local, entries, decoding') /\ Told(decoding')
<1>0. PICK item : item = encoding.item
  OBVIOUS
<1>1. PICK lock \in Locks : lock = encoding.lock /\ item = encoding.item
  BY <1>0 DEF Right, Receive_Encoded, Idle
<1>2. /\ encoding # Idle /\ encoding.status = "Encoded" /\ Item_Of(lock, item)
      /\ Measure(lock, item).status = "Measured" /\ encoding.written = Measure(lock, item).size
      /\ encoding.output \in Seq(Octet) /\ encoding.written \in 0 .. Len(encoding.output)
  BY <1>1 DEF Right, Receive_Encoded, Idle
<1>3. /\ \A t \in Fields(lock) : Truths(lock, t, item[t])
      /\ Spans(encoding.output, 0, encoding.written, Canonical(lock, item))
  BY <1>1, <1>2 DEF Spelled
<1>4. Message(lock, item)
  <2>1. \A t \in Included(lock, item) : Sound(lock, t, item[t])
    BY <1>2, <1>3, SentIsSound DEF Included
  <2> QED
    BY <1>2, <2>1 DEF Message
<1>5. PICK input \in Seq(Octet) : input = SubSeq(encoding.output, 1, encoding.written)
  BY <1>2, PrefixOfOctets, Zenon
<1>6. Len(input) <= MaxUnsigned /\ input = Canonical(lock, item)
  <2>1. input = Canonical(lock, item)
    BY <1>2, <1>3, <1>5, SpansIsPrefix
  <2>2. Len(input) = encoding.written
    BY <1>2, <1>5
  <2>3. encoding.written <= MaxUnsigned
    BY <1>2, Vouched
  <2> QED
    BY <2>1, <2>2, <2>3
<1>7. Begin_Decode(lock, input, item)
  BY <1>1, <1>5, Zenon DEF Receive_Encoded
<1>8. Arriving(local, entries, decoding')
  BY <1>4, <1>6, <1>7, ArrivalBegins
<1> QED
  BY <1>7, <1>8 DEF Told, Begin_Decode

LEMMA OthersArrive ==
  ASSUME Generated, Receive_Foreign
  PROVE  Arriving(local, entries, decoding') /\ Told(decoding')
<1>1. decoding'.sent = Nothing
  BY DEF Receive_Foreign, Begin_Decode
<1> QED
  BY <1>1 DEF Arriving, Told

(* What Decode_Field does to a message that is under way. *)
LEMMA FieldArrives ==
  ASSUME Generated, Receiving, Right_Decode(local, decoding), Arriving(local, entries, decoding), Decode_Field
  PROVE  Arriving(local, entries, decoding') /\ Told(decoding')
<1>1. decoding.status = "Decoding" /\ decoding # Idle /\ ~ At_End(decoding.reader)
  BY DEF Decode_Field, Idle
<1>2. PICK header, value : /\ header = Read_Field_Header(decoding.input, decoding.reader, decoding.previous)
                           /\ value = Accepted_Value(decoding, header.tag, header.value)
  OBVIOUS
<1>3. \/ header.status # "Read" /\ Decode_Fails(Map_Read_Error(header.status))
      \/ header.status = "Read" /\ value.status # "Decoded" /\ Decode_Fails(value.status)
      \/ Goes_Past(decoding, header, value, decoding') /\ decoding'.sent = decoding.sent
  BY <1>2, OneTurn DEF Receiving
<1>4. CASE decoding.sent = Nothing
  <2>1. decoding'.sent = decoding.sent
    BY <1>1, <1>3 DEF Decode_Fails, Receiving, Shape
  <2> QED
    BY <1>4, <2>1 DEF Arriving, Told
<1>5. CASE decoding.sent # Nothing
  <2>1. /\ Message(decoding.writer, decoding.sent) /\ Len(decoding.input) <= MaxUnsigned
        /\ Underway(local, decoding) /\ Relationship(decoding.writer) \in {"Exact", "Compatible"}
    BY <1>1, <1>5 DEF Arriving, Relationship
  <2>2. PICK t : Lands_Next(decoding, header, value, t)
    BY <1>1, <1>2, <2>1, NextArrives
  <2>3. Goes_Past(decoding, header, value, decoding') /\ decoding'.sent = decoding.sent
    BY <1>3, <2>2 DEF Lands_Next, Taken
  <2>4. DOMAIN decoding.candidate = Fields(local)
    BY <1>1 DEF Right_Decode, Right_Item
  <2>5. Arriving(local, entries, decoding')
    BY <1>5, <2>1, <2>2, <2>3, <2>4, ArrivalGoesOn
  <2> QED
    BY <2>3, <2>5 DEF Told, Goes_Past
<1> QED
  BY <1>4, <1>5

LEMMA ItemArrives ==
  ASSUME Generated, Receiving, Right_Decode(local, decoding), Arriving(local, entries, decoding), End_Decode
  PROVE  Arriving(local, entries, decoding') /\ Told(decoding')
<1>1. decoding.status = "Decoding" /\ decoding # Idle /\ At_End(decoding.reader)
  BY DEF End_Decode, Idle
<1>2. decoding = [status |-> decoding.status, writer |-> decoding.writer, input |-> decoding.input,
                    sent |-> decoding.sent, reader |-> decoding.reader, previous |-> decoding.previous,
                    candidate |-> decoding.candidate, seen |-> decoding.seen, item |-> decoding.item]
  BY <1>1 DEF Receiving, Shape
<1>3. CASE decoding.sent = Nothing
  <2>1. decoding'.sent = decoding.sent
    BY <1>2 DEF End_Decode
  <2> QED
    BY <1>3, <2>1 DEF Arriving, Told
<1>4. CASE decoding.sent # Nothing
  <2>1. /\ Message(decoding.writer, decoding.sent) /\ Underway(local, decoding)
        /\ Relationship(decoding.writer) \in {"Exact", "Compatible"}
    BY <1>1, <1>4 DEF Arriving, Relationship
  <2>2. /\ Fields_With(local, "required") \subseteq decoding.seen \cup {s[1] : s \in Supplied(decoding)}
        /\ Completed(decoding) = Understood(decoding.writer, decoding.sent)
    BY <1>1, <2>1, ArrivalEnds
  <2>3. PICK after : after = decoding' /\ after = [decoding EXCEPT !.status = "Decoded", !.item = Completed(decoding)]
    BY <2>2 DEF End_Decode
  <2>4. /\ after.status = "Decoded" /\ after.item = Completed(decoding)
        /\ after.writer = decoding.writer /\ after.sent = decoding.sent
    BY <1>2, <2>3
  <2>5. Arriving(local, entries, after)
    BY <2>1, <2>4 DEF Arriving, Relationship
  <2> QED
    BY <2>2, <2>3, <2>4, <2>5 DEF Told
<1> QED
  BY <1>3, <1>4

-----------------------------------------------------------------------------

(***************************************************************************)
(* Both.                                                                   *)
(***************************************************************************)
IInv == Generated /\ Right(encoding) /\ Spelled(encoding) /\ Receiving /\ Right_Decode(local, decoding)

(* No call of Encode, or the one that is under way goes on or ends.        *)
LEMMA Sending ==
  ASSUME Right(encoding), Spelled(encoding), Begin_Encode \/ Encode_Field \/ End_Encode
  PROVE  Right(encoding') /\ Spelled(encoding')
<1>1. CASE Begin_Encode
  <2>0. PICK lock \in Locks : \E item \in Items[lock], room \in Rooms :
          \E measured \in {Measure(lock, item)} :
             encoding' = Encode_Call(Fitting(measured, room), lock, item, Blank(room),
               IF Fitting(measured, room) = "Encoding"
                 THEN Initialize(Blank(room), Extent(0, measured.size)).cursor
                 ELSE Cursor(0, 0, 0),
               No_Tag, 0)
    BY <1>1, Zenon DEF Begin_Encode
  <2>1. PICK item \in Items[lock], room \in Rooms : \E measured \in {Measure(lock, item)} :
          encoding' = Encode_Call(Fitting(measured, room), lock, item, Blank(room),
            IF Fitting(measured, room) = "Encoding"
              THEN Initialize(Blank(room), Extent(0, measured.size)).cursor
              ELSE Cursor(0, 0, 0),
            No_Tag, 0)
    BY <2>0, Zenon
  <2> QED
    BY <2>1, CallBegins, SpellingBegins
<1>2. ASSUME encoding.status \in {"Encoding"}
      PROVE  Shaped_Call(encoding)
  BY <1>2 DEF Right, Idle
<1>3. CASE Encode_Field
  <2>1. encoding.status = "Encoding" /\ Unwritten # {}
    BY <1>3, Zenon DEF Encode_Field
  <2>2. PICK wrote : /\ wrote = Write_Field(encoding.lock, encoding.item, Min(Unwritten),
                                           encoding.output, encoding.writer, encoding.previous)
                     /\ encoding' = [encoding EXCEPT !.status = IF wrote.status = "Wrote" THEN "Encoding" ELSE wrote.status,
                                    !.output = wrote.output, !.writer = wrote.cursor,
                                    !.previous = wrote.previous]
    BY <1>3, Zenon DEF Encode_Field
  <2>3. /\ wrote.status = "Wrote"
        /\ Right(Encode_Call("Encoding", encoding.lock, encoding.item, wrote.output, wrote.cursor,
                             wrote.previous, encoding.written))
        /\ Spelled(Encode_Call("Encoding", encoding.lock, encoding.item, wrote.output, wrote.cursor,
                               wrote.previous, encoding.written))
    BY <2>1, <2>2, CallGoesOn, SpellingGoesOn, Zenon DEF Unwritten
  <2>4. encoding' = Encode_Call("Encoding", encoding.lock, encoding.item, wrote.output, wrote.cursor,
                               wrote.previous, encoding.written)
    BY <1>2, <2>1, <2>2, <2>3, Zenon DEF Shaped_Call, Encode_Call
  <2> QED
    BY <2>3, <2>4
<1>4. CASE End_Encode
  <2>1. encoding.status = "Encoding" /\ Unwritten = {}
    BY <1>4 DEF End_Encode
  <2>2. /\ At_End(encoding.writer)
        /\ Right(Encode_Call("Encoded", encoding.lock, encoding.item, encoding.output, encoding.writer,
                             encoding.previous, Consumed(encoding.writer)))
        /\ Spelled(Encode_Call("Encoded", encoding.lock, encoding.item, encoding.output, encoding.writer,
                               encoding.previous, Consumed(encoding.writer)))
    BY <2>1, CallEnds, SpellingEnds DEF Unwritten
  <2>3. encoding' = [encoding EXCEPT !.status = "Encoded", !.written = Consumed(encoding.writer)]
    BY <1>4, <2>2 DEF End_Encode
  <2>4. encoding' = Encode_Call("Encoded", encoding.lock, encoding.item, encoding.output, encoding.writer,
                               encoding.previous, Consumed(encoding.writer))
    BY <1>2, <2>1, <2>3, Zenon DEF Shaped_Call, Encode_Call
  <2> QED
    BY <2>2, <2>4
<1> QED
  BY <1>1, <1>3, <1>4

LEMMA Starting == Init => IInv
BY Initially DEF Init, IInv, Generated, Right, Spelled, Right_Decode

LEMMA Steps == IInv /\ [Next]_vars => IInv'
<1> SUFFICES ASSUME IInv, [Next]_vars
             PROVE  IInv'
  OBVIOUS
<1>0. Generated /\ Right(encoding) /\ Spelled(encoding) /\ Receiving /\ Right_Decode(local, decoding)
  BY DEF IInv
<1>1. UNCHANGED generated
  BY DEF Next, Begin_Encode, Encode_Field, End_Encode, Receive_Encoded, Receive_Foreign, Decode_Field,
         End_Decode, Forget, vars, generated
<1>2. Generated'
  BY <1>0, <1>1 DEF Generated, generated
<1> HIDE DEF Right_Decode
<1>3. ASSUME Right(encoding'), Spelled(encoding'), Receiving', Right_Decode(local, decoding')
      PROVE  IInv'
  BY <1>1, <1>2, <1>3 DEF IInv, generated, Right, Spelled, Right_Decode
<1>4. CASE Begin_Encode \/ Encode_Field \/ End_Encode
  <2>1. UNCHANGED decoding
    BY <1>4, Zenon DEF Begin_Encode, Encode_Field, End_Encode
  <2>2. Right(encoding') /\ Spelled(encoding')
    BY <1>0, <1>4, Sending
  <2>3. Receiving'
    BY <1>0, <1>1, <2>1, Elsewhere
  <2> QED
    BY <1>0, <1>3, <2>1, <2>2, <2>3
<1>5. CASE Receive_Encoded \/ Receive_Foreign
  <2>1. Receiving'
    BY <1>1, <1>5, Beginning DEF Receive_Encoded, Receive_Foreign
  <2>2. Right(encoding') /\ Spelled(encoding')
    BY <1>0, <1>5 DEF Receive_Encoded, Receive_Foreign, Right, Spelled
  <2>3. CASE Receive_Encoded
    <3>1. encoding.status = "Encoded" /\ encoding # Idle
      BY <2>3 DEF Receive_Encoded, Idle
    <3>2. encoding.output \in Seq(Octet) /\ encoding.written \in 0 .. Len(encoding.output)
      BY <1>0, <3>1 DEF Right
    <3> PICK input \in Seq(Octet) : input = SubSeq(encoding.output, 1, encoding.written)
      BY <3>2, PrefixOfOctets, Zenon
    <3>3. Begin_Decode(encoding.lock, input, encoding.item)
      BY <2>3, Zenon DEF Receive_Encoded
    <3>4. Right_Decode(local, decoding')
      BY <1>0, <1>1, <3>3, DecodeStarts, Zenon
    <3> QED
      BY <1>3, <2>1, <2>2, <3>4
  <2>4. CASE Receive_Foreign
    <3> PICK writer \in Locks \cup {Nobody}, input \in Foreign : Begin_Decode(writer, input, Nothing)
      BY <2>4, Zenon DEF Receive_Foreign
    <3>1. input \in Seq(Octet)
      BY ExchangeAssumption
    <3>2. Right_Decode(local, decoding')
      BY <1>0, <1>1, <3>1, DecodeStarts
    <3> QED
      BY <1>3, <2>1, <2>2, <3>2
  <2> QED
    BY <1>5, <2>3, <2>4
<1>6. CASE Decode_Field \/ End_Decode
  <2>1. Receiving'
    BY <1>0, <1>6, Turning, Ending
  <2>2. UNCHANGED encoding
    BY <1>6 DEF Decode_Field, End_Decode
  <2>3. Right_Decode(local, decoding')
    BY <1>0, <1>6, DecodeTurns, DecodeReturns
  <2> QED
    BY <1>0, <1>3, <2>1, <2>2, <2>3
<1>7. CASE Forget
  <2>1. Receiving' /\ Right(encoding') /\ Spelled(encoding')
    BY <1>0, <1>1, <1>7, Elsewhere DEF Forget, Right, Spelled
  <2>2. Right_Decode(local, decoding')
    BY <1>7 DEF Forget, Right_Decode
  <2> QED
    BY <1>3, <2>1, <2>2
<1>8. CASE UNCHANGED vars
  <2>1. UNCHANGED <<encoding, decoding>>
    BY <1>8 DEF vars
  <2>2. Receiving'
    BY <1>0, <1>1, <2>1, Elsewhere
  <2> QED
    BY <1>0, <1>3, <2>1, <2>2
<1> QED
  BY <1>4, <1>5, <1>6, <1>7, <1>8 DEF Next

(* What the theorems below rest on, for every value of the constants: the  *)
(* locks are those the families generate, a caller that encodes is right   *)
(* about where it stands, and a receiver holds what its stage allows.      *)
THEOREM Invariance == Spec => []IInv
BY Starting, Steps, PTL DEF Spec

(* AcceptedTagsAreTheWriters for every family of schemas, approvals and    *)
(* octets: a generated Decode never goes past a field its writer lacks,    *)
(* whichever fields it knows itself or may ignore for another writer.      *)
THEOREM OwnTags == Spec => []AcceptedTagsAreTheWriters
<1>1. IInv => AcceptedTagsAreTheWriters
  BY DEF IInv, Receiving
<1> QED
  BY <1>1, Invariance, PTL

(* CallsAreTransactions for every family of schemas, item and room: a      *)
(* generated Encode that fails has changed nothing, since once Measure     *)
(* agreed no write is refused and the cursor ends where the room does; it  *)
(* takes as many octets as were measured and no more; and the item of a    *)
(* Decode that fails is failure_value, whatever was read before.           *)
THEOREM Transactions == Spec => []CallsAreTransactions
<1>1. IInv => CallsAreTransactions
  <2> SUFFICES ASSUME IInv
               PROVE  CallsAreTransactions
    OBVIOUS
  <2>1. Right(encoding) /\ Harmless
    BY DEF IInv, Receiving
  <2>2. decoding.status \in Decode_Failures => decoding.item = failure_value(local)
    BY <2>1 DEF Harmless, Decode_Failures, Idle
  <2>3. CASE encoding = Idle
    BY <2>2, <2>3 DEF CallsAreTransactions, Idle, Encode_Failures
  <2>4. CASE encoding # Idle
    BY <2>1, <2>2, <2>4 DEF CallsAreTransactions, Right
  <2> QED
    BY <2>3, <2>4
<1> QED
  BY <1>1, Invariance, PTL

(* TypeOK for every family of schemas, item and array of octets: both      *)
(* calls keep their shape, and whatever was read, from whomever, has room  *)
(* in the components of the reader's record and keeps their maxima, also   *)
(* while fields are still to come and when the Decode fails.               *)
THEOREM Types == Spec => []TypeOK
<1>1. IInv => TypeOK
  <2> SUFFICES ASSUME IInv
               PROVE  TypeOK
    OBVIOUS
  <2>1. Generated /\ Right(encoding) /\ Right_Decode(local, decoding)
    BY DEF IInv
  <2>2. local \in Locks /\ Schemas(entries) \subseteq Locks
    BY <2>1, ExchangeAssumption DEF Generated
  <2>3. \/ encoding = Idle
        \/ /\ encoding.status \in {"Encoding", "Encoded"} \cup Encode_Failures
           /\ encoding.lock \in Locks /\ Item_Of(encoding.lock, encoding.item)
           /\ encoding.output \in Seq(Octet) /\ encoding.written \in 0 .. Len(encoding.output)
           /\ encoding.previous \in Tag_Number
    <3>1. SUFFICES ASSUME encoding # Idle
                   PROVE  encoding.written \in 0 .. Len(encoding.output)
      BY <2>1 DEF Right
    <3>2. encoding.output \in Seq(Octet) /\ 0 \in 0 .. Len(encoding.output)
      BY <2>1, <3>1 DEF Right
    <3> QED
      BY <2>1, <3>1, <3>2 DEF Right
  <2>4. ASSUME NEW item, Item_Fits(local, item)
        PROVE  /\ Item_Of(local, item)
               /\ \A t \in Fields(local) :
                    Field(local, t).kind \in {"bytes", "sequence"} => Len(item[t]) <= Field(local, t).maximum
    BY <2>4 DEF Item_Fits, Fits, Item_Of
  <2>5. ASSUME decoding # Idle
        PROVE  /\ decoding.status \in {"Decoding", "Decoded"} \cup Decode_Failures
               /\ decoding.previous \in Tag_Number /\ decoding.seen \subseteq Fields(local)
               /\ Is_Valid(decoding.reader, Len(decoding.input))
               /\ Item_Fits(local, decoding.item) /\ Item_Fits(local, decoding.candidate)
    <3>1. /\ decoding.status \in {"Decoding", "Decoded"} \cup Decode_Failures
          /\ decoding.previous \in Tag_Number
          /\ Is_Valid(decoding.reader, Len(decoding.input))
          /\ Item_Fits(local, decoding.item) /\ Right_Item(local, decoding)
      BY <2>1, <2>5 DEF Right_Decode
    <3>2. Item_Fits(local, decoding.candidate)
      <4>1. \A t \in Fields(local) : Fits(local, t, failure_value(local)[t])
        BY <2>2, FailureFits DEF Item_Fits
      <4> QED
        BY <2>2, <3>1, <4>1, ValidFits DEF Right_Item, Item_Fits
    <3> QED
      BY <3>1, <3>2 DEF Right_Item
  <2> QED
    BY <2>2, <2>3, <2>4, <2>5 DEF TypeOK
<1> QED
  BY <1>1, Invariance, PTL

(* DecodedIsCanonical for every family of schemas and array of octets:     *)
(* what a Decode accepts from its own writer are the canonical octets of   *)
(* the item it returns, to the last one, and an item decoded from any      *)
(* accepted writer is one that Measure does not refuse as invalid.         *)
THEOREM CanonicalItems == Spec => []DecodedIsCanonical
<1>1. IInv => DecodedIsCanonical
  <2> SUFFICES ASSUME IInv, decoding.status = "Decoded"
               PROVE  /\ decoding.writer = local => Canonical(local, decoding.item) = decoding.input
                      /\ Measure(local, decoding.item).status # "Invalid_Value"
    BY DEF DecodedIsCanonical
  <2>1. local \in Locks /\ Right_Decode(local, decoding) /\ decoding # Idle
    BY DEF IInv, Generated, Idle
  <2>2. /\ Valid_Item(local, decoding.item)
        /\ decoding.writer = local => Canonical(local, decoding.item) = decoding.input
    BY <2>1 DEF Right_Decode
  <2> QED
    BY <2>1, <2>2, MeasureSizing
<1> QED
  BY <1>1, Invariance, PTL

(* What Encode leaves in the array it was given: from its first octet to   *)
(* the last it claims, the canonical encoding of the item, the one that    *)
(* CanonicalForm defines without a cursor or a header.                     *)
THEOREM EncodedIsCanonical ==
  Spec => [](encoding.status = "Encoded" =>
               SubSeq(encoding.output, 1, encoding.written) = Canonical(encoding.lock, encoding.item))
<1>1. IInv => (encoding.status = "Encoded" =>
                 SubSeq(encoding.output, 1, encoding.written) = Canonical(encoding.lock, encoding.item))
  <2> SUFFICES ASSUME IInv, encoding.status = "Encoded"
               PROVE  SubSeq(encoding.output, 1, encoding.written) = Canonical(encoding.lock, encoding.item)
    OBVIOUS
  <2>1. encoding # Idle
    BY DEF Idle
  <2>2. encoding.output \in Seq(Octet) /\ encoding.written \in Nat
    BY <2>1 DEF IInv, Right
  <2>3. Spans(encoding.output, 0, encoding.written, Canonical(encoding.lock, encoding.item))
    BY <2>1 DEF IInv, Spelled
  <2> QED
    BY <2>2, <2>3, SpansIsPrefix
<1> QED
  BY <1>1, Invariance, PTL

(***************************************************************************)
(* What an accepted writer encoded is on its way, or was understood.       *)
(***************************************************************************)
OnItsWay == Arriving(local, entries, decoding) /\ Told(decoding)

LEMMA ArrivalSteps == IInv /\ OnItsWay /\ [Next]_vars => OnItsWay'
<1> SUFFICES ASSUME IInv, OnItsWay, [Next]_vars
             PROVE  OnItsWay'
  OBVIOUS
<1>1. /\ Generated /\ Right(encoding) /\ Spelled(encoding) /\ Receiving /\ Right_Decode(local, decoding)
      /\ Arriving(local, entries, decoding) /\ Told(decoding)
  BY DEF IInv, OnItsWay
<1>2. UNCHANGED generated
  BY DEF Next, Begin_Encode, Encode_Field, End_Encode, Receive_Encoded, Receive_Foreign, Decode_Field,
         End_Decode, Forget, vars, generated
<1>3. ASSUME Arriving(local, entries, decoding'), Told(decoding')
      PROVE  OnItsWay'
  <2>1. Told(decoding)'
    BY <1>2, <1>3 DEF Told, Understood, generated
  <2> QED
    BY <1>2, <1>3, <2>1 DEF OnItsWay, generated
<1>4. CASE Begin_Encode \/ Encode_Field \/ End_Encode \/ UNCHANGED vars
  <2>1. UNCHANGED decoding
    BY <1>4, Zenon DEF Begin_Encode, Encode_Field, End_Encode, vars
  <2> QED
    BY <1>1, <1>3, <2>1
<1>5. CASE Forget
  BY <1>3, <1>5 DEF Forget, Arriving, Told
<1> QED
  BY <1>1, <1>3, <1>4, <1>5, EncodedArrives, OthersArrive, FieldArrives, ItemArrives DEF Next

(* ApprovedMessagesArrive for every family of schemas, approval, item and  *)
(* array: what a codec encoded, a codec generated to accept its writer     *)
(* decodes, to the same values in the fields both have and to what schema  *)
(* or approval say in the others; any other codec refuses it.              *)
THEOREM ApprovedArrive == Spec => []ApprovedMessagesArrive
<1>1. Init => OnItsWay
  BY DEF Init, OnItsWay, Arriving, Told
<1>2. IInv /\ OnItsWay => ApprovedMessagesArrive
  <2> SUFFICES ASSUME IInv, OnItsWay, decoding # Idle, decoding.status # "Decoding", decoding.sent # Nothing
               PROVE  IF decoding.writer \in {local} \cup Schemas(entries)
                        THEN /\ decoding.status = "Decoded"
                             /\ decoding.item = Understood(decoding.writer, decoding.sent)
                        ELSE decoding.status = "Incompatible"
    BY DEF ApprovedMessagesArrive
  <2>1. /\ Message(decoding.writer, decoding.sent)
        /\ IF Relationship(decoding.writer) \in {"Exact", "Compatible"}
             THEN decoding.status \in {"Decoding", "Decoded"}
             ELSE decoding.status = "Incompatible"
    BY DEF OnItsWay, Arriving, Relationship
  <2>2. Relationship(decoding.writer) \in {"Exact", "Compatible"} <=> decoding.writer \in {local} \cup Schemas(entries)
    BY <2>1, RelatedWriters DEF IInv, Message
  <2>3. decoding.status = "Decoded" => decoding.item = Understood(decoding.writer, decoding.sent)
    BY DEF OnItsWay, Told
  <2> QED
    BY <2>1, <2>2, <2>3
<1> QED
  BY <1>1, <1>2, ArrivalSteps, Invariance, PTL DEF Spec

-----------------------------------------------------------------------------

(***************************************************************************)
(* What the tools reckon for a lock is enough for what its codec measures. *)
(***************************************************************************)
LEMMA LockSizes ==
  ASSUME NEW lock \in Locks, NEW size, size = maximum_size(lock.root)
  PROVE  /\ \A p \in DOMAIN lock.root :
              size[p] = value_size(lock.root[p], Below(lock.root, p, size)) /\ size[p] \in Nat
         /\ size[<<>>] <= MaxUnsigned
         /\ \A p \in DOMAIN lock.root \ {<<>>} : Framed(size[p]) <= MaxUnsigned /\ size[p] <= MaxUnsigned
<1>1. Sizeable(lock.root)
  BY ExchangeAssumption, LockIsSizeable
<1>2. \A p \in DOMAIN lock.root :
        size[p] = value_size(lock.root[p], Below(lock.root, p, size)) /\ size[p] \in Nat
  BY <1>1, MaximumSizes
<1>3. size[<<>>] <= MaxUnsigned /\ \A p \in DOMAIN lock.root \ {<<>>} : Framed(size[p]) <= MaxUnsigned
  BY ExchangeAssumption DEF Measurable
<1>4. ASSUME NEW p \in DOMAIN lock.root \ {<<>>}
      PROVE  size[p] <= MaxUnsigned
  <2>1. size[p] \in Nat /\ Framed(size[p]) <= MaxUnsigned
    BY <1>2, <1>3
  <2>2. Framed(size[p]) \in Nat /\ Framed(size[p]) >= size[p]
    BY <2>1, FramedIsNat
  <2> QED
    BY <2>1, <2>2, Limits
<1> QED
  BY <1>2, <1>3, <1>4

(* A record's maximum is the sum of its fields' maxima.                    *)
LEMMA RecordSizes ==
  ASSUME NEW lock \in Locks, NEW size, size = maximum_size(lock.root),
         NEW p \in DOMAIN lock.root, lock.root[p].kind = "record",
         NEW most, most = Below(lock.root, p, size)
  PROVE  /\ DOMAIN most = lock.root[p].tags /\ DOMAIN most \subseteq Field_Tag
         /\ \A t \in DOMAIN most : most[t] = size[Append(p, t)] /\ most[t] \in Nat
         /\ size[p] = Summed([t \in DOMAIN most |-> Tagged_size(t, most[t])])
         /\ size[p] \in Nat /\ size[p] <= MaxUnsigned
<1>1. Children(lock.root[p]) = lock.root[p].tags
  BY DEF Children
<1>2. DOMAIN most = lock.root[p].tags /\ \A t \in DOMAIN most : most[t] = size[Append(p, t)]
  BY <1>1 DEF Below
<1>3. lock.root[p].tags \subseteq Field_Tag
  BY Places DEF Proper, Wire_Bounds
<1>4. \A t \in DOMAIN most : Append(p, t) \in DOMAIN lock.root
  BY <1>1, <1>2, Places
<1>5. size[p] = value_size(lock.root[p], most) /\ size[p] \in Nat /\ size[p] <= MaxUnsigned
  BY LockSizes
<1>6. \A t \in DOMAIN most : most[t] \in Nat
  BY <1>2, <1>4, LockSizes
<1>7. value_size(lock.root[p], most) = Summed([t \in lock.root[p].tags |-> Tagged_size(t, most[t])])
  BY DEF value_size
<1> QED
  BY <1>2, <1>3, <1>5, <1>6, <1>7

LEMMA PayloadWithin ==
  ASSUME NEW lock \in Locks, NEW t \in Fields(lock), Field(lock, t).kind = "variant",
         NEW content \in Seq(Int), Len(content) = 1 + Cardinality(Members(lock, t)),
         NEW a \in Field(lock, t).tags, a = content[1]
  PROVE  Within(Measure_Payload(lock, t, content), maximum_size(lock.root)[<<t, a>>])
<1> DEFINE size == maximum_size(lock.root)
           most == Below(lock.root, <<t, a>>, size)
           sizes == Member_Sizes(lock, t, content)
<1>1. <<t>> \in DOMAIN lock.root /\ a \in Children(lock.root[<<t>>])
  BY FieldIsProper DEF Children, Field
<1>2. Append(<<t>>, a) = <<t, a>>
  BY AppendToOne
<1>3. <<t, a>> \in DOMAIN lock.root
  BY <1>1, <1>2, Places, Zenon
<1>4. lock.root[<<t, a>>].kind = "record"
  BY <1>1, <1>2, Places, ZenonT(60) DEF Placed, Field
<1>5. /\ DOMAIN most = Payload_Tags(lock, t, a) /\ DOMAIN most \subseteq Field_Tag
      /\ \A m \in DOMAIN most : most[m] = size[Append(<<t, a>>, m)] /\ most[m] \in Nat
      /\ size[<<t, a>>] = Summed([m \in DOMAIN most |-> Tagged_size(m, most[m])])
      /\ size[<<t, a>>] \in Nat /\ size[<<t, a>>] <= MaxUnsigned
  BY <1>3, <1>4, RecordSizes, Zenon DEF Payload_Tags
<1>6. CASE \E m \in Payload_Tags(lock, t, a) :
             scalar_invalid(Member(lock, t, a, m), content[Slot(lock, t, a, m)])
  BY <1>6 DEF Measure_Payload, Unmeasured, Within
<1>7. CASE \A m \in Payload_Tags(lock, t, a) :
             ~ scalar_invalid(Member(lock, t, a, m), content[Slot(lock, t, a, m)])
  <2>1. Measure_Payload(lock, t, content) = Measure_Fields(sizes)
    BY <1>7 DEF Measure_Payload, Member_Sizes
  <2>2. ASSUME NEW m \in Payload_Tags(lock, t, a)
        PROVE  Within(sizes[m], most[m])
    <3> PICK number : number = content[Slot(lock, t, a, m)]
      OBVIOUS
    <3>1. number \in Int
      <4>1. Slot(lock, t, a, m) \in 1 .. Len(content)
        BY SlotIsAnIndex
      <4> QED
        BY <4>1
    <3>2. /\ Proper(Member(lock, t, a, m)) /\ Member(lock, t, a, m).kind \in Scalars
          /\ Member(lock, t, a, m).kind \in Simple
      BY MemberIsProper DEF Simple
    <3>3. Number(Member(lock, t, a, m), number)
      BY <1>7, <3>1, <3>2, NumberIsValid
    <3>4. m \in Children(lock.root[<<t, a>>]) /\ Append(<<t, a>>, m) = <<t, a, m>>
      BY <1>4, AppendToTwo DEF Children, Payload_Tags
    <3>5. <<t, a, m>> \in DOMAIN lock.root
      BY <1>3, <3>4, Places, Zenon
    <3>6. size[<<t, a, m>>] = value_size(Member(lock, t, a, m), Below(lock.root, <<t, a, m>>, size))
      BY <3>5, LockSizes DEF Member
    <3>7. /\ scalar_size(Member(lock, t, a, m), number) \in Nat
          /\ scalar_size(Member(lock, t, a, m), number) <= size[<<t, a, m>>]
      BY <3>2, <3>3, <3>6, NumberWithin
    <3>8. sizes[m] = Sized(scalar_size(Member(lock, t, a, m), number))
      BY DEF Member_Sizes
    <3>9. most[m] = size[<<t, a, m>>]
      BY <1>5, <3>4
    <3> HIDE DEF sizes, most, size
    <3> QED
      BY <3>7, <3>8, <3>9 DEF Within, Sized
  <2>3. DOMAIN sizes = Payload_Tags(lock, t, a)
    BY DEF Member_Sizes
  <2> HIDE DEF sizes, most, size
  <2>4. Within(Measure_Fields(sizes), size[<<t, a>>])
    BY <1>5, <2>2, <2>3, FieldsWithin
  <2> QED
    BY <2>1, <2>4 DEF size
<1> QED
  BY <1>6, <1>7

LEMMA VariantWithin ==
  ASSUME NEW lock \in Locks, NEW t \in Fields(lock), Field(lock, t).kind = "variant",
         NEW content \in Seq(Int), Len(content) = 1 + Cardinality(Members(lock, t)),
         NEW a \in Field(lock, t).tags, a = content[1]
  PROVE  Within(Measure_Variant(lock, t, content), maximum_size(lock.root)[<<t>>])
<1> DEFINE size == maximum_size(lock.root)
           payload == Measure_Payload(lock, t, content)
           below == Below(lock.root, <<t>>, size)
           tags == Field(lock, t).tags
           f == [b \in tags |-> Tagged_size(b, below[b])]
           S == {Tagged_size(b, below[b]) : b \in tags}
<1>1. <<t>> \in DOMAIN lock.root /\ tags \subseteq Field_Tag /\ Children(Field(lock, t)) = tags
  BY FieldIsProper DEF Children, Proper, Wire_Bounds
<1>2. ASSUME NEW b \in tags
      PROVE  below[b] = size[<<t, b>>] /\ size[<<t, b>>] \in Nat /\ b \in Nat
             /\ Framed(size[<<t, b>>]) <= MaxUnsigned
  <2>1. Append(<<t>>, b) = <<t, b>>
    BY AppendToOne
  <2>2. <<t, b>> \in DOMAIN lock.root
    BY <1>1, <2>1, Places, Zenon DEF Field
  <2>3. below[b] = size[Append(<<t>>, b)]
    BY <1>1 DEF Below, Field
  <2>4. <<t, b>> # <<>>
    OBVIOUS
  <2>5. size[<<t, b>>] \in Nat /\ Framed(size[<<t, b>>]) <= MaxUnsigned
    BY <2>2, <2>4, LockSizes
  <2>6. b \in Nat
    BY <1>1, Limits DEF Field_Tag
  <2> QED
    BY <2>1, <2>3, <2>5, <2>6
<1>3. size[<<t>>] = Max(S) /\ size[<<t>>] \in Nat /\ size[<<t>>] <= MaxUnsigned
  <2>1. size[<<t>>] = value_size(Field(lock, t), below) /\ size[<<t>>] \in Nat /\ size[<<t>>] <= MaxUnsigned
    <3>1. <<t>> # <<>>
      OBVIOUS
    <3> QED
      BY <1>1, <3>1, LockSizes DEF Field
  <2>2. value_size(Field(lock, t), below) = Max(S)
    BY DEF value_size
  <2> QED
    BY <2>1, <2>2
<1>4. Greatest(Max(S), S)
  <2>1. \A b \in tags : f[b] \in Nat
    <3> TAKE b \in tags
    <3>1. below[b] \in Nat /\ b \in Nat
      BY <1>2
    <3>2. Tagged_size(b, below[b]) \in Nat
      BY <3>1, FramedIsNat
    <3> QED
      BY <3>2
  <2>2. S = {f[b] : b \in tags} /\ tags # {}
    OBVIOUS
  <2> HIDE DEF f, S, tags
  <2> QED
    BY <1>1, <2>1, <2>2, GreatestOfTags, ZenonT(60)
<1>5. Within(payload, size[<<t, a>>])
  BY PayloadWithin
<1>6. Tagged_size(a, size[<<t, a>>]) \in S
  BY <1>2
<1>7. Measure_Variant(lock, t, content) = With_Payload(a, payload)
  BY DEF Measure_Variant
<1>8. below[a] = size[<<t, a>>] /\ size[<<t, a>>] \in Nat /\ a \in Nat /\ Framed(size[<<t, a>>]) <= MaxUnsigned
  BY <1>2
<1> HIDE DEF S, payload, below, tags, f
<1>9. CASE payload.status # "Measured"
  <2>1. With_Payload(a, payload) = payload
    BY <1>9 DEF With_Payload
  <2>2. Within(payload, size[<<t>>])
    BY <1>5, <1>9 DEF Within
  <2> QED
    BY <1>7, <2>1, <2>2
<1>10. CASE payload.status = "Measured"
  <2>1. payload.size \in Nat /\ payload.size <= size[<<t, a>>]
    BY <1>5, <1>10 DEF Within
  <2>2. /\ Measure_Length_Delimited(payload.size) = Computed(Length_And(payload.size))
        /\ Length_And(payload.size) \in Nat /\ Length_And(payload.size) <= Framed(size[<<t, a>>])
    BY <1>8, <2>1, DelimitedFits
  <2>3. With_Payload(a, payload) = Accumulated_Size(Sized(Unsigned_Size(a)), Computed(Length_And(payload.size)))
    BY <1>10, <2>2 DEF With_Payload
  <2>4. Unsigned_Size(a) <= varint_size(a) /\ Unsigned_Size(a) \in Nat /\ varint_size(a) \in Nat
    <3>1. a \in Nat /\ a <= a
      BY <1>8
    <3> QED
      BY <3>1, VarintCovers
  <2>5. Framed(size[<<t, a>>]) \in Nat
    BY <1>8, FramedIsNat
  <2>6. /\ varint_size(a) + Framed(size[<<t, a>>]) \in Nat
        /\ varint_size(a) + Framed(size[<<t, a>>]) <= size[<<t>>]
    BY <1>3, <1>4, <1>6, <2>4, <2>5 DEF Greatest, Tagged_size
  <2>7. /\ Unsigned_Size(a) + Length_And(payload.size) \in Nat
        /\ Unsigned_Size(a) + Length_And(payload.size) <= size[<<t>>]
        /\ Unsigned_Size(a) + Length_And(payload.size) <= MaxUnsigned
    <3>1. /\ Unsigned_Size(a) + Length_And(payload.size) \in Nat
          /\ Unsigned_Size(a) + Length_And(payload.size) <= varint_size(a) + Framed(size[<<t, a>>])
      BY <2>2, <2>4, <2>5
    <3> QED
      BY <1>3, <2>6, <3>1, Limits
  <2>8. Sized(Unsigned_Size(a)).size = Unsigned_Size(a)
    BY DEF Sized
  <2>9. With_Payload(a, payload) = Sized(Unsigned_Size(a) + Length_And(payload.size))
    BY <2>2, <2>3, <2>4, <2>7, <2>8, AmountFits
  <2>10. Within(Sized(Unsigned_Size(a) + Length_And(payload.size)), size[<<t>>])
    BY <2>7 DEF Within, Sized
  <2> QED
    BY <1>7, <2>9, <2>10
<1> QED
  BY <1>9, <1>10

LEMMA SequenceWithin ==
  ASSUME NEW lock \in Locks, NEW t \in Fields(lock), Field(lock, t).kind = "sequence",
         NEW content \in Seq(Int)
  PROVE  Within(Measure_Sequence(lock, t, content), maximum_size(lock.root)[<<t>>])
<1> DEFINE size == maximum_size(lock.root)
           below == Below(lock.root, <<t>>, size)
           Reckoned(rank, each, count, below_it) == rank * varint_size(each) + count * Framed(below_it)
<1> PICK field : field = Field(lock, t)
  OBVIOUS
<1>1. /\ <<t>> \in DOMAIN lock.root /\ Children(field) = {Inner} /\ field.rank = 1
      /\ field.minimum \in Int /\ field.maximum \in Nat
  <2>1. <<t>> \in DOMAIN lock.root /\ Proper(field)
    BY FieldIsProper
  <2>2. field.rank = 1
    BY ExchangeAssumption DEF validate_binding
  <2> QED
    BY <2>1, <2>2 DEF Children, Proper, Value, Bounded
<1>2. Append(<<t>>, Inner) = <<t, Inner>>
  BY AppendToOne
<1>3. <<t, Inner>> \in DOMAIN lock.root
  BY <1>1, <1>2, Places, Zenon DEF Field
<1>4. below[Inner] = size[<<t, Inner>>]
  BY <1>1, <1>2 DEF Below, Field
<1>5. size[<<t, Inner>>] \in Nat
  BY <1>3, LockSizes
<1>6. size[<<t, Inner>>] = value_size(Element(lock, t), Below(lock.root, <<t, Inner>>, size))
  BY <1>3, LockSizes DEF Element
<1>7. size[<<t>>] = value_size(field, below) /\ size[<<t>>] <= MaxUnsigned
  <2>1. <<t>> # <<>>
    OBVIOUS
  <2> QED
    BY <1>1, <2>1, LockSizes DEF Field
<1> HIDE DEF below
<1>8. value_size(field, below) = Reckoned(field.rank, field.maximum, Most_Elements(field), below[Inner])
  BY DEF value_size
<1> HIDE DEF Reckoned
<1>9. Most_Elements(field) = field.maximum
  BY <1>1, MostElements
<1> PICK most \in Nat : most = field.maximum
  BY <1>1
<1> PICK inner \in Nat : inner = size[<<t, Inner>>]
  BY <1>5
<1>10. size[<<t>>] = varint_size(most) + most * Framed(inner)
  <2>1. PICK r, m, c, b : r = field.rank /\ m = field.maximum /\ c = Most_Elements(field) /\ b = below[Inner]
    OBVIOUS
  <2>2. r = 1 /\ m = most /\ c = most /\ b = inner
    BY <1>1, <1>4, <1>9, <2>1
  <2>3. size[<<t>>] = Reckoned(r, m, c, b)
    BY <1>7, <1>8, <2>1
  <2>4. size[<<t>>] = Reckoned(r, most, most, inner)
    BY <2>2, <2>3, Zenon
  <2>5. size[<<t>>] = r * varint_size(most) + most * Framed(inner)
    BY <2>4 DEF Reckoned
  <2>6. r * varint_size(most) = varint_size(most)
    <3>1. PICK v \in Nat : v = varint_size(most)
      BY VarintIsSome
    <3>2. r * v = v
      BY <2>2
    <3> QED
      BY <3>1, <3>2
  <2> QED
    BY <2>5, <2>6, Zenon
<1>11. ASSUME NEW i \in 1 .. Len(content), ~ scalar_invalid(Element(lock, t), content[i])
       PROVE  scalar_size(Element(lock, t), content[i]) <= inner
  <2>1. /\ Proper(Element(lock, t)) /\ Element(lock, t).kind \in Scalars
        /\ Element(lock, t).kind \in Simple
    BY ElementIsProper, ExchangeAssumption DEF validate_binding
  <2>2. content[i] \in Int
    OBVIOUS
  <2>3. Number(Element(lock, t), content[i])
    BY <1>11, <2>1, <2>2, NumberIsValid
  <2> QED
    BY <1>6, <2>1, <2>3, NumberWithin
<1> HIDE DEF size
<1>12. varint_size(most) + most * Framed(inner) <= MaxUnsigned
  BY <1>7, <1>10, Zenon
<1>13. Within(Measure_Sequence(lock, t, content), varint_size(most) + most * Framed(inner))
  <2>1. most = Field(lock, t).maximum /\ Field(lock, t).minimum \in Int
    BY <1>1
  <2>2. \A i \in 1 .. Len(content) : ~ scalar_invalid(Element(lock, t), content[i]) =>
          scalar_size(Element(lock, t), content[i]) <= inner
    BY <1>11
  <2> QED
    BY <1>12, <2>1, <2>2, ElementsWithin
<1> QED
  BY <1>10, <1>13, Zenon DEF size

LEMMA ValueWithin ==
  ASSUME NEW lock \in Locks, NEW item, Item_Of(lock, item), NEW t \in Included(lock, item),
         ~ Invalid_Field(lock, item, t)
  PROVE  Within(Measure_Value(lock, t, item[t]), maximum_size(lock.root)[<<t>>])
<1> DEFINE size == maximum_size(lock.root)
           most == size[<<t>>]
<1> PICK field : field = Field(lock, t)
  OBVIOUS
<1> PICK content : content = item[t]
  OBVIOUS
<1>1. t \in Fields(lock)
  BY DEF Included
<1>2. Component(lock, t, content) /\ content \in Seq(Int) /\ Len(content) \in Nat
  BY <1>1 DEF Item_Of, Component
<1>3. <<t>> \in DOMAIN lock.root /\ Proper(field) /\ field.kind \in Simple \cup {"bytes", "sequence", "variant"}
  BY <1>1, FieldIsProper, Zenon
<1>4. most = value_size(field, Below(lock.root, <<t>>, size))
  BY <1>3, LockSizes DEF Field
<1> HIDE DEF most, size
<1>5. CASE field.kind = "bytes"
  <2>1. Len(content) \in field.minimum .. field.maximum
    <3>1. Invalid_Field(lock, item, t) <=> Len(item[t]) \notin field.minimum .. field.maximum
      BY <1>5 DEF Invalid_Field, Scalars
    <3> QED
      BY <3>1
  <2>2. field.minimum \in Int /\ field.maximum \in Int
    BY <1>3 DEF Proper, Value
  <2>3. Measure_Value(lock, t, content) = Sized(Len(content))
    BY <1>5 DEF Measure_Value
  <2>4. most = field.maximum
    BY <1>4, <1>5 DEF value_size
  <2>5. Within(Sized(Len(content)), most)
    BY <1>2, <2>1, <2>2, <2>4 DEF Within, Sized
  <2> QED
    BY <2>3, <2>5 DEF most, size
<1>6. CASE field.kind \in Simple
  <2>1. Len(content) = 1 /\ Number(field, content[1])
    BY <1>6, ValueIsNumber
  <2>2. scalar_size(field, content[1]) \in Nat /\ scalar_size(field, content[1]) <= most
    BY <1>3, <1>4, <1>6, <2>1, NumberWithin
  <2>3. Measure_Value(lock, t, content) = Sized(scalar_size(field, content[1]))
    BY <1>6 DEF Measure_Value, Simple, Scalars
  <2>4. Within(Sized(scalar_size(field, content[1])), most)
    BY <2>2 DEF Within, Sized
  <2> QED
    BY <2>3, <2>4 DEF most, size
<1>7. CASE field.kind = "sequence"
  <2>1. Measure_Value(lock, t, content) = Measure_Sequence(lock, t, content)
    BY <1>7 DEF Measure_Value
  <2> QED
    BY <1>1, <1>2, <1>7, <2>1, SequenceWithin
<1>8. CASE field.kind = "variant"
  <2>1. Measure_Value(lock, t, content) = Measure_Variant(lock, t, content)
    BY <1>8 DEF Measure_Value
  <2>2. content[1] \in Field(lock, t).tags
    BY <1>8, InvalidField
  <2>3. Len(content) = 1 + Cardinality(Members(lock, t))
    BY <1>2, <1>8 DEF Component
  <2> QED
    BY <1>1, <1>2, <1>8, <2>1, <2>2, <2>3, VariantWithin
<1> QED
  BY <1>3, <1>5, <1>6, <1>7, <1>8

LEMMA MeasureWithin ==
  ASSUME NEW lock \in Locks, NEW item, Item_Of(lock, item)
  PROVE  Within(Measure(lock, item), maximum_size(lock.root)[<<>>])
<1> DEFINE size == maximum_size(lock.root)
           most == Below(lock.root, <<>>, size)
           sizes == Field_Sizes(lock, item)
<1>1. /\ DOMAIN most = Fields(lock) /\ DOMAIN most \subseteq Field_Tag
      /\ \A t \in DOMAIN most : most[t] = size[Append(<<>>, t)] /\ most[t] \in Nat
      /\ size[<<>>] = Summed([t \in DOMAIN most |-> Tagged_size(t, most[t])])
      /\ size[<<>>] \in Nat /\ size[<<>>] <= MaxUnsigned
  BY Root, RecordSizes, Zenon DEF Fields
<1>2. CASE \E t \in Fields(lock) : Invalid_Field(lock, item, t)
  BY <1>2 DEF Measure, Unmeasured, Within
<1>3. CASE ~ \E t \in Fields(lock) : Invalid_Field(lock, item, t)
  <2>1. Measure(lock, item) = Measure_Fields(sizes)
    BY <1>3 DEF Measure, Field_Sizes
  <2>2. DOMAIN sizes = Included(lock, item) /\ Included(lock, item) \subseteq Fields(lock)
    BY DEF Field_Sizes, Included
  <2>3. ASSUME NEW t \in Included(lock, item)
        PROVE  Within(sizes[t], most[t])
    <3>1. t \in Fields(lock) /\ Append(<<>>, t) = <<t>>
      BY <2>2
    <3>2. most[t] = size[<<t>>]
      BY <1>1, <3>1
    <3>3. sizes[t] = Measure_Value(lock, t, item[t])
      BY DEF Field_Sizes
    <3>4. Within(Measure_Value(lock, t, item[t]), size[<<t>>])
      BY <1>3, <3>1, ValueWithin
    <3> HIDE DEF sizes, most, size
    <3> QED
      BY <3>2, <3>3, <3>4
  <2> HIDE DEF sizes, most, size
  <2>4. Within(Measure_Fields(sizes), size[<<>>])
    BY <1>1, <2>2, <2>3, FieldsWithin
  <2> QED
    BY <2>1, <2>4 DEF size
<1> QED
  BY <1>2, <1>3

(***************************************************************************)
(* An Encode that failed did so before its first field, as Measure and the *)
(* room had it.                                                            *)
(***************************************************************************)
Refused(call) ==
  call # Idle /\ call.status \in Encode_Failures =>
    call.status = Fitting(Measure(call.lock, call.item), Len(call.output))

LEMMA RefusalSteps == IInv /\ Refused(encoding) /\ [Next]_vars => Refused(encoding')
<1> SUFFICES ASSUME IInv, Refused(encoding), [Next]_vars
             PROVE  Refused(encoding')
  OBVIOUS
<1>0. Right(encoding)
  BY DEF IInv
<1>1. ASSUME encoding.status = "Encoding"
      PROVE  Shaped_Call(encoding)
  BY <1>0, <1>1 DEF Right, Idle
<1>2. ASSUME encoding'.status \in {"Encoding", "Encoded"}
      PROVE  Refused(encoding')
  BY <1>2 DEF Refused, Encode_Failures
<1>3. CASE Begin_Encode
  <2>1. PICK lock \in Locks : \E item \in Items[lock], room \in Rooms : \E writer :
          encoding' = Encode_Call(Fitting(Measure(lock, item), room), lock, item, Blank(room), writer, No_Tag, 0)
    BY <1>3, Zenon DEF Begin_Encode
  <2>2. PICK item \in Items[lock], room \in Rooms : \E writer :
          encoding' = Encode_Call(Fitting(Measure(lock, item), room), lock, item, Blank(room), writer, No_Tag, 0)
    BY <2>1, Zenon
  <2>3. /\ encoding'.status = Fitting(Measure(lock, item), room) /\ encoding'.lock = lock
        /\ encoding'.item = item /\ encoding'.output = Blank(room)
    BY <2>2 DEF Encode_Call
  <2>4. Len(Blank(room)) = room
    BY BlankArray, ExchangeAssumption
  <2> QED
    BY <2>3, <2>4 DEF Refused
<1>4. CASE Encode_Field
  <2>1. encoding.status = "Encoding" /\ Unwritten # {}
    BY <1>4, Zenon DEF Encode_Field
  <2>2. PICK wrote : /\ wrote = Write_Field(encoding.lock, encoding.item, Min(Unwritten),
                                           encoding.output, encoding.writer, encoding.previous)
                     /\ encoding' = [encoding EXCEPT !.status = IF wrote.status = "Wrote" THEN "Encoding" ELSE wrote.status,
                                    !.output = wrote.output, !.writer = wrote.cursor,
                                    !.previous = wrote.previous]
    BY <1>4, Zenon DEF Encode_Field
  <2>3. wrote.status = "Wrote"
    BY <1>0, <2>1, <2>2, CallGoesOn, Zenon DEF Unwritten
  <2>4. encoding' = Encode_Call("Encoding", encoding.lock, encoding.item, wrote.output, wrote.cursor,
                               wrote.previous, encoding.written)
    BY <1>1, <2>1, <2>2, <2>3, Zenon DEF Shaped_Call, Encode_Call
  <2>5. encoding'.status = "Encoding"
    BY <2>4 DEF Encode_Call
  <2> QED
    BY <1>2, <2>5
<1>5. CASE End_Encode
  <2>1. encoding.status = "Encoding" /\ Unwritten = {}
    BY <1>5 DEF End_Encode
  <2>2. At_End(encoding.writer)
    BY <1>0, <2>1, CallEnds DEF Unwritten
  <2>3. encoding' = [encoding EXCEPT !.status = "Encoded", !.written = Consumed(encoding.writer)]
    BY <1>5, <2>2 DEF End_Encode
  <2>4. encoding' = Encode_Call("Encoded", encoding.lock, encoding.item, encoding.output, encoding.writer,
                               encoding.previous, Consumed(encoding.writer))
    BY <1>1, <2>1, <2>3, Zenon DEF Shaped_Call, Encode_Call
  <2>5. encoding'.status = "Encoded"
    BY <2>4 DEF Encode_Call
  <2> QED
    BY <1>2, <2>5
<1>6. CASE UNCHANGED encoding \/ encoding' = Idle
  BY <1>6 DEF Refused
<1> QED
  BY <1>3, <1>4, <1>5, <1>6
     DEF Next, Receive_Encoded, Receive_Foreign, Begin_Decode, Decode_Field, End_Decode, Forget, vars

(* MaximumIsEnough for every family of schemas, item and room: an array of *)
(* the size generate_ada.py states in a descriptor, from maximum_size of   *)
(* schema_lock.py, has room for every valid item, and Measure never        *)
(* overflows for a lock whose maximum the tools could compute.             *)
THEOREM MaximumSuffices == Spec => []MaximumIsEnough
<1>1. Init => Refused(encoding)
  BY DEF Init, Refused
<1>2. IInv /\ Refused(encoding) => MaximumIsEnough
  <2> SUFFICES ASSUME IInv, Refused(encoding), encoding # Idle
               PROVE  /\ encoding.status # "Size_Overflow"
                      /\ encoding.status = "Destination_Too_Small" =>
                           Len(encoding.output) < maximum_size(encoding.lock.root)[<<>>]
                      /\ encoding.status = "Encoded" => encoding.written <= maximum_size(encoding.lock.root)[<<>>]
    BY DEF MaximumIsEnough
  <2>1. PICK most : most = maximum_size(encoding.lock.root)[<<>>]
    OBVIOUS
  <2>2. PICK measured : measured = Measure(encoding.lock, encoding.item)
    OBVIOUS
  <2>3. encoding.lock \in Locks /\ Item_Of(encoding.lock, encoding.item) /\ encoding.output \in Seq(Octet)
    BY DEF IInv, Right
  <2>4. Within(measured, most) /\ most \in Nat
    <3>1. <<>> \in DOMAIN encoding.lock.root
      BY <2>3, Root
    <3> QED
      BY <2>1, <2>2, <2>3, <3>1, MeasureWithin, LockSizes, SMTT(60)
  <2>5. encoding.status \in Encode_Failures => encoding.status = Fitting(measured, Len(encoding.output))
    BY <2>2 DEF Refused
  <2>6. encoding.status # "Size_Overflow"
    BY <2>4, <2>5 DEF Fitting, Within, Encode_Failures
  <2>7. ASSUME encoding.status = "Destination_Too_Small"
        PROVE  Len(encoding.output) < most
    <3>1. PICK room \in Nat : room = Len(encoding.output)
      BY <2>3
    <3>2. measured.status = "Measured" /\ room < measured.size
      BY <2>4, <2>5, <2>7, <3>1 DEF Fitting, Within, Encode_Failures
    <3>3. measured.size \in Nat /\ measured.size <= most
      BY <2>4, <3>2 DEF Within
    <3> QED
      BY <2>4, <3>1, <3>2, <3>3
  <2>8. ASSUME encoding.status = "Encoded"
        PROVE  encoding.written <= most
    <3>1. measured.status = "Measured" /\ encoding.written = measured.size
      BY <2>2, <2>8 DEF IInv, Right
    <3> QED
      BY <2>4, <3>1 DEF Within
  <2> QED
    BY <2>1, <2>6, <2>7, <2>8
<1>3. IInv /\ Refused(encoding) /\ [Next]_vars => Refused(encoding)'
  BY RefusalSteps DEF Refused
<1> QED
  BY <1>1, <1>2, <1>3, Invariance, PTL DEF Spec

=============================================================================
