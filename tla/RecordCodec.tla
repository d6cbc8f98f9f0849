------------------------------ MODULE RecordCodec ------------------------------
(***************************************************************************)
(* What generate_ada.py puts into the codec of a record: how a field is    *)
(* measured, written and read, and which writers a codec may be generated  *)
(* to accept.  The operators follow the generated Ada, for the fields the  *)
(* generator supports but text.                                            *)
(*                                                                         *)
(* An item, the application's record, maps each tag to a sequence: <<n>>   *)
(* is a scalar or the tag of an enumeration literal, <<>> an optional      *)
(* scalar that is not present; bytes and sequences are their elements, and *)
(* one that is too long is a length component nobody kept in range.  A     *)
(* variant is the tag of its alternative and then the members of every     *)
(* alternative: the record has a component for each.                       *)
(***************************************************************************)
EXTENDS LockWire

Scalars == {"boolean", "unsigned", "signed"}

Fields(lock) == lock.root[<<>>].tags
Field(lock, t) == lock.root[<<t>>]
Element(lock, t) == lock.root[<<t, Inner>>]
Fields_With(lock, presence) == {t \in Fields(lock) : Field(lock, t).presence = presence}

(* The members of a variant's alternatives, as pairs of tags.              *)
Payload_Tags(lock, t, a) == lock.root[<<t, a>>].tags
Member(lock, t, a, m) == lock.root[<<t, a, m>>]
Members(lock, t) == UNION {{<<a, m>> : m \in Payload_Tags(lock, t, a)} : a \in Field(lock, t).tags}

(* Where a member is among the components of its variant. *)
Slot(lock, t, a, m) ==
  2 + Cardinality({o \in Members(lock, t) : o[1] < a \/ (o[1] = a /\ o[2] < m)})

(* The locks validate_binding has an Ada binding for. *)
validate_binding(lock) ==
  /\ lock.root[<<>>].kind = "record" /\ Fields(lock) # {}
  /\ \A t \in Fields(lock) :
       /\ Field(lock, t).kind \in Scalars \cup {"enumeration", "bytes", "sequence", "variant"}
       /\ Field(lock, t).kind \notin Scalars => Field(lock, t).presence = "required"
       /\ Field(lock, t).kind = "sequence" => Field(lock, t).rank = 1 /\ Element(lock, t).kind \in Scalars
       /\ Field(lock, t).kind = "variant" =>
            /\ Fields(lock) = {t}
            /\ \A o \in Members(lock, t) :
                 Member(lock, t, o[1], o[2]).kind \in Scalars /\ Member(lock, t, o[1], o[2]).presence = "required"

scalar_initial_value(value) == IF value.kind = "boolean" THEN 0 ELSE value.minimum

(* The first alternative, and every member as it starts. *)
initial_variant(lock, t) ==
  LET At(i) == CHOOSE o \in Members(lock, t) : Slot(lock, t, o[1], o[2]) = i
  IN  [i \in 1 .. 1 + Cardinality(Members(lock, t)) |->
         IF i = 1 THEN Min(Field(lock, t).tags)
                  ELSE scalar_initial_value(Member(lock, t, At(i)[1], At(i)[2]))]

(* Item on every failure: a value of the type that means nothing. *)
failure_value(lock) ==
  [t \in Fields(lock) |->
     LET field == Field(lock, t)
     IN  CASE field.presence = "optional" -> <<>>
           [] field.kind = "enumeration"  -> <<Min(field.tags)>>
           [] field.kind = "bytes"        -> [i \in 1 .. field.minimum |-> 0]
           [] field.kind = "sequence"     -> [i \in 1 .. field.minimum |->
                                                scalar_initial_value(Element(lock, t))]
           [] field.kind = "variant"      -> initial_variant(lock, t)
           [] OTHER                       -> <<scalar_initial_value(field)>>]

(***************************************************************************)
(* Measuring                                                               *)
(***************************************************************************)

scalar_invalid(value, n) == value.kind # "boolean" /\ n \notin value.minimum .. value.maximum

Wire(value, n) == IF value.kind = "signed" THEN ZigZag_Encode(n) ELSE n

(* Mutant: the size of a signed value is that of its magnitude. *)
Magnitude_scalar_size(value, n) ==
  IF value.kind = "boolean" THEN 1 ELSE Unsigned_Size(IF n < 0 THEN -n ELSE n)

scalar_size(value, n) == IF value.kind = "boolean" THEN 1 ELSE Unsigned_Size(Wire(value, n))

(* The condition under which a field is measured and written. *)
include(lock, item, t) ==
  CASE Field(lock, t).presence = "optional"  -> item[t] # <<>>
    [] Field(lock, t).presence = "defaulted" -> item[t] # <<Field(lock, t).default>>
    [] OTHER -> TRUE

Included(lock, item) == {t \in Fields(lock) : include(lock, item, t)}

Sized(size) == [status |-> "Measured", size |-> size]
Unmeasured(status) == [status |-> status, size |-> 0]

(* A size and an amount that was itself computed. *)
Accumulated_Size(sum, amount) ==
  IF amount.status = "Overflow" \/ Sizes_Accumulate(sum.size, amount.result).status = "Overflow"
    THEN Unmeasured("Size_Overflow")
    ELSE Sized(Sizes_Accumulate(sum.size, amount.result).result)

(* Measure_X_Value: the count, then one element after another until one    *)
(* has no size.                                                            *)
Measure_Sequence(lock, t, content) ==
  LET Sum[n \in 0 .. Len(content)] ==
        IF n = 0 THEN Sized(Unsigned_Size(Len(content)))
        ELSE IF Sum[n - 1].status # "Measured" THEN Sum[n - 1]
        ELSE IF scalar_invalid(Element(lock, t), content[n]) THEN Unmeasured("Invalid_Value")
        ELSE Accumulated_Size(Sum[n - 1],
                              Measure_Length_Delimited(scalar_size(Element(lock, t), content[n])))
  IN  IF Len(content) \notin Field(lock, t).minimum .. Field(lock, t).maximum
        THEN Unmeasured("Invalid_Value")
        ELSE Sum[Len(content)]

With_Field(sum, t, value) ==
  IF value.status # "Measured" THEN value ELSE Accumulated_Size(sum, Measure_Field(t, value.size))

(* Fields, of these sizes, in the order of their tags, until one has none. *)
Measure_Fields(sizes) ==
  LET Sum[t \in 0 .. MaxFieldTag] ==
        IF t = 0 THEN Sized(0)
        ELSE IF t \notin DOMAIN sizes \/ Sum[t - 1].status # "Measured" THEN Sum[t - 1]
        ELSE With_Field(Sum[t - 1], t, sizes[t])
  IN  Sum[MaxFieldTag]

(* Measure_X_Payload: only the members of the alternative count. *)
Measure_Payload(lock, t, content) ==
  LET a == content[1]
      n(m) == content[Slot(lock, t, a, m)]
  IN  IF \E m \in Payload_Tags(lock, t, a) : scalar_invalid(Member(lock, t, a, m), n(m))
        THEN Unmeasured("Invalid_Value")
        ELSE Measure_Fields([m \in Payload_Tags(lock, t, a) |->
                               Sized(scalar_size(Member(lock, t, a, m), n(m)))])

With_Payload(a, payload) ==
  IF payload.status # "Measured" THEN payload
  ELSE Accumulated_Size(Sized(Unsigned_Size(a)), Measure_Length_Delimited(payload.size))

Measure_Variant(lock, t, content) ==
  With_Payload(content[1], Measure_Payload(lock, t, content))

Measure_Value(lock, t, content) ==
  CASE Field(lock, t).kind = "sequence" -> Measure_Sequence(lock, t, content)
    [] Field(lock, t).kind = "variant"  -> Measure_Variant(lock, t, content)
    [] Field(lock, t).kind = "bytes"    -> Sized(Len(content))
    [] OTHER                            -> Sized(scalar_size(Field(lock, t), content[1]))

(* What Measure refuses before it adds anything up. *)
Invalid_Field(lock, item, t) ==
  CASE Field(lock, t).kind \in {"enumeration", "variant"} -> item[t][1] \notin Field(lock, t).tags
    [] Field(lock, t).kind = "bytes" -> Len(item[t]) \notin Field(lock, t).minimum .. Field(lock, t).maximum
    [] Field(lock, t).kind \in Scalars -> item[t] # <<>> /\ scalar_invalid(Field(lock, t), item[t][1])
    [] OTHER -> FALSE

Measure(lock, item) ==
  IF \E t \in Fields(lock) : Invalid_Field(lock, item, t)
    THEN Unmeasured("Invalid_Value")
    ELSE Measure_Fields([t \in Included(lock, item) |-> Measure_Value(lock, t, item[t])])

(***************************************************************************)
(* Writing                                                                 *)
(***************************************************************************)

scalar_write(value, output, c, n) ==
  CASE value.kind = "boolean" -> Write_Boolean(output, c, n = 1)
    [] value.kind = "signed"  -> Write_Signed(output, c, n)
    [] OTHER                  -> Write_Unsigned(output, c, n)

(* A write that ends where its cursor does. *)
Filled(result) == result.status = "Wrote" /\ At_End(result.cursor)

Behind(header, value) ==
  [header EXCEPT !.status = IF Filled(value) THEN "Wrote" ELSE "Size_Overflow",
                 !.output = value.output]

(* A value behind its header, through a cursor of its own. *)
In_Extent(header, Write(_, _)) ==
  IF header.status = "Wrote" /\ Inside(header.value, header.output)
    THEN Behind(header, Write(header.output, Initialize(header.output, header.value).cursor))
    ELSE [header EXCEPT !.status = "Size_Overflow"]

(* The elements of a sequence, each in an extent of its own. *)
Write_Elements(element, output, c, content) ==
  LET Wrote[n \in 0 .. Len(content)] ==
        IF n = 0 THEN Write_Unsigned(output, c, Len(content))
        ELSE IF Wrote[n - 1].status # "Wrote" THEN Wrote[n - 1]
        ELSE In_Extent(Write_Length_Delimited(Wrote[n - 1].output, Wrote[n - 1].cursor,
                                              scalar_size(element, content[n])),
                       LAMBDA o, k : scalar_write(element, o, k, content[n]))
  IN  Wrote[Len(content)]

(* The members of an alternative, fields of its payload. *)
Write_Members(lock, t, output, c, content) ==
  LET a == content[1]
      n(m) == content[Slot(lock, t, a, m)]
      Wrote[m \in 0 .. MaxFieldTag] ==
        IF m = 0 THEN [status |-> "Wrote", output |-> output, cursor |-> c, previous |-> No_Tag]
        ELSE IF m \notin Payload_Tags(lock, t, a) \/ Wrote[m - 1].status # "Wrote" THEN Wrote[m - 1]
        ELSE In_Extent(Write_Field_Header(Wrote[m - 1].output, Wrote[m - 1].cursor, Wrote[m - 1].previous,
                                          m, scalar_size(Member(lock, t, a, m), n(m))),
                       LAMBDA o, k : scalar_write(Member(lock, t, a, m), o, k, n(m)))
  IN  Wrote[MaxFieldTag]

Write_Alternative(lock, t, content, tag, header) ==
  IF tag.status # "Wrote" \/ header.status # "Wrote" \/ ~ At_End(header.cursor)
    THEN Write_Refused("Size_Overflow", header.output, header.cursor)
    ELSE In_Extent(header, LAMBDA o, k : Write_Members(lock, t, o, k, content))

(* The tag of the alternative and its payload. *)
Write_Variant(lock, t, output, c, content) ==
  LET tag == Write_Unsigned(output, c, content[1])
  IN  Write_Alternative(lock, t, content, tag,
        Write_Length_Delimited(tag.output, tag.cursor, Measure_Payload(lock, t, content).size))

Write_Value(lock, t, output, c, content) ==
  CASE Field(lock, t).kind = "bytes"    -> Write_Octets(output, c, content, Len(content))
    [] Field(lock, t).kind = "sequence" -> Write_Elements(Element(lock, t), output, c, content)
    [] Field(lock, t).kind = "variant"  -> Write_Variant(lock, t, output, c, content)
    [] OTHER                            -> scalar_write(Field(lock, t), output, c, content[1])

(* One field: its header, and its value. *)
Write_Field(lock, item, t, output, c, previous) ==
  In_Extent(Write_Field_Header(output, c, previous, t, Measure_Value(lock, t, item[t]).size),
            LAMBDA o, k : Write_Value(lock, t, o, k, item[t]))

(***************************************************************************)
(* Reading                                                                 *)
(***************************************************************************)

Map_Read_Error(status) ==
  IF status \in {"Truncated", "Extent_Outside_Container"} THEN "Malformed" ELSE "Noncanonical"

Taken(content) == [status |-> "Decoded", content |-> content]
Turned_Down(status) == [status |-> status, content |-> <<>>]

(* The value of read_call, Booleans as numbers. *)
scalar_read(value, input, c) ==
  CASE value.kind = "boolean" ->
         [Read_Boolean(input, c) EXCEPT !.value = IF @ THEN 1 ELSE 0]
    [] value.kind = "signed"  -> Read_Signed(input, c)
    [] OTHER                  -> Read_Unsigned(input, c)

(* The scalar that was read has to fill its extent. *)
Scalar_Taken(value, result) ==
  IF result.status # "Read" \/ ~ At_End(result.cursor)
    THEN Turned_Down(Map_Read_Error(result.status))
  ELSE IF value.kind \in Scalars /\ scalar_invalid(value, result.value)
    THEN Turned_Down("Invalid_Value")
  ELSE Taken(<<result.value>>)

Read_Scalar(value, input, region) ==
  IF Inside(region, input)
    THEN Scalar_Taken(value, scalar_read(value, input, Initialize(input, region).cursor))
    ELSE Turned_Down("Malformed")

(* Mutant: an explicit default is taken. *)
Explicit_Read_Scalar_Field(field, input, region) == Read_Scalar(field, input, region)

Read_Scalar_Field(field, input, region) ==
  LET result == Read_Scalar(field, input, region)
  IN  IF field.presence = "defaulted" /\ result = Taken(<<field.default>>)
        THEN Turned_Down("Noncanonical")
        ELSE result

Read_Enumeration(field, input, region) ==
  LET result == Read_Scalar(field, input, region)
  IN  IF result.status = "Decoded" /\ result.content[1] \notin field.tags
        THEN Turned_Down("Invalid_Value")
        ELSE result

Octets_Within(field, region) == region.length \in field.minimum .. field.maximum

Read_Bytes(field, input, region) ==
  LET nested == Initialize(input, region)
      result == Read_Octets(input, nested.cursor, [i \in 1 .. field.maximum |-> 0], region.length)
  IN  IF ~ Octets_Within(field, region) THEN Turned_Down("Invalid_Value")
      ELSE IF nested.status # "Cursor_Ready" THEN Turned_Down("Malformed")
      ELSE IF result.status # "Read" \/ ~ At_End(result.cursor)
        THEN Turned_Down(Map_Read_Error(result.status))
      ELSE Taken(SubSeq(result.value, 1, region.length))

(* One element more, its extent just read. *)
Element_Taken(before, extent, value) ==
  IF extent.status # "Read" THEN [before EXCEPT !.status = Map_Read_Error(extent.status)]
  ELSE [status |-> value.status, content |-> before.content \o value.content, cursor |-> extent.cursor]

Read_Element(element, input, before, extent) ==
  Element_Taken(before, extent, Read_Scalar(element, input, extent.value))

Elements_Taken(read) ==
  IF read.status # "Decoded" THEN Turned_Down(read.status)
  ELSE IF ~ At_End(read.cursor) THEN Turned_Down("Noncanonical")
  ELSE Taken(read.content)

(* That many elements, and nothing behind them. *)
Read_Elements(field, element, input, count) ==
  LET Read[n \in 0 .. field.maximum] ==
        IF n = 0 THEN [status |-> "Decoded", content |-> <<>>, cursor |-> count.cursor]
        ELSE IF Read[n - 1].status # "Decoded" THEN Read[n - 1]
        ELSE Read_Element(element, input, Read[n - 1],
                          Read_Length_Delimited(input, Read[n - 1].cursor))
  IN  IF count.status # "Read" THEN Turned_Down(Map_Read_Error(count.status))
      ELSE IF count.value \notin field.minimum .. field.maximum THEN Turned_Down("Invalid_Value")
      ELSE Elements_Taken(Read[count.value])

Read_Sequence(field, element, input, region) ==
  IF Inside(region, input)
    THEN Read_Elements(field, element, input,
                       Read_Unsigned(input, Initialize(input, region).cursor))
    ELSE Turned_Down("Malformed")

(* One member more of an alternative. *)
Member_Taken(lock, t, a, before, header, value) ==
  IF value.status # "Decoded" THEN [before EXCEPT !.status = value.status]
  ELSE [status |-> "Decoded", cursor |-> header.cursor, previous |-> header.previous,
        seen |-> before.seen \cup {header.tag},
        content |-> [before.content EXCEPT ![Slot(lock, t, a, header.tag)] = value.content[1]]]

Read_Member(lock, t, a, input, before, header) ==
  IF header.status # "Read" THEN [before EXCEPT !.status = Map_Read_Error(header.status)]
  ELSE IF header.tag \notin Payload_Tags(lock, t, a) THEN [before EXCEPT !.status = "Noncanonical"]
  ELSE Member_Taken(lock, t, a, before, header,
                    Read_Scalar(Member(lock, t, a, header.tag), input, header.value))

Members_Taken(tags, read) ==
  IF read.status # "Decoded" THEN Turned_Down(read.status)
  ELSE IF read.seen # tags THEN Turned_Down("Invalid_Value")
  ELSE Taken(read.content)

(* The payload of an alternative: its members alone, and all of them.  The *)
(* tags increase, so one turn more than members is never left over.        *)
Read_Payload(lock, t, a, input, region) ==
  LET tags == Payload_Tags(lock, t, a)
      Read[n \in 0 .. Cardinality(tags) + 1] ==
        IF n = 0
          THEN [status |-> "Decoded", cursor |-> Initialize(input, region).cursor, previous |-> No_Tag,
                seen |-> {}, content |-> [initial_variant(lock, t) EXCEPT ![1] = a]]
        ELSE IF Read[n - 1].status # "Decoded" \/ At_End(Read[n - 1].cursor) THEN Read[n - 1]
        ELSE Read_Member(lock, t, a, input, Read[n - 1],
                         Read_Field_Header(input, Read[n - 1].cursor, Read[n - 1].previous))
  IN  IF Inside(region, input) THEN Members_Taken(tags, Read[Cardinality(tags) + 1])
                               ELSE Turned_Down("Malformed")

(* What is behind the tag of an alternative: a payload that is the rest.   *)
Read_Alternative(lock, t, input, tag, extent) ==
  IF tag.status # "Read" THEN Turned_Down(Map_Read_Error(tag.status))
  ELSE IF extent.status # "Read" THEN Turned_Down(Map_Read_Error(extent.status))
  ELSE IF ~ At_End(extent.cursor) THEN Turned_Down("Noncanonical")
  ELSE IF tag.value \notin Field(lock, t).tags THEN Turned_Down("Invalid_Value")
  ELSE Read_Payload(lock, t, tag.value, input, extent.value)

Read_Variant(lock, t, input, region) ==
  LET tag == Read_Unsigned(input, Initialize(input, region).cursor)
  IN  IF Inside(region, input)
        THEN Read_Alternative(lock, t, input, tag, Read_Length_Delimited(input, tag.cursor))
        ELSE Turned_Down("Malformed")

Read_Value(lock, t, input, region) ==
  CASE Field(lock, t).kind = "enumeration" -> Read_Enumeration(Field(lock, t), input, region)
    [] Field(lock, t).kind = "bytes"    -> Read_Bytes(Field(lock, t), input, region)
    [] Field(lock, t).kind = "sequence" -> Read_Sequence(Field(lock, t), Element(lock, t), input, region)
    [] Field(lock, t).kind = "variant"  -> Read_Variant(lock, t, input, region)
    [] OTHER                            -> Read_Scalar_Field(Field(lock, t), input, region)

(***************************************************************************)
(* Accepted writers                                                        *)
(***************************************************************************)

(* An approved writer: the default_wire of every field to construct.       *)
Entry(schema, construct) == [schema |-> schema, construct |-> construct]

Constructed(writer, reader) == {t \in Fields(reader) : <<t>> \in construct_reader_field(writer.root, reader.root)}
Ignored(writer, reader) == {t \in Fields(writer) : <<t>> \in ignore_writer_field(writer.root, reader.root)}

(* Structurally clean, and every requirement one the generator resolves.   *)
Approvable(writer, reader) ==
  /\ incompatibilities(writer, reader) = {}
  /\ \A issue \in requirements(writer, reader) : Len(issue.path) = 1
  /\ \A t \in Constructed(writer, reader) : Field(reader, t).kind \in Scalars
  /\ \A t \in Ignored(writer, reader) :
       Field(writer, t).kind = "bytes" /\ Field(writer, t).presence # "defaulted"

(* validate_approval and validate_encoded_value for each resolution. *)
validate_approval(entry, reader) ==
  /\ DOMAIN entry.construct = Constructed(entry.schema, reader)
  /\ \A t \in DOMAIN entry.construct :
       entry.construct[t] \in Field(reader, t).minimum .. Field(reader, t).maximum

(* A codec with a variant accepts no other writer. *)
validate_compatible_writers(reader, entries) ==
  \A entry \in entries :
    /\ \A t \in Fields(reader) : Field(reader, t).kind # "variant"
    /\ validate_lock(entry.schema)
    /\ entry.schema # reader
    /\ \A other \in entries \ {entry} : other.schema # entry.schema
    /\ Approvable(entry.schema, reader)
    /\ validate_approval(entry, reader)

Schemas(entries) == {entry.schema : entry \in entries}

(* The identity of a lock stands for its fingerprint, family and revision; *)
(* one whose family or fingerprint is zero is nobody's.                    *)
Table_Is_Valid(local, writers, Nobody) ==
  local # Nobody /\ \A w \in writers : w # Nobody /\ w # local /\ w.family_id = local.family_id

Classify(local, writer, writers, Nobody) ==
  IF local = Nobody \/ writer = Nobody THEN "Invalid_Schema"
  ELSE IF ~ Table_Is_Valid(local, writers, Nobody) THEN "Invalid_Table"
  ELSE IF writer = local THEN "Exact"
  ELSE IF writer.family_id = local.family_id /\ writer \in writers THEN "Compatible"
  ELSE "Rejected"

(* The entry of an accepted writer. *)
Entry_Of(writer, entries) == CHOOSE entry \in entries : entry.schema = writer

=============================================================================
