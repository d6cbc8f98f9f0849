------------------------------- MODULE LockWire -------------------------------
(***************************************************************************)
(* What the Python tools know of the octets of a lock's values: how many   *)
(* they are at most, and whether given octets are one.  They decode for    *)
(* themselves what the generated Ada decodes: the defaults in a lock and   *)
(* the constructions of an approval are stored as octets.                  *)
(***************************************************************************)
EXTENDS TaggedProfile, SchemaLocks, FiniteSetsExt

varint_size(value) ==
  LET Size[v \in Nat] == IF v < Radix THEN 1 ELSE 1 + Size[v \div Radix]
  IN  Size[value]

(* A size behind its own length. *)
Framed(size) == varint_size(size) + size

(* Mutant: the tag of a field or an alternative is not counted. *)
Untagged_size(tag, size) == Framed(size)

Tagged_size(tag, size) == varint_size(tag) + Framed(size)

(* Sizes of fields, in the order of their tags. *)
Summed(sizes) ==
  LET Sum[t \in Tag_Number] ==
        IF t = 0 THEN 0
        ELSE IF t \in DOMAIN sizes THEN Sum[t - 1] + sizes[t] ELSE Sum[t - 1]
  IN  Sum[MaxFieldTag]

(* How many elements a sequence holds, all its dimensions together. *)
Most_Elements(value) ==
  LET Count[d \in 0 .. value.rank] == IF d = 0 THEN 1 ELSE Count[d - 1] * value.maximum
  IN  Count[value.rank]

(* The most octets of a value, given those of the values below it. *)
value_size(value, below) ==
  CASE value.kind = "boolean"     -> 1
    [] value.kind = "unsigned"    -> varint_size(value.maximum)
    [] value.kind = "signed"      -> Max({varint_size(ZigZag_Encode(value.minimum)),
                                          varint_size(ZigZag_Encode(value.maximum))})
    [] value.kind = "enumeration" -> Max({varint_size(t) : t \in value.tags})
    [] value.kind = "record"      -> Summed([t \in value.tags |-> Tagged_size(t, below[t])])
    [] value.kind = "sequence"    -> value.rank * varint_size(value.maximum)
                                       + Most_Elements(value) * Framed(below[Inner])
    [] value.kind = "optional"    -> 1 + Framed(below[Inner])
    [] value.kind = "variant"     -> Max({Tagged_size(t, below[t]) : t \in value.tags})
    [] OTHER                      -> value.maximum

(* The most octets of the value at each place, were Byte_Count unbounded.  *)
maximum_size(root) ==
  LET Size[p \in DOMAIN root] == value_size(root[p], [t \in Children(root[p]) |-> Size[Append(p, t)]])
  IN  Size

(* Nothing checked_add or checked_multiply refuses: every sum is part of a *)
(* framed value's or of the root's.                                        *)
Measurable(root) ==
  \A size \in {maximum_size(root)} :
    size[<<>>] <= MaxUnsigned /\ \A p \in DOMAIN root \ {<<>>} : Framed(size[p]) <= MaxUnsigned

(* The bounds and the tags validate_value lets a value have. *)
Wire_Bounds(value) ==
  /\ value.tags \subseteq Field_Tag
  /\ value.kind = "unsigned" => value.maximum \in Unsigned
  /\ value.kind = "signed" => value.minimum \in Integer_64 /\ value.maximum \in Integer_64

-----------------------------------------------------------------------------

(* What is read in data between two positions, and where it ends.          *)
Found(value, next) == [ok |-> TRUE, value |-> value, next |-> next]
Bad == [ok |-> FALSE, value |-> 0, next |-> 0]

(* Mutant: a last group of zero is taken. *)
Overlong_read_varint(data, position, limit) ==
  LET ends == {e \in position + 1 .. limit : ~ Continues(data[e])}
      last == Min(ends)
  IN  IF ends = {} \/ last - position > LastGroup + 1 THEN Bad
      ELSE Found(MapThenSumSet(LAMBDA i : Payload(data[i]) * Radix ^ (i - position - 1), position + 1 .. last),
                 last)

Varint_Found(data, position, last) ==
  IF \/ last - position > LastGroup + 1
     \/ last - position = LastGroup + 1 /\ data[last] > 1
     \/ last - position > 1 /\ data[last] = 0
    THEN Bad
    ELSE Found(MapThenSumSet(LAMBDA i : Payload(data[i]) * Radix ^ (i - position - 1), position + 1 .. last),
               last)

read_varint(data, position, limit) ==
  LET ends == {e \in position + 1 .. limit : ~ Continues(data[e])}
  IN  IF ends = {} THEN Bad ELSE Varint_Found(data, position, Min(ends))

(* An extent starts behind its length; next is its end. *)
Extent_Found(length, limit) ==
  IF ~ length.ok \/ length.next + length.value > limit
    THEN Bad
    ELSE Found(length.next, length.next + length.value)

read_extent(data, position, limit) == Extent_Found(read_varint(data, position, limit), limit)

(* The octets of a scalar's default as a lock stores them. *)
default_wire(value) ==
  IF value.kind = "boolean" THEN <<value.default>>
  ELSE LET n == IF value.kind = "signed" THEN ZigZag_Encode(value.default) ELSE value.default
       IN  [i \in 1 .. varint_size(n) |-> Group(n, i - 1)]

(* The fields of a record up to its limit: their tags and extents. *)
record_fields(data, start, limit) ==
  LET Rest[position \in start .. limit, previous \in Tag_Number] ==
        LET tag    == read_varint(data, position, limit)
            extent == read_extent(data, tag.next, limit)
        IN  IF position = limit THEN {}
            ELSE IF ~ tag.ok \/ tag.value \notin previous + 1 .. MaxFieldTag \/ ~ extent.ok THEN {Bad}
            ELSE {[ok |-> TRUE, tag |-> tag.value, first |-> extent.value, next |-> extent.next]}
                   \cup Rest[extent.next, tag.value]
  IN  Rest[start, No_Tag]

(* As many extents as counted, in what is left. *)
elements(data, start, limit, count) ==
  LET Rest[n \in 0 .. count, position \in start .. limit] ==
        LET extent == read_extent(data, position, limit)
        IN  IF n = 0 THEN (IF position = limit THEN {} ELSE {Bad})
            ELSE IF ~ extent.ok THEN {Bad}
            ELSE {[ok |-> TRUE, first |-> extent.value, next |-> extent.next]} \cup Rest[n - 1, extent.next]
  IN  IF count > limit - start THEN {Bad} ELSE Rest[count, start]

(* The product of a sequence's counts, and where its elements start. *)
dimensions(value, data, start, limit) ==
  LET Read[n \in 0 .. value.rank] ==
        LET before == Read[n - 1]
            count  == read_varint(data, before.next, limit)
        IN  IF n = 0 THEN Found(1, start)
            ELSE IF ~ before.ok \/ ~ count.ok \/ count.value \notin value.minimum .. value.maximum THEN Bad
            ELSE IF before.value * count.value > MaxUnsigned THEN Bad
            ELSE Found(before.value * count.value, count.next)
  IN  Read[value.rank]

(* Whether data is one value of the root; the octets of texts apart. *)
validate_encoded_value(root, data) ==
  LET Valid[p \in DOMAIN root, start \in 0 .. Len(data), limit \in 0 .. Len(data)] ==
        LET value  == root[p]
            number == read_varint(data, start, limit)
            framed == read_extent(data, IF value.kind = "optional" THEN start + 1 ELSE number.next, limit)
            counts == dimensions(value, data, start, limit)
            Payload_Valid(t) == framed.ok /\ framed.next = limit /\ Valid[Append(p, t), framed.value, limit]
            Field_Valid(f) ==
              /\ f.ok /\ f.tag \in value.tags
              /\ Valid[Append(p, f.tag), f.first, f.next]
              /\ LET field == root[Append(p, f.tag)]
                 IN  field.presence = "defaulted" => SubSeq(data, f.first + 1, f.next) # default_wire(field)
        IN CASE value.kind = "boolean"     -> limit - start = 1 /\ data[limit] \in {0, 1}
             [] value.kind = "unsigned"    -> /\ number.ok /\ number.next = limit
                                              /\ number.value \in value.minimum .. value.maximum
             [] value.kind = "signed"      -> /\ number.ok /\ number.next = limit
                                              /\ ZigZag_Decode(number.value) \in value.minimum .. value.maximum
             [] value.kind = "enumeration" -> number.ok /\ number.next = limit /\ number.value \in value.tags
             [] value.kind = "record"      ->
                  LET fields == record_fields(data, start, limit)
                  IN  /\ \A f \in fields : Field_Valid(f)
                      /\ \A t \in value.tags : root[Append(p, t)].presence = "required" =>
                           \E f \in fields : f.tag = t
             [] value.kind = "sequence"    ->
                  /\ counts.ok
                  /\ \A e \in elements(data, counts.next, limit, counts.value) :
                       e.ok /\ Valid[Append(p, Inner), e.first, e.next]
             [] value.kind = "optional"    ->
                  /\ start # limit
                  /\ \/ data[start + 1] = 0 /\ start + 1 = limit
                     \/ data[start + 1] = 1 /\ Payload_Valid(Inner)
             [] value.kind = "variant"     -> number.ok /\ number.value \in value.tags /\ Payload_Valid(number.value)
             [] OTHER                      -> limit - start \in value.minimum .. value.maximum
  IN  Valid[<<>>, 0, Len(data)]

=============================================================================
