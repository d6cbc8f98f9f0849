---------------------------- MODULE TaggedProfile ----------------------------
(***************************************************************************)
(* The primitives of canonical tagged Profile 1, one operator per          *)
(* subprogram of flyology_wire-profiles-tagged_profile.adb and             *)
(* flyology_wire-sizes.adb.  An operator takes the arguments of its        *)
(* subprogram and returns a record of the values its out and in out        *)
(* parameters hold afterwards.                                             *)
(*                                                                         *)
(* Octets are 0 .. 2*Radix-1: the low part is a group of a variable-length *)
(* integer, the top bit says that another group follows.  The code has     *)
(* Radix = 128 and LastGroup = 9, so that the widest integer is 2^64 - 1;  *)
(* the ratio between the two is kept for every value of the constants.     *)
(* A buffer is the sequence of its octets; the octet at offset k of an Ada *)
(* array, whatever its lower bound, is element k+1.                        *)
(*                                                                         *)
(* Ada's index check is part of the semantics: an access outside the array *)
(* ends the subprogram with "Constraint_Error".                            *)
(***************************************************************************)
EXTENDS Integers, Sequences, FiniteSets

CONSTANTS
  Radix,       (* values of one varint group: 128 *)
  LastGroup,   (* index of the last group a varint may have: 9 *)
  MaxFieldTag  (* Max_Field_Tag: 2^29 - 1 *)

ASSUME ProfileAssumption ==
  /\ Radix \in Nat /\ Radix >= 2
  /\ LastGroup \in Nat \ {0}
  /\ MaxFieldTag \in Nat \ {0}

(* A power of Radix counts the values of that many groups: what a proof    *)
(* has to know of exponentiation.                                          *)
ASSUME PowerAssumption ==
  /\ Radix ^ 0 = 1
  /\ \A g \in 0 .. LastGroup : Radix ^ g \in Nat \ {0} /\ Radix ^ (g + 1) = Radix * Radix ^ g

Octet == 0 .. 2 * Radix - 1

(* Interfaces.Unsigned_64 and Byte_Count, which has the same width. *)
MaxUnsigned == 2 * Radix ^ LastGroup - 1
Unsigned == 0 .. MaxUnsigned
Byte_Count == Unsigned
Integer_64 == -(Radix ^ LastGroup) .. Radix ^ LastGroup - 1

No_Tag == 0
Tag_Number == 0 .. MaxFieldTag
Field_Tag == 1 .. MaxFieldTag

(* A tag is written as an integer. *)
ASSUME TagAssumption == MaxFieldTag <= MaxUnsigned

Extent(start, length) == [start |-> start, length |-> length]
Empty_Extent == Extent(0, 0)

(***************************************************************************)
(* Checked sizes                                                           *)
(***************************************************************************)

Computed(result) == [status |-> "Computed", result |-> result]
Overflow(result) == [status |-> "Overflow", result |-> result]

Sizes_Add(left, right) ==
  IF right > MaxUnsigned - left THEN Overflow(0) ELSE Computed(left + right)

Sizes_Multiply(left, right) ==
  IF left # 0 /\ right > MaxUnsigned \div left
    THEN Overflow(0)
    ELSE Computed(left * right)

(* On overflow the accumulated total keeps its value. *)
Sizes_Accumulate(total, amount) ==
  IF Sizes_Add(total, amount).status = "Computed"
    THEN Sizes_Add(total, amount)
    ELSE Overflow(total)

(***************************************************************************)
(* Cursors                                                                 *)
(***************************************************************************)

Cursor(first, next, limit) == [first |-> first, next |-> next, limit |-> limit]

(* Mutant: the limit is not compared with the array. *)
UncheckedLimit_Is_Valid(c, length) == c.first <= c.next /\ c.next <= c.limit

Is_Valid(c, length) ==
  /\ c.first <= c.next
  /\ c.next <= c.limit
  /\ c.limit <= length

Consumed(c) == c.next - c.first
Remaining(c) == c.limit - c.next
At_End(c) == c.next = c.limit

Advance(c, count) == Cursor(c.first, c.next + count, c.limit)

Initialize_Whole(buffer) == Cursor(0, 0, Len(buffer))

Inside(region, buffer) ==
  region.start <= Len(buffer) /\ region.length <= Len(buffer) - region.start

(* Mutant: the cursor is not limited to its extent. *)
Unlimited_Initialize(buffer, region) ==
  IF Inside(region, buffer)
    THEN [status |-> "Cursor_Ready", cursor |-> Cursor(region.start, region.start, Len(buffer))]
    ELSE [status |-> "Invalid_Extent", cursor |-> Cursor(0, 0, 0)]

Initialize(buffer, region) ==
  IF Inside(region, buffer)
    THEN [status |-> "Cursor_Ready",
          cursor |-> Cursor(region.start, region.start, region.start + region.length)]
    ELSE [status |-> "Invalid_Extent", cursor |-> Cursor(0, 0, 0)]

(* The slice a Visit_Extent callback is lent; no callback when invalid. *)
Visit_Extent(buffer, region) ==
  IF Inside(region, buffer)
    THEN [status |-> "Cursor_Ready",
          lent |-> {SubSeq(buffer, region.start + 1, region.start + region.length)}]
    ELSE [status |-> "Invalid_Extent", lent |-> {}]

(***************************************************************************)
(* Reading                                                                 *)
(***************************************************************************)

Continues(octet) == octet >= Radix
Payload(octet) == octet % Radix

(* Take at offset k: nothing there for the cursor, or outside the array. *)
Exhausted(c, k) == k = c.limit
Faults(buffer, k) == k >= Len(buffer)

(* The groups a scan from cursor c looks at end with the first of these. *)
Scan_Ends(input, c, group) ==
  \/ Exhausted(c, c.next + group)
  \/ Faults(input, c.next + group)
  \/ ~ Continues(input[c.next + group + 1])
  \/ group = LastGroup

Last_Scanned(input, c) ==
  CHOOSE group \in 0 .. LastGroup :
    /\ Scan_Ends(input, c, group)
    /\ \A earlier \in 0 .. group - 1 : ~ Scan_Ends(input, c, earlier)

(* The integer whose groups, low group first, are the octets after c. *)
Accumulated(input, c, groups) ==
  LET Sum[n \in 0 .. groups] ==
        IF n = 0 THEN 0
        ELSE Sum[n - 1] + Payload(input[c.next + n]) * Radix ^ (n - 1)
  IN  Sum[groups]

Read_Failed(status, c) == [status |-> status, value |-> 0, cursor |-> c]

(* Mutant: a last group of zero is accepted. *)
Overlong_Read_Unsigned(input, c) ==
  LET group == Last_Scanned(input, c)
      at    == c.next + group
  IN  IF ~ Is_Valid(c, Len(input)) THEN Read_Failed("Extent_Outside_Container", c)
      ELSE IF Exhausted(c, at) THEN Read_Failed("Truncated", c)
      ELSE IF Faults(input, at) THEN Read_Failed("Constraint_Error", c)
      ELSE IF group = LastGroup /\ (Payload(input[at + 1]) > 1 \/ Continues(input[at + 1]))
             THEN Read_Failed("Value_Overflow", c)
      ELSE [status |-> "Read", value |-> Accumulated(input, c, group + 1),
            cursor |-> Advance(c, group + 1)]

Read_Unsigned(input, c) ==
  IF ~ Is_Valid(c, Len(input)) THEN Read_Failed("Extent_Outside_Container", c)
  ELSE
    LET group == Last_Scanned(input, c)
        at    == c.next + group
    IN  IF Exhausted(c, at) THEN Read_Failed("Truncated", c)
        ELSE IF Faults(input, at) THEN Read_Failed("Constraint_Error", c)
        ELSE IF group = LastGroup /\ (Payload(input[at + 1]) > 1 \/ Continues(input[at + 1]))
               THEN Read_Failed("Value_Overflow", c)
        ELSE IF group > 0 /\ Payload(input[at + 1]) = 0
               THEN Read_Failed("Noncanonical", c)
        ELSE [status |-> "Read",
              value  |-> Accumulated(input, c, group + 1),
              cursor |-> Advance(c, group + 1)]

ZigZag_Encode(value) ==
  IF value >= 0 THEN value * 2 ELSE -(value + 1) * 2 + 1

ZigZag_Decode(value) ==
  IF value % 2 = 0 THEN value \div 2 ELSE -(value \div 2) - 1

Read_Signed(input, c) ==
  LET encoded == Read_Unsigned(input, c)
  IN  IF encoded.status = "Read"
        THEN [encoded EXCEPT !.value = ZigZag_Decode(@)]
        ELSE encoded

Read_Boolean(input, c) ==
  LET Refused(status) == [status |-> status, value |-> FALSE, cursor |-> c]
  IN  IF ~ Is_Valid(c, Len(input)) THEN Refused("Extent_Outside_Container")
      ELSE IF Exhausted(c, c.next) THEN Refused("Truncated")
      ELSE IF Faults(input, c.next) THEN Refused("Constraint_Error")
      ELSE IF input[c.next + 1] > 1 THEN Refused("Invalid_Boolean")
      ELSE [status |-> "Read",
            value  |-> input[c.next + 1] = 1,
            cursor |-> Advance(c, 1)]

(* How many of count octets can be copied at offset k before the index     *)
(* check of the buffer stops the loop.                                     *)
Copied(buffer, k, count) ==
  IF k + count <= Len(buffer) THEN count
  ELSE IF Faults(buffer, k) THEN 0 ELSE Len(buffer) - k

(* The copy loop assigns octet by octet: an index check that fails leaves  *)
(* the octets already copied.  There is no Is_Valid call in this one.      *)
Read_Octets(input, c, value, count) ==
  LET Outcome(status, copied, cursor) ==
        [status |-> status,
         value  |-> [i \in 1 .. Len(value) |->
                       IF i <= copied THEN input[c.next + i] ELSE value[i]],
         cursor |-> cursor]
  IN  IF count > Remaining(c) THEN Outcome("Truncated", 0, c)
      ELSE IF count > Len(value) THEN Outcome("Destination_Too_Small", 0, c)
      ELSE IF Copied(input, c.next, count) < count
             THEN Outcome("Constraint_Error", Copied(input, c.next, count), c)
      ELSE Outcome("Read", count, Advance(c, count))

(* Mutants: the length is not compared with what is left; the value is     *)
(* not skipped.                                                            *)
Unbounded_Read_Extent(input, c) ==
  LET length == Read_Unsigned(input, c)
  IN  IF length.status # "Read"
        THEN [status |-> length.status, value |-> Empty_Extent, cursor |-> c]
        ELSE [status |-> "Read",
              value  |-> Extent(length.cursor.next, length.value),
              cursor |-> Advance(length.cursor, length.value)]

Unskipped_Read_Extent(input, c) ==
  LET length == Read_Unsigned(input, c)
      Refused(status) == [status |-> status, value |-> Empty_Extent, cursor |-> c]
  IN  IF length.status # "Read" THEN Refused(length.status)
      ELSE IF length.value > Remaining(length.cursor)
             THEN Refused("Extent_Outside_Container")
      ELSE [status |-> "Read", value |-> Extent(length.cursor.next, length.value),
            cursor |-> length.cursor]

(* The common tail of Read_Length_Delimited and Read_Field_Header: a       *)
(* shortest-form length, then exactly that many octets of the container.   *)
Read_Extent(input, c) ==
  LET length == Read_Unsigned(input, c)
      Refused(status) == [status |-> status, value |-> Empty_Extent, cursor |-> c]
  IN  IF length.status # "Read" THEN Refused(length.status)
      ELSE IF length.value > Remaining(length.cursor)
             THEN Refused("Extent_Outside_Container")
      ELSE [status |-> "Read",
            value  |-> Extent(length.cursor.next, length.value),
            cursor |-> Advance(length.cursor, length.value)]

Read_Length_Delimited(input, c) == Read_Extent(input, c)

(* Mutants: the tag stays consumed when its length is refused; the cursor  *)
(* is not moved; nor is the previous tag kept; tags have no upper bound.   *)
Consuming_Read_Field_Header(input, c, previous) ==
  LET tag    == Read_Unsigned(input, c)
      length == Read_Extent(input, tag.cursor)
      Refused(status, at) ==
        [status |-> status, tag |-> 1, value |-> Empty_Extent, cursor |-> at, previous |-> previous]
  IN  IF tag.status # "Read" THEN Refused(tag.status, c)
      ELSE IF tag.value = 0 \/ tag.value > MaxFieldTag THEN Refused("Invalid_Tag", c)
      ELSE IF tag.value <= previous THEN Refused("Tag_Order_Error", c)
      ELSE IF length.status # "Read" THEN Refused(length.status, tag.cursor)
      ELSE [status |-> "Read", tag |-> tag.value, value |-> length.value,
            cursor |-> length.cursor, previous |-> tag.value]

Unmoved_Read_Field_Header(input, c, previous) ==
  LET tag    == Read_Unsigned(input, c)
      length == Read_Extent(input, tag.cursor)
      Outcome(status, value, last) ==
        [status |-> status, tag |-> last, value |-> value, cursor |-> c, previous |-> last]
  IN  IF tag.status # "Read" THEN Outcome(tag.status, Empty_Extent, previous)
      ELSE IF tag.value \notin Field_Tag THEN Outcome("Invalid_Tag", Empty_Extent, previous)
      ELSE IF tag.value <= previous THEN Outcome("Tag_Order_Error", Empty_Extent, previous)
      ELSE IF length.status # "Read" THEN Outcome(length.status, Empty_Extent, previous)
      ELSE Outcome("Read", length.value, tag.value)

Stuck_Read_Field_Header(input, c, previous) ==
  LET tag    == Read_Unsigned(input, c)
      length == Read_Extent(input, tag.cursor)
      Outcome(status, value, last) ==
        [status |-> status, tag |-> last, value |-> value, cursor |-> c, previous |-> previous]
  IN  IF tag.status # "Read" THEN Outcome(tag.status, Empty_Extent, previous)
      ELSE IF tag.value \notin Field_Tag THEN Outcome("Invalid_Tag", Empty_Extent, previous)
      ELSE IF tag.value <= previous THEN Outcome("Tag_Order_Error", Empty_Extent, previous)
      ELSE IF length.status # "Read" THEN Outcome(length.status, Empty_Extent, previous)
      ELSE Outcome("Read", length.value, tag.value)

Untyped_Read_Field_Header(input, c, previous) ==
  LET tag    == Read_Unsigned(input, c)
      length == Read_Extent(input, tag.cursor)
      Refused(status) ==
        [status |-> status, tag |-> 1, value |-> Empty_Extent, cursor |-> c, previous |-> previous]
  IN  IF tag.status # "Read" THEN Refused(tag.status)
      ELSE IF tag.value = 0 THEN Refused("Invalid_Tag")
      ELSE IF tag.value <= previous THEN Refused("Tag_Order_Error")
      ELSE IF length.status # "Read" THEN Refused(length.status)
      ELSE [status |-> "Read", tag |-> tag.value, value |-> length.value,
            cursor |-> length.cursor, previous |-> tag.value]

Read_Field_Header(input, c, previous) ==
  LET tag    == Read_Unsigned(input, c)
      length == Read_Extent(input, tag.cursor)
      Refused(status) ==
        [status |-> status, tag |-> 1, value |-> Empty_Extent,
         cursor |-> c, previous |-> previous]
  IN  IF tag.status # "Read" THEN Refused(tag.status)
      ELSE IF tag.value = 0 \/ tag.value > MaxFieldTag THEN Refused("Invalid_Tag")
      ELSE IF tag.value <= previous THEN Refused("Tag_Order_Error")
      ELSE IF length.status # "Read" THEN Refused(length.status)
      ELSE [status   |-> "Read",
            tag      |-> tag.value,
            value    |-> length.value,
            cursor   |-> length.cursor,
            previous |-> tag.value]

(***************************************************************************)
(* Writing                                                                 *)
(***************************************************************************)

(* Mutant: the thresholds are off by one. *)
Strict_Unsigned_Size(value) == 1 + Cardinality({g \in 1 .. LastGroup : value > Radix ^ g})

(* One group, and one more for every threshold the value reaches. *)
Unsigned_Size(value) == 1 + Cardinality({g \in 1 .. LastGroup : value >= Radix ^ g})

(* Mutant: a group that continues is not reduced to its low part. *)
Unreduced_Group(value, g) ==
  LET rest == value \div Radix ^ g
  IN  IF rest >= Radix THEN rest + Radix ELSE rest

(* Group g of a value, with the continuation bit when more groups follow. *)
Group(value, g) ==
  LET rest == value \div Radix ^ g
  IN  IF rest >= Radix THEN (rest % Radix) + Radix ELSE rest

(* Put_Unsigned stores the groups of value from offset k on; what would    *)
(* fall outside the array is not stored (see Overruns).                    *)
Put_Unsigned(output, k, value) ==
  [i \in 1 .. Len(output) |->
     IF i \in k + 1 .. k + Unsigned_Size(value) THEN Group(value, i - k - 1) ELSE output[i]]

Overruns(output, k, size) == k + size > Len(output)

Write_Refused(status, output, c) == [status |-> status, output |-> output, cursor |-> c]

Write_Unsigned(output, c, value) ==
  LET size == Unsigned_Size(value)
  IN  IF ~ Is_Valid(c, Len(output)) \/ size > Remaining(c)
        THEN Write_Refused("Destination_Too_Small", output, c)
        ELSE [status |-> IF Overruns(output, c.next, size) THEN "Constraint_Error" ELSE "Wrote",
              output |-> Put_Unsigned(output, c.next, value),
              cursor |-> Advance(c, size)]

Write_Signed(output, c, value) == Write_Unsigned(output, c, ZigZag_Encode(value))

Write_Boolean(output, c, value) ==
  IF ~ Is_Valid(c, Len(output)) \/ Remaining(c) = 0
    THEN Write_Refused("Destination_Too_Small", output, c)
    ELSE [status |-> IF Overruns(output, c.next, 1) THEN "Constraint_Error" ELSE "Wrote",
          output |-> [i \in 1 .. Len(output) |->
                        IF i = c.next + 1 THEN (IF value THEN 1 ELSE 0) ELSE output[i]],
          cursor |-> Advance(c, 1)]

(* Mutant: what fits is copied before the room is compared. *)
Eager_Write_Octets(output, c, value, count) ==
  LET fits == {n \in 0 .. count : n <= Remaining(c) /\ n <= Len(value)}
      copied == CHOOSE n \in fits : \A m \in fits : m <= n
  IN  [status |-> IF copied < count THEN "Destination_Too_Small" ELSE "Wrote",
       output |-> [i \in 1 .. Len(output) |->
                     IF i \in c.next + 1 .. c.next + copied THEN value[i - c.next] ELSE output[i]],
       cursor |-> IF copied < count THEN c ELSE Advance(c, count)]

(* As in Read_Octets, an index check that fails leaves a partial copy. *)
Write_Octets(output, c, value, count) ==
  LET Outcome(status, copied, cursor) ==
        [status |-> status,
         output |-> [i \in 1 .. Len(output) |->
                       IF i \in c.next + 1 .. c.next + copied THEN value[i - c.next] ELSE output[i]],
         cursor |-> cursor]
  IN  IF count > Remaining(c) \/ count > Len(value)
        THEN Outcome("Destination_Too_Small", 0, c)
      ELSE IF Copied(output, c.next, count) < count
        THEN Outcome("Constraint_Error", Copied(output, c.next, count), c)
      ELSE Outcome("Wrote", count, Advance(c, count))

(* Mutant: the room of the header is forgotten. *)
Headless_Has_Room(output, c, header, length) ==
  /\ Is_Valid(c, Len(output))
  /\ header <= Remaining(c)
  /\ length <= Remaining(c)

(* The preflight of both header writers: a valid cursor, and room for the  *)
(* header and the whole value behind it.                                   *)
Has_Room(output, c, header, length) ==
  /\ Is_Valid(c, Len(output))
  /\ header <= Remaining(c)
  /\ length <= Remaining(c) - header

Write_Length_Delimited(output, c, length) ==
  LET header == Unsigned_Size(length)
  IN  IF ~ Has_Room(output, c, header, length)
        THEN [status |-> "Destination_Too_Small", output |-> output,
              cursor |-> c, value |-> Empty_Extent]
        ELSE [status |-> IF Overruns(output, c.next, header) THEN "Constraint_Error" ELSE "Wrote",
              output |-> Put_Unsigned(output, c.next, length),
              cursor |-> Advance(c, header + length),
              value  |-> Extent(c.next + header, length)]

Write_Field_Header(output, c, previous, tag, length) ==
  LET header == Unsigned_Size(tag) + Unsigned_Size(length)
      Refused(status) ==
        [status |-> status, output |-> output, cursor |-> c,
         previous |-> previous, value |-> Empty_Extent]
  IN  IF tag = No_Tag THEN Refused("Invalid_Tag")
      ELSE IF tag <= previous THEN Refused("Tag_Order_Error")
      ELSE IF ~ Has_Room(output, c, header, length) THEN Refused("Destination_Too_Small")
      ELSE [status   |-> IF Overruns(output, c.next, header) THEN "Constraint_Error" ELSE "Wrote",
            output   |-> Put_Unsigned(Put_Unsigned(output, c.next, tag),
                                      c.next + Unsigned_Size(tag), length),
            cursor   |-> Advance(c, header + length),
            previous |-> tag,
            value    |-> Extent(c.next + header, length)]

(***************************************************************************)
(* Measuring                                                               *)
(***************************************************************************)

Measured(total) == IF total.status = "Overflow" THEN Overflow(0) ELSE total

(* Mutant: the size of the tag is added twice, that of the length never. *)
Mistaken_Measure_Field(tag, length) ==
  Measured(Sizes_Accumulate(length, Unsigned_Size(tag) * 2))

Measure_Field(tag, length) ==
  LET tagged == Sizes_Accumulate(length, Unsigned_Size(tag))
  IN  IF tagged.status = "Computed"
        THEN Measured(Sizes_Accumulate(tagged.result, Unsigned_Size(length)))
        ELSE Measured(tagged)

Measure_Length_Delimited(length) ==
  Measured(Sizes_Accumulate(length, Unsigned_Size(length)))

=============================================================================
