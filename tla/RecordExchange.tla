---------------------------- MODULE RecordExchange ----------------------------
(***************************************************************************)
(* Two generated codecs: one encodes an item, the other, perhaps generated *)
(* from another revision of the schema, decodes the octets under the       *)
(* identity of their writer.  Octets may as well come from anybody else.   *)
(* A codec's subprograms run field by field; each is one step here.        *)
(***************************************************************************)
EXTENDS CanonicalForm

CONSTANTS
  Locks,          (* the schemas codecs are generated from *)
  Items,          (* the values an application has for a lock's record *)
  Tables,         (* the accepted writers a codec may be generated with *)
  Rooms,          (* sizes of the array Encode is given *)
  Foreign,        (* arrays that no codec encoded *)
  Nobody          (* an identity that is not valid *)

(* The components Ada gives a record; the application may put anything the *)
(* types of its components can hold into them.                             *)
Component(lock, t, content) ==
  /\ content \in Seq(Int)
  /\ Field(lock, t).kind \in Scalars \cup {"enumeration"} =>
       Len(content) = 1 \/ (Field(lock, t).presence = "optional" /\ content = <<>>)
  /\ Field(lock, t).kind = "bytes" => content \in Seq(Octet)
  /\ Field(lock, t).kind = "variant" => Len(content) = 1 + Cardinality(Members(lock, t))

Item_Of(lock, item) ==
  /\ DOMAIN item = Fields(lock)
  /\ \A t \in Fields(lock) : Component(lock, t, item[t])

(* No other numbers are in a component that is a Boolean.                  *)
Truth(value, n) == value.kind = "boolean" => n \in 0 .. 1
Truths(lock, t, content) ==
  /\ Field(lock, t).kind \in Scalars /\ content # <<>> => Truth(Field(lock, t), content[1])
  /\ Field(lock, t).kind = "sequence" =>
       \A i \in 1 .. Len(content) : Truth(Element(lock, t), content[i])
  /\ Field(lock, t).kind = "variant" =>
       \A o \in Members(lock, t) :
         Truth(Member(lock, t, o[1], o[2]), content[Slot(lock, t, o[1], o[2])])

ASSUME ExchangeAssumption ==
  /\ \A lock \in Locks : Tree(lock.root) /\ validate_lock(lock) /\ Measurable(lock.root) /\ validate_binding(lock)
  /\ \A lock \in Locks : \A p \in DOMAIN lock.root : Wire_Bounds(lock.root[p])
  /\ \A lock \in Locks : \A item \in Items[lock] :
       Item_Of(lock, item) /\ \A t \in Fields(lock) : Truths(lock, t, item[t])
  /\ Rooms \subseteq Nat
  /\ \A lock \in Locks : \A table \in Tables[lock] :
       Schemas(table) \subseteq Locks /\ validate_compatible_writers(lock, table)
  /\ Foreign \subseteq Seq(Octet)
  /\ Nobody \notin Locks

VARIABLES
  local,      (* the lock the receiving codec was generated from *)
  entries,    (* and the writers it was generated to accept *)
  encoding,   (* a call of Encode *)
  decoding    (* a call of Decode, and what was sent if its input was encoded *)

vars == <<local, entries, encoding, decoding>>
generated == <<local, entries>>

Idle == [status |-> "Idle"]
Nothing == <<>>

(* Every octet of the caller's array is this one before Encode. *)
Fill == 2 * Radix - 1
Blank(length) == [i \in 1 .. length |-> Fill]

Init ==
  /\ local \in Locks /\ entries \in Tables[local]
  /\ encoding = Idle /\ decoding = Idle

-----------------------------------------------------------------------------

Encode_Call(status, lock, item, output, writer, previous, written) ==
  [status |-> status, lock |-> lock, item |-> item, output |-> output,
   writer |-> writer, previous |-> previous, written |-> written]

Fitting(measured, room) ==
  IF measured.status # "Measured" THEN measured.status
  ELSE IF room < measured.size THEN "Destination_Too_Small"
  ELSE "Encoding"

(* Encode up to its first field. *)
Begin_Encode ==
  /\ encoding = Idle /\ decoding = Idle
  /\ \E lock \in Locks : \E item \in Items[lock], room \in Rooms :
       \E measured \in {Measure(lock, item)} :
         encoding' = Encode_Call(Fitting(measured, room), lock, item, Blank(room),
           IF Fitting(measured, room) = "Encoding"
             THEN Initialize(Blank(room), Extent(0, measured.size)).cursor
             ELSE Cursor(0, 0, 0),
           No_Tag, 0)
  /\ UNCHANGED <<generated, decoding>>

(* The fields whose turn is yet to come. *)
Unwritten == {t \in Included(encoding.lock, encoding.item) : t > encoding.previous}

Encode_Field ==
  /\ encoding.status = "Encoding" /\ Unwritten # {}
  /\ \E wrote \in {Write_Field(encoding.lock, encoding.item, Min(Unwritten),
                                 encoding.output, encoding.writer, encoding.previous)} :
       encoding' = [encoding EXCEPT !.status = IF wrote.status = "Wrote" THEN "Encoding" ELSE wrote.status,
                                    !.output = wrote.output, !.writer = wrote.cursor,
                                    !.previous = wrote.previous]
  /\ UNCHANGED <<generated, decoding>>

End_Encode ==
  /\ encoding.status = "Encoding" /\ Unwritten = {}
  /\ encoding' = IF At_End(encoding.writer)
                   THEN [encoding EXCEPT !.status = "Encoded", !.written = Consumed(encoding.writer)]
                   ELSE [encoding EXCEPT !.status = "Size_Overflow"]
  /\ UNCHANGED <<generated, decoding>>

-----------------------------------------------------------------------------

Relationship(writer) == Classify(local, writer, Schemas(entries), Nobody)

(* Decode up to its loop; the input of a writer that is not accepted is    *)
(* not looked at, nor kept here.                                           *)
Begin_Decode(writer, input, sent) ==
  LET accepted == Relationship(writer) \in {"Exact", "Compatible"}
      read     == IF accepted THEN input ELSE Nothing
  IN decoding' =
    [status |-> IF accepted THEN "Decoding" ELSE "Incompatible",
     writer |-> writer, input |-> read, sent |-> sent,
     reader |-> Initialize_Whole(read), previous |-> No_Tag, candidate |-> failure_value(local),
     seen |-> {}, item |-> failure_value(local)]

Receive_Encoded ==
  /\ encoding.status = "Encoded" /\ decoding = Idle
  /\ Begin_Decode(encoding.lock, SubSeq(encoding.output, 1, encoding.written), encoding.item)
  /\ encoding' = Idle /\ UNCHANGED generated

Receive_Foreign ==
  /\ encoding = Idle /\ decoding = Idle
  /\ \E writer \in Locks \cup {Nobody}, input \in Foreign : Begin_Decode(writer, input, Nothing)
  /\ UNCHANGED <<generated, encoding>>

(* Mutant: no writer is barred from a field the reader has. *)
Never_Prohibited(call, t) == FALSE

(* A field the reader has and the lock of an accepted writer lacks. *)
Prohibited(call, t) == Relationship(call.writer) = "Compatible" /\ t \notin Fields(call.writer)

Ignorable(call, t) ==
  Relationship(call.writer) = "Compatible" /\ t \in Ignored(call.writer, local)

(* Ignored octets are those of the writer's own field. *)
Accepted_Value(call, t, region) ==
  IF t \in Fields(local)
    THEN IF Prohibited(call, t)
           THEN Turned_Down("Noncanonical")
           ELSE Read_Value(local, t, call.input, region)
  ELSE IF ~ Ignorable(call, t) THEN Turned_Down("Noncanonical")
  ELSE IF Octets_Within(Field(call.writer, t), region)
    THEN Taken(<<>>)
    ELSE Turned_Down("Invalid_Value")

Decode_Fails(status) == decoding' = [decoding EXCEPT !.status = status]

(* One turn of the loop. *)
Decode_Field ==
  /\ decoding.status = "Decoding" /\ ~ At_End(decoding.reader)
  /\ \E header \in {Read_Field_Header(decoding.input, decoding.reader, decoding.previous)} :
       \/ header.status # "Read" /\ Decode_Fails(Map_Read_Error(header.status))
       \/ /\ header.status = "Read"
          /\ \E value \in {Accepted_Value(decoding, header.tag, header.value)} :
               \/ value.status # "Decoded" /\ Decode_Fails(value.status)
               \/ /\ value.status = "Decoded"
                  /\ decoding' = [decoding EXCEPT
                        !.reader = header.cursor, !.previous = header.previous,
                        !.candidate = [t \in DOMAIN @ |-> IF t = header.tag THEN value.content ELSE @[t]],
                        !.seen = @ \cup ({header.tag} \cap Fields(local))]
  /\ UNCHANGED <<generated, encoding>>

(* Mutant: a field is constructed for every writer that lacks it. *)
Any_Constructions(call) ==
  UNION {{<<t, entry.construct[t]>> : t \in DOMAIN entry.construct} : entry \in entries}

Constructions(call) ==
  IF Relationship(call.writer) = "Compatible"
    THEN LET construct == Entry_Of(call.writer, entries).construct
         IN  {<<t, construct[t]>> : t \in DOMAIN construct}
    ELSE {}

(* What the fields that were not seen become. *)
Supplied(call) ==
  {<<t, Field(local, t).default>> : t \in Fields_With(local, "defaulted")} \cup Constructions(call)

Completed(call) ==
  [t \in DOMAIN call.candidate |->
     IF t \notin call.seen /\ \E s \in Supplied(call) : s[1] = t
       THEN <<(CHOOSE s \in Supplied(call) : s[1] = t)[2]>>
       ELSE call.candidate[t]]

End_Decode ==
  /\ decoding.status = "Decoding" /\ At_End(decoding.reader)
  /\ decoding' =
       IF Fields_With(local, "required")
            \subseteq decoding.seen \cup {s[1] : s \in Supplied(decoding)}
         THEN [decoding EXCEPT !.status = "Decoded", !.item = Completed(decoding)]
         ELSE [decoding EXCEPT !.status = "Invalid_Value"]
  /\ UNCHANGED <<generated, encoding>>

(* The callers have seen the results. *)
Forget ==
  /\ encoding.status # "Encoding" /\ decoding.status # "Decoding"
  /\ encoding' = Idle /\ decoding' = Idle /\ UNCHANGED generated

-----------------------------------------------------------------------------

Next ==
  \/ Begin_Encode
  \/ Encode_Field
  \/ End_Encode
  \/ Receive_Encoded
  \/ Receive_Foreign
  \/ Decode_Field
  \/ End_Decode
  \/ Forget

Spec == Init /\ [][Next]_vars

(* A Decode that was called keeps running: nothing in it waits. *)
FairSpec == Spec /\ WF_vars(Decode_Field \/ End_Decode)

-----------------------------------------------------------------------------

Encode_Failures == {"Invalid_Value", "Size_Overflow", "Destination_Too_Small"}
Decode_Failures == {"Incompatible", "Malformed", "Noncanonical", "Invalid_Value"}

(* Shapes of both calls; what is decoded has room in its components. *)
TypeOK ==
  /\ local \in Locks /\ Schemas(entries) \subseteq Locks
  /\ \/ encoding = Idle
     \/ /\ encoding.status \in {"Encoding", "Encoded"} \cup Encode_Failures
        /\ encoding.lock \in Locks /\ Item_Of(encoding.lock, encoding.item)
        /\ encoding.output \in Seq(Octet) /\ encoding.written \in 0 .. Len(encoding.output)
        /\ encoding.previous \in Tag_Number
  /\ \/ decoding = Idle
     \/ /\ decoding.status \in {"Decoding", "Decoded"} \cup Decode_Failures
        /\ decoding.previous \in Tag_Number
        /\ decoding.seen \subseteq Fields(local)
        /\ Is_Valid(decoding.reader, Len(decoding.input))
        /\ \A item \in {decoding.item, decoding.candidate} :
             /\ Item_Of(local, item)
             /\ \A t \in Fields(local) :
                  Field(local, t).kind \in {"bytes", "sequence"}
                    => Len(item[t]) <= Field(local, t).maximum

(* The contract of Codecs.Contracts.  An Encode that fails has changed     *)
(* nothing: once Measure agreed and the size fits, nothing later fails.    *)
(* One that succeeds leaves the octets behind what it wrote alone.  The    *)
(* item of a Decode that fails is harmless, whatever was read before.      *)
CallsAreTransactions ==
  /\ encoding.status \in Encode_Failures =>
       encoding.written = 0 /\ encoding.output = Blank(Len(encoding.output))
  /\ encoding.status = "Encoded" =>
       /\ encoding.written = Measure(encoding.lock, encoding.item).size
       /\ \A i \in encoding.written + 1 .. Len(encoding.output) : encoding.output[i] = Fill
  /\ decoding.status \in Decode_Failures => decoding.item = failure_value(local)

(* Members of the alternatives that were not chosen are not sent.          *)
Sent(reader, t, content) ==
  IF Field(reader, t).kind # "variant" THEN content
  ELSE [i \in DOMAIN content |->
          IF i = 1 \/ \E m \in Payload_Tags(reader, t, content[1]) : i = Slot(reader, t, content[1], m)
            THEN content[i]
            ELSE initial_variant(reader, t)[i]]

(* What a reader is to make of what an accepted writer sent. *)
Understood(writer, sent) ==
  [t \in Fields(local) |->
     CASE t \in Fields(writer) -> Sent(local, t, sent[t])
       [] t \notin Fields(writer) /\ Field(local, t).presence = "defaulted" -> <<Field(local, t).default>>
       [] t \notin Fields(writer) /\ Field(local, t).presence = "optional"  -> <<>>
       [] OTHER -> <<Entry_Of(writer, entries).construct[t]>>]

(* Every item a writer can encode arrives at every codec that was          *)
(* generated to accept that writer: fields both have keep their values,    *)
(* the others are what the schema or the approval says.  Other codecs      *)
(* refuse it as incompatible.                                              *)
ApprovedMessagesArrive ==
  decoding # Idle /\ decoding.status # "Decoding" /\ decoding.sent # Nothing =>
    IF decoding.writer \in {local} \cup Schemas(entries)
      THEN /\ decoding.status = "Decoded"
           /\ decoding.item = Understood(decoding.writer, decoding.sent)
      ELSE decoding.status = "Incompatible"

(* Octets decoded under the codec's own identity are the canonical ones of *)
(* the item: no item has two encodings.  And whatever was decoded, from    *)
(* whichever writer, is an item this codec would encode again.             *)
DecodedIsCanonical ==
  decoding.status = "Decoded" =>
    /\ decoding.writer = local => Canonical(local, decoding.item) = decoding.input
    /\ Measure(local, decoding.item).status # "Invalid_Value"

(* A codec goes past a field only if it is one of the writer's own: a      *)
(* field another accepted writer lacks, or has, makes no difference.       *)
AcceptedTagsAreTheWriters ==
  decoding.status = "Decoding" /\ decoding.previous # No_Tag =>
    decoding.previous \in Fields(decoding.writer)

(* The maximum a codec's descriptor states is one: an array of that size   *)
(* has room for every item that is valid, and no valid item is refused     *)
(* because its size cannot be computed.                                    *)
MaximumIsEnough ==
  encoding # Idle =>
    /\ encoding.status # "Size_Overflow"
    /\ encoding.status = "Destination_Too_Small" =>
         Len(encoding.output) < maximum_size(encoding.lock.root)[<<>>]
    /\ encoding.status = "Encoded" => encoding.written <= maximum_size(encoding.lock.root)[<<>>]

(* The tools decode for themselves, to validate the octets of defaults and *)
(* constructions; they take what the generated Ada takes of its own writer *)
(* and nothing else.                                                       *)
ReadersAgree ==
  decoding # Idle /\ decoding.status # "Decoding" /\ decoding.writer = local =>
    (decoding.status = "Decoded" <=> validate_encoded_value(local.root, decoding.input))

(* Whatever the octets and whoever sent them, Decode returns. *)
EveryDecodeReturns == []<>(decoding.status # "Decoding")

=============================================================================
