# Verification of flyology-wire

TLA+ specifications of flyology-wire, the TLC runs that check them on small instances and
TLAPS proofs for every value of their constants. The repository is cited as `src/<path>`.
`PROJECT.json` says which definition stands for which lines.

## 1. The system

flyology-wire is an Ada library (a bounded tagged wire format, schema identities, checked
sizes), Python tools that turn schema locks into Ada codecs and compare locks, and a newer
generator in Ada that reads metadata documents. Most of it is sequential. What makes it
hard is not scheduling but long sequences of calls over shared arrays and cursors, failures
in the middle of a call, and pairs of programs generated from different revisions of one
schema. The metadata documents are the one part that tasks use concurrently.

| Component | State it keeps | Operations | Hard behaviour |
|---|---|---|---|
| Sizes and octets (`src/src/flyology_wire*.adb`) | none | Add, Multiply, Accumulate | overflow reported late |
| Tagged profile, writing (`tagged_profile.adb`) | `Write_Cursor` (first, next, limit), the caller's array and `Previous` tag | Initialize, Write_*, Measure_* | outer and nested cursors over one array, room that ends in the middle of a header |
| Tagged profile, reading | `Read_Cursor`, the caller's array and `Previous` tag | Initialize, Read_*, At_End | arbitrary octets, canonical forms, a cursor used with another array |
| UTF-8 validation | none | Validate_UTF_8 | ranges of the second octet, extents that end inside a character |
| Identities | none | validity, To_Bytes, From_Bytes, encode, decode | fixed widths |
| Schema relationships (`compatibility.adb`) | the codec's table of accepted writers | Is_Valid, Classify | an invalid table must accept nobody |
| Codec contract (`codecs.ads`, `codecs-contracts.ads`) | none | signature of Measure, Encode, Decode | failure leaves everything as it was |
| Generated record codecs (`generate_ada.py`) | of a call: cursors, `Previous`, `Seen_*`, the candidate | Measure, Encode, Decode | two passes must agree, failures halfway, one codec for several writers |
| Generated variant codecs | as records | the same | a payload per alternative |
| Borrowed observation | as Decode | Validate_And_Visit | callbacks between two passes over one array |
| Schema locks (`schema_lock.py`) | a lock | validate_lock, fingerprint | nesting, sizes that are products |
| Schema comparison (`schema_diff.py`) | two locks, an approval | evolution_issues, directional_diff, validate_approval | only neighbours are compared, readers meet messages of any age |
| Type IR adapter (`type_ir_adapter.py`) | a consumer lock, attested inputs | adapt | inputs read one after the other, facts that are unknown, three outputs |
| Publication (`write_or_check`) | files | write, check | a crash between two outputs, two processes |
| Metadata documents (`wire_metadata_input.adb`) | a protected counter of identities; per document an arena, its identity and root | Decode, Finalize, cursor functions | concurrent tasks, failure at every step, reuse of memory, cursors that outlive documents |
| Metadata preflight and arena | counts of depth, members, nodes, octets, work; values and edges | Preflight, Convert, Find_Member | limits counted twice, names told from values by what follows them |
| Hashing, generator program, test hooks, tests | none | | pure input and output |

How they interact: a generated codec calls the tagged profile for every header and value and
Classify for the message's writer; the caller passes arrays and cursors to each call and nothing
ties a cursor to its array; the generator runs validate_lock, validate_binding and, for
each accepted writer, directional_diff and validate_approval before it writes a codec; the
documents of different tasks share only the counter, the heap and whatever cursors the
application passes around. The adapter writes the lock and the binding that the generator reads; the
two are separate programs that share nothing but files. The Python tools decode defaults and
approved constructions with a decoder of their own, which the generated Ada has to agree with.

What makes each part correct:

- writing: no octet is written twice, nothing outside the extent is, a refused write changes
  nothing, what is stored reads back, measured sizes are exact;
- reading: no octet is skipped or read twice, only canonical forms are accepted, a failed read
  consumes nothing, every loop over headers ends;
- codecs: Encode and Decode are transactions, a message of an accepted writer arrives as schemas
  and approvals say, there is one encoding of each item, one accepted writer gives another no rights;
- locks and comparison: checks between neighbours suffice for a family of any length;
- observation: the application is called for nothing unless all of the message is valid, and what it
  is lent stays inside the array even if the array changes;
- adapter and publication: the lowered schema has exactly the values of the Ada type, a report says
  what was done, and a body never combines a lock and a binding of different origin, however runs overlap; a
  run that no other writing run overlapped does not leave or approve outputs of different times;
- text and preflight: exactly what Unicode, and what the limits, allow is taken;
- documents: one owner per arena, cursors that fail once fail for ever, a failed Decode
  changes nothing.

## 2. Modules

| Module | What it is |
|---|---|
| `TaggedProfile` | one operator per subprogram of the profile and the size helpers: arguments to a record of out parameters |
| `TaggedItems` | what the two callers below record of stored and read octets |
| `TaggedWriter` | a caller with several write cursors over one array |
| `TaggedReader` | a caller with several read cursors over one array of any octets |
| `CursorReuse` | a caller that passes a cursor with an array it was not made for |
| `DocumentVersions` | abstract: documents hold versions that were never held before |
| `MetadataDocuments` | Decode of metadata documents by concurrent tasks, step by step; implements `DocumentVersions` |
| `SchemaLocks` | validate_lock, evolution_issues, directional_diff as operators on trees of values |
| `SchemaLineage` | a family of released locks, each checked against the one before it |
| `LockWire` | the largest sizes and the decoder of schema_lock.py, on octets of `TaggedProfile` and trees of `SchemaLocks` |
| `RecordCodec` | what generate_ada.py puts into a record or variant codec, and which writers it accepts; composes `TaggedProfile` and `SchemaLocks` |
| `CanonicalOctets` | the octets of an integer, of what stands behind its length, of parts in a row, as sequences |
| `CanonicalForm` | abstract: the one encoding of an item, joined from `CanonicalOctets` |
| `RecordExchange` | two generated codecs: an Encode, a Decode under the writer's identity, octets of anybody |
| `ScopedVisit` | Validate_And_Visit, its callbacks and the array's owner |
| `TextField` | Validate_UTF_8 and the bounds of a text field around it |
| `MetadataPreflight` | the inside of Decode of a metadata document: scan, conversion, lookup |
| `TypeIrLowering` | abstraction of lower_checked: what is asked of a document and an overlay, and the three outputs |
| `ArtifactPublication` | runs of adapter and generator over shared files; composes `TypeIrLowering` |
| `TaggedProfileProofs` | lemmas about the operators of `TaggedProfile`: arithmetic of groups, what reads return, what writes store, and where the octets of headers, scalars and nested values stand; and about the sums of `RecordCodec`'s Measure and of `LockWire`'s maximum_size |
| `*Proofs` | theorems about `TaggedWriter`, `TaggedReader`, `MetadataDocuments`, `SchemaLineage`, `RecordExchange`, `ScopedVisit`, `ArtifactPublication` |
| `MC*` | constants of the runs; `MCTaggedReader` has a behaviour of `TaggedReader` or one of `CursorReuse`, for one run of both |

### State and actions against the code

*TaggedProfile.* A cursor is the record of the three private components. Octets are
`0 .. 2 * Radix - 1`; the code has `Radix = 128` and `LastGroup = 9`, which makes the widest
integer `2^64 - 1 = 2 * 128^9 - 1`. Both are constants and the last group's bound is derived
from them as in the code, so overflow and overlong forms exist for every value. Offsets start
at 0 whatever Ada's `'First` is. Ada's index checks are part of the operators: an access outside the array is the
status `Constraint_Error`, which the properties rule out where the code does.

*TaggedWriter, TaggedReader.* The caller's variables are the array, one cursor and one `Previous`
per cursor name, and which extents were handed out but not entered. Each action is one call of the
profile. The reader gives up at the first failure, as generated Decode procedures do. `items` is
history: where each header and scalar was stored or read.

*MetadataDocuments.* `next` is the protected object's `Next`; `heap` is what the pool holds;
`data`, `snapshot`, `root` are the components of each document; `stage` and the `working_*`
variables are the point a task's Decode has reached and its locals. A source says which step rejects it and
how large its arena becomes; besides, every step that allocates, and the release of the parser, may
fail. `kept` is one cursor the application keeps for ever. `origin` and `allocated` are history.

*SchemaLocks.* A lock's root is a function from places (sequences of tags) to values. What the
tools do recursively is a set of places: a place is compared if nothing above it stops the
comparison. The assumption `WalksAgree` of `MCSchemaLineage` compares this with the recursion of
the code, for every pair of the run's trees.

*RecordCodec, RecordExchange.* `local` and `entries` are what the receiving codec was generated
from. Only tables that validate_compatible_writers takes are used, and only locks that validate_lock
and validate_binding take; `ExchangeAssumption` states it and TLC evaluates it. Encode is
Measure with the test of the room (`Begin_Encode`), a step per included field in the order of tags and
the final test; Decode is Classify, a step per turn of its loop, and what follows the loop. An item maps each tag
to a sequence, so that an absent optional is `<<>>`, and bytes and sequences are their elements. An item handed to Encode may have
values outside its bounds: Ada's component types are wider than the schema's. Only a component that is a Boolean has no other values (`Truths`). A variant field is its
record's only one; its item is the alternative and the sequence of its members' values, and the header, the
selector, the inner extent and the members are written and read within one step, which is the one turn such a codec's loop takes.

*LockWire.* `maximum_size` is the size at every place, computed over unbounded naturals; `Measurable` says that
none of them leaves `Byte_Count`, which is what checked_add and checked_multiply report. `validate_encoded_value`
is the recursion of validate_encoded_at as a function of place, start and limit. `CanonicalForm` is written against
neither decoder: it joins octets.

*ScopedVisit.* `status` is the point the call has reached; a turn of either loop is a step, and a callback
is a step that ends in one of two ways. `Change` writes to the array while the call runs. The decision on observation
(`src/docs/decisions/0005`) asks the caller not to; `kept` says whether it did not, and the property about validity is
stated for that case. The property about extents is not: the second pass reads everything again.

*TextField.* A step per scalar. `Following` has the ranges of the octets behind a first one; the reference in the property
knows nothing of ranges, it computes a value from bits and compares octets with the shortest form of that value.

*MetadataPreflight.* A step per character of the scan, in which a number is one step. Convert is recursive here too,
so this module has no theorems. A source is a text and the value that the JSON library makes of it, if any.

*TypeIrLowering, ArtifactPublication.* A fact of a document is true, false or unknown. A program is what the document was
extracted from: the values each component takes, by which `Exact` says what lowering must preserve. Digests are what they
are digests of. In `ArtifactPublication` a process reads each input in a step of its own, as the two main programs
do; the checker's octets are read, compared and copied at once, because attested_bytes returns what it compared. An output
takes three steps (open, write, replace) or, with `--check`, one. `Stop` ends a process between any two steps; what it
left in a temporary file stays.

Nothing in either program keeps two runs from writing the same outputs, and nothing does so in the model. Both runs use one temporary file
per output, so `file` says where the file that a process has open is now: still `temporary`, put in place by another run (`disk`), or
`gone` when a later one took its place. Opening empties the file. A text is written by one call, from the start of the file, over what
another run may have written there meanwhile: a longer text leaves its rest behind (`Partial`). A file that is empty or partial is
neither a lock nor a binding, and equal to no output. `crowded` is history: it marks the runs of a program from the moment two that write overlap
until none of them is left, and the checks that run beside them.

## 3. Runs

| Run | States | What it shows |
|---|---|---|
| `writer` | 136,860 | any interleaving of headers, nested writers and raw writes over six octets keeps regions apart and everything stored readable, canonical and as large as measured; refused writes change nothing |
| `reader` | 144,867 | for all 341 arrays of up to four octets and all orders of reads through an outer and a nested cursor: bounds, one meaning per octet, only canonical forms, nothing consumed by failures, progress; and for another caller, that a cursor with a shorter array than its own gets a status in every call but raw copies |
| `raw_cursor_reuse` | violation | the raw copies do not: see Findings |
| `documents` | 368,893 | two tasks, failure at every step, three arenas, three identities: ownership, cursors, transactions, and refinement of `DocumentVersions` |
| `lineage` | 34,479 | families of up to four locks out of 46 roots: any two locks pass the evolution check, retired tags stay retired at every depth, acceptance and approvals compose |
| `exchange` | 88,982 | twelve schemas, one a variant, every table of up to two approved writers: messages arrive as approved, other octets are decoded only if canonical, calls are transactions, tags are the writer's; no message is larger than maximum_size says, and the decoder of the Python tools takes what the codec takes |
| `decode_returns` | 1,702 | the loop of Decode ends |
| `visit` | 1,441,178 | over every array of up to three octets, or of a first field and up to four, with callbacks that return or raise and an array that may change: nothing is lent before all is valid; extents lent are apart whatever happens |
| `publication` | 494,376 | two processes, three runs, an edit in between, ends at any step, both may write the same outputs: reports are true, outputs belong together, lowering is exact, and a run that was not crowded left, or saw, all outputs as it says at one moment |
| `shared_temporary` | violation | with two runs that write the same outputs an artifact is partially written: see Findings |
| `preflight` | 229,223 | documents of two levels in two layouts, cut texts and all short texts, each limit low in turn: taken exactly if admissible, and stored as they are |
| `text` | 98,988 | sequences of boundary octets: valid exactly if they are shortest forms of scalar values, and counted right |

Each property has a mutant in `PROJECT.json`: a plausible mistake in a modelled definition under
which the run finds it violated.

**Bounds.** `writer`, `reader` and `raw_cursor_reuse` have `Radix = 2` and `LastGroup = 2`: octets
`0 .. 3`, integers `0 .. 7` in up to three groups, of which the last holds one bit as in the code. That is the
smallest instance with a one-group, a middle and a last group, and with values that overflow
only there. Three tags are enough for order, repetition and a reserved zero. Two cursors
are an outer and a nested one; nesting has two levels in generated codecs for sequences and three for variants,
which `exchange` covers. Four octets of input hold a field whose value holds a delimited element; `exchange` and `visit` add
three octets of a first field in front of all arrays of four.

`exchange` has `LastGroup = 4`, so that `Byte_Count` ends at 31: `Largest` is a lock whose largest message is exactly that
long and `TooLarge`, one octet more, is refused by `Measurable`. The rooms 7, 19 and 31 are below, between and at the
largest sizes of the schemas; these have up to three fields, of each kind the module supports. Foreign octets
include two messages with a variant in which any one octet is changed. `decode_returns` has
three schemas and shorter arrays, because a temporal property multiplies the work. `visit` has `Radix = 4` and one group
after the first, so that octets tell more values of one field apart; the array changes once and in one octet, after which the
second pass meets what the first did not.

In `documents` three addresses let both documents be decoded again at once and one arena wait for reuse; three
identities let the counter end while cursors from before exist. Arena contents are counted, not held, so arenas of one
and of two values suffice. `lineage` has four revisions because a reservation dropped by the second can be abused
by the third and observed against the first; its roots nest variants, enumerations, sequences and optionals one level
below a field.

`publication` has two processes, three runs and one edit: an adapter that is killed between two outputs, an edit, another
adapter beside the first or after it, and a generator or a check. `MaxStarts` and `MaxEdits` are these bounds; `shared_temporary` needs two runs and no edit. Each document differs
from the program it describes in one respect that lowering must notice, or in none. `preflight` has three digits and the bounds 11 and -12
in place of those of 64 bits: numbers of one length that are below, at and above either. Each limit is low in one configuration and ample in the others.
`text` takes every octet at which the code's case distinction changes, and both neighbours, as first and second octet,
and extents that begin or end outside the array.

**Fairness.** Only `FairSpec` of `RecordExchange` has any: weak fairness of the turns of a Decode
and its end. A Decode is sequential code that waits for nothing, so a call that was made keeps running. No fairness is
assumed of callers or of Encode. All other properties are safety properties; `EveryReadMakesProgress` is
the step property behind termination. The processes of `publication` may be killed, so nothing they do is certain to happen.

**Deadlock** is not checked in `writer`, `reader`, `lineage`, `visit`, `publication`, `shared_temporary`, `preflight` and `text`: a caller's
array is full or its input at an end, a family has no revision left, one call has returned, no run is left to start. Elsewhere the callers can always go on.

## 4. Proofs

All theorems hold for every value of the constants that satisfies the named assumptions of the
modules, each of which TLC evaluates in a run:

- `ProfileAssumption`, `TagAssumption`: the radix has at least two values, there is a last group and a first tag, and
  tags are integers of the profile, as `2^29 - 1 <= 2^64 - 1` in the code.
- `PowerAssumption`: powers of `Radix` are positive naturals and each is `Radix` times the one before it. The provers do not know
  exponentiation; this is its definition.
- `WriterAssumption`, `ReaderAssumption`: the caller's array, lengths, tags and values are of the types of the subprograms' parameters,
  and an array is no longer than `Byte_Count` counts.
- `DocumentsAssumption`, `DepthAssumption`, `LocksAssumption`: identities, places and revisions are what their types say.
- `ExchangeAssumption`, `VisitAssumption`: codecs are generated from locks and approvals that the tools take (validate_lock, validate_binding,
  validate_compatible_writers, and maximum_size computed without overflow); an application's item has the components of its Ada record, with any values
  those can hold, of which a Boolean holds two; an identity that is not valid is no lock's; arrays hold octets.
- `LoweringAssumption`, `PublicationAssumption`: bounds of 64 bits; overlays have a list of fields.
- `DocumentAssumption`: the facts of a document that the reviewed checker admits mean what they say, for instance that a component of an
  unrefined range type has the values between its bounds. `LoweredIsExact` is about what lowering makes of true facts; that the extractor states them truly is external.

| Theorem | Property | Inductive invariant and argument |
|---|---|---|
| `TaggedWriterProofs!Types`, `InBounds`, `Disjointness` | `TypeOK`, `CursorsInBounds`, `RegionsApart` | `RegionsApart` alone is not inductive: a write stays clear of the others only if its cursor's room lies in the array. The invariant is the three together. Lemmas say of each write that it either refuses (nothing changed) or stores (so many octets at the cursor, so many taken); one lemma, on a write that takes the front of a cursor's room, then serves all of them. |
| `RefusalsAreClean`, `StoredForGood` | `FailedWritesChangeNothing`, `StoredOctetsStay` | the same lemmas, step by step |
| `ReadsBack`, `Measures` | `StoredReadsBack`, `MeasuredExactly` | a second invariant, `ItemsHold`: what is in the octets of each item stored so far. It is kept because each write puts its value there (the groups of an integer sum up to it) and because of `StoredOctetsStay`; that readers return the same value is one lemma per kind of item |
| `TaggedReaderProofs!Types`, `InBounds`, `OneMeaning`, `Canonical` | `TypeOK`, `CursorsInBounds`, `EveryOctetOnce`, `AcceptedIsCanonical` | `EveryOctetOnce` counts; the invariant names the one item, extent or cursor an octet belongs to (`EachOwned`), and adds that extents lie in the array, that every item is what the array holds there (`ItemsHold`) and that nothing is read after a failure (`Working`). Canonical form: of the encodings of an integer only the one whose last group is not zero is taken, and groups determine the integer |
| `RefusalsConsumeNothing`, `Terminates` | `FailedReadsConsumeNothing`, `EveryReadMakesProgress` | from the lemmas on each read |
| `MetadataDocumentsProofs!Types`, `Ownership`, `CursorsAreBound` | `TypeOK`, `EveryArenaHasOneOwner`, `CursorsPointWhereTaken` | adds that identities below `next` are held by one Decode or document (`Identities`), which locals a stage may have set (`Places`), and where a kept cursor points (`KeptPoints`) |
| `Refinement` | `ImplementsVersions` | each step maps to Publish, Abandon or Drop of `DocumentVersions` or to a stutter |
| `StaleForGood`, `Transactions` | `StaleCursorsStayStale`, `OnlySuccessReplaces` | from the invariant: an identity is published only while no kept cursor can have it |
| `SchemaLineageProofs!Types`, `Ancestry` | `TypeOK`, `AncestorsAgree` | the invariant is that all released locks are valid and any two pass; evolution is shown transitive, place by place |
| `Retirement`, `Composition`, `Resolution` | `RetiredForGood`, `CompatibilityComposes`, `RequirementsCompose` | a place in the first and third lock is in the second (`Between`), by going down the place tag by tag |
| `RecordExchangeProofs!OwnTags` | `AcceptedTagsAreTheWriters` | adds the components of a call (`Shape`) and that its writer is exact or accepted (`Accepted`): an accepted value's tag is in the writer's lock by the rules on prohibited and ignored fields |
| `RecordExchangeProofs!Transactions` | `CallsAreTransactions` | for Decode, that only success changes the item (`Harmless`). For Encode, `Halfway`: there are partial sums of the sizes Measure added up (`Adds_Up`), and what was written so far is as long as the sum of the fields that had their turn, at the front of the room, with everything behind it untouched. So each field finds the room Measure gave it, its header opens an extent just as long as its value, the value fills it (one lemma per kind of field, sequences and variants by induction on their elements and members), and the cursor ends where the room does |
| `RecordExchangeProofs!Types`, `CanonicalItems` | `TypeOK`, `DecodedIsCanonical` | `Right_Decode`: each field seen is valid, is one Encode would send, and what is not seen is still failure_value; if the writer is the codec itself, the octets before the cursor are those of the fields seen, in the order of their tags and without a gap (`Tags_Laid`). One lemma per kind of field says what is read is valid and that its extent holds exactly the octets CanonicalForm has for it; sequences and variants by induction on their elements and members, a variant's members being laid out as fields are. `Spans` states that octets stand between two places of an array, so that parts join without a sum of lengths. At the end the parts laid out are all the octets there were, hence the canonical form; fields supplied instead (defaults, constructions) are within their bounds by validate_lock and validate_approval, so Measure does not refuse the item |
| `RecordExchangeProofs!EncodedIsCanonical` | | `Spelled`, which goes beyond `Halfway`: the octets from the start of the array to the cursor are those of the fields that had their turn, in the order of tags and without a gap, each as CanonicalForm has it. One lemma per kind of field, by induction on elements and members; at the end all included fields had their turn, which makes the octets `Canonical` of the item. A Boolean is where `Truths` is needed: its octet is its number |
| `RecordExchangeProofs!ApprovedArrive` | `ApprovedMessagesArrive` | a second invariant, `OnItsWay`, on top of the first: what was sent is an item its codec could encode, the fields whose turn is yet to come are laid out from the cursor of Decode to the end of its input (`Comes_To`), those seen are the ones of both locks before it, and the candidate has what was sent of each. So the next header is that of the next field (`NextHeader`): the reader has the field too, and reads back the value, or was approved to ignore it, and its octets are within the writer's bounds. No turn fails; at the end the fields not seen are those the writer lacks, and Supplied gives them what `Understood` says. Directional comparison and approval are what makes a field of both locks readable with the reader's bounds |
| `RecordExchangeProofs!MaximumSuffices` | `MaximumIsEnough` | two sums of two programs: what Measure adds up, in thresholds and with overflow, and what maximum_size adds up, by dividing until nothing is left. The maximum of a lock exists, place by place from the deepest up (`MaximumSizes`); an integer takes no more octets than the tools reckon for a larger one (`VarintCovers`); then each value is `Within` its maximum, kind by kind, and so are partial sums of fields, members and elements, which is why none of Measure's additions overflows. A call that failed did so for what Measure and the room had it fail for (`Refused`, inductive on top of the first invariant) |
| `ScopedVisitProofs!Lent` | `LentApart` | adds that extents shown so far have tags up to the last one read and end before the cursor of the second pass (`Passed`); nothing is assumed of the array between two steps but its length |
| `ArtifactPublicationProofs!Truth`, `UncrowdedTruth` | `ArtifactsAreTrue`, `UncrowdedRunWasTrue` | the invariant says what each process has read and made (`Well`, `Lowered`, `Generated`) and that whatever text an output or a temporary file holds, whoever wrote it, was made for that output (`Kept`): that is all `Truth` needs, so it holds however runs overlap. For `UncrowdedTruth`: a run that is not crowded has no other writer of its program beside it (`Alone`), so its temporary file holds what it wrote and what it has replaced is still there (`Progress`); and a check that was never true so far has still to compare an output that differs (`Suspicion`) |
| `ArtifactPublicationProofs!Exactness` | `LoweredIsExact` | every schema on disk was lowered from an admitted document and an overlay; component by component, its bounds are those of the type the document names |

**Induction.** The induction theorems of the library have an operator as a parameter and cannot be used. Instead
`LeastNumber` (a set of naturals with a member has a least one, from the well-foundedness of `<`) gives
`AllNumbers`, an induction over the members of a set. A recursive function is a CHOOSE, so each has a lemma first that a function
with its equation exists (`ElementSumExists` and the like). `GoingDown`, on the length of places, is proved the same way.

**Only model-checked.** Of `CursorReuse`, `EveryArrayGetsAStatus`, which holds of the entry points that validate and is refuted for the raw copies; of `TextField`, `ValidIsScalars`, which is about the value of single bit patterns; of
`ScopedVisit`, `NothingLentUnlessAllIsValid`, which compares two passes with the decoder of the tools; of `MetadataPreflight`, everything: it declares recursive operators, for which there is no prover; of
`RecordExchange`, `ReadersAgree`, which needs the recursion of the tools' decoder.
Liveness (`EveryDecodeReturns`) is out of the provers' reach, as is anything that needs ENABLED.

## 5. Findings

`raw_cursor_reuse`: `Read_Octets` and `Write_Octets`
(`src/src/flyology_wire-profiles-tagged_profile.adb:174` and `:357`) do not validate the cursor
against the array. A cursor used with an array shorter than its limit runs into Ada's index check, after part
of the octets were copied. `src/docs/reviews/0008-profile-1-primitives-review.md:14` says that every
read and write entry point validates and returns a status. Generated codecs use a cursor only with its own array,
so they do not meet this.

`shared_temporary`: `write_or_check` writes to `<output>.tmp` and moves that file to its place
(`src/tools/type_ir_adapter.py:555` to `:557`, `src/tools/generate_ada.py:2964` to `:2966`), without a lock. Two runs
that write the same output use the same temporary file. One writes its text, the other opens the file and so empties it, the
first puts the empty file in place. The other then writes to the file that is now the published one, or never does if it is
killed. `src/docs/decisions/0023-reviewed-type-ir-adapter.md:83` says of the temporary files that "an individual artifact is never
partially written". It holds for runs that do not overlap. Where they overlap, a check can also pass although
the outputs never stood together: it compares the specification of the first run, the second replaces that, the first replaces the body, the check
compares the body. No document says otherwise; `UncrowdedRunWasTrue` therefore speaks of runs that are not crowded.

## 6. Not modelled

- Sequences of several dimensions and user-defined integers' own constraints in generated codecs; text fields within a record
  (`TextField` has one by itself) and in borrowed observation, where the array would have to be of
  octets up to 255 for its check to be more than a choice.
- Approvals below the root's fields: what validate_approval asks at depth.
- JSON: the grammar of locks, bindings, approvals, overlays and Type IR documents, and their closed keys; the JSON library
  behind the metadata documents, which is external.
- Names: identifiers, with clauses, symbols and their lengths, which only make a compiler accept the output.
- Fingerprints and digests: a lock or a document stands for its digest, so collisions do not exist here.
- Of validate_value: the comparison of the octets and scalars of a text (`schema_lock.py:384`; `TextField` assumes it), bit widths and
  the maximum size, where a value has one pair of bounds. Without them the run `lineage` admits more locks, not fewer.
- The handler in Discard of the metadata documents (`wire_metadata_input.adb:57`): releasing an arena's vectors does not raise.
- The conversions between `Byte_Count` and array indexes, which are the identity below
  `Stream_Element_Offset'Last`; the arrays of the runs are shorter.
- Identities as octets (`identities.adb`): conversions of fixed width without state.
- validate_output_paths, the command lines, hashing and the smoke tests.

## 7. Plan

Done, in this order: profile and its callers; documents and their abstract versions; locks and
lineages; record codecs and their exchange; the theorems above; then sizes and stored values of locks, variants, borrowed
observation, lowering and publication, preflight and text.

Left to prove, most important first: `ReadersAgree`, turn by turn of the two decoders; `NothingLentUnlessAllIsValid` of `ScopedVisit`, from the same; `EveryArrayGetsAStatus` of
`CursorReuse` for calls without raw copies; `ValidIsScalars`, if the arithmetic of the
shortest forms can be split small enough.

To model, should the code grow there: sequences of several dimensions in `RecordCodec`, and approvals at depth
against `requirements`.
