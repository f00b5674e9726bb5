# twilic-c in TLA+

TLA+ modules for [twilic-c](../src/README.md), a compact binary encoding whose
encoder and decoder keep tables that grow with the messages: what they are, how
they interact, what TLC checks about them and what TLAPS proves.

`src/...` below is the repository; `protocol.c` is `src/src/protocol.c`, and so
on.  All of it is C++ in `.c` files, single-threaded, with no files and no
network: a codec is an object, an operation runs to its end or throws.

## 1. The system

| component | source | state | operations |
|---|---|---|---|
| Intern tables | `session.c` 9-32 | strings and their ids | `get_id`, `get_value`, `register_value`, `clear` |
| Shape table | `session.c` 34-89 | key lists and their numbers, counts of Map messages seen | `get_id`, `get_keys`, `register_keys`, `observe`, `clear` |
| String values | `protocol.c` 69-80, 221-259, 323-362, 387-442 | `string_table`, `field_enums` | write and read a string in one of five modes, or as an element of a vector of references |
| Maps and shapes | `protocol.c` 30-60, 82-95, 158-193, 364-386, 765-786, 879-906, 1107-1139 | `key_table`, `shape_table`, `encode_shape_observations` | `encode_value`, `decode_value`, `reset_tables`, `reset_encode_shape_observation` |
| State patches | `protocol.c` 699-752, 1065-1097, 1144-1229; `protocol_helpers.c` 217-448 | `previous_message` on both sides | `encode`, `encode_patch`, `decode_message`, `reset` |
| Micro batches | `protocol.c` 570-641, 828-835, 984-1019, 1231-1264; `protocol_helpers.c` 66-89, 593-814 | `templates`, `template_columns`, `next_template_id` on both sides | `encode_micro_batch`, `decode_message` |
| Batches, base snapshots | `protocol.c` 836-843, 1020-1033, 1188-1213; `session.c` 122-145 | `base_snapshots`, `next_base_id` | `encode_batch`, `BaseSnapshot` messages, registration, eviction, patches that name a base |
| Schema objects | `protocol.c` 787-810, 907-960, 1150-1186 | `schemas`, `last_schema_id` | `encode_with_schema` |
| Vector codecs | `codec.c`; selection in `protocol_helpers.c` 16-64, 485-591 | none | `encode_i64_vector`, `decode_i64_vector`, ... |
| Wire primitives | `wire.c` | reader offset | varuint, zigzag, bitmaps |
| v2 format | `v2.c` | key, string and shape tables of one document | `encode_v2`, `decode_v2` |
| C API | `twilic.c`, `twilic.h` | the heap blocks of values, entries and buffers | constructors, `twilic_encode`, `twilic_decode`, `twilic_value_free`, `twilic_buffer_free` |
| Model, errors, dictionary stubs, fixtures | `model.c`, `errors.c`, `dictionary.c`, `interop_fixtures.c` | none | conversions |

**How the parts interact.**  A `TwilicCodec` owns a `SessionState`; a
`SessionEncoder` owns a codec and adds patches, batches and templates.  Two
codecs share nothing but the buffers the application carries from one to the
other, and the buffers do not say which number a key, a string, a key list or a
template was given: each side counts for itself.  So what a component promises
is mostly that *both sides count alike*, and every branch that changes a table
on one side only breaks everything that follows.

**What is hard here** is therefore not concurrency but order: the order in
which one message registers its keys, on which encoding and on which decoding a
key list is promoted, what `previous_message` holds when a patch is made and
when it is applied, a buffer decoded twice or by its own sender (every test of
the repository does the latter), a message that throws half way, a reset
between two messages or on one side only, a buffer that is lost, a peer that
both sends and receives, an allocation that fails in the middle of a copy.
Single-message tests reach none of it.
`PROJECT.json` lists each of these at its line under `hazards`.

## 2. Modules

Read in this order.  A module named `MCx` gives the constants of `x` for TLC;
its `.cfg` files name what is checked.

| module | extends | models |
|---|---|---|
| `InternTable` | | `InternTable` of `session.c`: a table is the sequence of its values |
| `ValueChannel` | | nothing of the code: the abstract channel a string link must be |
| `StringLink` | `InternTable` | the five string modes of `protocol.c`, both string tables, and what makes them differ |
| `StringLinkProofs` | `StringLink` | theorems for all constants |
| `Induction` | | nothing of the code: induction and recursion for the proofs |
| `ShapeTable` | `InternTable` | `ShapeTable` of `session.c` |
| `MapCodec` | `ShapeTable` | one codec on map values: operators from tables to tables |
| `MapCodecProofs` | `MapCodec`, `Induction` | lemmas about one codec: what encoding writes and decoding reads |
| `MapStream` | `MapCodec` | two of them with messages under way |
| `MapStreamProofs` | `MapStream`, `MapCodecProofs` | theorems for all constants |
| `BaseSnapshots` | | `base_snapshots` of `session.c`: registration and eviction |
| `PatchSession` | `MapCodec`, `BaseSnapshots` | state patches, `previous_message` and snapshots on both sides, with the schema objects and batches that change them |
| `PatchSessionProofs` | `PatchSession`, `MapCodecProofs` | theorems for all constants |
| `Columns` | | columns of a batch, null strategies, difference and merge |
| `BatchSession` | `Columns`, `BaseSnapshots` | batches, micro batches and templates of two peers that both send |
| `BatchSessionProofs` | `BatchSession`, `Induction` | columns, masks and merging; what one peer keeps; what two peers agree on; what the cells of a batch are |
| `V2Stream` | `InternTable` | `v2.c`, tag by tag, writer and reader |
| `V2StreamProofs` | `V2Stream`, `Induction` | theorems for all constants |
| `VectorCodec` | | selection, encoding and decoding of integer and string vectors |
| `VectorCodecProofs` | `VectorCodec`, `Induction` | theorems for all constants |
| `CApi` | | `twilic.c` over a heap: who owns which block |

**State.**  `snd` and `rcv` are the session states of the two sides, each a
record (or, in `StringLink`, a sequence) with the fields of `SessionState` the
module is about, under the names of the code.  `log` is what was handed to the
transport; next to the message it holds what the properties compare with (the
value meant, the size of the sender's table at that moment), which no action
reads.  `pos` is how much of `log` the receiver has taken, `out` or `res` the
result of the last decode.  In `BatchSession` both sides send, so `session`
holds a state for each peer and an entry of `log` says whom it is from.
`intact` of `StringLink` is no state of the code: it says whether the receiver
was or will be given everything the sender's table holds.  `PatchSession`
composes with `MapCodec`, so patches are interleaved with the key and shape
tables that the messages they are made of go through.

**Actions.**  An action is one call of the code that runs to its end: `Encode`,
`encode_patch`, `encode_micro_batch`, `Decode` and so on.  There is no other
granularity to choose, because an object is used by one thread and a call keeps
no intermediate state across calls, except the state it leaves when it throws:
`decode_map` therefore returns the tables with everything registered before the
error.  `DecodeAgain` hands a delivered buffer to the receiver a second time,
`DecodeOwn` and `Loopback` let the sender's codec decode its own buffer, which is
what most tests of the repository do and what `encode_patch` silently relies on.
`reset_*` of both sides happens with nothing under way: no message carries a
reset, so the applications must agree on it by other means.

`V2Stream` is the exception: there the recursion over a document is unfolded,
one action per tag, with a stack of frames for the reader and a list of what is
left for the writer.  All of a document is written before it is read.

**Faults.**  The library has no timeouts, retries, sequence numbers or
acknowledgements; the faults are those an application and its transport can
bring about, and the models follow what the code then does:

| fault | modules | what is claimed |
|---|---|---|
| a buffer is delivered or decoded again | every session, any buffer or the last one | no harm to strings, patches and batches: `RedeliveryHarmless`, `PreviousInSync`, `ColumnsAsLastSent`; of maps each side keeps the numbers it has given (`IdsAreForever`), and keys of flat maps still resolve alike (`MapMessagesDecode`), but not their shapes, see section 3 |
| a buffer is lost (`Lose`) | `StringLink`, `PatchSession`, `BatchSession` | strings: harmless if it registers nothing, else the link is broken until both reset; patches: one whose named base arrived still reconstructs; batches: a template is refused or merged from what the peer itself was given |
| a lost buffer comes late (`ReadAgain`) | `StringLink` | as redelivery |
| one side resets, or is a new process (`reset_sender`, `reset_receiver`, `reset`) | `StringLink`, `BatchSession` | strings: the link is broken; batches: columns still come from the last buffer that carried them |
| a message that throws half way | `MapStream`, `PatchSession`, `BatchSession` | what was registered before the error stays, the rest is as before |
| an allocation fails | `CApi` | no block is lost, freed twice or followed through `NULL` |

In `BatchSession` the peers take turns: a peer sends when it has taken what the
other sent.  Buffers that cross on their way are not covered; each side then
numbers templates before it knows the other's, and nothing in the code would
keep the two apart.

**Data.**  Strings are sequences of characters from a small set where prefixes
matter (`StringLink`, string vectors) and model values or TLA+ strings elsewhere;
an atom of a map value is a name with the size `estimate_value_size` gives it.
Integers of vectors have `W` bits, wrap around where the code's differences do
(signed overflow is undefined there; the builds of the repository wrap), and the
thresholds 60, 61 and 64 of the selection become `W - 4`, `W - 3` and `W`.
In `CApi` a pointer is a block of the heap or `NULL`, a struct is what it points
to, and an application is any that uses a struct no more once an entry has it
and never overwrites one it has not freed.

## 3. What the runs show

All runs are exhaustive within their bounds.  `pass` runs:

| run | module | properties | shows |
|---|---|---|---|
| `string_link` | `MCStringLink` | `TypeOK` `TablesInSync` `RegisteredOnce` `RedeliveryHarmless` `ImplementsChannel` | both tables number strings alike and every read returns the string written, until a registration is lost or one side resets, and again after both have |
| `map_stream` | `MCMapStream` | `TypeOK` `OwnMessagesDecode` `MapMessagesDecode` `IdsAreForever` `LiteralKeyOnce` | what ids do guarantee, in spite of the two findings below |
| `patch` | `MCPatchSession` | `TypeOK` `PreviousInSync` `PatchesReconstruct` `SnapshotsHeld` `VectorsSentInFull` `ShrinkingFails` | patches work if the sender decodes what it sends, also between batches, schema objects and snapshots; exactly which of them fail; which snapshots can be named |
| `batch` | `MCBatchSession` | `TypeOK` `ColumnsAsLastSent` `LayoutsInSync` `RefusedAfterLoss` `OneTemplatePerLayout` `CellsReadable` | templates of two peers under loss, redelivery and a reset of one of them |
| `v2` | `MCV2Stream` | `TypeOK` `TablesInSync` `Roundtrip` `LiteralOnce` `Returns` | documents without long keys come back, and every call ends |
| `vector_codec` | `MCVectorCodec` | `TypeOK` `NeverWrong` `FailsOnOverflowOnly` `FramePays` | no codec returns other numbers; which vectors fail |
| `c_api` | `MCCApi` | `TypeOK` `OneOwner` `OnlyEmptied` | every block has one owner and can be freed once, whichever allocation fails |

`violation` runs, each with one property the repository promises and the code
does not keep; TLC prints the shortest sequence of calls:

| run | property | what happens |
|---|---|---|
| `map_stream_shape` | `RemoteDecodes` | the second map with the same keys is a `ShapedObject`; the receiver has seen one `Map` message, knows no shape yet and throws |
| `map_stream_nested` | `RemoteNeverWrong` | keys of nested maps are registered in another order on each side; a later key id names another key, without an error |
| `patch_stale` | `PatchesReconstruct` | `encode_patch` does not update the sender's `previous_message`: the second patch in a row is applied to another base |
| `batch_stale` | `TemplatesInSync` | a column whose estimated size did not change is not sent |
| `v2_long_keys` | `Roundtrip` | a key of more than 31 bytes shifts the reader's string numbers |

All five were reproduced with the compiled library, and so were three more that
have no run of their own.  `FailsOnOverflowOnly` marks one: for a vector of eight
zeros and two times the smallest 64-bit integer the library selects
`DeltaDeltaBitpack`, whose decoder refuses what its encoder wrote ("delta-delta
overflow").  The property says that this is the only way an integer vector can
fail.  Another is that maps with different keys are patched by position
(`protocol_helpers.c:378`): the receiver keeps the old keys.  `PatchesReconstruct`
fails as soon as `Values` of `MCPatchSession` holds two maps with different keys;
the run uses maps with the same keys.  The third is what a second delivery of a
`Map` message does to shapes (`protocol.c:94`): after `{b: 1}`, `{a: 1}`, `{b: 1}`,
of which the third is a `ShapedObject`, a receiver that was handed the second one
twice has given shape 0 to the keys of `{a: 1}` and decodes the third as `{a: 1}`.
`RemoteNeverWrong` fails so too, with these two maps as `Maps`.

`TypeOK` says more than types where the state has a shape to keep: ids in order
and below their counter, templates that describe their columns, frames that never
hold more than they asked for, structs whose reader never follows `NULL`.

**The bounds.**  `MaxSent` is three or four messages between two resets.  The
interactions in this code take a message that registers, one that refers to it
and one that another side's mistake would hit: three messages; the fourth allows
for a redelivery or promotion in between.  The message and value sets are chosen
for the branches:

- *strings*: a string of five bytes, one that shares exactly four with it (the
  threshold of `protocol.c:246`), one that extends it, one that shares three and
  is an enum value, the empty one; the receiver's enum table is longer than the
  sender's; a broken link is followed for tokens up to the second (`MaxBroken`):
  that is enough for a reference to an id the receiver does not have or has given
  to another string;
- *maps*: the same keys in both orders, a nested map with a new key, a map that
  refers to a key given earlier; `map_stream_*` use the smallest set that shows
  the disagreement;
- *patches*: one field more, one or two less, a changed one; a typed vector; maps that
  become shaped; sizes on both sides of the size comparison; a schema with the
  keys of the maps in another order and one of its own; batches of rows, micro
  batches below and at sixteen rows; two snapshots at most (`MaxBaseSnapshots`)
  among ids that batches also take; the first buffer may be lost (`MaxLost`);
  after it the properties claim only what a named snapshot guarantees;
- *batches*: two, four and sixteen rows (the thresholds are a quarter of nulls
  and sixteen rows), equal and unequal sizes, mixed columns; rows that are maps,
  arrays, scalars, nulls and maps without keys, sixteen of those too, which make
  a column batch without columns; three buffers from
  either peer, one of them lost, and a reset of one peer after the first buffer
  (`MaxResets`);
- *v2*: integers next to every boundary between tags, all documents of two
  levels and some of three over two keys and two strings, one of which is a key;
- *vectors*: `W = 8`; all vectors of up to four over the extremes and the numbers
  next to zero, all of eight over two extremes, vectors rising by two steps in
  turn modulo 2^8.  The library selects each of its integer codecs and each of its
  three string codecs for some of them; an application may choose any codec for
  any vector;
- *C interface*: two variables, one entry, five blocks, containers of two levels,
  one failing allocation at any place of any call: a map of an array of a string
  takes four blocks, key included, and the fifth is a buffer or another string
  next to it.

**Fairness.**  Nothing in the library runs by itself: a call ends or throws, and
whether the application makes another one, or the transport delivers, is not the
library's to promise.  So wherever a call is one action there is no fairness and
no liveness property.  In `V2Stream` a call is many actions, and `WF_vars(Step)`
says that a call that can go on does: it runs on one thread, takes no lock and
waits for nothing.  `NextDocument`, the application calling again, has no
fairness.  `Returns` states that every call then ends with the document: the
nested loops over rows, entries and elements leave every value, and the reader
never waits for a tag that does not come.  The check for deadlock stays on in
every run.

## 4. What is proved

TLC shows a property for the constants of a run; the theorems hold for all of
them, and without the bounds: `MaxSent`, `MaxLost` and `MaxResets` are any
numbers.  Every property of the runs `string_link`, `map_stream`, `patch`, `batch` and
`vector_codec` is proved, of the run `v2` every invariant, of `c_api` none.

| module | theorem | statement | hypotheses |
|---|---|---|---|
| `StringLinkProofs` | `TypeCorrect` | `Spec => []TypeOK` | |
| | `Sync` | `Spec => []TablesInSync` | |
| | `RegisterOnce` | `Spec => []RegisteredOnce` | |
| | `Redelivery` | `Spec => RedeliveryHarmless` | |
| | `Implementation` | `Spec => ImplementsChannel` | |
| `MapStreamProofs` | `CodecsTyped` | `Spec => []TypeOK` | |
| | `NumbersStay` | `Spec => IdsAreForever` | |
| | `LiteralsOnce` | `Spec => []LiteralKeyOnce` | |
| | `OwnMessages` | `Spec => []OwnMessagesDecode` | `KeysTellApart` |
| | `MapMessages` | `Spec => []MapMessagesDecode` | |
| `PatchSessionProofs` | `DiffApplied` | what `apply_ops` makes of `diff_fields` | |
| | `VectorsAreFull` | `Spec => []VectorsSentInFull` | |
| | `SnapshotsAtReceiver` | `Spec => []SnapshotsHeld` | |
| | `SessionTypes` | `Spec => []TypeOK` | `OneKeyList` |
| | `PreviousAgrees` | `Spec => []PreviousInSync` | `OneKeyList`, `LoopsBack` |
| | `PatchesReachTheValue` | `Spec => []PatchesReconstruct` | `OneKeyList`, `LoopsBack` |
| | `FailsWhenShrinking` | `Spec => ShrinkingFails` | `OneKeyList`, `LoopsBack` |
| `BatchSessionProofs` | `MergeSent` | what `merge_template_columns` returns | |
| | `ColumnReadsBack` | a cell of a column, from its bitmap and what `strip_nulls` left | |
| | `ColumnsKept` | `Spec => []ColumnsAsLastSent` | |
| | `SessionsTyped` | `Spec => []TypeOK` | |
| | `Refusals` | `Spec => []RefusedAfterLoss` | |
| | `LayoutsAgree` | `Spec => []LayoutsInSync` | |
| | `OneNumberEach` | `Spec => []OneTemplatePerLayout` | |
| | `CellsRead` | `Spec => []CellsReadable` | |
| `V2StreamProofs` | `FramesBounded` | `Spec => []TypeOK` | |
| | `LiteralsOnce` | `Spec => []LiteralOnce` | |
| | `TablesStaySynced` | `Spec => []TablesInSync` | `KeysAreShort` |
| | `DocumentsReturn` | `Spec => []Roundtrip` | `KeysAreShort` |
| `VectorCodecProofs` | `Zigzag` | `decode_zigzag` inverts `encode_zigzag` | |
| | `VectorsReturn` | `Spec => []NeverWrong` | |
| | `OverflowFails` | `Spec => []FailsOnOverflowOnly` | |
| | `WidthsFit` | `Spec => []TypeOK` | |
| | `FramesPay` | `Spec => []FramePays` | |

**Assumptions on the constants.**  They are stated with `ASSUME` in the module
that declares the constant, and TLC evaluates them in the runs.

- `StringLink`: a string is a finite sequence of characters, a field is not
  `NoField`, and under every field the receiver's enum values begin with the
  sender's, which the application promises when it registers them on both sides.
- `MapStream`: `MapsAreMaps`, a map is a sequence of fields.
- `BatchSession`: `TwoPeers`; `RowsAreSequences`, the rows of a batch and the
  entries of each row are sequences; `OneNull`, there is one null value.
- `BaseSnapshots`: `SnapshotsBounded`, the limit is a number (zero included).
- `PatchSession`: atoms have sizes and types, values are flat arrays and maps,
  snapshots are arrays, and the errors are no messages (`ResultsTellApart`).
- `V2Stream`: documents are values nested `Depth` deep at most, for any number
  `Depth`, and an error is no value.  The library has no such bound, but a value
  in memory is a finite tree.
- `VectorCodec`: integers have `W > 4` bits, vectors hold integers of that width
  or strings, strings come at most 2^W at a time (a `size_t` counts them), and
  errors are not vectors.

**Hypotheses of single theorems** are conditions under which the code keeps what
the theorem says, and without which it does not; each is met by the run that
checks the property.

- `KeysTellApart`: no map repeats a key and no two key lists have one
  `shape_key`.  Otherwise a shaped map comes back with other keys
  (`session.c:37`) or other values (`protocol.c:47`).
- `OneKeyList`: all maps that are sent have the same keys.  Otherwise a map is
  patched by position and the receiver keeps the old keys
  (`protocol_helpers.c:378`).
- `LoopsBack`: the sender decodes what it sends.  Otherwise its second patch in a
  row is made from a message the receiver no longer has: the run `patch_stale`.
- `KeysAreShort`: no key has more than 31 bytes.  Otherwise the reader of v2
  gives it a string number that the writer does not: the run `v2_long_keys`.

`VectorsAreFull` and `SnapshotsAtReceiver` need none of them, nor do
`FramesBounded` and `LiteralsOnce`.

### Recursion

What the code computes by a loop, the modules write with a recursive function or
a fold: `RegisterAll`, `read_entries`, `apply_ops`, `patch_size`,
`OtherSnapshots`, `key_order`, `undelta_values`, `rle`.  `Induction` has what is
needed to speak of them for inputs of any length.  `Smallest` takes the smallest element of a set of
numbers from the well-foundedness of finite sets, and `UpTo` is induction from
it: a set that holds 0 and, with each number below `n`, the next one, holds all
of them.  The sets are passed as constants, not as operators, which is what the
provers can instantiate.  `Iteration` then shows that a recursion over `0..n`
defines a function, so that the recursive functions of the modules are what
their equations say.  A lemma such as `RegisterTurns`, `ReadTurns` or
`ApplyTurns` turns a computation into the sequence of its intermediate results,
and the invariant of the loop is proved along it, from `UpTo` or `StaysIn`.

### The string link

A link that is broken promises no more than types, so the inductive invariant is
`IInv == TypeOK /\ (intact => InStep)`.  For a broken link it is enough that a
table of strings stays one whatever is decoded (`ReadTyped`, `TablesTyped`).
What has to be shown of an intact one is that an action either keeps `InStep` or
breaks the link: `Lose` keeps it if the token registers nothing, because then the
sender's table had not grown (`LoseStep`), and `write_string_ref` if the string
has its id already (`WriteRefStep`).

`TablesInSync` says that the receiver's table is the sender's table at the token
read or lost last, and is not inductive: to conclude that one more `Read` keeps
it, one has to know what the token *says*.  `TokenOK(i)`, a part of `InStep`, is
that knowledge: token *i*, read with the first `SizeAfter(i - 1)` entries of the
sender's table, stands for the string it was written for, and the table then
grew by that string exactly if the token registers.  It stays true because a
table only grows, at its end (`SaysStable`).  `SizesOK` orders the sizes, so that
a token sent earlier never needs more of the table than one sent later, which is
what a redelivery, a late delivery and a loopback need; `Distinct` makes
`register_value` of a known string a stutter and `get_id` the inverse of
`get_value`.  With these, `ReadToken` computes what `read_string_value` returns
for any token the log can hold, `ReadStep` and `LoopbackResult` use it for the
receiver and the sender, `WriteStep` shows that the five branches of
`write_string` establish `TokenOK`, and `Implementation` reads the refinement off
the same facts: `ValueChannel` promises values in order while `intact`, and may
be told at any step that it is not, but never without a reset that it is again.

### Maps

`MapCodecProofs` is about one codec and any input: `CodecOK` (tables without
repeats, shapes that are inverse to their numbers), `Grown` (a later codec
numbers what an earlier one did alike) and `Says(msg, map, c)`: to codec `c`,
`msg` means `map`.  `MapEncoded` shows that what `encode_map` writes says the map
to the encoder, nested maps and promotion to a shape included; `StillSays` that
it goes on saying so as the codec grows; `OwnDecoded` and `ReadKnown` that who
has the keys reads the map and registers nothing.

The invariant `Inv` of `MapStreamProofs` is that every message in the log says
its map to the sender's present codec; `Grown` makes it inductive, and with it
`OwnMessages`, `NumbersStay` and `LiteralsOnce` follow step by step.
`MapMessagesDecode` speaks of the receiver, whose table is an earlier one of the
sender's, so the sender's present one is not enough: `InStep` adds that there is
a history `seen` of the sender's tables, one after each message (`Tracks`), that
a flat message takes a reader from each to the next, and that the receiver has
`seen[pos]` as long as all messages were flat.  That last condition is why the
run `map_stream_nested` is a violation.

### Patches

`DiffApplied` follows the loop (`Halfway`): after *k* operations the first *k*
fields are those of the target and the others still those of the base, and each
deletion has made the base one shorter.  The deletions of a difference name the
fields after the target's last, each one further, while the list shrinks: the
second finds nothing at its place.

`EncodesSends` sums up the seven calls that send: each sends a message that
carries its value to a reader with the sender's key table (`Carries`), a patch
that is smaller than that message or names a snapshot, a template message or a
snapshot.  `TInv` is the type part: both sessions well formed, every entry of the
log one of these, and the sender's previous message and snapshots those of the
last entry.  It gives `VectorsAreFull`.

`SnapshotsHeld` is not inductive, because the two sides evict at different times:
the sender also registers batches, which the receiver does not.  `HInv` says of
each snapshot the sender can name that the receiver has it *and* that whatever
the receiver registered after it, the sender registered after it too, so that
the sender drops it no later.  It holds of the snapshots that arrived even after
losses, and `BInv` takes from it that a patch to one of them reconstructs its
value.

`SyncInv` adds that the sender's previous message fits its shape
(`PrevSendable`; keeping it through a patch takes `OneKeyList`), that
each entry of the log is such that a session with the previous message and the
key table of the entry before is left with those after it (`LogSync`, which needs
`LoopsBack`), and that without a loss the receiver is such a session
(`ReceiverSync`).  `TurnFirst` and `TurnAgain` are the step, for a buffer taken
for the first time and again: a patch is applied again to its own result, which
changes nothing if it deletes nothing (`DiffAgain`) and fails if it does, with
nothing changed either.

### Batches

`MergeSent` is the lemma about the cursor of `merge_template_columns`: the *k*-th
column that travels is the one of the *k*-th set bit.

`TInv` of `BatchSessionProofs` contains `ColumnsAsLastSent` itself with what it
takes to go through a step: descriptors describe the columns, a template message
names a number the sender knows with as many columns, what a peer knows under a
number was given by a buffer that it sent or took since it was new, and has as
many columns as the last of them (`KnownAsGiven`), and the last buffer, judged
again, would be judged alike (`JudgedAgain`), which is what a redelivery needs.  `SnapshotsKept` is separate: the base snapshots are the last
ones registered, consecutively numbered.

`InStep` is what no loss means for two peers that both give
out numbers: with nothing under way both have the same layouts; otherwise each
buffer under way was sent from the templates the one before leaves, and the peer
that will take the first of them is where its sender was.  `LayoutsAgree` and
`OneNumberEach` follow.  For `Refusals` the verdicts themselves are part of the
induction (`JudgedInductive`): a verdict once right stays right as more is lost.
A buffer is found invalid where its number means a template of fewer columns to
the peer that takes it; that takes a loss, and the run has batches of one and of
two columns so that it happens.

`CellsReadable` speaks of what the application gave, not of the columns: the cell
of a row under a key is the value of the row's field, wherever the row has it,
and absent if it has none.  `ColumnReadsBack` is the lemma about one column:
whichever of the four null strategies `apply_null_strategy` takes, the bits of
the bitmap find the values that `strip_nulls` left.  It rests on `TakenAll`, that
a loop that keeps some items keeps as many as there are bits before a place.
The rest leads from the values to that column: `ColumnsMade` says which columns
a batch makes, `OneCell` and `MapCells` that a map which repeats no key puts one
cell into the column of each.  A map that holds a null or a key twice is outside
(`Readable`): the null is marked present though its value is stripped
(`protocol_helpers.c:710`), the key puts two cells into its column
(`protocol.c:47`).

### Documents

A writer that is done is a list of tokens, and the reader's frames are nowhere in
it.  The invariant `Followed(h)` joins the two by a history `h`, for every point
of the writing, of what was then left to write: `Traced` says that each token is
the one the writer emits from there, with the tables it then had, and
`MatchedOn` that after `pos` tokens what the reader's frames still want is
exactly what was left at that point.  `Rest(v)` is what a container is written
as after its tag: the entries of a map, the elements of an array, or the keys of
a shape and then the cells of its rows.
`WriterStep` extends the history by one point.  On the reader's side
`NextItem` shows that what a frame wants next is the head of its rest and
`TakeItem` that it then wants the tail; opening a container puts its rest in the
item's place (`Opened`), and when nothing of that is left its value counts as
the item (`Returned`).  `FrameMakes` says that a complete frame makes the value whose
items it got: for the rows of a shape it is the arithmetic of `EqualParts`, that
row *i* of *k* cells begins at `(i - 1) * k`.

`FramesBounded` needs counts and keys only, which match whatever the keys are.
A long key shifts the numbers of strings: that strings and values match
(`StringRead`) is where `KeysAreShort` enters;
`ScalarRoundtrip` then is the case of every integer tag, and `Finished` compares
the last value with `Normal[doc]`, a recursive function whose equation
`NormalSteps` derives from the depth of the document.

### Vectors

`Wraps` and `Differences` are about the arithmetic: wrapping around changes a
number by a multiple of 2^W, so that the wrapped sum of a number and of a
difference that fits is the number again, and `Zigzag` says that `decode_zigzag`
inverts `encode_zigzag` for every width.  On these rest the codecs, each by an
invariant of its loop: `SumsOf` and `Undelta` (the partial sums of the
differences of a vector are the vector, and fail exactly where one is out of
range), `SignedFrame` and `UnsignedFrame` (the distance from the least element
fits into the bits computed for the largest, and takes fewer than `W - 2` of them
if the span the selection compared was small, wrapped around or not),
`DeltaDelta`, `RunLengths`, `Dictionaries` and `PrefixDeltas`.  `BitWidth` bounds
what a number of bits can hold.  `Inv` says where `codec`, `buf` and `res` come
from, and `SignedVector`, `UnsignedVector` and `StringVector` go through the
codecs once for all four properties.

### What is only model-checked

`Returns` of `V2Stream` is liveness, which the prover does not reach: what is
proved is that the document is right when the call ends, not that it ends.
The properties of `CApi` are checked by TLC only.  The module walks trees with
`RECURSIVE` operators, as `to_cpp_value`, `from_cpp_value` and
`twilic_value_free` do, and hands the heap from one branch to the next; the
prover has no arithmetic in a module with such operators.

The `violation` runs need no proof: one behaviour refutes a property.

## 5. What is not modelled

- Damaged, truncated or foreign buffers.  Inputs of a decoder are the messages an
  encoder of the same library made, possibly lost, repeated or taken by their own
  sender.
- Bytes.  A varuint is its number, a bitmap its bits; lengths matter only in
  the size estimates that decide something (`encoded_size`,
  `estimate_column_size`), which are modelled.
- Floating-point vectors (bits are copied), boolean bitmaps, binary values.
- `register_with_id`, `AppendVector`, `TruncateVector` and `ReplaceVector`:
  nothing in the library calls or emits them, only an application that builds
  messages itself.
- `Control` messages: the type exists, writing one throws and nothing reads one.
- Base snapshots whose payload is another message than an array.
- The stored schemas: `encode_with_schema` keeps them and nothing reads them.
- Trained dictionaries and control streams: stubs that return their input.
- Failing allocations of the C++ library (`bad_alloc`), and applications that
  leave blocks allocated.  The quick start of the repository's README is one: it
  never frees its entries, for which the interface has no function.
- The data model, errors, fixtures: no state, conversions only.

The empty key and keys with a zero byte, for which `shape_key` is not injective
(`session.c:37`), and repeated keys in a map are outside the sets the runs use;
`hazards` in `PROJECT.json` says so at their lines.  The `shape_key` of `v2.c:53`
joins keys in the same way; `V2Stream` numbers shapes by the key list itself.
Its reader stores shapes and never looks one up, so no value depends on it.

## 6. Plan

1. Done: the core (strings, maps and shapes), patches with snapshots, schema
   objects, batches of two peers, v2, vectors, the C interface; the string link
   with its faults proved.
2. Left to model: buffers that cross on the way between two peers of
   `BatchSession`; loss and a reset of one side in `MapStream`, where today a
   buffer can only be repeated; keys of a map in the prefix and string tables of
   one codec together (`MapStream` and `StringLink` are composed nowhere).
3. Proved: the streams of maps, patches, batches with their cells, v2 documents
   and vectors, with what `Induction` makes provable about recursive functions.
4. Left to prove: `CApi`, with its trees bounded in depth and walked by recursive
   functions, as `V2Stream` has its documents.
