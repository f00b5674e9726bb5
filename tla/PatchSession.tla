---------------------------- MODULE PatchSession ----------------------------
(***************************************************************************)
(* State patches between a SessionEncoder and a TwilicCodec.  The encoder  *)
(* sends a value in full or as a StatePatch, the operations that turn the  *)
(* previous message into it; the receiver applies them to its own previous *)
(* message.  No field of the patch says which message that is: both sides  *)
(* must have kept the same one.  SessionEncoder::encode and encode_patch   *)
(* do not keep what they send; the encoder's previous message moves only   *)
(* when it encodes through encode_value or encode_batch or decodes a       *)
(* buffer itself, as the tests do with their own.                          *)
(*                                                                         *)
(* An application may also send a BaseSnapshot, a message under an id of   *)
(* its choice, and patches that name the id; encode_batch registers its    *)
(* batches among the snapshots too, under ids counted from zero and on the *)
(* encoder's side only.  Schema objects and batches matter here for what   *)
(* they do to the previous message and the snapshots: a batch is no more   *)
(* than its kind, its rows are BatchSession's matter, and a micro batch    *)
(* has all its columns.  The transport keeps the order, may lose a buffer  *)
(* and may deliver the last one again.                                     *)
(***************************************************************************)
EXTENDS MapCodec, BaseSnapshots, Integers

CONSTANTS Values,        \* the values the application sends, see below
          Size,          \* estimate_value_size of the atoms, by name
          Type,          \* their ValueKind, by name
          SnapshotIds,   \* the ids the application gives its snapshots,
          SnapshotValues,  \* and the arrays it sends as such
          Schemas,       \* of each schema id, the names of its fields
          Batches,       \* the kinds of the batches it sends
          MicroBatches,  \* and the sizes of its micro batches
          LoopsBack,     \* TRUE: the sender decodes each buffer it sends
          None,          \* no message, nothing decoded yet
          InvalidData,   \* a decode failed with invalid_data
          MaxSent,       \* bound: messages sent between two resets
          MaxLost        \* bound: how many, the first ones, may be lost

\* An atom, and an entry of a value; the items of an array have no keys.
Atoms   == [atom : DOMAIN Size, entries : {<< >>}]
Entries == [key : Key, val : Atoms]

ASSUME AtomsSized ==
    /\ Size \in [DOMAIN Size -> Nat] /\ "null" \in DOMAIN Size
    /\ DOMAIN Type = DOMAIN Size
ASSUME ValuesAreFlat ==
    Values \subseteq [kind : {"array", "map"}, entries : Seq(Entries)]
ASSUME SnapshotsAreArrays ==
    SnapshotValues \subseteq [kind : {"array"}, entries : Seq(Entries)]
ASSUME SchemasNameKeys == \A id \in DOMAIN Schemas : Schemas[id] \in Seq(Key)
ASSUME BatchesAreBatches == Batches \subseteq {"RowBatch", "ColumnBatch"}

\* The messages that stand alone, and what is none.
Messages == [kind   : {"Array", "TypedVector", "Map", "ShapedObject",
                       "SchemaObject", "RowBatch", "ColumnBatch"},
             keys   : Seq(Key),
             shape  : Nat \cup DOMAIN Schemas,
             type   : {""} \cup {Type[a] : a \in DOMAIN Type},
             fields : Seq(Atoms)]

ASSUME ResultsTellApart ==
    /\ InvalidData \notin Messages /\ UnknownReference \notin Seq(Entries)
    /\ "ok" \notin {None, InvalidData, UnknownReference}

VARIABLES snd,     \* the sender's codec and previous_message
          rcv,     \* the receiver's
          log,     \* the buffers sent: the message each stands for, the
                   \* sender's previous message and snapshots after it
          pos,     \* how many of them left the transport
          res      \* what the receiver's last decode_message did

vars == << snd, rcv, log, pos, res >>

-----------------------------------------------------------------------------
(* Messages.  A value is an array of atoms or a map of atoms; what remains *)
(* of its message once key ids are resolved is a head and the fields.      *)

Item(v)        == Entry(<< >>, v)
ArrayOf(items) == [kind |-> "array", entries |-> items]
MapOf(entries) == [kind |-> "map", entries |-> entries]

Full(kind, keys, shape, type, fields) ==
    [kind |-> kind, keys |-> keys, shape |-> shape, type |-> type,
     fields |-> fields]

\* try_make_typed_vector: at least four elements of one scalar type.
IsTypedVector(items) ==
    /\ Len(items) >= 4
    /\ \E t \in {"I64", "U64", "Bool", "F64", "String"} :
          \A i \in DOMAIN items : Type[items[i].atom] = t

array_message(codec, items) ==
    [codec |-> codec,
     msg   |-> IF IsTypedVector(items)
               THEN Full("TypedVector", << >>, 0, Type[items[1].atom], items)
               ELSE Full("Array", << >>, 0, "", items)]

\* The message as it is sent; a map's is that of MapCodec.
message_for_value(codec, value) ==
    IF value.kind = "map" THEN message_for_map(codec, value.entries)
                          ELSE array_message(codec, ValsOf(value.entries))

message_fields(msg) ==
    CASE msg.kind = "Map"          -> ValsOf(msg.entries)
      [] msg.kind = "ShapedObject" -> msg.vals
      [] OTHER                     -> msg.fields

\* The message as previous_message keeps it, with the keys of value.
Kept(msg, value) ==
    CASE msg.kind = "Map" ->
             Full("Map", KeysOf(value.entries), 0, "", ValsOf(value.entries))
      [] msg.kind = "ShapedObject" ->
             Full("ShapedObject", << >>, msg.shape, "", msg.vals)
      [] OTHER -> msg

Patchable == {"Array", "Map", "ShapedObject", "SchemaObject", "TypedVector"}

\* encode_with_schema: the first entry of each name, null for none.
SchemaField(map, name) ==
    LET at == {i \in DOMAIN map : map[i].key = name}
    IN  IF at = {} THEN Null ELSE map[Min(at)].val

SchemaObject(id, map) ==
    Full("SchemaObject", << >>, id, "",
         [i \in DOMAIN Schemas[id] |-> SchemaField(map, Schemas[id][i])])

\* Messages that no patch can rebuild; message_fields gives them none.
Batch(kind)         == Full(kind, << >>, 0, "", << >>)
TemplateBatch(n)    == [kind |-> "TemplateBatch", count |-> n, fields |-> << >>]
BaseSnapshot(id, m) == [kind |-> "BaseSnapshot", base_id |-> id, payload |-> m,
                        fields |-> << >>]

supports_state_patch(base, msg) ==
    /\ base # None
    /\ base.kind = msg.kind
    /\ base.kind \in Patchable
    /\ base.kind = "TypedVector" => base.type = msg.type

-----------------------------------------------------------------------------
(* The patch. *)

Keep(i)       == [opcode |-> "Keep", field_id |-> i, val |-> Null]
Replace(i, v) == [opcode |-> "ReplaceScalar", field_id |-> i, val |-> v]
Insert(i, v)  == [opcode |-> "InsertField", field_id |-> i, val |-> v]
Delete(i)     == [opcode |-> "DeleteField", field_id |-> i, val |-> Null]

HasOpValue(op) == op.opcode \in {"ReplaceScalar", "InsertField"}

\* Mutant: fields past the shorter list are inserted or deleted one late.
diff_skips_first_extra(a, b) ==
    [i \in 1..Max({Len(a), Len(b)}) |->
        IF i <= Len(a) /\ i <= Len(b)
        THEN IF a[i] = b[i] THEN Keep(i - 1) ELSE Replace(i - 1, b[i])
        ELSE IF i <= Len(b) THEN Insert(i, b[i]) ELSE Delete(i - 1)]

\* Mutant: values of one kind are taken for equal.
diff_compares_kinds(a, b) ==
    [i \in 1..Max({Len(a), Len(b)}) |->
        IF i <= Len(a) /\ i <= Len(b)
        THEN IF Type[a[i].atom] = Type[b[i].atom] THEN Keep(i - 1)
                                                  ELSE Replace(i - 1, b[i])
        ELSE IF i <= Len(b) THEN Insert(i - 1, b[i]) ELSE Delete(i - 1)]

\* diff_message on the fields of both messages.
diff_fields(a, b) ==
    [i \in 1..Max({Len(a), Len(b)}) |->
        IF i <= Len(a) /\ i <= Len(b)
        THEN IF a[i] = b[i] THEN Keep(i - 1) ELSE Replace(i - 1, b[i])
        ELSE IF i <= Len(b) THEN Insert(i - 1, b[i]) ELSE Delete(i - 1)]

\* Mutant: a field that is already there is inserted before, not replaced.
apply_inserts(acc, op) ==
    IF op.opcode = "Keep" \/ acc.failed THEN acc
    ELSE IF HasOpValue(op)
         THEN IF op.field_id <= Len(acc.fields)
              THEN [acc EXCEPT !.fields = InsertAt(@, op.field_id + 1, op.val)]
              ELSE [acc EXCEPT !.failed = TRUE]
    ELSE IF op.field_id < Len(acc.fields)
         THEN [acc EXCEPT !.fields = RemoveAt(@, op.field_id + 1)]
         ELSE [acc EXCEPT !.failed = TRUE]

\* One turn of the loop of apply_state_patch.
apply_op(acc, op) ==
    IF op.opcode = "Keep" \/ acc.failed THEN acc
    ELSE IF HasOpValue(op)
         THEN IF op.field_id < Len(acc.fields)
              THEN [acc EXCEPT !.fields[op.field_id + 1] = op.val]
              ELSE IF op.field_id = Len(acc.fields)
              THEN [acc EXCEPT !.fields = Append(@, op.val)]
              ELSE [acc EXCEPT !.failed = TRUE]
    ELSE IF op.field_id < Len(acc.fields)
         THEN [acc EXCEPT !.fields = RemoveAt(@, op.field_id + 1)]
         ELSE [acc EXCEPT !.failed = TRUE]

\* rebuild_message_like: the head of the base with other fields.
rebuild_message_like(base, fields) ==
    IF \/ base.kind \notin Patchable
       \/ base.kind = "Map" /\ Len(fields) > Len(base.keys)
       \/ base.kind = "TypedVector"
             /\ \E i \in DOMAIN fields : Type[fields[i].atom] # base.type
    THEN InvalidData
    ELSE [base EXCEPT !.fields = fields,
                      !.keys = IF base.kind = "Map"
                               THEN SubSeq(@, 1, Len(fields)) ELSE @]

\* The loop, over the fields of the base.
apply_ops(fields, ops) ==
    LET acc[n \in 0..Len(ops)] ==
            IF n = 0 THEN [fields |-> fields, failed |-> FALSE]
            ELSE LET before == acc[n - 1]
                 IN  apply_op(before, ops[n])
    IN  acc[Len(ops)]

apply_state_patch(base, ops) ==
    LET acc == apply_ops(base.fields, ops)
    IN  IF acc.failed THEN InvalidData
                      ELSE rebuild_message_like(base, acc.fields)

-----------------------------------------------------------------------------
(* Sizes: encoded_size of the messages that can be patched, for lengths of *)
(* less than 128.                                                          *)

Total(sizes) ==
    LET sum[n \in 0..Len(sizes)] ==
            IF n = 0 THEN 0
            ELSE LET before == sum[n - 1]
                 IN  before + sizes[n]
    IN  sum[Len(sizes)]

SizesOf(vals) == Total([i \in DOMAIN vals |-> Size[vals[i].atom]])

encoded_size(msg) ==
    CASE msg.kind = "Array" -> 2 + SizesOf(msg.fields)
      [] msg.kind = "Map"   ->
             2 + SizesOf(ValsOf(msg.entries))
               + Total([i \in DOMAIN msg.entries |->
                           Len(msg.entries[i].ref.literal)])
      [] OTHER -> 16

OpSize(op) == 3 + (IF HasOpValue(op) THEN Size[op.val.atom] ELSE 0)

patch_size(ops) == 4 + Total([i \in DOMAIN ops |-> OpSize(ops[i])])

-----------------------------------------------------------------------------
(* The codecs. *)

NewSession == [codec |-> NewCodec, previous |-> None,
               base_snapshots |-> << >>, next_base_id |-> 0]

PreviousRef == [previous |-> TRUE, id |-> 0]
IdRefTo(id) == [previous |-> FALSE, id |-> id]

StatePatch(ref, ops) == [kind |-> "StatePatch", base_ref |-> ref, ops |-> ops]

\* write_message on the tables: only maps, and literals of a patch or of a
\* schema object, touch them.
write_tables(codec, msg) ==
    CASE msg.kind \in {"Map", "ShapedObject"} -> write_map_message(codec, msg)
      [] msg.kind = "SchemaObject" ->
             [codec EXCEPT !.key_table = AllNestedKeys(@, msg.fields)]
      [] msg.kind = "StatePatch" ->
             [codec EXCEPT !.key_table =
                 AllNestedKeys(@, [i \in DOMAIN msg.ops |-> msg.ops[i].val])]
      [] OTHER -> codec

\* write_message also registers the base snapshot it writes.
write_message(session, msg) ==
    [session EXCEPT
        !.codec = write_tables(@, msg),
        !.base_snapshots = IF msg.kind = "BaseSnapshot"
                           THEN register_base_snapshot(@, msg.base_id, msg.payload)
                           ELSE @]

\* decode_message: what becomes of the session, and "ok", "ignored" (the base
\* is unknown and the error swallowed) or an error.
Decoded(session, r) == [session |-> session, res |-> r]

KnowsBase(session, ref) ==
    IF ref.previous THEN session.previous # None
                    ELSE ref.id \in IdsOf(session.base_snapshots)

BaseOf(session, ref) ==
    IF ref.previous THEN session.previous
                    ELSE get_base_snapshot(session.base_snapshots, ref.id)

decode_patch(session, msg) ==
    LET read == write_message(session, msg)
        new  == apply_state_patch(BaseOf(session, msg.base_ref), msg.ops)
    IN  IF ~KnowsBase(session, msg.base_ref) THEN Decoded(read, "ignored")
        ELSE IF new = InvalidData THEN Decoded(read, InvalidData)
        ELSE Decoded([read EXCEPT !.previous = new], "ok")

\* read_message keeps the columns of sixteen rows or more; a smaller micro
\* batch is kept if nothing else is.
decode_template(session, msg) ==
    [session EXCEPT !.previous = IF msg.count >= 16 THEN Batch("ColumnBatch")
                                 ELSE IF @ = None THEN msg ELSE @]

\* Mutant: a snapshot that is read is not registered.
decode_snapshot_unregistered(session, msg) == [session EXCEPT !.previous = msg]

decode_snapshot(session, msg) ==
    [session EXCEPT
        !.base_snapshots = register_base_snapshot(@, msg.base_id, msg.payload),
        !.previous = msg]

decode_full(session, msg) ==
    LET read == read_map(session.codec, msg)
    IN  CASE msg.kind = "Map" ->
                 IF read.res = UnknownReference
                 THEN Decoded([session EXCEPT !.codec = read.codec],
                              UnknownReference)
                 ELSE Decoded([session EXCEPT !.codec = read.codec,
                                  !.previous = Kept(msg, MapOf(read.res))], "ok")
          [] msg.kind = "ShapedObject" ->
                 Decoded([session EXCEPT !.codec = read_shaped(@, msg),
                                         !.previous = Kept(msg, None)], "ok")
          [] OTHER -> Decoded([write_message(session, msg)
                                  EXCEPT !.previous = msg], "ok")

decode_message(session, msg) ==
    CASE msg.kind = "StatePatch"    -> decode_patch(session, msg)
      [] msg.kind = "TemplateBatch" -> Decoded(decode_template(session, msg), "ok")
      [] msg.kind = "BaseSnapshot"  -> Decoded(decode_snapshot(session, msg), "ok")
      [] OTHER                      -> decode_full(session, msg)

\* Mutant: the size comparison is dropped.
always_patch(ops, msg) == TRUE

patch_is_smaller(ops, msg) == patch_size(ops) < encoded_size(msg)

-----------------------------------------------------------------------------
Init == /\ snd = NewSession /\ rcv = NewSession
        /\ log = << >> /\ pos = 0 /\ res = None

\* The buffer leaves; with LoopsBack the sender decodes it at once.  kept is
\* the message the receiver should then have, None if that is not a value.
Sent(session, msg, kept) ==
    LET after == IF LoopsBack THEN decode_message(session, msg).session
                              ELSE session
    IN  /\ Len(log) < MaxSent
        /\ snd' = after
        /\ log' = Append(log, [msg |-> msg, kept |-> kept, lost |-> FALSE,
                               previous |-> after.previous,
                               snapshots |-> after.base_snapshots])
        /\ UNCHANGED << rcv, pos, res >>

\* TwilicCodec::encode_value: always the full message, which is kept.
encode_value(value) ==
    LET m       == message_for_value(snd.codec, value)
        kept    == Kept(m.msg, value)
        written == write_message([snd EXCEPT !.codec = m.codec], m.msg)
    IN  Sent([written EXCEPT !.previous = kept], m.msg, kept)

\* SessionEncoder::encode and encode_patch: the patch if it is the smaller
\* of the two.  Key list and keys of the value are observed and registered
\* either way; the previous message stays.
encode_patch(value) ==
    LET m     == message_for_value(snd.codec, value)
        ops   == diff_fields(snd.previous.fields, message_fields(m.msg))
        patch == /\ supports_state_patch(snd.previous, m.msg)
                 /\ patch_is_smaller(ops, m.msg)
        msg   == IF patch THEN StatePatch(PreviousRef, ops) ELSE m.msg
    IN  Sent(write_message([snd EXCEPT !.codec = m.codec], msg),
             msg, Kept(m.msg, value))

\* SessionEncoder::encode_with_schema: nothing is kept but the schema, which
\* nothing reads.
encode_with_schema(id, value) ==
    LET msg == SchemaObject(id, value.entries)
    IN  /\ value.kind = "map"
        /\ Sent(write_message(snd, msg), msg, msg)

\* SessionEncoder::encode_batch of one row or more.
encode_batch(kind) ==
    LET kept == [snd EXCEPT !.previous = Batch(kind)]
    IN  Sent(IF MaxBaseSnapshots = 0 THEN kept
             ELSE [kept EXCEPT
                      !.base_snapshots =
                          register_base_snapshot(@, snd.next_base_id, Batch(kind)),
                      !.next_base_id = @ + 1],
             Batch(kind), None)

\* SessionEncoder::encode_micro_batch of uniform rows: the previous message
\* stays.
encode_micro_batch(n) == Sent(snd, TemplateBatch(n), None)

\* The application sends a base snapshot through encode_message.
encode_snapshot(id, value) ==
    LET msg == BaseSnapshot(id, array_message(snd.codec, ValsOf(value.entries)).msg)
    IN  Sent(write_message(snd, msg), msg, None)

\* It sends the difference to a snapshot its codec has under this id.
encode_patch_on(id, value) ==
    LET base == get_base_snapshot(snd.base_snapshots, id)
        m    == array_message(snd.codec, ValsOf(value.entries))
        msg  == StatePatch(IdRefTo(id),
                           diff_fields(base.fields, message_fields(m.msg)))
    IN  /\ id \in IdsOf(snd.base_snapshots)
        /\ supports_state_patch(base, m.msg)
        /\ Sent(write_message(snd, msg), msg, m.msg)

ReceiverDecodes(i) ==
    LET d == decode_message(rcv, log[i].msg)
    IN  rcv' = d.session /\ res' = d.res

Decode == /\ pos < Len(log)
          /\ ReceiverDecodes(pos + 1)
          /\ pos' = pos + 1
          /\ UNCHANGED << snd, log >>

\* The buffer the receiver decoded last is handed to it again.
DecodeAgain == /\ pos > 0 /\ ~log[pos].lost
               /\ ReceiverDecodes(pos)
               /\ UNCHANGED << snd, log, pos >>

Lost == {i \in DOMAIN log : log[i].lost}

Lose == /\ pos < Len(log) /\ pos < MaxLost
        /\ log' = [log EXCEPT ![pos + 1].lost = TRUE]
        /\ pos' = pos + 1
        /\ res' = None
        /\ UNCHANGED << snd, rcv >>

\* SessionEncoder::reset and reset_state of the receiver, with nothing
\* under way.
reset_state == /\ pos = Len(log) /\ log # << >>
               /\ snd' = NewSession /\ rcv' = NewSession
               /\ log' = << >> /\ pos' = 0 /\ res' = None

Next == \/ \E value \in Values : \/ encode_value(value)
                                \/ encode_patch(value)
                                \/ \E id \in DOMAIN Schemas :
                                      encode_with_schema(id, value)
        \/ \E kind \in Batches : encode_batch(kind)
        \/ \E n \in MicroBatches : encode_micro_batch(n)
        \/ \E id \in SnapshotIds, value \in SnapshotValues :
              \/ encode_snapshot(id, value)
              \/ encode_patch_on(id, value)
        \/ Decode
        \/ DecodeAgain
        \/ Lose
        \/ reset_state

Spec == Init /\ [][Next]_vars

-----------------------------------------------------------------------------
(* Properties. *)

\* The maps that are sent have the same keys.  A patch says nothing of keys:
\* those of the base stay, whatever map it was made for.
OneKeyList ==
    \A value, other \in Values :
        value.kind = "map" /\ other.kind = "map"
            => KeysOf(value.entries) = KeysOf(other.entries)

\* A previous message is one that its kind allows: a map has as many keys as
\* fields, and a shaped object at the sender as many fields as its shape has
\* keys, however often it was patched.  Snapshots have ids of their own and
\* are no more than the option allows.
TypeOK ==
    /\ WellFormed(snd.codec) /\ WellFormed(rcv.codec)
    /\ pos \in 0..Len(log)
    /\ res \in {None, "ok", "ignored", InvalidData, UnknownReference}
    /\ \A session \in {snd, rcv} :
          LET msg == session.previous
              n   == Len(session.base_snapshots)
          IN  /\ msg # None =>
                    (msg.kind = "Map" => Len(msg.keys) = Len(msg.fields))
              /\ n <= MaxBaseSnapshots
              /\ Cardinality(IdsOf(session.base_snapshots)) = n
    /\ snd.previous # None =>
          (snd.previous.kind = "ShapedObject" =>
             Len(snd.previous.fields)
               = Len(snd.codec.shape_table.by_id[snd.previous.shape]))

\* When the sender decodes what it sends and nothing is lost, the receiver's
\* previous message is the one the sender had after the same buffer: also
\* when applying a patch fails, when the last buffer is delivered a second
\* time, although its patch is then applied to its own result, and when
\* batches and schema objects come between two patches.
PreviousInSync ==
    Lost = {} => rcv.previous = IF pos = 0 THEN None ELSE log[pos].previous

\* The last snapshot sent before i under the id of the patch i.
IsSnapshot(j, id) == log[j].msg.kind = "BaseSnapshot" /\ log[j].msg.base_id = id

BaseArrived(i) ==
    LET id   == log[i].msg.base_ref.id
        sent == {j \in 1..i - 1 : IsSnapshot(j, id)}
    IN  ~log[Max(sent)].lost

NamesBase(i) == /\ log[i].msg.kind = "StatePatch"
                /\ ~log[i].msg.base_ref.previous

\* A patch that applies leaves the receiver with the value it was made from.
\* If it names a snapshot that arrived, this holds in spite of losses.
PatchesReconstruct ==
    /\ pos > 0 /\ res = "ok" /\ log[pos].kept # None
    /\ Lost = {} \/ (NamesBase(pos) /\ BaseArrived(pos))
    => rcv.previous = log[pos].kept

\* A snapshot of the application that the sender still has, the receiver has
\* too, and it is the same message: batches push snapshots out, or take
\* their ids, at the sender alone, so that the sender is the first to forget
\* one.  A patch that names a snapshot of the sender is therefore never
\* ignored.
SnapshotsHeld ==
    (Lost = {} /\ pos > 0) =>
        \A i \in DOMAIN log[pos].snapshots :
            LET e == log[pos].snapshots[i]
            IN  e.msg.kind \in Patchable =>
                   \E j \in DOMAIN rcv.base_snapshots : rcv.base_snapshots[j] = e

\* The deletions of a patch name the fields of the base in ascending order
\* and are applied one after the other: with two of them the patch cannot be
\* applied, and without a loss nothing else makes one fail.
Deletions(msg) ==
    IF msg.kind # "StatePatch" THEN {}
    ELSE {i \in DOMAIN msg.ops : msg.ops[i].opcode = "DeleteField"}

ShrinkingFails ==
    [][pos' = pos + 1 /\ Lost' = {} =>
          (res' # "ok" <=> Cardinality(Deletions(log[pos'].msg)) >= 2)]_vars

\* encoded_size has no case for typed vectors, and sixteen bytes are never
\* more than a patch of their four or more elements: encode and encode_patch
\* always send them in full.
VectorsSentInFull ==
    \A i \in DOMAIN log :
        log[i].kept # None /\ ~NamesBase(i) =>
            (log[i].kept.kind = "TypedVector" => log[i].msg.kind # "StatePatch")
=============================================================================
