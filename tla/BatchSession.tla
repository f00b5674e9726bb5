---------------------------- MODULE BatchSession ----------------------------
(***************************************************************************)
(* Batches and micro batches between two SessionEncoders that both send.   *)
(* encode_batch sends all rows or all columns.  encode_micro_batch sends   *)
(* rows of equal keys as columns under a template: in full the first time, *)
(* later only the columns that changed; the receiver takes the rest from   *)
(* the columns it keeps under the same number.  One table of templates     *)
(* serves what a peer sends and what it receives, and each peer numbers    *)
(* the ones it finds new by its own next_template_id.                      *)
(*                                                                         *)
(* The peers take turns: a peer sends when it has received what the other  *)
(* sent.  The transport keeps the order and may lose a buffer or deliver   *)
(* the last one again; a sender may decode its last buffer itself; a peer  *)
(* may lose its session state.  Nested keys and strings of the rows are    *)
(* MapCodec's and StringLink's matter.                                     *)
(***************************************************************************)
EXTENDS Columns, BaseSnapshots

CONSTANTS Peers,              \* the two of them
          Batches,            \* sequences of values for encode_batch
          MicroBatches,       \* and for encode_micro_batch
          None,               \* no message
          MaxSent,            \* bound: buffers sent between two joint resets
          MaxLost,            \* bound: buffers lost between two joint resets
          MaxResets           \* bound: buffers sent when a peer resets alone

ASSUME TwoPeers == IsFiniteSet(Peers) /\ Cardinality(Peers) = 2

\* The values of a batch, and the entries or elements of each.
ASSUME RowsAreSequences ==
    \A values \in Batches \cup MicroBatches :
        /\ values \in Seq(Range(values))
        /\ \A r \in DOMAIN values :
              values[r].fields \in Seq(Range(values[r].fields))

\* There is one null.
ASSUME OneNull ==
    \A values \in Batches \cup MicroBatches : \A r \in DOMAIN values :
        \A c \in DOMAIN rows_from_values(values)[r] :
            LET v == rows_from_values(values)[r][c] IN IsNull(v) => v = Null

VARIABLES session,   \* the session state of each peer
          log,       \* buffers sent: values of a batch, full columns of the
                     \* templates, what became of it
          pos,       \* how many of them left the transport
          since      \* of each peer: buffers sent before it last reset

vars == << session, log, pos, since >>

Other(p) == CHOOSE q \in Peers : q # p

-----------------------------------------------------------------------------
NewSession == [templates |-> << >>, template_columns |-> << >>,
               next_template_id |-> 0, previous |-> None,
               base_snapshots |-> << >>, next_base_id |-> 0]

RowBatch(rows)    == [kind |-> "RowBatch", rows |-> rows]
ColumnBatch(n, c) == [kind |-> "ColumnBatch", count |-> n, columns |-> c]

TemplateBatch(id, n, mask, columns) ==
    [kind |-> "TemplateBatch", template_id |-> id, count |-> n,
     mask |-> mask, columns |-> columns]

\* A function with one more argument, or another value for it.
With(f, x, y) == [d \in DOMAIN f \cup {x} |-> IF d = x THEN y ELSE f[d]]

record_full_message_as_base(state) ==
    IF MaxBaseSnapshots = 0 THEN state
    ELSE [state EXCEPT
             !.next_base_id = @ + 1,
             !.base_snapshots = register_base_snapshot(@, state.next_base_id,
                                                       state.previous)]

\* SessionEncoder::encode_batch: an empty batch is not kept.
batch_message(values) ==
    IF Len(values) >= 16 THEN ColumnBatch(Len(values), BatchColumns(values))
                         ELSE RowBatch(rows_from_values(values))

after_batch(state, values) ==
    IF values = << >> THEN state
    ELSE record_full_message_as_base(
             [state EXCEPT !.previous = batch_message(values)])

\* find_template_id: the templates the columns fit; the smallest is taken.
find_template_id(templates, columns) ==
    {id \in DOMAIN templates : templates[id] = descriptor(columns)}

\* The template of encode_micro_batch: one that fits, or the next number,
\* which the other peer may have given out before.
template_of(state, columns) ==
    LET found == find_template_id(state.templates, columns)
    IN  [new |-> found = {},
         id  |-> IF found = {} THEN state.next_template_id ELSE Min(found)]

\* Its message: all columns of a new template, else those that changed.
template_message(state, values) ==
    LET columns == BatchColumns(values)
        t       == template_of(state, columns)
        mask    == IF t.new THEN [i \in DOMAIN columns |-> TRUE]
                   ELSE changed_mask(state.template_columns[t.id], columns)
    IN  TemplateBatch(t.id, Len(values), mask, Masked(mask, columns))

\* Its effect on the encoder: the columns are kept, a new template counted.
after_template(state, values) ==
    LET columns == BatchColumns(values)
        t       == template_of(state, columns)
    IN  [state EXCEPT
            !.template_columns = With(@, t.id, columns),
            !.templates = IF t.new THEN With(@, t.id, descriptor(columns)) ELSE @,
            !.next_template_id = IF t.new THEN @ + 1 ELSE @]

-----------------------------------------------------------------------------
(* decode_message. *)

Known(state, msg) == msg.template_id \in DOMAIN state.template_columns

\* A template that is unknown is refused unless the message has all columns;
\* one that is known with too few columns is an error.  Nothing changes.
Verdict(state, msg) ==
    IF msg.kind # "TemplateBatch" THEN "ok"
    ELSE IF Known(state, msg)
         THEN IF CanMerge(state.template_columns[msg.template_id], msg.mask)
              THEN "ok" ELSE "invalid"
    ELSE IF \A i \in DOMAIN msg.mask : msg.mask[i] THEN "ok" ELSE "refused"

full_columns(state, msg) ==
    IF Known(state, msg)
    THEN merge_template_columns(state.template_columns[msg.template_id],
                                msg.mask, msg.columns)
    ELSE msg.columns

\* Mutant: the columns of a new template are not kept.
after_decode_forgets(state, msg) ==
    IF msg.kind # "TemplateBatch" THEN [state EXCEPT !.previous = msg]
    ELSE IF ~Known(state, msg) THEN state
    ELSE [state EXCEPT !.template_columns =
             With(@, msg.template_id, full_columns(state, msg))]

\* Mutant: the descriptor of a template that is known stays.
after_decode_stale_descriptor(state, msg) ==
    LET full == full_columns(state, msg)
    IN  IF msg.kind # "TemplateBatch" THEN [state EXCEPT !.previous = msg]
        ELSE [state EXCEPT
                 !.template_columns = With(@, msg.template_id, full),
                 !.templates = IF Known(state, msg) THEN @
                               ELSE With(@, msg.template_id, descriptor(full))]

after_decode(state, msg) ==
    LET full == full_columns(state, msg)
    IN  IF msg.kind # "TemplateBatch" THEN [state EXCEPT !.previous = msg]
        ELSE [state EXCEPT
                 !.template_columns = With(@, msg.template_id, full),
                 !.templates = With(@, msg.template_id, descriptor(full)),
                 !.previous = IF msg.count >= 16
                              THEN ColumnBatch(msg.count, full)
                              ELSE IF @ = None THEN msg ELSE @]

decode_message(state, msg) ==
    IF Verdict(state, msg) = "ok" THEN after_decode(state, msg) ELSE state

-----------------------------------------------------------------------------
Init == /\ session = [p \in Peers |-> NewSession]
        /\ log = << >> /\ pos = 0
        /\ since = [p \in Peers |-> 0]

UnderWay == pos + 1..Len(log)

MaySend(p) == /\ Len(log) < MaxSent
              /\ \A i \in UnderWay : log[i].from = p

Send(p, values, state, msg) ==
    /\ session' = [session EXCEPT ![p] = state]
    /\ log' = Append(log, [from |-> p, values |-> values, msg |-> msg,
                           fate |-> "sent",
                           templates |-> state.template_columns])
    /\ UNCHANGED << pos, since >>

encode_batch(p, values) ==
    /\ MaySend(p)
    /\ Send(p, values, after_batch(session[p], values), batch_message(values))

\* With enable_template_batch, the default; apply_dictionary_references is a
\* stub that changes nothing.
encode_micro_batch(p, values) ==
    /\ MaySend(p)
    /\ IF has_uniform_micro_batch_shape(values)
       THEN Send(p, << >>, after_template(session[p], values),
                 template_message(session[p], values))
       ELSE Send(p, values, after_batch(session[p], values),
                 batch_message(values))

Decode ==
    /\ UnderWay # {}
    /\ LET msg == log[pos + 1].msg
           q   == Other(log[pos + 1].from)
       IN  /\ session' = [session EXCEPT ![q] = decode_message(@, msg)]
           /\ log' = [log EXCEPT ![pos + 1].fate = Verdict(session[q], msg)]
    /\ pos' = pos + 1
    /\ UNCHANGED since

\* The buffer delivered last is delivered again, to a peer that has neither
\* sent nor reset since.
DecodeAgain ==
    /\ pos > 0 /\ log[pos].fate # "lost"
    /\ LET q == Other(log[pos].from)
       IN  /\ pos > since[q]
           /\ \A i \in UnderWay : log[i].from # q
           /\ session' = [session EXCEPT ![q] = decode_message(@, log[pos].msg)]
    /\ UNCHANGED << log, pos, since >>

\* A peer decodes the buffer it made last.
DecodeOwn ==
    /\ log # << >>
    /\ LET p == Last(log).from
       IN  /\ Len(log) > since[p]
           /\ session' = [session EXCEPT ![p] = decode_message(@, Last(log).msg)]
    /\ UNCHANGED << log, pos, since >>

Lost == {i \in DOMAIN log : log[i].fate = "lost"}

Lose == /\ UnderWay # {}
        /\ Cardinality(Lost) < MaxLost
        /\ log' = [log EXCEPT ![pos + 1].fate = "lost"]
        /\ pos' = pos + 1
        /\ UNCHANGED << session, since >>

\* SessionEncoder::reset, or a new process, on one side; the connection has
\* nothing under way then.
reset(p) ==
    /\ UnderWay = {} /\ log # << >> /\ Len(log) <= MaxResets
    /\ session' = [session EXCEPT ![p] = NewSession]
    /\ since' = [since EXCEPT ![p] = Len(log)]
    /\ UNCHANGED << log, pos >>

\* Both sides agree to reset.
reset_both ==
    /\ UnderWay = {} /\ log # << >>
    /\ session' = [p \in Peers |-> NewSession]
    /\ log' = << >> /\ pos' = 0
    /\ since' = [p \in Peers |-> 0]

Next == \/ \E p \in Peers : \/ \E values \in Batches : encode_batch(p, values)
                           \/ \E values \in MicroBatches :
                                 encode_micro_batch(p, values)
                           \/ reset(p)
        \/ Decode
        \/ DecodeAgain
        \/ DecodeOwn
        \/ Lose
        \/ reset_both

Spec == Init /\ [][Next]_vars

-----------------------------------------------------------------------------
(* Properties. *)

\* A peer describes its templates as they are, holds every one it numbered
\* itself, and its snapshots are the newest batches with the newest ids,
\* oldest first, no more than the option allows.
TypeOK ==
    /\ \A p \in Peers :
          LET state == session[p]
              n     == Len(state.base_snapshots)
          IN  /\ DOMAIN state.templates = DOMAIN state.template_columns
              /\ \A id \in DOMAIN state.templates :
                    state.templates[id] = descriptor(state.template_columns[id])
              /\ 0..state.next_template_id - 1 \subseteq DOMAIN state.templates
              /\ n = Min({state.next_base_id, MaxBaseSnapshots})
              /\ \A i \in 1..n :
                    state.base_snapshots[i].id = state.next_base_id - n + i - 1
    /\ \A i \in DOMAIN log : log[i].fate = "sent" <=> i > pos

IsTemplate(i, id) == /\ log[i].msg.kind = "TemplateBatch"
                     /\ log[i].msg.template_id = id

\* The buffers that gave p a column c of template id: its own, and those it
\* accepted that carried this column.
Carried(p, id, c) ==
    {i \in since[p] + 1..Len(log) :
        /\ IsTemplate(i, id)
        /\ \/ log[i].from = p
           \/ /\ log[i].fate = "ok"
              /\ c \in DOMAIN log[i].msg.mask /\ log[i].msg.mask[c]}

\* A column a peer keeps is the one of the last buffer of its template that
\* the peer made, or accepted with this column in it: whatever was lost,
\* refused or delivered twice, and whichever side gave the number to another
\* layout, no column comes from another template, another field or an older
\* buffer.
ColumnsAsLastSent ==
    \A p \in Peers : \A id \in DOMAIN session[p].template_columns :
        \A c \in DOMAIN session[p].template_columns[id] :
            /\ Carried(p, id, c) # {}
            /\ \A i \in Carried(p, id, c) :
                  (\A j \in Carried(p, id, c) : j <= i) =>
                      session[p].template_columns[id][c]
                          = log[i].templates[id][c]

\* Without loss both peers have, up to the buffers under way, the same
\* layout under every number both know: fields, null strategies, estimated
\* sizes.  Without a reset they know the same numbers, although each gives
\* out numbers of its own and may give one the other has given before.
Layout(columns) == [i \in DOMAIN columns |->
    << columns[i].field_id, columns[i].null_strategy,
       estimate_column_size(columns[i]) >>]

Applied(p) == IF \A i \in UnderWay : log[i].from = p THEN Len(log) ELSE pos

KnownTo(p) == session[p].template_columns

LayoutsInSync ==
    Lost = {} =>
        \A p \in Peers : Applied(p) > 0 =>
            LET sent == log[Applied(p)].templates
            IN  /\ \A id \in DOMAIN KnownTo(p) \cap DOMAIN sent :
                      Layout(KnownTo(p)[id]) = Layout(sent[id])
                /\ (\A q \in Peers : since[q] = 0) =>
                      DOMAIN KnownTo(p) = DOMAIN sent

\* A buffer is refused only by a peer that has lost, or reset away, every
\* earlier one of its template, and is invalid only after a loss.
RefusedAfterLoss ==
    \A i \in DOMAIN log :
        LET q       == Other(log[i].from)
            earlier == {j \in 1..i - 1 : IsTemplate(j, log[i].msg.template_id)}
        IN  /\ log[i].fate = "refused" =>
                  /\ earlier # {}
                  /\ \A j \in earlier :
                        log[j].from = q \/ log[j].fate = "ok" => j <= since[q]
            /\ log[i].fate = "invalid" => Lost # {}

\* Columns that fit a template are never sent under another one: layouts get
\* one number each, also when a peer decodes its own buffers and when both
\* sides number, as long as nothing is lost and no side resets alone.
OneTemplatePerLayout ==
    Lost = {} /\ (\A q \in Peers : since[q] = 0) =>
        \A p \in Peers : \A a, b \in DOMAIN session[p].templates :
            session[p].templates[a] = session[p].templates[b] => a = b

\* A reader that knows the key order gets the rows of a column batch back
\* from its columns, nulls and missing fields included, provided the maps hold
\* no null and no key twice.  Sixteen maps without a key travel as values.
Readable(values) ==
    \/ ~AllMaps(values)
    \/ \A r \in DOMAIN values :
          /\ IsInjective(KeysOf(values[r]))
          /\ \A i \in DOMAIN values[r].fields : NotNull(values[r].fields[i].val)

FieldOf(map, key) ==
    IF \E e \in Range(map.fields) : e.key = key
    THEN (CHOOSE e \in Range(map.fields) : e.key = key).val ELSE Null

ElementOf(row, c) == IF c <= Len(row) THEN row[c] ELSE Null

CellSent(values, keys, r, c) ==
    IF AllMaps(values) /\ keys # << >> THEN FieldOf(values[r], keys[c])
    ELSE ElementOf(rows_from_values(values)[r], c)

CellsReadable ==
    \A i \in DOMAIN log :
        LET msg  == log[i].msg
            keys == key_order(log[i].values)
        IN  msg.kind = "ColumnBatch" /\ Readable(log[i].values) =>
                \A c \in DOMAIN msg.columns, r \in 1..msg.count :
                    CellAt(msg.columns[c], r) = CellSent(log[i].values, keys, r, c)

\* What a template is for: without loss a peer ends up with the columns the
\* other one was given.
TemplatesInSync ==
    Lost = {} /\ UnderWay = {} => \A p, q \in Peers : KnownTo(p) = KnownTo(q)
=============================================================================
