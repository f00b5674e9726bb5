------------------------------ MODULE MapCodec ------------------------------
(***************************************************************************)
(* What a TwilicCodec does with maps: message_for_value, map_message,      *)
(* shaped_message and write_message on the sender's side, read_message and *)
(* decode_value on the receiver's, as functions of the codec's key table   *)
(* and shape table.  A map becomes a Map message, whose keys are literals  *)
(* or ids into the key table, until its key list was encoded twice; from   *)
(* then on a ShapedObject, the number of the key list and the values.      *)
(*                                                                         *)
(* Values are atoms or maps of atoms.  Strings are StringLink's matter.    *)
(***************************************************************************)
EXTENDS InternTable, ShapeTable

CONSTANT UnknownReference    \* a decode failed with unknown_reference

-----------------------------------------------------------------------------
Atom(a)         == [atom |-> a, entries |-> << >>]
Nested(entries) == [atom |-> "map", entries |-> entries]
Null            == Atom("null")

Entry(key, val) == [key |-> key, val |-> val]
KeysOf(entries) == [i \in DOMAIN entries |-> entries[i].key]
ValsOf(entries) == [i \in DOMAIN entries |-> entries[i].val]

NewCodec == [key_table                 |-> clear,
             shape_table               |-> EmptyShapes,
             encode_shape_observations |-> << >>]

RegisterAll(table, keys) ==
    LET after[n \in 0..Len(keys)] ==
            IF n = 0 THEN table
            ELSE LET before == after[n - 1]
                 IN  register_value(before, keys[n])
    IN  after[Len(keys)]

\* Writing or reading a value registers the keys of a nested map, in order;
\* they are literals, whatever the table holds.
NestedKeys(val) == KeysOf(val.entries)

AllNestedKeys(table, vals) ==
    RegisterAll(table, FlattenSeq([i \in DOMAIN vals |-> NestedKeys(vals[i])]))

-----------------------------------------------------------------------------
(* The sender. *)

observe_encode_shape_candidate(codec, keys) ==
    LET counts == Counted(codec.encode_shape_observations, keys)
    IN  [codec EXCEPT
            !.encode_shape_observations = counts,
            !.shape_table = IF should_register_shape(keys, Count(counts, keys))
                            THEN register_keys(@, keys) ELSE @]

IdRef(id)       == [is_id |-> TRUE, id |-> id, literal |-> << >>]
LiteralRef(key) == [is_id |-> FALSE, id |-> 0, literal |-> key]

\* Mutant: the lookup comes after the registration of all keys, so that a
\* new key goes out as an id the receiver cannot know.
KeyRefTooEarly(table, keys, i) == IdRef(get_id(RegisterAll(table, keys), keys[i]))

\* Mutant: ids are never used.
KeyRefLiteral(table, keys, i) == LiteralRef(keys[i])

\* The reference map_message writes for the i-th key: an id if the key was
\* known before the call or occurred earlier in the same map.
KeyRefAt(table, keys, i) ==
    LET known == RegisterAll(table, SubSeq(keys, 1, i - 1))
    IN  IF HasValue(known, keys[i]) THEN IdRef(get_id(known, keys[i]))
                                    ELSE LiteralRef(keys[i])

\* All keys of the map are registered before any value is written.
map_message(codec, map) ==
    [codec |-> [codec EXCEPT !.key_table = RegisterAll(@, KeysOf(map))],
     msg   |-> [kind |-> "Map",
                entries |-> [i \in DOMAIN map |->
                    [ref |-> KeyRefAt(codec.key_table, KeysOf(map), i),
                     val |-> map[i].val]]]]

\* The value of key k in the index shaped_message builds: the last one wins.
FieldOf(map, k) ==
    LET at == {i \in DOMAIN map : map[i].key = k}
    IN  IF at = {} THEN Null
        ELSE map[CHOOSE i \in at : \A j \in at : j <= i].val

shaped_message(codec, id, map) ==
    LET keys == codec.shape_table.by_id[id]
    IN  [codec |-> codec,
         msg   |-> [kind |-> "ShapedObject", shape |-> id,
                    vals |-> [i \in DOMAIN keys |-> FieldOf(map, keys[i])]]]

\* message_for_value on a map.
message_for_map(codec, map) ==
    LET keys     == KeysOf(map)
        had      == shape_key(keys) \in DOMAIN codec.encode_shape_observations
        observed == observe_encode_shape_candidate(codec, keys)
        count    == Count(observed.encode_shape_observations, keys)
    IN  IF ShapeKnown(observed.shape_table, keys) /\ (~had \/ count >= 2)
        THEN shaped_message(observed, shape_id(observed.shape_table, keys), map)
        ELSE map_message(observed, map)

\* The literals write_key_ref and the value after it register.
WrittenKeys(e) ==
    (IF e.ref.is_id THEN << >> ELSE << e.ref.literal >>) \o NestedKeys(e.val)

\* What writing a Map or ShapedObject message does to the codec.
write_map_message(codec, msg) ==
    [codec EXCEPT !.key_table =
        IF msg.kind = "Map"
        THEN RegisterAll(@, FlattenSeq([i \in DOMAIN msg.entries |->
                                           WrittenKeys(msg.entries[i])]))
        ELSE AllNestedKeys(@, msg.vals)]

\* encode_value on a map: message_for_value and encode_message.
encode_map(codec, map) ==
    LET m == message_for_map(codec, map)
    IN  [codec |-> write_map_message(m.codec, m.msg), msg |-> m.msg]

-----------------------------------------------------------------------------
(* The receiver. *)

\* One turn of the loop of read_message over the entries of a Map message.
\* An unknown id leaves the loop; what was registered before stays.
ReadMapEntry(acc, e) ==
    IF ~acc.ok THEN acc
    ELSE IF e.ref.is_id /\ ~HasId(acc.table, e.ref.id)
         THEN [acc EXCEPT !.ok = FALSE]
    ELSE LET key == IF e.ref.is_id THEN get_value(acc.table, e.ref.id)
                                   ELSE e.ref.literal
         IN  [acc EXCEPT
                 !.table = RegisterAll(register_value(@, key), NestedKeys(e.val)),
                 !.map   = Append(@, Entry(key, e.val))]

\* Mutant: the key list is counted again although its shape is known.
observe_decode_always(shapes, keys) ==
    LET counts == Counted(shapes.observations, keys)
    IN  [by_keys |-> Put(shapes.by_keys, shape_key(keys), shapes.next_id),
         by_id |-> Put(shapes.by_id, shapes.next_id, keys),
         observations |-> counts, next_id |-> shapes.next_id + 1]

observe_decode_shape_candidate(shapes, keys) ==
    LET counts   == Counted(shapes.observations, keys)
        observed == [shapes EXCEPT !.observations = counts]
    IN  IF ShapeKnown(shapes, keys) THEN shapes
        ELSE IF should_register_shape(keys, Count(counts, keys))
             THEN register_keys(observed, keys)
        ELSE observed

\* The loop, from the table before it.
read_entries(table, entries) ==
    LET acc[n \in 0..Len(entries)] ==
            IF n = 0 THEN [table |-> table, map |-> << >>, ok |-> TRUE]
            ELSE LET before == acc[n - 1]
                 IN  ReadMapEntry(before, entries[n])
    IN  acc[Len(entries)]

\* read_message on a Map: its entries with their keys, and the key list is
\* observed; or an error.
read_map(codec, msg) ==
    LET read == read_entries(codec.key_table, msg.entries)
        kept == [codec EXCEPT !.key_table = read.table]
    IN  IF read.ok
        THEN [codec |-> [kept EXCEPT !.shape_table =
                            observe_decode_shape_candidate(@, KeysOf(read.map))],
              res   |-> read.map]
        ELSE [codec |-> kept, res |-> UnknownReference]

\* read_message on a ShapedObject: the shape is not looked up.
read_shaped(codec, msg) ==
    [codec EXCEPT !.key_table = AllNestedKeys(@, msg.vals)]

\* Keys and values of a shaped object, as far as both go.
Paired(keys, vals) ==
    [i \in DOMAIN keys \cap DOMAIN vals |-> Entry(keys[i], vals[i])]

\* Mutant: values are paired with the keys of the newest shape.
shaped_value_newest(shapes, msg) ==
    IF shapes.next_id = 0 THEN UnknownReference
    ELSE Paired(shapes.by_id[shapes.next_id - 1], msg.vals)

\* decode_value on a ShapedObject.
shaped_value(shapes, msg) ==
    IF msg.shape \in DOMAIN shapes.by_id
    THEN Paired(shapes.by_id[msg.shape], msg.vals)
    ELSE UnknownReference

\* decode_value on either message: the map, or an error.
decode_map(codec, msg) ==
    IF msg.kind = "Map" THEN read_map(codec, msg)
    ELSE [codec |-> read_shaped(codec, msg),
          res   |-> shaped_value(codec.shape_table, msg)]

-----------------------------------------------------------------------------
\* Both tables of a codec are what two maps and a counter must be: no key has
\* two ids, by_keys and by_id are inverse to each other, and next_id is the
\* first number not given.
WellFormed(codec) ==
    LET shapes == codec.shape_table
    IN  /\ Distinct(codec.key_table)
        /\ DOMAIN shapes.by_id = 0..shapes.next_id - 1
        /\ \A id \in DOMAIN shapes.by_id :
              /\ ShapeKnown(shapes, shapes.by_id[id])
              /\ shape_id(shapes, shapes.by_id[id]) = id
        /\ \A sk \in DOMAIN shapes.by_keys :
              /\ shapes.by_keys[sk] \in DOMAIN shapes.by_id
              /\ shape_key(shapes.by_id[shapes.by_keys[sk]]) = sk
=============================================================================
