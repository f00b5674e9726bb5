----------------------------- MODULE ShapeTable -----------------------------
(***************************************************************************)
(* ShapeTable of src/session.c: the key lists a codec knows by number.     *)
(* by_keys is indexed by shape_key, the keys joined by a zero byte, by_id  *)
(* by the number; observations counts the Map messages decoded per key     *)
(* list.  A key is a sequence of bytes, so that the join can be computed.  *)
(***************************************************************************)
EXTENDS Naturals, SequencesExt

Key == Seq(0..255)

EmptyShapes == [by_keys |-> << >>, by_id |-> << >>,
                observations |-> << >>, next_id |-> 0]

\* No keys and a single empty key have the same shape_key, and so have two
\* keys and one key with a zero byte between them.
shape_key(keys) ==
    IF keys = << >> THEN << >>
    ELSE Tail(FlattenSeq([i \in DOMAIN keys |-> << 0 >> \o keys[i]]))

ShapeKnown(shapes, keys) == shape_key(keys) \in DOMAIN shapes.by_keys

shape_id(shapes, keys) == shapes.by_keys[shape_key(keys)]

\* A map with this value under this key.
Put(map, key, val) ==
    [k \in DOMAIN map \cup {key} |-> IF k = key THEN val ELSE map[k]]

\* A map of counters by shape_key, in which an absent entry is zero.
Count(counts, keys) ==
    IF shape_key(keys) \in DOMAIN counts THEN counts[shape_key(keys)] ELSE 0

Counted(counts, keys) == Put(counts, shape_key(keys), Count(counts, keys) + 1)

\* Mutant: next_id is not advanced.
register_keys_stuck(shapes, keys) ==
    IF ShapeKnown(shapes, keys) THEN shapes
    ELSE [shapes EXCEPT !.by_keys = Put(@, shape_key(keys), shapes.next_id),
                        !.by_id   = Put(@, shapes.next_id, keys)]

register_keys(shapes, keys) ==
    IF ShapeKnown(shapes, keys) THEN shapes
    ELSE [shapes EXCEPT !.by_keys = Put(@, shape_key(keys), shapes.next_id),
                        !.by_id   = Put(@, shapes.next_id, keys),
                        !.next_id = @ + 1]

should_register_shape(keys, count) == keys # << >> /\ count >= 2
=============================================================================
