---------------------------- MODULE InternTable ----------------------------
(***************************************************************************)
(* InternTable of src/session.c.  The table a codec keeps for strings (and *)
(* a second one for keys): by_id is the sequence of the registered values, *)
(* by_value its inverse, so one sequence without repetition carries both.  *)
(* An id is the position at which a value was registered, from zero; it is *)
(* never sent when the value is registered, each side counts for itself.   *)
(***************************************************************************)
EXTENDS Naturals, Sequences

clear == << >>

HasValue(table, value) == \E i \in DOMAIN table : table[i] = value

get_id(table, value) == (CHOOSE i \in DOMAIN table : table[i] = value) - 1

HasId(table, id) == id < Len(table)

get_value(table, id) == table[id + 1]

\* Mutant: the lookup before the push is dropped.
register_always(table, value) == Append(table, value)

register_value(table, value) ==
    IF HasValue(table, value) THEN table ELSE Append(table, value)

\* What every operation keeps: by_value has one id for a value.
Distinct(table) ==
    \A i, j \in DOMAIN table : table[i] = table[j] => i = j
=============================================================================
