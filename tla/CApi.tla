-------------------------------- MODULE CApi --------------------------------
(***************************************************************************)
(* The C interface of src/twilic.c over the heap.  A twilic_value_t is a   *)
(* struct whose strings, items and entries are blocks of their own; every  *)
(* function that returns one copies its arguments in full, except for      *)
(* twilic_entry, which takes the struct it is given.  Any allocation may   *)
(* fail: the block is then NULL and the call goes on.                      *)
(*                                                                         *)
(* The application keeps structs in variables, uses a struct no more once  *)
(* it is in an entry, and gives results to variables that hold nothing.    *)
(* A buffer is the value encode_v2 was given, or a message of a session:   *)
(* their bytes are other modules' matter.  Allocations of the C++ library  *)
(* do not fail.                                                            *)
(***************************************************************************)
EXTENDS Naturals, Sequences
LOCAL INSTANCE FiniteSets
LOCAL INSTANCE SequencesExt
LOCAL INSTANCE FiniteSetsExt

CONSTANTS Variables,     \* the application's values
          Entries,       \* its map entries
          Atoms,         \* scalars, strings and binaries it makes
          Keys,          \* and keys
          MaxBlocks,     \* bound: blocks of the heap
          MaxDepth,      \* bound: containers in containers
          MaxFailed      \* bound: allocations that fail

VARIABLES heap,     \* the blocks allocated
          value,    \* the structs of Variables
          item,     \* the entries of Entries
          buffer,   \* an encoded value
          failed,   \* how many allocations failed
          fault     \* a block that is not allocated was freed

vars == << heap, value, item, buffer, failed, fault >>

NULL == 0

-----------------------------------------------------------------------------
(* Values of the library, and structs.  Items of an array have no key.     *)

Cpp(kind, bytes, items)         == [kind |-> kind, bytes |-> bytes, items |-> items]
Struct(kind, ptr, bytes, items) == [kind |-> kind, ptr |-> ptr, bytes |-> bytes,
                                    items |-> items]
Named(key, val) == [key |-> key, val |-> val]
Block(ptr, bytes) == [ptr |-> ptr, bytes |-> bytes]

NewNull    == Cpp("null", "", << >>)
NullStruct == Struct("null", NULL, "", << >>)
NoKey      == Block(NULL, "")
NoEntry    == Named(NoKey, NullStruct)
\* What no function of the interface reads again.
Message    == Cpp("message", "", << >>)
NoBuffer   == [ptr |-> NULL, holds |-> NewNull]

IsContainer(v) == v.kind \in {"array", "map"}

RECURSIVE Depth(_)
Depth(v) == IF v.items = << >> THEN 0
            ELSE 1 + Max({Depth(v.items[i].val) : i \in DOMAIN v.items})

\* A string, binary, key or container without a block is an empty one.
RECURSIVE to_cpp_value(_)
CppEntry(it) == Named(IF it.key.ptr = NULL THEN "" ELSE it.key.bytes,
                      to_cpp_value(it.val))
\* Mutant: a string, binary or container without a block is a null.
to_cpp_nulls(s) ==
    IF s.ptr = NULL /\ s.kind # "scalar" THEN NewNull
    ELSE Cpp(s.kind, s.bytes, [i \in DOMAIN s.items |-> CppEntry(s.items[i])])

to_cpp_value(s) ==
    IF s.ptr = NULL /\ s.kind # "scalar" THEN Cpp(s.kind, "", << >>)
    ELSE Cpp(s.kind, s.bytes, [i \in DOMAIN s.items |-> CppEntry(s.items[i])])

\* An allocation of a call in which the one numbered fail fails.
Malloc(acc) ==
    LET full == acc.count + 1 = acc.fail
        ptr  == Min((1..Cardinality(acc.heap) + 1) \ acc.heap)
    IN  [acc EXCEPT !.count = @ + 1,
                    !.ptr   = IF full THEN NULL ELSE ptr,
                    !.heap  = IF full THEN @ ELSE @ \cup {ptr}]

dup_cstr(acc, bytes) ==
    LET m == Malloc(acc) IN [acc |-> m, key |-> Block(m.ptr, bytes)]

RECURSIVE from_cpp_value(_, _)

\* One turn of the loops over items and entries.
CopyItem(kind, done, it) ==
    LET dup  == IF kind = "map" THEN dup_cstr(done.acc, it.key)
                                ELSE [acc |-> done.acc, key |-> NoKey]
        copy == from_cpp_value(it.val, dup.acc)
    IN  [acc |-> copy.acc,
         items |-> Append(done.items, Named(dup.key, copy.struct))]

NeedsNoBlock(v) == \/ v.kind \in {"null", "scalar"}
                   \/ v.kind = "binary" /\ v.bytes = ""
                   \/ IsContainer(v) /\ v.items = << >>

\* Mutant: items are filled in although there is no block for them.
from_cpp_unchecked(v, acc) ==
    LET m    == Malloc(acc)
        kept == FoldLeft(LAMBDA done, it : CopyItem(v.kind, done, it),
                         [acc |-> m, items |-> << >>], v.items)
    IN  IF NeedsNoBlock(v)
        THEN [acc |-> acc, struct |-> Struct(v.kind, NULL, v.bytes, << >>)]
        ELSE [acc |-> kept.acc, struct |-> Struct(v.kind, m.ptr, v.bytes, kept.items)]

from_cpp_value(v, acc) ==
    LET m    == Malloc(acc)
        kept == FoldLeft(LAMBDA done, it : CopyItem(v.kind, done, it),
                         [acc |-> m, items |-> << >>], v.items)
    IN  IF NeedsNoBlock(v)
        THEN [acc |-> acc, struct |-> Struct(v.kind, NULL, v.bytes, << >>)]
        ELSE IF m.ptr = NULL
        THEN [acc |-> m, struct |-> Struct(v.kind, NULL, "", << >>)]
        ELSE [acc |-> kept.acc, struct |-> Struct(v.kind, m.ptr, v.bytes, kept.items)]

\* The blocks of a struct, each as often as it is met.
RECURSIVE Ptrs(_)
EntryPtrs(it) == << it.key.ptr >> \o Ptrs(it.val)
Ptrs(s) == << s.ptr >> \o FlattenSeq([i \in DOMAIN s.items |-> EntryPtrs(s.items[i])])

\* Mutant: the keys of a map are not freed.
RECURSIVE FreedButKeys(_)
FreedButKeys(s) ==
    << s.ptr >> \o FlattenSeq([i \in DOMAIN s.items |->
                                 FreedButKeys(s.items[i].val)])

\* What twilic_value_free frees.
Freed(s) == Ptrs(s)

\* free of each, in order; free of NULL does nothing.
Free(acc, ptr) ==
    IF ptr = NULL THEN acc
    ELSE [heap |-> acc.heap \ {ptr}, fault |-> acc.fault \/ ptr \notin acc.heap]

FreeAll(ptrs) ==
    LET acc == FoldLeft(Free, [heap |-> heap, fault |-> fault], ptrs)
    IN  heap' = acc.heap /\ fault' = acc.fault

-----------------------------------------------------------------------------
Init == /\ heap = {} /\ failed = 0 /\ fault = FALSE
        /\ value = [v \in Variables |-> NullStruct]
        /\ item = [e \in Entries |-> NoEntry]
        /\ buffer = NoBuffer

Empty(v) == value[v].kind = "null"

\* A call starts with the heap; all its allocations succeed, or one fails.
Calls == {[heap |-> heap, count |-> 0, fail |-> n, ptr |-> NULL] :
             n \in 0..(IF failed < MaxFailed THEN MaxBlocks ELSE 0)}

\* The failure that was to be is one that happened.
Done(acc) == /\ acc.fail <= acc.count
             /\ heap' = acc.heap
             /\ Cardinality(acc.heap) <= MaxBlocks
             /\ failed' = IF acc.fail > 0 THEN failed + 1 ELSE failed
             /\ UNCHANGED fault

\* A function returns v as a struct, which goes to variable x.
Returns(x, v) ==
    /\ Empty(x) /\ Depth(v) <= MaxDepth
    /\ \E call \in Calls :
          LET r == from_cpp_value(v, call)
          IN  Done(r.acc) /\ value' = [value EXCEPT ![x] = r.struct]
    /\ UNCHANGED << item, buffer >>

\* twilic_bool, twilic_string, twilic_binary and the like.
twilic_atom(x, atom) == Returns(x, atom)

\* The items stay the application's.
ArrayOf(items) == Cpp("array", "", [i \in DOMAIN items |->
                                      Named("", to_cpp_value(value[items[i]]))])

twilic_array(x, items) == /\ \A i \in DOMAIN items : ~Empty(items[i])
                          /\ Returns(x, ArrayOf(items))

\* The struct moves into the entry.
twilic_entry(e, key, x) ==
    /\ item[e] = NoEntry /\ ~Empty(x)
    /\ \E call \in Calls :
          LET dup == dup_cstr(call, key)
          IN  /\ Done(dup.acc)
              /\ item' = [item EXCEPT ![e] = Named(dup.key, value[x])]
    /\ value' = [value EXCEPT ![x] = NullStruct]
    /\ UNCHANGED buffer

\* The entries stay the application's.
MapOf(entries) == Cpp("map", "", [i \in DOMAIN entries |-> CppEntry(item[entries[i]])])

twilic_map(x, entries) == /\ \A i \in DOMAIN entries : item[entries[i]] # NoEntry
                          /\ Returns(x, MapOf(entries))

twilic_value_free(x) ==
    /\ ~Empty(x)
    /\ FreeAll(Freed(value[x]))
    /\ value' = [value EXCEPT ![x] = NullStruct]
    /\ UNCHANGED << item, buffer, failed >>

\* The interface has no function for it: the application calls free for the
\* key and twilic_value_free for the value.
FreeEntry(e) ==
    /\ item[e] # NoEntry
    /\ FreeAll(<< item[e].key.ptr >> \o Freed(item[e].val))
    /\ item' = [item EXCEPT ![e] = NoEntry]
    /\ UNCHANGED << value, buffer, failed >>

\* write_buffer: without a block the buffer is empty and the result -1.
write_buffer(v) ==
    /\ buffer.ptr = NULL
    /\ \E call \in Calls :
          LET m == Malloc(call)
          IN  /\ Done(m)
              /\ buffer' = IF m.ptr = NULL THEN NoBuffer
                           ELSE [ptr |-> m.ptr, holds |-> v]
    /\ UNCHANGED << value, item >>

twilic_encode(x) == ~Empty(x) /\ write_buffer(to_cpp_value(value[x]))

\* Other values than maps have no fields and are refused.
twilic_encode_with_schema(x) == value[x].kind = "map" /\ write_buffer(Message)

twilic_encode_batch == write_buffer(Message)

\* The result is 0 whether or not an allocation failed.
twilic_decode(x) == /\ buffer.ptr # NULL /\ buffer.holds # Message
                    /\ Returns(x, buffer.holds)

twilic_buffer_free ==
    /\ buffer.ptr # NULL
    /\ FreeAll(<< buffer.ptr >>)
    /\ buffer' = NoBuffer
    /\ UNCHANGED << value, item, failed >>

\* One or two arguments for an array or a map.
Lists(S) == {<< a >> : a \in S} \cup {l \in [1..2 -> S] : l[1] # l[2]}

Next == \/ \E v \in Variables :
              \/ \E atom \in Atoms : twilic_atom(v, atom)
              \/ \E items \in Lists(Variables \ {v}) : twilic_array(v, items)
              \/ \E e \in Entries, key \in Keys : twilic_entry(e, key, v)
              \/ \E entries \in Lists(Entries) : twilic_map(v, entries)
              \/ twilic_value_free(v)
              \/ twilic_encode(v)
              \/ twilic_encode_with_schema(v)
              \/ twilic_decode(v)
        \/ \E e \in Entries : FreeEntry(e)
        \/ twilic_encode_batch
        \/ twilic_buffer_free

Spec == Init /\ [][Next]_vars

-----------------------------------------------------------------------------
(* Properties. *)

\* A struct without a block is an empty one, so that no reader follows NULL.
RECURSIVE SafeStruct(_)
SafeStruct(s) ==
    /\ s.ptr = NULL => s.items = << >> /\ (s.kind = "scalar" \/ s.bytes = "")
    /\ \A i \in DOMAIN s.items : SafeStruct(s.items[i].val)

TypeOK == /\ heap \subseteq 1..MaxBlocks
          /\ failed \in 0..MaxFailed
          /\ \A x \in Variables : SafeStruct(value[x])
          /\ \A e \in Entries : SafeStruct(item[e].val)

Times(ptrs, b) == Cardinality({i \in DOMAIN ptrs : ptrs[i] = b})

Owners(b) ==
    MapThenSumSet(LAMBDA x : Times(Ptrs(value[x]), b), Variables)
        + MapThenSumSet(LAMBDA e : Times(EntryPtrs(item[e]), b), Entries)
        + (IF buffer.ptr = b THEN 1 ELSE 0)

\* Each block allocated is reached from one struct, entry or buffer, once, and
\* none reaches a block that was freed: whichever allocation of a call fails,
\* all of it can be freed in any order, each block once, and nothing is left.
OneOwner ==
    /\ ~fault
    /\ \A b \in 1..MaxBlocks : Owners(b) = IF b \in heap THEN 1 ELSE 0

\* v is w with some strings, keys and containers emptied.
RECURSIVE Emptied(_, _)
Emptied(w, v) ==
    /\ v.kind = w.kind
    /\ \/ v.kind # "scalar" /\ v.bytes = "" /\ v.items = << >>
       \/ /\ v.bytes = w.bytes
          /\ DOMAIN v.items = DOMAIN w.items
          /\ \A i \in DOMAIN v.items :
                /\ v.items[i].key \in {w.items[i].key, ""}
                /\ Emptied(w.items[i].val, v.items[i].val)

\* A function that could not allocate reports nothing, twilic_decode not even
\* to a caller that passes an error: what it returns is then still the value
\* asked for but for the parts that are empty now, and else the same value.
CopyOf(w, x) == LET v == to_cpp_value(value'[x])
                IN  Emptied(w, v) /\ (failed' = failed => v = w)

OnlyEmptied ==
    [][\A x \in Variables :
          /\ twilic_decode(x) => CopyOf(buffer.holds, x)
          /\ \A y \in Variables \ {x} :
                twilic_array(x, << y >>) => CopyOf(ArrayOf(<< y >>), x)
          /\ \A e \in Entries :
                twilic_map(x, << e >>) => CopyOf(MapOf(<< e >>), x)]_vars
=============================================================================
