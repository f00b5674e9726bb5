------------------------------ MODULE V2Stream ------------------------------
(***************************************************************************)
(* The v2 format of src/v2.c: encode_v2 writes a document as a stream of   *)
(* tags, decode_v2 reads it back.  Within one document a key and a string  *)
(* travel once and are referred to by number from then on; an array of     *)
(* maps with equal keys travels as its key list and the rows of values.    *)
(* The numbers are the order in which either side met the literals.        *)
(*                                                                         *)
(* The recursion of the source is a stack here: what is left to write, and *)
(* the frames of the values being read.  One action per tag.               *)
(***************************************************************************)
EXTENDS InternTable, Integers, SequencesExt

CONSTANTS Depth,         \* how deep maps and arrays are nested at most
          Docs,          \* the documents
          LongKeys,      \* those of their keys that have more than 31 bytes
          None,          \* nothing returned yet
          InvalidData    \* the decode failed

VARIABLES doc,       \* the document being sent
          todo,      \* what encode_v2 has still to write
          w,         \* its V2EncodeState
          tokens,    \* the tags written, each with the writer's table sizes
          pos,       \* how many of them decode_v2 has read
          r,         \* its V2DecodeState
          frames,    \* the values being read, the innermost last
          res        \* what decode_v2 returned

vars == << doc, todo, w, tokens, pos, r, frames, res >>

-----------------------------------------------------------------------------
(* Documents. *)

\* In the place of a string where there is none.
NoText == ""

Value(kind, num, str, fields) ==
    [kind |-> kind, num |-> num, str |-> str, fields |-> fields]

Entry(key, val) == [key |-> key, val |-> val]

Null      == Value("Null", 0, NoText, << >>)
I64(n)    == Value("I64", n, NoText, << >>)
U64(n)    == Value("U64", n, NoText, << >>)
Str(s)    == Value("String", 0, s, << >>)
MapOf(es) == Value("Map", 0, NoText, es)
ArrayOf(vs) == Value("Array", 0, NoText, [i \in DOMAIN vs |-> Entry(NoText, vs[i])])

KeysOf(v) == [i \in DOMAIN v.fields |-> v.fields[i].key]
ValsOf(v) == [i \in DOMAIN v.fields |-> v.fields[i].val]

ValuesOf(kind, nums, strs, fields) ==
    [kind : {kind}, num : nums, str : strs, fields : fields]

Scalars == ValuesOf("Null", {0}, {NoText}, {<< >>})
               \cup ValuesOf("I64", Int, {NoText}, {<< >>})
               \cup ValuesOf("U64", Nat, {NoText}, {<< >>})
               \cup ValuesOf("String", {0}, STRING, {<< >>})

Containers(vals) ==
    ValuesOf("Map", {0}, {NoText}, Seq([key : STRING, val : vals]))
        \cup ValuesOf("Array", {0}, {NoText}, Seq([key : {NoText}, val : vals]))

\* The values nested d deep at most, and all that a document can hold.
Level[d \in 0..Depth] ==
    IF d = 0 THEN Scalars ELSE Scalars \cup Containers(Level[d - 1])

Values == Level[Depth]

ASSUME DepthAssumption == Depth \in Nat
ASSUME DocsAreValues   == Docs \subseteq Values
ASSUME ResultsAssumption ==
    None # InvalidData /\ None \notin Values /\ InvalidData \notin Values

-----------------------------------------------------------------------------
(* Integers: the tag and the bytes after it, as one number.  U32 and I32   *)
(* stand for the tags of eight bytes too, which read back in the same way. *)

Tag(tag, num, str) == [tag |-> tag, num |-> num, str |-> str]

encode_v2_u64(n) ==
    IF n <= 127        THEN Tag("FixInt", n, NoText)
    ELSE IF n <= 255   THEN Tag("U8", n, NoText)
    ELSE IF n <= 65535 THEN Tag("U16", n, NoText)
    ELSE Tag("U32", n, NoText)

encode_v2_i64(n) ==
    IF -32 <= n /\ n <= -1                THEN Tag("NegFixInt", n % 256, NoText)
    ELSE IF 0 <= n /\ n <= 127            THEN Tag("FixInt", n, NoText)
    ELSE IF -128 <= n /\ n <= 127         THEN Tag("I8", n % 256, NoText)
    ELSE IF -32768 <= n /\ n <= 32767     THEN Tag("I16", n % 65536, NoText)
    ELSE Tag("I32", n, NoText)

Signed(n, half) == IF n < half THEN n ELSE n - 2 * half

\* A byte from 0xE0 on is a negative number; below that it is another tag.
decode_v2_int(t) ==
    CASE t.tag \in {"FixInt", "U8", "U16", "U32"} -> U64(t.num)
      [] t.tag = "NegFixInt" -> IF t.num >= 224 THEN I64(t.num - 256)
                                                ELSE InvalidData
      [] t.tag = "I8"        -> I64(Signed(t.num, 128))
      [] t.tag = "I16"       -> I64(Signed(t.num, 32768))
      [] t.tag = "I32"       -> I64(t.num)

IntTags == {"FixInt", "U8", "U16", "U32", "NegFixInt", "I8", "I16", "I32"}

-----------------------------------------------------------------------------
(* encode_v2. *)

WriteKeyItem(k) == [key |-> TRUE, str |-> k, val |-> Null]
WriteValItem(v) == [key |-> FALSE, str |-> NoText, val |-> v]

MapItems(map) ==
    FlattenSeq([i \in DOMAIN map.fields |->
                   << WriteKeyItem(map.fields[i].key),
                      WriteValItem(map.fields[i].val) >>])

ValItems(vals) == [i \in DOMAIN vals |-> WriteValItem(vals[i])]

\* detect_shape_keys: at least two maps with the same, non-empty key list.
HasShape(rows) ==
    /\ Len(rows) >= 2 /\ rows[1].kind = "Map" /\ rows[1].fields # << >>
    /\ \A i \in DOMAIN rows : /\ rows[i].kind = "Map"
                              /\ KeysOf(rows[i]) = KeysOf(rows[1])

NewTables == [keys |-> clear, strings |-> clear, shapes |-> clear]

Writing == todo # << >>

\* A tag leaves; with it, for the properties, the sizes of the tables.
Emit(tag, tables, rest) ==
    /\ w' = tables
    /\ tokens' = Append(tokens, [tag |-> tag, keys |-> Len(tables.keys),
                                 strings |-> Len(tables.strings)])
    /\ todo' = rest \o Tail(todo)
    /\ UNCHANGED << doc, pos, r, frames, res >>

\* Mutant: a key is looked up among the strings as well.
key_token_any_table(tables, k) ==
    IF HasValue(tables.strings, k) THEN Tag("KeyRef", get_id(tables.strings, k), NoText)
    ELSE IF HasValue(tables.keys, k) THEN Tag("KeyRef", get_id(tables.keys, k), NoText)
    ELSE Tag(IF k \in LongKeys THEN "StrLong" ELSE "StrShort", 0, k)

key_token(tables, k) ==
    IF HasValue(tables.keys, k) THEN Tag("KeyRef", get_id(tables.keys, k), NoText)
    ELSE Tag(IF k \in LongKeys THEN "StrLong" ELSE "StrShort", 0, k)

encode_v2_key ==
    /\ Writing /\ Head(todo).key
    /\ LET k == Head(todo).str
       IN  Emit(key_token(w, k), [w EXCEPT !.keys = register_value(@, k)], << >>)

encode_v2_scalar ==
    /\ Writing /\ ~Head(todo).key
    /\ LET v == Head(todo).val
       IN  /\ v.kind \in {"Null", "I64", "U64"}
           /\ Emit(CASE v.kind = "I64"  -> encode_v2_i64(v.num)
                     [] v.kind = "U64"  -> encode_v2_u64(v.num)
                     [] v.kind = "Null" -> Tag("Null", 0, NoText), w, << >>)

\* Mutant: every string is a literal.
string_token_literal(tables, s) == Tag("StrShort", 0, s)

string_token(tables, s) ==
    IF HasValue(tables.strings, s)
    THEN Tag("StrRef", get_id(tables.strings, s), NoText)
    ELSE Tag("StrShort", 0, s)

encode_v2_string ==
    /\ Writing /\ ~Head(todo).key /\ Head(todo).val.kind = "String"
    /\ LET s == Head(todo).val.str
       IN  Emit(string_token(w, s),
                [w EXCEPT !.strings = register_value(@, s)], << >>)

encode_v2_map ==
    /\ Writing /\ ~Head(todo).key /\ Head(todo).val.kind = "Map"
    /\ LET v == Head(todo).val
       IN  Emit(Tag("Map", Len(v.fields), NoText), w, MapItems(v))

\* The header of an array whose rows have a shape is followed by ShapeDef,
\* the number of the shape and of its keys.
encode_v2_array ==
    /\ Writing /\ ~Head(todo).key /\ Head(todo).val.kind = "Array"
    /\ LET rows   == ValsOf(Head(todo).val)
           keys   == KeysOf(rows[1])
           shapes == register_value(w.shapes, keys)
           cells  == FlattenSeq([i \in DOMAIN rows |-> ValItems(ValsOf(rows[i]))])
       IN  IF HasShape(rows)
           THEN Emit([tag |-> "ShapeArray", num |-> Len(rows),
                      shape |-> get_id(shapes, keys), key_count |-> Len(keys)],
                     [w EXCEPT !.shapes = shapes],
                     [i \in DOMAIN keys |-> WriteKeyItem(keys[i])] \o cells)
           ELSE Emit(Tag("Array", Len(rows), NoText), w, ValItems(rows))

-----------------------------------------------------------------------------
(* decode_v2.  A frame counts the rows and the keys per row it needs. *)

Frame(what, n, k) ==
    [what |-> what, n |-> n, k |-> k, shape |-> 0, keys |-> << >>,
     vals |-> << >>]

WantsKey(f) ==
    \/ f.what = "map" /\ Len(f.keys) = Len(f.vals) /\ Len(f.vals) < f.n
    \/ f.what = "rows" /\ Len(f.keys) < f.k

Complete(f) == ~WantsKey(f) /\ Len(f.vals) = f.n * f.k

\* Mutant: the rows are cut by their number, not by the number of keys.
FrameValueTransposed(f) ==
    CASE f.what = "map"   -> MapOf([i \in 1..f.n |-> Entry(f.keys[i], f.vals[i])])
      [] f.what = "array" -> ArrayOf(f.vals)
      [] f.what = "rows"  -> ArrayOf([i \in 1..f.n |->
             MapOf([j \in 1..f.k |-> Entry(f.keys[j], f.vals[(j - 1) * f.n + i])])])

\* The value of a complete frame.
FrameValue(f) ==
    CASE f.what = "map"   -> MapOf([i \in 1..f.n |-> Entry(f.keys[i], f.vals[i])])
      [] f.what = "array" -> ArrayOf(f.vals)
      [] f.what = "rows"  -> ArrayOf([i \in 1..f.n |->
             MapOf([j \in 1..f.k |-> Entry(f.keys[j], f.vals[(i - 1) * f.k + j])])])

Reading == todo = << >> /\ res = None
Top     == frames[Len(frames)]
Below   == SubSeq(frames, 1, Len(frames) - 1)

\* The next tag, if it is one of these.
NextTag(tags) == pos < Len(tokens) /\ tokens[pos + 1].tag.tag \in tags
Read        == tokens[pos + 1].tag

Consume == pos' = pos + 1 /\ UNCHANGED << doc, todo, w, tokens >>

Fail == res' = InvalidData /\ UNCHANGED << r, frames >>

\* A frame gets a key; one that has all its keys is the shape of its number.
AddKey(tables, k) ==
    LET f    == [Top EXCEPT !.keys = Append(@, k)]
        last == f.what = "rows" /\ Len(f.keys) = f.k
    IN  /\ frames' = Append(Below, f)
        /\ r' = IF last
                THEN [tables EXCEPT !.shapes =
                         [id \in DOMAIN @ \cup {f.shape} |->
                             IF id = f.shape THEN f.keys ELSE @[id]]]
                ELSE tables
        /\ UNCHANGED res

AddVal(tables, v) ==
    /\ frames' = Append(Below, [Top EXCEPT !.vals = Append(@, v)])
    /\ r' = tables
    /\ UNCHANGED res

\* A long key takes the way of a long string, which gives it a number among
\* the strings too.
decode_v2_key ==
    /\ Reading /\ WantsKey(Top) /\ NextTag({"KeyRef", "StrShort", "StrLong"})
    /\ CASE Read.tag = "KeyRef" ->
                IF HasId(r.keys, Read.num) THEN AddKey(r, get_value(r.keys, Read.num))
                                           ELSE Fail
         [] Read.tag = "StrShort" ->
                AddKey([r EXCEPT !.keys = Append(@, Read.str)], Read.str)
         [] Read.tag = "StrLong" ->
                AddKey([r EXCEPT !.keys = Append(@, Read.str),
                                 !.strings = Append(@, Read.str)], Read.str)
    /\ Consume

\* Mutant: the loop over the elements has no end.
WantsValueAlways == Reading /\ ~WantsKey(Top)

WantsValue == Reading /\ ~WantsKey(Top) /\ ~Complete(Top)

decode_v2_scalar ==
    /\ WantsValue /\ NextTag(IntTags \cup {"Null"})
    /\ LET v == IF Read.tag = "Null" THEN Null ELSE decode_v2_int(Read)
       IN  IF v = InvalidData THEN Fail ELSE AddVal(r, v)
    /\ Consume

decode_v2_string ==
    /\ WantsValue /\ NextTag({"StrRef", "StrShort", "StrLong"})
    /\ IF Read.tag = "StrRef"
       THEN IF HasId(r.strings, Read.num)
            THEN AddVal(r, Str(get_value(r.strings, Read.num))) ELSE Fail
       ELSE AddVal([r EXCEPT !.strings = Append(@, Read.str)], Str(Read.str))
    /\ Consume

Open(f) == frames' = Append(frames, f) /\ UNCHANGED << r, res >> /\ Consume

decode_v2_map_body   == /\ WantsValue /\ NextTag({"Map"})
                        /\ Open(Frame("map", Read.num, 1))

decode_v2_array_body ==
    \/ WantsValue /\ NextTag({"Array"}) /\ Open(Frame("array", Read.num, 1))
    \/ /\ WantsValue /\ NextTag({"ShapeArray"})
       /\ Open([Frame("rows", Read.num, Read.key_count) EXCEPT
                   !.shape = Read.shape])

\* Mutant: the loop over the entries of a nested map does not end when it has
\* read the last one, the complete map stays where it is.
ReturnStuck ==
    /\ Reading /\ Len(frames) > 1 /\ Complete(Top)
    /\ frames' = IF Top.what = "map" THEN frames
                 ELSE Append(SubSeq(frames, 1, Len(frames) - 2),
                             [frames[Len(frames) - 1] EXCEPT
                                 !.vals = Append(@, FrameValue(Top))])
    /\ UNCHANGED << doc, todo, w, tokens, pos, r, res >>

\* A complete value returns to the frame below it.
Return ==
    /\ Reading /\ Len(frames) > 1 /\ Complete(Top)
    /\ LET f == frames[Len(frames) - 1]
       IN  frames' = Append(SubSeq(frames, 1, Len(frames) - 2),
                            [f EXCEPT !.vals = Append(@, FrameValue(Top))])
    /\ UNCHANGED << doc, todo, w, tokens, pos, r, res >>

\* decode_v2 returns; bytes that are left are an error.
Finish ==
    /\ Reading /\ Len(frames) = 1 /\ Complete(Top)
    /\ res' = IF pos = Len(tokens) THEN Top.vals[1] ELSE InvalidData
    /\ UNCHANGED << doc, todo, w, tokens, pos, r, frames >>

-----------------------------------------------------------------------------
Init == /\ doc \in Docs /\ todo = << WriteValItem(doc) >>
        /\ w = NewTables /\ tokens = << >>
        /\ pos = 0 /\ r = NewTables /\ frames = << Frame("array", 1, 1) >>
        /\ res = None

\* The codec keeps nothing from one document to the next.
NextDocument ==
    /\ res # None
    /\ doc' \in Docs /\ todo' = << WriteValItem(doc') >>
    /\ w' = NewTables /\ tokens' = << >>
    /\ pos' = 0 /\ r' = NewTables /\ frames' = << Frame("array", 1, 1) >>
    /\ res' = None

\* The steps of the two calls, and what the application does between them.
Step == \/ encode_v2_key \/ encode_v2_scalar \/ encode_v2_string
        \/ encode_v2_map \/ encode_v2_array
        \/ decode_v2_key \/ decode_v2_scalar \/ decode_v2_string
        \/ decode_v2_map_body \/ decode_v2_array_body
        \/ Return \/ Finish

Next == Step \/ NextDocument

\* A call runs on one thread and waits for nothing: it goes on while it can.
\* Nobody has to call again.
Spec == Init /\ [][Next]_vars /\ WF_vars(Step)

-----------------------------------------------------------------------------
(* Properties. *)

\* A frame never holds more than it asked for, a map has read a key at most
\* before its value, and only the innermost value can be complete.
TypeOK ==
    /\ pos \in 0..Len(tokens) /\ frames # << >>
    /\ \A i \in DOMAIN frames :
          LET f == frames[i]
          IN  /\ Len(f.vals) <= f.n * f.k
              /\ f.what = "map"  => Len(f.keys) - Len(f.vals) \in {0, 1}
              /\ f.what = "rows" => Len(f.keys) <= f.k
              /\ Complete(f)     => i = Len(frames)

\* What the reader numbered are the first keys and strings of the writer, as
\* many as the writer had when it wrote the tag read last, and every shape it
\* stored has the keys the writer numbered.
SizeOf(i) == IF i = 0 THEN [keys |-> 0, strings |-> 0] ELSE tokens[i]

TablesInSync ==
    /\ r.keys    = SubSeq(w.keys, 1, SizeOf(pos).keys)
    /\ r.strings = SubSeq(w.strings, 1, SizeOf(pos).strings)
    /\ \A id \in DOMAIN r.shapes : r.shapes[id] = get_value(w.shapes, id)

\* What may change on the way: an I64 from 0 to 127 comes back as a U64.
Unsigned(v) == IF v.kind = "I64" /\ v.num \in 0..127 THEN U64(v.num) ELSE v

Normal[v \in Values] ==
    IF v.kind \in {"Map", "Array"}
    THEN [v EXCEPT !.fields =
             [i \in DOMAIN @ |-> Entry(@[i].key, Normal[@[i].val])]]
    ELSE Unsigned(v)

\* decode_v2 returns the document that was encoded, from all of its bytes:
\* no number is unknown and none resolves to another key or string.
Roundtrip == res # None => res = Normal[doc]

\* Every call ends: whatever the document, the reader's nested loops over
\* entries, elements and rows leave each of its values, and it returns the
\* document rather than wait for bytes that never come.
Returns == res = None ~> res = Normal[doc]

\* Within a document every key and every string travels as a literal once.
\* While keys are read the innermost frame tells which of both a literal is;
\* for the writer, it is the table that grew.
Grew(i, table) == /\ tokens[i].tag.tag \in {"StrShort", "StrLong"}
                  /\ IF table = "keys"
                     THEN tokens[i].keys # SizeOf(i - 1).keys
                     ELSE tokens[i].keys = SizeOf(i - 1).keys

LiteralOnce ==
    \A i, j \in DOMAIN tokens : \A table \in {"keys", "strings"} :
        /\ Grew(i, table) /\ Grew(j, table)
        /\ tokens[i].tag.str = tokens[j].tag.str
        => i = j
=============================================================================
