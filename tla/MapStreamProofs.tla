--------------------------- MODULE MapStreamProofs ---------------------------
(***************************************************************************)
(* What MapStream keeps, for all maps and any number of messages.          *)
(***************************************************************************)
EXTENDS MapStream, MapCodecProofs

-----------------------------------------------------------------------------
(* The inductive invariant. *)

\* A shaped object says null where its map has no entry.
Values == Val \cup {Null}

KeyLists == {KeysOf(map) : map \in Maps}

CodecsOK == CodecOK(snd, Key, KeyLists) /\ CodecOK(rcv, Key, Seq(Key))

\* Every message still stands for its map, to the codec that sent it.
Logged == /\ log \in Seq(Range(log))
          /\ \A i \in 1..Len(log) : /\ log[i].map \in Maps
                                    /\ Says(Key, log[i].msg, log[i].map, snd)

Places == /\ pos \in 0..Len(log)
          /\ out # None => /\ out.at \in 1..Len(log)
                           /\ ~out.own => out.at <= pos

Inv == CodecsOK /\ Logged /\ Places

\* The maps of the stream satisfy what the codec's lemmas ask of a map.
LEMMA MapsTyped ==
    /\ ValuesOK(Key, Values) /\ Maps \subseteq Seq(Fields(Key, Values))
    /\ KeyLists \in SUBSET Seq(Key) /\ \A map \in Maps : KeysOf(map) \in KeyLists
<1>1. Field = Fields(Key, Val) /\ Inner = Fields(Key, [atom : STRING, entries : {<< >>}])
  BY DEF Field, Inner, Fields
<1>2. \A b \in Values : NestedKeys(b) \in Seq(Key)
  <2> SUFFICES ASSUME NEW b \in Values PROVE NestedKeys(b) \in Seq(Key)
    OBVIOUS
  <2>1. CASE b \in Val
    <3>1. b.entries \in Seq(Fields(Key, [atom : STRING, entries : {<< >>}]))
      BY <1>1, <2>1 DEF Val
    <3>2. QED
      BY <3>1, KeysTyped DEF NestedKeys
  <2>2. CASE b = Null
    BY <2>2 DEF Null, Atom, NestedKeys, KeysOf
  <2>3. QED
    BY <2>1, <2>2 DEF Values
<1>3. Null \in Values
  BY DEF Values
<1>4. Maps \subseteq Seq(Fields(Key, Values))
  <2>1. Field \subseteq Fields(Key, Values)
    BY <1>1 DEF Fields, Values
  <2>2. QED
    BY <2>1, MapsAreMaps
<1>5. \A map \in Maps : KeysOf(map) \in Seq(Key)
  BY <1>4, KeysTyped
<1>6. QED
  BY <1>2, <1>3, <1>4, <1>5 DEF ValuesOK, KeyLists

\* The initial state satisfies the invariant.
LEMMA InvInit == Init => Inv
<1> SUFFICES ASSUME Init PROVE Inv
  OBVIOUS
<1>1. CodecsOK
  BY NewCodecOK DEF Init, CodecsOK
<1>2. << >> \in Seq(Range(<< >>)) /\ Len(<< >>) = 0
  BY EmptySeq
<1>3. QED
  BY <1>1, <1>2 DEF Init, Inv, Logged, Places

-----------------------------------------------------------------------------
(* The steps. *)

\* The sender's codec went on, and its log with it or not.
LEMMA SenderGrown ==
    ASSUME Logged, CodecOK(snd, Key, KeyLists), CodecOK(snd', Key, KeyLists),
           Grown(snd, snd')
    PROVE  \A i \in 1..Len(log) : Says(Key, log[i].msg, log[i].map, snd')
BY StillSays DEF Logged

\* Encoding a map keeps the invariant, and what is logged is the message of
\* that map.
LEMMA EncodeKeeps ==
    ASSUME Inv, NEW map \in Maps, Encode(map)
    PROVE  Inv' /\ Grown(snd, snd') /\ Grown(rcv, rcv')
           /\ \E e : /\ e = encode_map(snd, map) /\ snd' = e.codec
                     /\ Longer(log, log', [map |-> map, msg |-> e.msg])
<1>1. PICK e : e = encode_map(snd, map)
  OBVIOUS
<1>2. PICK new : new = [map |-> map, msg |-> e.msg]
  OBVIOUS
<1>3. snd' = e.codec /\ log' = Append(log, new) /\ UNCHANGED << rcv, pos, out >>
  BY <1>1, <1>2 DEF Encode
<1>4. /\ CodecOK(snd', Key, KeyLists) /\ Grown(snd, snd')
      /\ Says(Key, new.msg, new.map, snd')
  <2>1. map \in Seq(Fields(Key, Values)) /\ KeysOf(map) \in KeyLists
    BY MapsTyped
  <2>2. /\ CodecOK(e.codec, Key, KeyLists) /\ Grown(snd, e.codec)
        /\ Says(Key, e.msg, map, e.codec)
    BY <1>1, <2>1, MapsTyped, MapEncoded DEF Inv, CodecsOK
  <2>3. QED
    BY <1>2, <1>3, <2>2
<1>5. Longer(log, log', new)
  BY <1>3, Appended DEF Inv, Logged
<1>6. Len(log) \in Nat
  BY LenProperties DEF Inv, Logged
<1>7. \A i \in 1..Len(log) : Says(Key, log[i].msg, log[i].map, snd')
  BY <1>4, SenderGrown DEF Inv, CodecsOK
<1>8. \A i \in 1..Len(log') : /\ log'[i].map \in Maps
                              /\ Says(Key, log'[i].msg, log'[i].map, snd')
  <2> SUFFICES ASSUME NEW i \in 1..Len(log')
               PROVE  log'[i].map \in Maps /\ Says(Key, log'[i].msg, log'[i].map, snd')
    OBVIOUS
  <2>1. CASE i \in 1..Len(log)
    BY <1>5, <1>7, <2>1 DEF Longer, Inv, Logged
  <2>2. CASE i = Len(log')
    BY <1>2, <1>4, <1>5, <2>2 DEF Longer
  <2>3. QED
    BY <1>5, <1>6, <2>1, <2>2 DEF Longer
<1>9. Logged'
  BY <1>5, <1>8 DEF Logged, Longer
<1>10. Places'
  BY <1>3, <1>5, <1>6 DEF Places, Longer, Inv
<1>11. CodecsOK' /\ Grown(rcv, rcv')
  <2>1. Grown(rcv, rcv)
    BY ExtendsItself DEF Grown, ShapesKept, Inv, CodecsOK, CodecOK, Table
  <2>2. QED
    BY <1>3, <1>4, <2>1 DEF Inv, CodecsOK
<1>12. QED
  BY <1>1, <1>2, <1>3, <1>4, <1>5, <1>9, <1>10, <1>11 DEF Inv

\* The tables of a codec are as they were.
LEMMA CodecStays ==
    ASSUME NEW L, NEW c, CodecOK(c, Key, L)
    PROVE  Grown(c, c)
BY ExtendsItself DEF Grown, ShapesKept, CodecOK, Table

\* What is in the log can be read.
LEMMA LoggedRead ==
    ASSUME Inv, NEW i \in 1..Len(log)
    PROVE  /\ log[i].map \in Seq(Fields(Key, Values)) /\ KeysOf(log[i].map) \in KeyLists
           /\ ReadableMessage(log[i].msg, Key, Values)
<1>1. PICK map \in Maps : map = log[i].map
  BY DEF Inv, Logged
<1>2. map \in Seq(Fields(Key, Values)) /\ KeysOf(map) \in KeyLists
  BY MapsTyped
<1>3. Says(Key, log[i].msg, map, snd)
  BY <1>1 DEF Inv, Logged
<1>4. ReadableMessage(log[i].msg, Key, Values)
  BY <1>2, <1>3, MapsTyped, SaysReadable DEF Inv, CodecsOK
<1>5. QED
  BY <1>1, <1>2, <1>4

\* The receiver decodes what is in the log.
LEMMA ReceiveKeeps ==
    ASSUME Inv, NEW i \in 1..Len(log), NEW d, d = decode_map(rcv, log[i].msg),
           rcv' = d.codec, out' = [at |-> i, own |-> FALSE, res |-> d.res],
           pos' \in 0..Len(log), i <= pos', UNCHANGED << snd, log >>
    PROVE  Inv' /\ Grown(snd, snd') /\ Grown(rcv, rcv')
<1>1. ReadableMessage(log[i].msg, Key, Values)
  BY LoggedRead
<1>2. CodecOK(rcv', Key, Seq(Key)) /\ Grown(rcv, rcv')
  BY <1>1, ForeignDecoded DEF Inv, CodecsOK
<1>3. Grown(snd, snd')
  BY CodecStays DEF Inv, CodecsOK
<1>4. CodecsOK' /\ Logged'
  BY <1>2 DEF Inv, CodecsOK, Logged
<1>5. Places'
  BY DEF Places
<1>6. QED
  BY <1>2, <1>3, <1>4, <1>5 DEF Inv

\* Decoding a message, once or again, keeps the invariant and only grows the
\* codecs.
LEMMA DecodeKeeps ==
    ASSUME Inv, Decode \/ \E i \in 1..pos : DecodeAgain(i)
    PROVE  Inv' /\ Grown(snd, snd') /\ Grown(rcv, rcv')
<1>1. Len(log) \in Nat /\ pos \in 0..Len(log)
  BY LenProperties DEF Inv, Logged, Places
<1>2. CASE Decode
  <2>1. PICK d : d = decode_map(rcv, log[pos + 1].msg)
    OBVIOUS
  <2>2. /\ rcv' = d.codec /\ out' = [at |-> pos + 1, own |-> FALSE, res |-> d.res]
        /\ pos' = pos + 1 /\ pos < Len(log) /\ UNCHANGED << snd, log >>
    BY <1>2, <2>1 DEF Decode
  <2>3. pos + 1 \in 1..Len(log) /\ pos' \in 0..Len(log) /\ pos + 1 <= pos'
    BY <1>1, <2>2
  <2>4. QED
    BY <2>1, <2>2, <2>3, ReceiveKeeps
<1>3. ASSUME NEW i \in 1..pos, DecodeAgain(i) PROVE Inv' /\ Grown(snd, snd') /\ Grown(rcv, rcv')
  <2>1. PICK d : d = decode_map(rcv, log[i].msg)
    OBVIOUS
  <2>2. /\ rcv' = d.codec /\ out' = [at |-> i, own |-> FALSE, res |-> d.res]
        /\ pos' = pos /\ UNCHANGED << snd, log >>
    BY <1>3, <2>1 DEF DecodeAgain
  <2>3. i \in 1..Len(log) /\ pos' \in 0..Len(log) /\ i <= pos'
    BY <1>1, <2>2
  <2>4. QED
    BY <2>1, <2>2, <2>3, ReceiveKeeps
<1>4. QED
  BY <1>2, <1>3

\* A sender that decodes its own message keeps the invariant and its key
\* table, and reads the map it sent.
LEMMA OwnKeeps ==
    ASSUME Inv, NEW i \in DOMAIN log, DecodeOwn(i)
    PROVE  /\ Inv' /\ Grown(snd, snd') /\ Grown(rcv, rcv')
           /\ snd'.key_table = snd.key_table /\ UNCHANGED log
           /\ OwnShape(log[i].map, KeyLists) => out'.res = log[i].map
<1>1. PICK d : d = decode_map(snd, log[i].msg)
  OBVIOUS
<1>2. /\ snd' = d.codec /\ out' = [at |-> i, own |-> TRUE, res |-> d.res]
      /\ UNCHANGED << rcv, log, pos >>
  BY <1>1 DEF DecodeOwn
<1>3. i \in 1..Len(log)
  BY LenProperties DEF Inv, Logged
<1>4. PICK map : map = log[i].map
  OBVIOUS
<1>5. /\ map \in Seq(Fields(Key, Values)) /\ KeysOf(map) \in KeyLists
      /\ Says(Key, log[i].msg, map, snd)
  BY <1>3, <1>4, LoggedRead DEF Inv, Logged
<1>6. /\ CodecOK(snd', Key, KeyLists) /\ Grown(snd, snd')
      /\ snd'.key_table = snd.key_table
      /\ log[i].msg.kind = "Map" \/ OwnShape(map, KeyLists) => d.res = map
  BY <1>1, <1>2, <1>5, MapsTyped, OwnDecoded DEF Inv, CodecsOK
<1>7. \A j \in 1..Len(log) : Says(Key, log[j].msg, log[j].map, snd')
  BY <1>6, SenderGrown DEF Inv, CodecsOK
<1>8. CodecsOK' /\ Logged'
  BY <1>2, <1>6, <1>7 DEF Inv, CodecsOK, Logged
<1>9. Places'
  BY <1>2, <1>3 DEF Inv, Places
<1>10. Grown(rcv, rcv')
  BY <1>2, CodecStays DEF Inv, CodecsOK
<1>11. QED
  BY <1>2, <1>4, <1>6, <1>8, <1>9, <1>10 DEF Inv

\* Forgetting an observed shape keeps the invariant and the numbers.
LEMMA ForgetKeeps ==
    ASSUME Inv, NEW map, reset_encode_shape_observation(map)
    PROVE  /\ Inv' /\ Grown(snd, snd') /\ Grown(rcv, rcv')
           /\ snd'.key_table = snd.key_table
<1>1. PICK counts : snd' = [snd EXCEPT !.encode_shape_observations = counts]
  BY Zenon DEF reset_encode_shape_observation
<1>2. /\ snd'.key_table = snd.key_table /\ snd'.shape_table = snd.shape_table
      /\ CodecOK(snd', Key, KeyLists)
  BY <1>1 DEF Inv, CodecsOK, CodecOK
<1>3. Grown(snd, snd') /\ Grown(rcv, rcv')
  BY <1>2, CodecStays DEF Inv, CodecsOK, Grown, reset_encode_shape_observation
<1>4. \A j \in 1..Len(log) : Says(Key, log[j].msg, log[j].map, snd')
  BY <1>2, <1>3, SenderGrown DEF Inv, CodecsOK
<1>5. QED
  BY <1>2, <1>3, <1>4 DEF Inv, CodecsOK, Logged, Places, reset_encode_shape_observation

\* Every step keeps the invariant, and no step but a reset takes anything from
\* the tables.
LEMMA NextKeeps ==
    ASSUME Inv, [Next]_vars
    PROVE  Inv' /\ (log' # << >> => Grown(snd, snd') /\ Grown(rcv, rcv'))
<1>1. CASE \E map \in Maps : Encode(map)
  BY <1>1, EncodeKeeps
<1>2. CASE Decode \/ \E i \in 1..pos : DecodeAgain(i)
  BY <1>2, DecodeKeeps
<1>3. CASE \E i \in DOMAIN log : DecodeOwn(i)
  BY <1>3, OwnKeeps
<1>4. CASE \E map \in Maps : reset_encode_shape_observation(map)
  BY <1>4, ForgetKeeps
<1>5. CASE reset_tables
  <2>1. Init'
    BY <1>5 DEF reset_tables, Init
  <2>2. Inv'
    BY <2>1, InvInit, PTL
  <2>3. QED
    BY <1>5, <2>2 DEF reset_tables
<1>6. CASE UNCHANGED vars
  BY <1>6, CodecStays DEF vars, Inv, CodecsOK, Logged, Places
<1>7. QED
  BY <1>1, <1>2, <1>3, <1>4, <1>5, <1>6 DEF Next

\* The invariant holds in every reachable state.
LEMMA InvAlways == Spec => []Inv
<1>1. Inv /\ [Next]_vars => Inv'
  BY NextKeeps
<1>2. QED
  BY <1>1, InvInit, PTL DEF Spec

-----------------------------------------------------------------------------
(* The theorems. *)

\* In both codecs no key has two ids, by_keys and by_id of the shape table are
\* inverse to each other and next_id is the first free number, whatever was
\* encoded, decoded, read again or forgotten (InternTable and ShapeTable of
\* src/session.c).
THEOREM CodecsTyped == Spec => []TypeOK
<1>1. Inv => TypeOK
  BY CodecWellFormed DEF Inv, CodecsOK, Places, TypeOK
<1>2. QED
  BY <1>1, InvAlways, PTL

\* A codec that has grown gave no number to another key or shape.
LEMMA GrownKept ==
    ASSUME NEW L, NEW c, NEW d, CodecOK(c, Key, L), CodecOK(d, Key, L), Grown(c, d)
    PROVE  NumbersKept(c, d)
<1>1. PICK t \in Seq(Key) : t = c.key_table
  BY DEF CodecOK, Table
<1>2. PICK u \in Seq(Key) : u = d.key_table
  BY DEF CodecOK, Table
<1>3. PICK n \in Nat : n = Len(t)
  BY LenProperties
<1>4. PICK m \in Nat : m = Len(u) /\ n <= m /\ \A i \in 1..n : u[i] = t[i]
  BY <1>1, <1>2, <1>3, LenProperties DEF Grown, Extends
<1>5. SubSeq(t, 1, n) = [i \in 1..n |-> t[i]] /\ SubSeq(u, 1, n) = [i \in 1..n |-> u[i]]
  BY <1>3, <1>4
<1>6. IsPrefix(t, u)
  BY <1>3, <1>4, <1>5 DEF IsPrefix
<1>7. QED
  BY <1>1, <1>2, <1>6 DEF NumbersKept, Grown, ShapesKept

\* Until a reset the ids of the keys and the numbers of the key lists stay as
\* they were given, in either codec (register_value, ShapeTable::register_keys
\* and all their callers in src/protocol.c).
THEOREM NumbersStay == Spec => IdsAreForever
<1>1. Inv /\ [Next]_vars
        => [log' # << >> => NumbersKept(snd, snd') /\ NumbersKept(rcv, rcv')]_vars
  <2> SUFFICES ASSUME Inv, [Next]_vars, log' # << >>
               PROVE  NumbersKept(snd, snd') /\ NumbersKept(rcv, rcv')
    OBVIOUS
  <2>1. Inv' /\ Grown(snd, snd') /\ Grown(rcv, rcv')
    BY NextKeeps
  <2>2. QED
    BY <2>1, GrownKept DEF Inv, CodecsOK
<1>2. QED
  BY <1>1, InvAlways, PTL DEF Spec, IdsAreForever

\* The keys of the maps sent are in the sender's table.
LEMMA KeysKnown ==
    ASSUME Inv, NEW i \in 1..Len(log), log[i].msg.kind = "Map",
           NEW m \in DOMAIN log[i].map
    PROVE  HasValue(snd.key_table, log[i].map[m].key)
<1>1. SaysMap(Key, log[i].msg, log[i].map, snd.key_table)
  BY DEF Inv, Logged, Says, SaysShaped
<1>2. m \in 1..Len(log[i].map)
  <2>1. log[i].map \in Seq(Fields(Key, Values))
    BY LoggedRead
  <2>2. QED
    BY <2>1, LenProperties
<1>3. QED
  BY <1>1, <1>2 DEF SaysMap

\* Every step keeps a key from being spelled out twice.
LEMMA LiteralsInductive == Inv /\ LiteralKeyOnce /\ [Next]_vars => LiteralKeyOnce'
<1> SUFFICES ASSUME Inv, LiteralKeyOnce, [Next]_vars PROVE LiteralKeyOnce'
  OBVIOUS
<1>1. ASSUME NEW map \in Maps, Encode(map) PROVE LiteralKeyOnce'
  <2>1. PICK e : /\ e = encode_map(snd, map)
                 /\ Longer(log, log', [map |-> map, msg |-> e.msg])
    BY <1>1, EncodeKeeps
  <2>2. PICK n \in Nat : n = Len(log) /\ DOMAIN log = 1..n
    BY LenProperties DEF Inv, Logged
  <2>3. /\ DOMAIN log' = 1..n + 1 /\ log'[n + 1].map = map /\ log'[n + 1].msg = e.msg
        /\ \A i \in 1..n : log'[i] = log[i]
    BY <2>1, <2>2, LenProperties DEF Longer
  <2>4. map \in Seq(Fields(Key, Values)) /\ KeysOf(map) \in KeyLists
    BY MapsTyped
  <2>5. LiteralsNew(e.msg, map, snd)
    BY <2>1, <2>4, MapsTyped, MapEncoded DEF Inv, CodecsOK
  <2>6. PICK k \in Nat : DOMAIN map = 1..k /\ Len(map) = k
    BY <2>4, LenProperties
  <2> DEFINE Literal(i, m) == /\ log'[i].msg.kind = "Map"
                              /\ ~log'[i].msg.entries[m].ref.is_id
  <2>7. ASSUME NEW m \in 1..k, Literal(n + 1, m)
        PROVE  /\ ~HasValue(snd.key_table, map[m].key)
               /\ \A j \in 1..m - 1 : map[j].key # map[m].key
    BY <2>3, <2>5, <2>6, <2>7 DEF LiteralsNew
  <2>8. \A i \in 1..n : \A m \in DOMAIN log'[i].map :
            Literal(i, m) => HasValue(snd.key_table, log'[i].map[m].key)
    BY <2>2, <2>3, KeysKnown
  <2>9. ASSUME NEW i \in 1..n + 1, NEW j \in 1..n + 1,
               NEW m \in DOMAIN log'[i].map, NEW h \in DOMAIN log'[j].map,
               Literal(i, m), Literal(j, h), log'[i].map[m].key = log'[j].map[h].key
        PROVE  i = j /\ m = h
    <3>1. CASE i \in 1..n /\ j \in 1..n
      BY <2>2, <2>3, <2>9, <3>1 DEF LiteralKeyOnce
    <3>2. CASE i = n + 1 /\ j = n + 1
      <4>1. m \in 1..k /\ h \in 1..k
        BY <2>3, <2>6, <3>2
      <4>2. map[m].key = map[h].key
        BY <2>3, <2>9, <3>2
      <4>3. /\ \A l \in 1..m - 1 : map[l].key # map[m].key
            /\ \A l \in 1..h - 1 : map[l].key # map[h].key
        BY <2>7, <2>9, <3>2, <4>1
      <4>4. m = h
        BY <4>1, <4>2, <4>3
      <4>5. QED
        BY <3>2, <4>4
    <3>3. CASE i = n + 1 /\ j \in 1..n
      BY <2>3, <2>6, <2>7, <2>8, <2>9, <3>3
    <3>4. CASE i \in 1..n /\ j = n + 1
      BY <2>3, <2>6, <2>7, <2>8, <2>9, <3>4
    <3>5. QED
      BY <3>1, <3>2, <3>3, <3>4
  <2> HIDE DEF Literal
  <2>10. QED
    BY <2>3, <2>9 DEF LiteralKeyOnce, Literal
<1>2. CASE Decode \/ (\E i \in 1..pos : DecodeAgain(i)) \/ (\E i \in DOMAIN log : DecodeOwn(i))
           \/ (\E map \in Maps : reset_encode_shape_observation(map)) \/ UNCHANGED vars
  <2>1. UNCHANGED log
    BY <1>2 DEF Decode, DecodeAgain, DecodeOwn, reset_encode_shape_observation, vars
  <2>2. QED
    BY <2>1 DEF LiteralKeyOnce
<1>3. CASE reset_tables
  <2>1. log' = << >>
    BY <1>3 DEF reset_tables
  <2>2. QED
    BY <2>1 DEF LiteralKeyOnce
<1>4. QED
  BY <1>1, <1>2, <1>3 DEF Next

\* Between two resets a key travels as a literal once, in whichever map it
\* comes first (map_message and write_key_ref).
THEOREM LiteralsOnce == Spec => []LiteralKeyOnce
<1>1. Init => LiteralKeyOnce
  BY DEF Init, LiteralKeyOnce
<1>2. QED
  BY <1>1, InvAlways, LiteralsInductive, PTL DEF Spec

\* Every step keeps what a sender made of its own messages right.
LEMMA OwnInductive ==
    ASSUME KeysTellApart
    PROVE  Inv /\ OwnMessagesDecode /\ [Next]_vars => OwnMessagesDecode'
<1> SUFFICES ASSUME Inv, OwnMessagesDecode, [Next]_vars PROVE OwnMessagesDecode'
  OBVIOUS
<1>1. ASSUME NEW map \in Maps, Encode(map) PROVE OwnMessagesDecode'
  <2>1. \A i \in 1..Len(log) : log'[i] = log[i]
    BY <1>1, EncodeKeeps DEF Longer
  <2>2. UNCHANGED out
    BY <1>1 DEF Encode
  <2>3. QED
    BY <2>1, <2>2 DEF OwnMessagesDecode, Inv, Places
<1>2. ASSUME NEW i \in DOMAIN log, DecodeOwn(i) PROVE OwnMessagesDecode'
  <2>1. i \in 1..Len(log)
    BY LenProperties DEF Inv, Logged
  <2>2. OwnShape(log[i].map, KeyLists)
    BY <2>1 DEF Inv, Logged, KeysTellApart, OwnShape, KeyLists
  <2>3. out'.res = log[i].map /\ UNCHANGED log /\ out'.at = i
    BY <1>2, <2>2, OwnKeeps DEF DecodeOwn
  <2>4. QED
    BY <2>3 DEF OwnMessagesDecode
<1>3. CASE Decode \/ \E i \in 1..pos : DecodeAgain(i)
  BY <1>3 DEF Decode, DecodeAgain, OwnMessagesDecode
<1>4. CASE (\E map \in Maps : reset_encode_shape_observation(map)) \/ UNCHANGED vars
  BY <1>4 DEF reset_encode_shape_observation, vars, OwnMessagesDecode
<1>5. CASE reset_tables
  BY <1>5 DEF reset_tables, OwnMessagesDecode
<1>6. QED
  BY <1>1, <1>2, <1>3, <1>4, <1>5 DEF Next

\* A codec that decodes its own messages, in any order and any number of
\* times, gets back every map, if no map repeats a key and no two key lists
\* have one shape_key (message_for_value, read_message and decode_value).
THEOREM OwnMessages == ASSUME KeysTellApart PROVE Spec => []OwnMessagesDecode
<1>1. Init => OwnMessagesDecode
  BY DEF Init, OwnMessagesDecode
<1>2. Inv /\ OwnMessagesDecode /\ [Next]_vars => OwnMessagesDecode'
  BY OwnInductive
<1>3. QED
  BY <1>1, <1>2, InvAlways, PTL DEF Spec

-----------------------------------------------------------------------------
(* A receiver that follows. *)

\* seen holds the table the sender had after each message.  A flat message
\* takes a reader from the table before to the table after, and a Map message
\* means its map to whoever has the table after.
Tracks(seen) ==
    /\ seen \in [0..Len(log) -> Table(Key)]
    /\ seen[0] = << >> /\ seen[Len(log)] = snd.key_table
    /\ \A i, j \in 0..Len(log) : i <= j => Extends(seen[i], seen[j])
    /\ \A i \in 1..Len(log) :
          LET msg == log[i].msg
              map == log[i].map
          IN  /\ IsFlat(map) => Renews(msg, map, seen[i - 1], seen[i])
              /\ msg.kind = "Map" => SaysMap(Key, msg, map, seen[i])

FlatSoFar == \A i \in 1..pos : IsFlat(log[i].map)

InStep == \E seen : Tracks(seen) /\ (FlatSoFar => rcv.key_table = seen[pos])

\* The initial state has the reader in step.
LEMMA InStepInit == Init => InStep
<1> SUFFICES ASSUME Init PROVE InStep
  OBVIOUS
<1>1. PICK seen : seen = [i \in 0..0 |-> << >>]
  OBVIOUS
<1>2. << >> \in Table(Key)
  BY DEF Table, Distinct
<1>3. seen[0] = << >> /\ seen \in [0..0 -> Table(Key)] /\ \A i \in 0..0 : i = 0
  BY <1>1, <1>2
<1>4. Extends(seen[0], seen[0])
  BY <1>2, <1>3, ExtendsItself DEF Table
<1>5. /\ snd.key_table = << >> /\ rcv.key_table = << >> /\ pos = 0 /\ Len(log) = 0
      /\ 1..Len(log) = {}
  BY DEF Init, NewCodec, clear
<1>6. Tracks(seen)
  BY <1>3, <1>4, <1>5 DEF Tracks
<1>7. QED
  BY <1>3, <1>5, <1>6 DEF InStep

\* The message of a map without nested maps has none either.
LEMMA FlatNested ==
    ASSUME NEW map \in Seq(Fields(Key, Values)), IsFlat(map),
           NEW c, CodecOK(c, Key, KeyLists), NEW msg, Says(Key, msg, map, c)
    PROVE  NoneNested(msg, map)
<1>1. \A b : b.entries = << >> => NestedKeys(b) = << >>
  BY DEF NestedKeys, KeysOf
<1>2. \A i \in 1..Len(map) : NestedKeys(map[i].val) = << >>
  BY <1>1, LenProperties DEF IsFlat
<1>3. CASE msg.kind = "Map"
  BY <1>2, <1>3 DEF NoneNested
<1>4. CASE msg.kind # "Map"
  <2>1. PICK keys : msg.vals = [i \in DOMAIN keys |-> FieldOf(map, keys[i])]
    BY <1>4 DEF Says, SaysMap, SaysShaped
  <2>2. NestedKeys(Null) = << >>
    BY <1>1 DEF Null, Atom
  <2>3. \A i \in DOMAIN keys : NestedKeys(FieldOf(map, keys[i])) = << >>
    BY <1>2, <2>2, FieldIs
  <2>4. QED
    BY <1>4, <2>1, <2>3 DEF NoneNested
<1>5. QED
  BY <1>3, <1>4

\* Encoding a map keeps the reader in step.
LEMMA InStepEncode ==
    ASSUME Inv, InStep, NEW map \in Maps, Encode(map)
    PROVE  InStep'
<1>1. PICK seen : Tracks(seen) /\ (FlatSoFar => rcv.key_table = seen[pos])
  BY DEF InStep
<1>2. PICK e : /\ e = encode_map(snd, map) /\ snd' = e.codec
               /\ Longer(log, log', [map |-> map, msg |-> e.msg])
  BY EncodeKeeps
<1>3. Inv' /\ Grown(snd, snd')
  BY EncodeKeeps
<1>4. PICK n \in Nat : n = Len(log)
  BY LenProperties DEF Inv, Logged
<1>5. /\ Len(log') = n + 1 /\ log'[n + 1].map = map /\ log'[n + 1].msg = e.msg
      /\ \A i \in 1..n : log'[i] = log[i]
  BY <1>2, <1>4 DEF Longer
<1>6. PICK t \in Table(Key) : t = snd.key_table
  BY DEF Inv, CodecsOK, CodecOK
<1>7. PICK u \in Table(Key) : u = snd'.key_table
  BY <1>3 DEF Inv, CodecsOK, CodecOK
<1>8. Extends(t, u)
  BY <1>3, <1>6, <1>7 DEF Grown
<1>9. PICK next : next = [i \in 0..n + 1 |-> IF i <= n THEN seen[i] ELSE u]
  OBVIOUS
<1>10. /\ seen \in [0..n -> Table(Key)] /\ seen[0] = << >> /\ seen[n] = t
       /\ \A i, j \in 0..n : i <= j => Extends(seen[i], seen[j])
  BY <1>1, <1>4, <1>6 DEF Tracks
<1>11. next \in [0..n + 1 -> Table(Key)] /\ next[n + 1] = u /\ \A i \in 0..n : next[i] = seen[i]
  BY <1>9, <1>10
<1>12. ASSUME NEW i \in 0..n + 1, NEW j \in 0..n + 1, i <= j
       PROVE  Extends(next[i], next[j])
  <2>1. CASE j <= n
    BY <1>10, <1>11, <1>12, <2>1
  <2>2. CASE j = n + 1 /\ i <= n
    <3>1. PICK v \in Table(Key) : v = seen[i] /\ Extends(v, t)
      BY <1>10, <2>2
    <3>2. Extends(v, u)
      BY <1>8, <3>1, ExtendsTwice DEF Table
    <3>3. QED
      BY <1>11, <2>2, <3>1, <3>2
  <2>3. CASE i = n + 1 /\ j = n + 1
    BY <1>11, <2>3, ExtendsItself DEF Table
  <2>4. QED
    BY <1>12, <2>1, <2>2, <2>3
<1>13. /\ map \in Seq(Fields(Key, Values)) /\ KeysOf(map) \in KeyLists
       /\ Says(Key, e.msg, map, snd') /\ CodecOK(snd', Key, KeyLists)
  BY <1>3, <1>4, <1>5, MapsTyped DEF Inv, Logged, CodecsOK
<1>14. IsFlat(map) => Renews(e.msg, map, t, u)
  <2>1. IsFlat(map) => NoneNested(e.msg, map)
    BY <1>13, FlatNested
  <2>2. QED
    BY <1>2, <1>6, <1>7, <1>13, <2>1, MapsTyped, FlatEncoded DEF Inv, CodecsOK
<1>15. e.msg.kind = "Map" => SaysMap(Key, e.msg, map, u)
  BY <1>7, <1>13 DEF Says, SaysShaped
<1>16. ASSUME NEW i \in 1..n + 1
       PROVE  /\ IsFlat(log'[i].map)
                   => Renews(log'[i].msg, log'[i].map, next[i - 1], next[i])
              /\ log'[i].msg.kind = "Map"
                   => SaysMap(Key, log'[i].msg, log'[i].map, next[i])
  <2>1. CASE i \in 1..n
    BY <1>1, <1>4, <1>5, <1>11, <2>1 DEF Tracks
  <2>2. CASE i = n + 1
    BY <1>5, <1>10, <1>11, <1>14, <1>15, <2>2
  <2>3. QED
    BY <2>1, <2>2
<1>17. Tracks(next)'
  BY <1>5, <1>7, <1>10, <1>11, <1>12, <1>16 DEF Tracks
<1>18. FlatSoFar' => rcv'.key_table = next[pos']
  <2>1. pos' = pos /\ rcv' = rcv /\ pos \in 0..n
    BY <1>4 DEF Encode, Inv, Places
  <2>2. FlatSoFar' => FlatSoFar
    BY <1>5, <2>1 DEF FlatSoFar
  <2>3. QED
    BY <1>1, <1>11, <2>1, <2>2
<1>19. QED
  BY <1>17, <1>18 DEF InStep

\* The receiver's table after the next message, and what it made of it.
LEMMA NextFollowed ==
    ASSUME Inv, NEW seen, Tracks(seen), rcv.key_table = seen[pos], pos < Len(log),
           IsFlat(log[pos + 1].map),
           NEW d, d = decode_map(rcv, log[pos + 1].msg)
    PROVE  /\ d.codec.key_table = seen[pos + 1]
           /\ log[pos + 1].msg.kind = "Map" => d.res = log[pos + 1].map
<1>1. PICK i : i = pos + 1 /\ i \in 1..Len(log) /\ i - 1 = pos
  BY LenProperties DEF Inv, Places, Logged
<1>2. PICK u : u = seen[i] /\ Renews(log[i].msg, log[i].map, rcv.key_table, u)
  BY <1>1 DEF Tracks
<1>3. /\ log[i].map \in Seq(Fields(Key, Values))
      /\ ReadableMessage(log[i].msg, Key, Values)
      /\ KeysOf(log[i].map) \in Seq(Key)
  BY <1>1, LoggedRead, KeysTyped
<1>4. CodecOK(rcv, Key, Seq(Key)) /\ d = decode_map(rcv, log[i].msg)
  BY <1>1 DEF Inv, CodecsOK
<1>5. Renewed(d, log[i].msg, log[i].map, u)
  BY <1>2, <1>3, <1>4, FreshDecoded
<1>6. QED
  BY <1>1, <1>2, <1>5 DEF Renewed

\* A message that the receiver reads again, with the table it has by then.
LEMMA AgainFollowed ==
    ASSUME Inv, NEW seen, Tracks(seen), rcv.key_table = seen[pos], FlatSoFar,
           NEW i \in 1..pos, NEW d, d = decode_map(rcv, log[i].msg)
    PROVE  /\ d.codec.key_table = seen[pos]
           /\ log[i].msg.kind = "Map" => d.res = log[i].map
<1>1. Len(log) \in Nat /\ pos \in 0..Len(log) /\ i \in 1..Len(log)
  BY LenProperties DEF Inv, Places, Logged
<1>2. PICK t \in Table(Key) : t = seen[i]
  BY <1>1 DEF Tracks
<1>3. PICK u \in Table(Key) : u = seen[pos] /\ Extends(t, u)
  BY <1>1, <1>2 DEF Tracks
<1>4. /\ log[i].map \in Seq(Fields(Key, Values)) /\ KeysOf(log[i].map) \in Seq(Key)
      /\ ReadableMessage(log[i].msg, Key, Values)
  BY <1>1, LoggedRead, KeysTyped
<1>5. CASE log[i].msg.kind = "Map"
  <2>1. SaysMap(Key, log[i].msg, log[i].map, t)
    BY <1>1, <1>2, <1>5 DEF Tracks
  <2>2. SaysMap(Key, log[i].msg, log[i].map, u)
    BY <1>3, <2>1, StillSaysMap
  <2>3. ReadableMap(log[i].msg, Key, Values)
    BY <1>4, <1>5 DEF ReadableMessage, ReadableShaped
  <2>4. d.codec.key_table = rcv.key_table /\ d.res = log[i].map
    BY <1>3, <1>4, <2>2, <2>3, KnownDecoded DEF Inv, CodecsOK
  <2>5. QED
    BY <2>4
<1>6. CASE log[i].msg.kind # "Map"
  <2>1. Renews(log[i].msg, log[i].map, seen[i - 1], seen[i])
    BY <1>1 DEF Tracks, FlatSoFar
  <2>2. PICK k : k = rcv.key_table /\ Renews(log[i].msg, log[i].map, rcv.key_table, k)
    BY <1>6, <2>1 DEF Renews
  <2>3. CodecOK(rcv, Key, Seq(Key))
    BY DEF Inv, CodecsOK
  <2>4. Renewed(d, log[i].msg, log[i].map, k)
    BY <1>4, <2>2, <2>3, FreshDecoded
  <2>5. QED
    BY <1>6, <2>2, <2>4 DEF Renewed
<1>7. QED
  BY <1>5, <1>6

\* Every step keeps the reader in step and what it read right.
LEMMA InStepInductive ==
    Inv /\ InStep /\ MapMessagesDecode /\ [Next]_vars => InStep' /\ MapMessagesDecode'
<1> SUFFICES ASSUME Inv, InStep, MapMessagesDecode, [Next]_vars
             PROVE  InStep' /\ MapMessagesDecode'
  OBVIOUS
<1>1. PICK seen : Tracks(seen) /\ (FlatSoFar => rcv.key_table = seen[pos])
  BY DEF InStep
<1>2. Len(log) \in Nat /\ pos \in 0..Len(log)
  BY LenProperties DEF Inv, Places, Logged
<1>3. ASSUME NEW map \in Maps, Encode(map) PROVE InStep' /\ MapMessagesDecode'
  <2>1. InStep'
    BY <1>3, InStepEncode
  <2>2. \A i \in 1..Len(log) : log'[i] = log[i]
    BY <1>3, EncodeKeeps DEF Longer
  <2>3. UNCHANGED << out, pos >>
    BY <1>3 DEF Encode
  <2>4. out # None => out.at \in 1..Len(log)
    BY DEF Inv, Places
  <2>5. \A i \in 1..pos : i \in 1..Len(log)
    BY <1>2
  <2>6. MapMessagesDecode'
    BY <2>2, <2>3, <2>4, <2>5 DEF MapMessagesDecode
  <2>7. QED
    BY <2>1, <2>6
<1>4. CASE Decode
  <2>1. PICK d : d = decode_map(rcv, log[pos + 1].msg)
    OBVIOUS
  <2>2. /\ rcv' = d.codec /\ out' = [at |-> pos + 1, own |-> FALSE, res |-> d.res]
        /\ pos' = pos + 1 /\ pos < Len(log) /\ UNCHANGED << snd, log >>
    BY <1>4, <2>1 DEF Decode
  <2>3. FlatSoFar' => FlatSoFar /\ IsFlat(log[pos + 1].map)
    BY <1>2, <2>2 DEF FlatSoFar
  <2>4. FlatSoFar' => /\ d.codec.key_table = seen[pos + 1]
                      /\ log[pos + 1].msg.kind = "Map" => d.res = log[pos + 1].map
    BY <1>1, <2>1, <2>2, <2>3, NextFollowed
  <2>5. Tracks(seen)'
    BY <1>1, <2>2 DEF Tracks
  <2>6. InStep'
    BY <2>2, <2>4, <2>5 DEF InStep
  <2>7. MapMessagesDecode'
    BY <2>2, <2>4 DEF MapMessagesDecode, FlatSoFar
  <2>8. QED
    BY <2>6, <2>7
<1>5. ASSUME NEW i \in 1..pos, DecodeAgain(i) PROVE InStep' /\ MapMessagesDecode'
  <2>1. PICK d : d = decode_map(rcv, log[i].msg)
    OBVIOUS
  <2>2. /\ rcv' = d.codec /\ out' = [at |-> i, own |-> FALSE, res |-> d.res]
        /\ pos' = pos /\ UNCHANGED << snd, log >>
    BY <1>5, <2>1 DEF DecodeAgain
  <2>3. FlatSoFar' => FlatSoFar
    BY <2>2 DEF FlatSoFar
  <2>4. FlatSoFar' => /\ d.codec.key_table = seen[pos]
                      /\ log[i].msg.kind = "Map" => d.res = log[i].map
    BY <1>1, <2>1, <2>3, AgainFollowed
  <2>5. Tracks(seen)'
    BY <1>1, <2>2 DEF Tracks
  <2>6. InStep'
    BY <2>2, <2>4, <2>5 DEF InStep
  <2>7. MapMessagesDecode'
    BY <2>2, <2>4 DEF MapMessagesDecode, FlatSoFar
  <2>8. QED
    BY <2>6, <2>7
<1>6. ASSUME snd'.key_table = snd.key_table, UNCHANGED << rcv, log, pos >>
      PROVE  InStep'
  <2>1. Tracks(seen)'
    BY <1>1, <1>6 DEF Tracks
  <2>2. FlatSoFar' => rcv'.key_table = seen[pos']
    BY <1>1, <1>6 DEF FlatSoFar
  <2>3. QED
    BY <2>1, <2>2 DEF InStep
<1>7. ASSUME NEW i \in DOMAIN log, DecodeOwn(i) PROVE InStep' /\ MapMessagesDecode'
  <2>1. snd'.key_table = snd.key_table
    BY <1>7, OwnKeeps
  <2>2. UNCHANGED << rcv, log, pos >> /\ out'.own = TRUE
    BY <1>7 DEF DecodeOwn
  <2>3. QED
    BY <1>6, <2>1, <2>2 DEF MapMessagesDecode
<1>8. ASSUME NEW map \in Maps, reset_encode_shape_observation(map)
      PROVE  InStep' /\ MapMessagesDecode'
  <2>1. snd'.key_table = snd.key_table
    BY <1>8, ForgetKeeps
  <2>2. UNCHANGED << rcv, log, pos, out >>
    BY <1>8 DEF reset_encode_shape_observation
  <2>3. QED
    BY <1>6, <2>1, <2>2 DEF MapMessagesDecode
<1>9. CASE reset_tables
  <2>1. Init' /\ out' = None
    BY <1>9 DEF reset_tables, Init
  <2>2. InStep'
    BY <2>1, InStepInit, PTL
  <2>3. QED
    BY <2>1, <2>2 DEF MapMessagesDecode
<1>10. CASE UNCHANGED vars
  BY <1>6, <1>10 DEF vars, MapMessagesDecode
<1>11. QED
  BY <1>3, <1>4, <1>5, <1>7, <1>8, <1>9, <1>10 DEF Next

\* As long as no map is nested, a receiver that decodes every message, with
\* any of them handed to it again, gets the map of every Map message: the ids
\* it gave are the sender's (map_message, write_key_ref and read_message).
THEOREM MapMessages == Spec => []MapMessagesDecode
<1>1. Init => MapMessagesDecode
  BY DEF Init, MapMessagesDecode
<1>2. QED
  BY <1>1, InStepInit, InvAlways, InStepInductive, PTL DEF Spec
=============================================================================
