--------------------------- MODULE MapCodecProofs ---------------------------
(***************************************************************************)
(* Lemmas about the key table and the shape table of a codec and about the *)
(* messages MapCodec makes of maps: what registering and reading keep, and *)
(* that a message reads back as the map it was made from.                  *)
(***************************************************************************)
EXTENDS MapCodec, Induction

-----------------------------------------------------------------------------
(* The key table. *)

Table(S) == {t \in Seq(S) : Distinct(t)}

\* A table only gets longer.
Extends(t, u) == /\ Len(t) <= Len(u)
                 /\ \A i \in 1..Len(t) : u[i] = t[i]

\* A table extends itself.
LEMMA ExtendsItself ==
    ASSUME NEW S, NEW t \in Seq(S)
    PROVE  Extends(t, t)
BY LenProperties DEF Extends

\* A table that extends an extension extends the first.
LEMMA ExtendsTwice ==
    ASSUME NEW S, NEW t \in Seq(S), NEW u \in Seq(S), NEW v \in Seq(S),
           Extends(t, u), Extends(u, v)
    PROVE  Extends(t, v)
BY LenProperties DEF Extends

\* A value that a table holds, every extension of it holds.
LEMMA StillKnown ==
    ASSUME NEW S, NEW t \in Seq(S), NEW u \in Seq(S), Extends(t, u),
           NEW v, HasValue(t, v)
    PROVE  HasValue(u, v)
BY LenProperties DEF Extends, HasValue

\* Registering a value keeps a table without repeats, extends it, puts the
\* value there and changes nothing when it is there.
LEMMA RegisteredOne ==
    ASSUME NEW S, NEW t \in Table(S), NEW v \in S
    PROVE  /\ register_value(t, v) \in Table(S)
           /\ Extends(t, register_value(t, v))
           /\ HasValue(register_value(t, v), v)
           /\ HasValue(t, v) => register_value(t, v) = t
<1>1. t \in Seq(S) /\ Distinct(t)
  BY DEF Table
<1>2. CASE HasValue(t, v)
  BY <1>1, <1>2, ExtendsItself DEF register_value
<1>3. CASE ~HasValue(t, v)
  <2>1. PICK n \in Nat : n = Len(t) /\ DOMAIN t = 1..n
    BY <1>1, LenProperties
  <2>2. PICK u \in Seq(S) : u = Append(t, v)
    BY <1>1, AppendProperties
  <2>3. /\ Len(u) = n + 1 /\ DOMAIN u = 1..n + 1 /\ u[n + 1] = v
        /\ \A i \in 1..n : u[i] = t[i]
    BY <1>1, <2>1, <2>2, AppendProperties, LenProperties
  <2>4. Extends(t, u)
    BY <2>1, <2>3 DEF Extends
  <2>5. HasValue(u, v)
    BY <2>3 DEF HasValue
  <2>6. \A i \in 1..n : t[i] # v
    BY <1>3, <2>1 DEF HasValue
  <2>7. Distinct(u)
    BY <1>1, <2>1, <2>3, <2>6 DEF Distinct
  <2>8. register_value(t, v) = u
    BY <1>3, <2>2 DEF register_value
  <2>9. QED
    BY <1>3, <2>4, <2>5, <2>7, <2>8 DEF Table
<1>4. QED
  BY <1>2, <1>3

\* The table after each of the keys.
Turns(after, S, t, keys) ==
    /\ after \in [0..Len(keys) -> Table(S)]
    /\ after[0] = t
    /\ \A i \in 1..Len(keys) : after[i] = register_value(after[i - 1], keys[i])

\* RegisterAll is the last of the tables that register one key at a time.
LEMMA RegisterTurns ==
    ASSUME NEW S, NEW t \in Table(S), NEW keys \in Seq(S)
    PROVE  \E after : Turns(after, S, t, keys) /\ RegisterAll(t, keys) = after[Len(keys)]
<1>1. PICK n \in Nat : n = Len(keys) /\ \A i \in 1..n : keys[i] \in S
  BY LenProperties, ElementOfSeq
<1> DEFINE Step(f) == [i \in 0..n |-> IF i = 0 THEN t
                                      ELSE register_value(f[i - 1], keys[i])]
           after == CHOOSE f : f = Step(f)
           F == [x \in Table(S) \X (1..n) |-> register_value(x[1], keys[x[2]])]
<1>2. RegisterAll(t, keys) = after[n]
  BY <1>1 DEF RegisterAll
<1>3. F \in [Table(S) \X (1..n) -> Table(S)]
  BY <1>1, RegisteredOne
<1>4. PICK f \in [0..n -> Table(S)] : Follows(f, n, t, F)
  <2> HIDE DEF F
  <2>1. QED
    BY <1>3, Iteration
<1>5. ASSUME NEW i \in 1..n
      PROVE  f[i] = register_value(f[i - 1], keys[i])
  <2>1. i - 1 \in 0..n
    OBVIOUS
  <2>2. << f[i - 1], i >> \in Table(S) \X (1..n)
    BY <2>1
  <2>3. f[i] = F[<< f[i - 1], i >>]
    BY <1>4 DEF Follows
  <2>4. QED
    BY <2>2, <2>3
<1>6. f[0] = t
  BY <1>4 DEF Follows
<1> HIDE DEF F
<1>7. f = Step(f)
  BY <1>5, <1>6
<1>8. after = Step(after)
  <2> HIDE DEF Step
  <2>1. QED
    BY <1>7
<1> HIDE DEF after
<1>9. \A i \in 1..n : after[i - 1] \in Table(S) => after[i] \in Table(S)
  BY <1>1, <1>8, RegisteredOne
<1>10. after[0] = t
  BY <1>8
<1>11. \A i \in 0..n : after[i] \in Table(S)
  BY <1>9, <1>10, StaysIn
<1>12. \A i \in 1..n : after[i] = register_value(after[i - 1], keys[i])
  BY <1>8
<1>13. after \in [0..n -> Table(S)]
  <2>1. after = [i \in 0..n |-> after[i]]
    BY <1>8
  <2> QED
    BY <2>1, <1>11
<1>14. QED
  BY <1>1, <1>2, <1>10, <1>12, <1>13 DEF Turns

\* The table after the first of them is the one after registering the first.
LEMMA RegisterSome ==
    ASSUME NEW S, NEW t \in Table(S), NEW keys \in Seq(S),
           NEW after, Turns(after, S, t, keys), NEW m \in 0..Len(keys)
    PROVE  RegisterAll(t, SubSeq(keys, 1, m)) = after[m]
<1>1. Len(keys) \in Nat /\ \A i \in 1..Len(keys) : keys[i] \in S
  BY LenProperties, ElementOfSeq
<1>2. PICK some \in Seq(S) : some = SubSeq(keys, 1, m)
  <2>1. \A i \in 1..m : keys[i] \in S
    BY <1>1
  <2>2. m \in Int /\ 1 \in Int
    BY <1>1
  <2>3. SubSeq(keys, 1, m) \in Seq(S)
    BY <2>1, <2>2, SubSeqProperties
  <2>4. QED
    BY <2>3
<1>3. Len(some) = m /\ \A i \in 1..m : some[i] = keys[i]
  BY <1>1, <1>2, SubSeqProperties
<1>4. PICK f : Turns(f, S, t, some) /\ RegisterAll(t, some) = f[Len(some)]
  BY RegisterTurns
<1> DEFINE T == {i \in 0..m : f[i] = after[i]}
<1>5. 0 \in T
  BY <1>4 DEF Turns
<1>6. ASSUME NEW i \in 1..m, i - 1 \in T
      PROVE  i \in T
  <2>1. i \in 1..Len(keys)
    BY <1>1
  <2>2. f[i] = register_value(f[i - 1], some[i])
    BY <1>3, <1>4 DEF Turns
  <2>3. after[i] = register_value(after[i - 1], keys[i])
    BY <2>1 DEF Turns
  <2>4. QED
    BY <1>3, <1>6, <2>2, <2>3
<1>7. 0..m \subseteq T
  <2>1. m \in Nat
    BY <1>1
  <2> HIDE DEF T
  <2>2. QED
    BY <2>1, <1>5, <1>6, UpTo
<1>8. f[m] = after[m]
  BY <1>1, <1>7
<1>9. QED
  BY <1>2, <1>3, <1>4, <1>8

\* Each table extends those before, and holds the keys registered so far.
LEMMA TurnsGrow ==
    ASSUME NEW S, NEW t \in Table(S), NEW keys \in Seq(S),
           NEW after, Turns(after, S, t, keys), NEW m \in 0..Len(keys)
    PROVE  /\ after[m] \in Table(S) /\ Extends(t, after[m])
           /\ \A i \in 1..m : HasValue(after[m], keys[i])
           /\ (\A i \in 1..m : HasValue(t, keys[i])) => after[m] = t
<1>1. Len(keys) \in Nat /\ m \in Nat /\ \A i \in 1..Len(keys) : keys[i] \in S
  BY LenProperties, ElementOfSeq
<1>2. t \in Seq(S) /\ \A u \in Table(S) : u \in Seq(S)
  BY DEF Table
<1> DEFINE Good(i) ==
        /\ after[i] \in Table(S) /\ Extends(t, after[i])
        /\ \A j \in 1..i : HasValue(after[i], keys[j])
        /\ (\A j \in 1..i : HasValue(t, keys[j])) => after[i] = t
           T == {i \in 0..m : Good(i)}
<1>3. 0 \in T
  <2>1. after[0] = t
    BY DEF Turns
  <2>2. QED
    BY <1>1, <1>2, <2>1, ExtendsItself
<1>4. ASSUME NEW i \in 1..m, i - 1 \in T
      PROVE  i \in T
  <2>1. i \in 1..Len(keys) /\ keys[i] \in S
    BY <1>1
  <2>2. PICK u \in Table(S) : u = after[i - 1] /\ Good(i - 1)
    BY <1>4
  <2>3. PICK v : v = register_value(u, keys[i])
    OBVIOUS
  <2>4. after[i] = v
    BY <2>1, <2>2, <2>3 DEF Turns
  <2>5. /\ v \in Table(S) /\ Extends(u, v) /\ HasValue(v, keys[i])
        /\ HasValue(u, keys[i]) => v = u
    BY <2>1, <2>3, RegisteredOne
  <2>6. Extends(t, v)
    BY <1>2, <2>2, <2>5, ExtendsTwice
  <2>7. ASSUME NEW j \in 1..i
        PROVE  HasValue(v, keys[j])
    <3>1. CASE j = i
      BY <3>1, <2>5
    <3>2. CASE j # i
      <4>1. j \in 1..(i - 1)
        BY <3>2
      <4>2. HasValue(u, keys[j])
        BY <4>1, <2>2
      <4>3. QED
        BY <4>2, <1>2, <2>5, StillKnown
    <3>3. QED
      BY <3>1, <3>2
  <2>8. ASSUME \A j \in 1..i : HasValue(t, keys[j])
        PROVE  v = t
    <3>1. u = t
      <4>1. \A j \in 1..(i - 1) : j \in 1..i
        BY <1>1
      <4>2. QED
        BY <4>1, <2>2, <2>8
    <3>2. i \in 1..i
      BY <1>1
    <3>3. QED
      BY <3>1, <3>2, <2>5, <2>8
  <2>9. Good(i)
    BY <2>4, <2>5, <2>6, <2>7, <2>8
  <2> HIDE DEF Good
  <2>10. QED
    BY <1>1, <2>9
<1>5. 0..m \subseteq T
  <2> HIDE DEF T
  <2>1. QED
    BY <1>1, <1>3, <1>4, UpTo
<1>6. m \in T
  <2> HIDE DEF T
  <2>1. m \in 0..m
    BY <1>1
  <2>2. QED
    BY <1>5, <2>1
<1>7. QED
  BY <1>6

\* Registering keys keeps a table without repeats, extends it, puts every key
\* there and changes nothing when all are there.
LEMMA RegisteredAll ==
    ASSUME NEW S, NEW t \in Table(S), NEW keys \in Seq(S)
    PROVE  /\ RegisterAll(t, keys) \in Table(S)
           /\ Extends(t, RegisterAll(t, keys))
           /\ \A i \in 1..Len(keys) : HasValue(RegisterAll(t, keys), keys[i])
           /\ (\A i \in 1..Len(keys) : HasValue(t, keys[i]))
                 => RegisterAll(t, keys) = t
<1>1. PICK after : Turns(after, S, t, keys) /\ RegisterAll(t, keys) = after[Len(keys)]
  BY RegisterTurns
<1>2. Len(keys) \in 0..Len(keys)
  BY LenProperties
<1>3. QED
  BY <1>1, <1>2, TurnsGrow

\* Registering keys of which the table has each one.
LEMMA RegisteredBefore ==
    ASSUME NEW S, NEW t \in Table(S), NEW keys \in Seq({k \in S : HasValue(t, k)})
    PROVE  RegisterAll(t, keys) = t
<1>1. /\ keys \in Seq(S)
      /\ \A i \in 1..Len(keys) : HasValue(t, keys[i])
  BY LenProperties, ElementOfSeq
<1>2. QED
  BY <1>1, RegisteredAll

-----------------------------------------------------------------------------
(* Key references. *)

\* What a reader with this table takes the reference for.
Means(ref, table, key) ==
    IF ref.is_id THEN /\ ref.id \in Nat /\ ref.id < Len(table)
                      /\ table[ref.id + 1] = key
                 ELSE ref.literal = key

\* A key reference means the same key in every extension of a table.
LEMMA StillMeans ==
    ASSUME NEW S, NEW t \in Seq(S), NEW u \in Seq(S), Extends(t, u),
           NEW ref, NEW key, Means(ref, t, key)
    PROVE  Means(ref, u, key)
<1>1. CASE ref.is_id
  <2>1. PICK n \in Nat, m \in Nat : n = Len(t) /\ m = Len(u)
    BY LenProperties
  <2>2. PICK id \in Nat : id = ref.id /\ id < n /\ t[id + 1] = key
    BY <1>1, <2>1 DEF Means
  <2>3. id < m /\ u[id + 1] = t[id + 1]
    BY <2>1, <2>2 DEF Extends
  <2>4. QED
    BY <1>1, <2>1, <2>2, <2>3 DEF Means
<1>2. CASE ~ref.is_id
  BY <1>2 DEF Means
<1>3. QED
  BY <1>1, <1>2

\* The reference means the key to a reader that read the keys before it; a
\* literal is a key that the writer did not have.
LEMMA KeyRef ==
    ASSUME NEW S, NEW t \in Table(S), NEW keys \in Seq(S),
           NEW after, Turns(after, S, t, keys), NEW i \in 1..Len(keys)
    PROVE  /\ Means(KeyRefAt(t, keys, i), after[i - 1], keys[i])
           /\ ~KeyRefAt(t, keys, i).is_id => ~HasValue(after[i - 1], keys[i])
           /\ KeyRefAt(t, keys, i).is_id \in BOOLEAN
<1>1. Len(keys) \in Nat
  BY LenProperties
<1>2. PICK m \in 0..Len(keys) : m = i - 1
  BY <1>1
<1>3. PICK known \in Table(S) : known = after[m]
  BY DEF Turns
<1>4. known = RegisterAll(t, SubSeq(keys, 1, i - 1))
  BY <1>2, <1>3, RegisterSome
<1>5. PICK key : key = keys[i]
  OBVIOUS
<1>6. PICK n \in Nat : n = Len(known) /\ DOMAIN known = 1..n
  BY LenProperties DEF Table
<1>7. KeyRefAt(t, keys, i) = IF HasValue(known, key) THEN IdRef(get_id(known, key))
                                                     ELSE LiteralRef(key)
  BY <1>4, <1>5 DEF KeyRefAt
<1>8. CASE HasValue(known, key)
  <2>1. \E j \in 1..n : known[j] = key
    BY <1>6, <1>8 DEF HasValue
  <2>2. PICK j \in 1..n : j = (CHOOSE k \in 1..n : known[k] = key) /\ known[j] = key
    BY <2>1
  <2>3. get_id(known, key) = j - 1
    BY <1>6, <2>2 DEF get_id
  <2>4. KeyRefAt(t, keys, i) = IdRef(j - 1)
    BY <1>7, <1>8, <2>3
  <2>5. j - 1 \in Nat /\ j - 1 < n /\ (j - 1) + 1 = j
    OBVIOUS
  <2>6. Means(IdRef(j - 1), known, key)
    BY <1>6, <2>2, <2>5 DEF Means, IdRef
  <2>7. IdRef(j - 1).is_id = TRUE
    BY DEF IdRef
  <2>8. QED
    BY <1>2, <1>3, <1>5, <2>4, <2>6, <2>7
<1>9. CASE ~HasValue(known, key)
  <2>1. KeyRefAt(t, keys, i) = LiteralRef(key)
    BY <1>7, <1>9
  <2>2. Means(LiteralRef(key), known, key) /\ LiteralRef(key).is_id = FALSE
    BY DEF Means, LiteralRef
  <2>3. QED
    BY <1>2, <1>3, <1>5, <1>9, <2>1, <2>2
<1>10. QED
  BY <1>8, <1>9

-----------------------------------------------------------------------------
(* Reading the entries of a Map message. *)

Fields(S, B) == [key : S, val : B]

\* What the loop over the entries has in its hands.
Accs(S, B, t) == [table : {u \in Table(S) : Extends(t, u)},
                  map : Seq(Fields(S, B)), ok : BOOLEAN]

Readable(e, S, B) ==
    /\ e.ref.is_id \in BOOLEAN
    /\ e.ref.is_id => e.ref.id \in Nat
    /\ ~e.ref.is_id => e.ref.literal \in S
    /\ e.val \in B /\ NestedKeys(e.val) \in Seq(S)

\* The table after an entry for this key.
TableAfter(table, key, e) == RegisterAll(register_value(table, key), NestedKeys(e.val))

\* Writing an entry extends the table of the writer and of any reader ahead
\* of it, and a table that holds all its keys does not change.
LEMMA TableAfterEntry ==
    ASSUME NEW S, NEW B, NEW t \in Table(S), NEW u \in Table(S), Extends(t, u),
           NEW key \in S, NEW e, NestedKeys(e.val) \in Seq(S)
    PROVE  /\ TableAfter(u, key, e) \in Table(S)
           /\ Extends(t, TableAfter(u, key, e))
           /\ HasValue(u, key) => 
                 ((\A i \in 1..Len(NestedKeys(e.val)) :
                      HasValue(u, NestedKeys(e.val)[i]))
                    => TableAfter(u, key, e) = u)
<1>1. \A x \in Table(S) : x \in Seq(S)
  BY DEF Table
<1>2. PICK v \in Table(S) : /\ v = register_value(u, key) /\ Extends(u, v)
                            /\ HasValue(u, key) => v = u
  BY RegisteredOne
<1>3. PICK x \in Table(S) : 
         /\ x = RegisterAll(v, NestedKeys(e.val)) /\ Extends(v, x)
         /\ (\A i \in 1..Len(NestedKeys(e.val)) : HasValue(v, NestedKeys(e.val)[i]))
               => x = v
  BY RegisteredAll
<1>4. x = TableAfter(u, key, e)
  BY <1>2, <1>3 DEF TableAfter
<1>5. Extends(t, v)
  BY <1>1, <1>2, ExtendsTwice
<1>6. Extends(t, x)
  BY <1>1, <1>3, <1>5, ExtendsTwice
<1>7. QED
  BY <1>2, <1>3, <1>4, <1>6

\* Reading an entry that is well formed leaves a well-formed reader.
LEMMA EntryRead ==
    ASSUME NEW S, NEW B, NEW t \in Table(S), NEW acc \in Accs(S, B, t),
           NEW e, Readable(e, S, B)
    PROVE  ReadMapEntry(acc, e) \in Accs(S, B, t)
<1>1. /\ acc.table \in Table(S) /\ Extends(t, acc.table)
      /\ acc.map \in Seq(Fields(S, B)) /\ acc.ok \in BOOLEAN
      /\ acc = [table |-> acc.table, map |-> acc.map, ok |-> acc.ok]
  BY DEF Accs
<1>2. PICK n \in Nat : n = Len(acc.table) /\ \A i \in 1..n : acc.table[i] \in S
  BY <1>1, LenProperties, ElementOfSeq DEF Table
<1> DEFINE key == IF e.ref.is_id THEN get_value(acc.table, e.ref.id) ELSE e.ref.literal
           fails == e.ref.is_id /\ ~HasId(acc.table, e.ref.id)
           next == [table |-> TableAfter(acc.table, key, e),
                    map |-> Append(acc.map, Entry(key, e.val)), ok |-> TRUE]
<1>3. ASSUME acc.ok, ~fails
      PROVE  ReadMapEntry(acc, e) = next
  BY <1>1, <1>3 DEF ReadMapEntry, TableAfter
<1>4. ASSUME ~fails
      PROVE  key \in S
  <2>1. CASE e.ref.is_id
    <3>1. PICK id \in Nat : id = e.ref.id
      BY <2>1 DEF Readable
    <3>2. id < n
      BY <1>2, <1>4, <2>1, <3>1 DEF HasId
    <3>3. key = acc.table[id + 1] /\ id + 1 \in 1..n
      BY <2>1, <3>1, <3>2 DEF get_value
    <3>4. QED
      BY <1>2, <3>3
  <2>2. CASE ~e.ref.is_id
    BY <2>2 DEF Readable
  <2>3. QED
    BY <2>1, <2>2
<1>5. ReadMapEntry(acc, e) \in Accs(S, B, t)
  <2>1. CASE ~acc.ok
    BY <2>1 DEF ReadMapEntry
  <2>2. CASE acc.ok /\ fails
    <3>1. ReadMapEntry(acc, e) = [table |-> acc.table, map |-> acc.map, ok |-> FALSE]
      BY <1>1, <2>2 DEF ReadMapEntry
    <3>2. QED
      BY <1>1, <3>1 DEF Accs
  <2>3. CASE acc.ok /\ ~fails
    <3>1. PICK k \in S : k = key
      BY <1>4, <2>3
    <3>2. NestedKeys(e.val) \in Seq(S) /\ e.val \in B
      BY DEF Readable
    <3>3. TableAfter(acc.table, k, e) \in Table(S) /\ Extends(t, TableAfter(acc.table, k, e))
      BY <1>1, <3>2, TableAfterEntry
    <3>4. Entry(k, e.val) \in Fields(S, B)
      BY <3>2 DEF Entry, Fields
    <3>5. Append(acc.map, Entry(k, e.val)) \in Seq(Fields(S, B))
      BY <1>1, <3>4, AppendProperties
    <3>6. ReadMapEntry(acc, e) = next
      BY <1>3, <2>3
    <3> HIDE DEF key
    <3>7. QED
      BY <3>1, <3>3, <3>5, <3>6 DEF Accs
  <2>4. QED
    BY <1>1, <2>1, <2>2, <2>3
<1>6. QED
  BY <1>5

\* An entry that means the key is read as such.
ReadAs(acc, e, key) ==
    ReadMapEntry(acc, e) = [table |-> TableAfter(acc.table, key, e),
                            map |-> Append(acc.map, Entry(key, e.val)), ok |-> TRUE]

\* Reading an entry whose reference means a key yields that key with the
\* entry's value.
LEMMA EntryMeant ==
    ASSUME NEW S, NEW B, NEW t \in Table(S), NEW acc \in Accs(S, B, t), acc.ok,
           NEW e, Readable(e, S, B), NEW key \in S, Means(e.ref, acc.table, key)
    PROVE  ReadAs(acc, e, key)
<1>1. acc = [table |-> acc.table, map |-> acc.map, ok |-> TRUE]
  BY DEF Accs
<1> USE DEF ReadAs
<1>2. CASE e.ref.is_id
  <2>1. HasId(acc.table, e.ref.id) /\ get_value(acc.table, e.ref.id) = key
    BY <1>2 DEF Means, HasId, get_value
  <2>2. QED
    BY <1>1, <1>2, <2>1 DEF ReadMapEntry, TableAfter
<1>3. CASE ~e.ref.is_id
  <2>1. e.ref.literal = key
    BY <1>3 DEF Means
  <2>2. QED
    BY <1>1, <1>3, <2>1 DEF ReadMapEntry, TableAfter
<1>4. QED
  BY <1>2, <1>3

\* The entries a reader can make something of.
AllReadable(entries, S, B) ==
    \A i \in DOMAIN entries : Readable(entries[i], S, B)

\* What the loop has in its hands after each of the entries.
Reads(acc, S, B, t, entries) ==
    /\ acc \in [0..Len(entries) -> Accs(S, B, t)]
    /\ acc[0] = [table |-> t, map |-> << >>, ok |-> TRUE]
    /\ \A i \in 1..Len(entries) : acc[i] = ReadMapEntry(acc[i - 1], entries[i])

\* read_entries is the last of the readers that read one entry at a time.
LEMMA ReadTurns ==
    ASSUME NEW S, NEW B, NEW t \in Table(S),
           NEW entries, entries \in Seq(Range(entries)), AllReadable(entries, S, B)
    PROVE  \E acc : /\ Reads(acc, S, B, t, entries)
                    /\ read_entries(t, entries) = acc[Len(entries)]
<1>1. PICK n \in Nat : n = Len(entries) /\ DOMAIN entries = 1..n
  BY LenProperties
<1>2. \A i \in 1..n : Readable(entries[i], S, B)
  BY <1>1 DEF AllReadable
<1> DEFINE A == Accs(S, B, t)
           base == [table |-> t, map |-> << >>, ok |-> TRUE]
           Step(f) == [i \in 0..n |-> IF i = 0 THEN base
                                      ELSE ReadMapEntry(f[i - 1], entries[i])]
           acc == CHOOSE f : f = Step(f)
           F == [x \in A \X (1..n) |-> ReadMapEntry(x[1], entries[x[2]])]
<1>3. read_entries(t, entries) = acc[n]
  BY <1>1 DEF read_entries
<1>4. base \in A
  <2>1. Extends(t, t)
    BY ExtendsItself DEF Table
  <2>2. << >> \in Seq(Fields(S, B))
    BY EmptySeq
  <2>3. QED
    BY <2>1, <2>2 DEF Accs
<1>5. \A a \in A, i \in 1..n : ReadMapEntry(a, entries[i]) \in A
  BY <1>2, EntryRead
<1>6. F \in [A \X (1..n) -> A]
  <2> HIDE DEF A
  <2>1. QED
    BY <1>5
<1>7. PICK f \in [0..n -> A] : Follows(f, n, base, F)
  <2> HIDE DEF F, A, base
  <2>1. QED
    BY <1>4, <1>6, Iteration
<1> HIDE DEF A, base
<1>8. ASSUME NEW i \in 1..n
      PROVE  f[i] = ReadMapEntry(f[i - 1], entries[i])
  <2>1. i - 1 \in 0..n
    OBVIOUS
  <2>2. << f[i - 1], i >> \in A \X (1..n)
    BY <2>1
  <2>3. f[i] = F[<< f[i - 1], i >>]
    BY <1>7 DEF Follows
  <2>4. QED
    BY <2>2, <2>3
<1>9. f[0] = base
  BY <1>7 DEF Follows
<1> HIDE DEF F
<1>10. f = Step(f)
  BY <1>8, <1>9
<1>11. acc = Step(acc)
  <2> HIDE DEF Step
  <2>1. QED
    BY <1>10
<1> HIDE DEF acc
<1>12. \A i \in 1..n : acc[i] = ReadMapEntry(acc[i - 1], entries[i])
  BY <1>11
<1>13. \A i \in 1..n : acc[i - 1] \in A => acc[i] \in A
  BY <1>5, <1>12
<1>14. acc[0] = base
  BY <1>11
<1>15. \A i \in 0..n : acc[i] \in A
  BY <1>4, <1>13, <1>14, StaysIn
<1>16. acc \in [0..n -> A]
  <2>1. acc = [i \in 0..n |-> acc[i]]
    BY <1>11
  <2>2. QED
    BY <2>1, <1>15
<1>17. QED
  BY <1>1, <1>3, <1>12, <1>14, <1>16 DEF Reads, A, base

\* Whatever is read, the table only gets longer and the map has keys of S.
LEMMA EntriesRead ==
    ASSUME NEW S, NEW B, NEW t \in Table(S),
           NEW entries, entries \in Seq(Range(entries)), AllReadable(entries, S, B)
    PROVE  read_entries(t, entries) \in Accs(S, B, t)
<1>1. PICK acc : /\ Reads(acc, S, B, t, entries)
                 /\ read_entries(t, entries) = acc[Len(entries)]
  BY ReadTurns
<1>2. Len(entries) \in 0..Len(entries)
  BY LenProperties
<1>3. QED
  BY <1>1, <1>2 DEF Reads

Among(S, table) == {k \in S : HasValue(table, k)}

\* The entries stand for the map, read with this table throughout.
Stands(entries, map, table) ==
    /\ Len(entries) = Len(map)
    /\ \A i \in 1..Len(map) : /\ entries[i].val = map[i].val
                              /\ Means(entries[i].ref, table, map[i].key)

\* The table has the keys of the map and of the maps in it.
AllKnown(S, map, table) ==
    \A i \in 1..Len(map) : /\ HasValue(table, map[i].key)
                           /\ NestedKeys(map[i].val) \in Seq(Among(S, table))

\* How a sequence grows to the next of its prefixes.
LEMMA NextPrefix ==
    ASSUME NEW S, NEW s \in Seq(S), NEW i \in 1..Len(s)
    PROVE  SubSeq(s, 1, i) = Append(SubSeq(s, 1, i - 1), s[i])
<1>1. PICK n \in Nat : n = Len(s) /\ s \in [1..n -> S]
  BY LenProperties
<1>2. PICK k \in 0..n : k = i - 1
  BY <1>1
<1>3. PICK m \in 1..n : m = i
  BY <1>1
<1>4. \A j \in 1..n : s[j] \in S
  BY <1>1
<1>5. PICK p \in Seq(S) : p = SubSeq(s, 1, k) /\ Len(p) = k /\ \A j \in 1..k : p[j] = s[j]
  <2>1. \A j \in 1..k : s[j] \in S
    BY <1>4
  <2>2. 1 \in Int /\ k \in Int
    BY <1>1
  <2>3. SubSeq(s, 1, k) \in Seq(S)
    BY <2>1, <2>2, SubSeqProperties
  <2>4. Len(SubSeq(s, 1, k)) = k /\ \A j \in 1..k : SubSeq(s, 1, k)[j] = s[j]
    BY <2>1, <2>2, <1>1, SubSeqProperties
  <2>5. QED
    BY <2>3, <2>4
<1>6. PICK q \in Seq(S) : q = SubSeq(s, 1, m) /\ Len(q) = m /\ \A j \in 1..m : q[j] = s[j]
  <2>1. \A j \in 1..m : s[j] \in S
    BY <1>4
  <2>2. 1 \in Int /\ m \in Int
    BY <1>1
  <2>3. SubSeq(s, 1, m) \in Seq(S)
    BY <2>1, <2>2, SubSeqProperties
  <2>4. Len(SubSeq(s, 1, m)) = m /\ \A j \in 1..m : SubSeq(s, 1, m)[j] = s[j]
    BY <2>1, <2>2, <1>1, SubSeqProperties
  <2>5. QED
    BY <2>3, <2>4
<1>7. PICK r \in Seq(S) : /\ r = Append(p, s[m]) /\ Len(r) = k + 1 /\ r[k + 1] = s[m]
                          /\ \A j \in 1..k : r[j] = p[j]
  <2>1. PICK v \in S : v = s[m]
    BY <1>4
  <2>2. PICK r \in Seq(S) : r = Append(p, v)
    BY AppendProperties
  <2>3. Len(r) = Len(p) + 1 /\ r[Len(p) + 1] = v /\ \A j \in 1..Len(p) : r[j] = p[j]
    BY <2>2, AppendProperties
  <2>4. QED
    BY <1>5, <2>1, <2>2, <2>3
<1>8. k + 1 = m
  BY <1>2, <1>3
<1>9. \A j \in 1..m : q[j] = r[j]
  BY <1>2, <1>5, <1>6, <1>7, <1>8
<1>10. q = r
  BY <1>6, <1>7, <1>8, <1>9, SeqEqual
<1>11. QED
  BY <1>2, <1>3, <1>5, <1>6, <1>7, <1>10

\* Reading along a map: before the i-th entry the table is one of tabs[i - 1],
\* the entry means the map's i-th to all of these, and leads to one of tabs[i].
LEMMA ReadAlong ==
    ASSUME NEW S, NEW B, NEW t \in Table(S), NEW map \in Seq(Fields(S, B)),
           NEW entries, entries \in Seq(Range(entries)), AllReadable(entries, S, B),
           Len(entries) = Len(map),
           NEW tabs, t \in tabs[0],
           \A i \in 1..Len(map) :
              /\ entries[i].val = map[i].val
              /\ \A u \in tabs[i - 1] :
                    u \in Table(S) /\ Extends(t, u)
                       => /\ Means(entries[i].ref, u, map[i].key)
                          /\ TableAfter(u, map[i].key, entries[i]) \in tabs[i]
    PROVE  \E u \in tabs[Len(map)] :
              read_entries(t, entries) = [table |-> u, map |-> map, ok |-> TRUE]
<1>1. PICK n \in Nat : n = Len(map) /\ \A i \in 1..n : map[i] \in Fields(S, B)
  BY LenProperties, ElementOfSeq
<1>2. PICK acc : Reads(acc, S, B, t, entries) /\ read_entries(t, entries) = acc[n]
  BY <1>1, ReadTurns
<1> DEFINE Good(i) == /\ acc[i].table \in tabs[i]
                      /\ acc[i] = [table |-> acc[i].table, map |-> SubSeq(map, 1, i),
                                   ok |-> TRUE]
           T == {i \in 0..n : Good(i)}
<1>3. 0 \in T
  <2>1. acc[0] = [table |-> t, map |-> << >>, ok |-> TRUE]
    BY <1>2 DEF Reads
  <2>2. SubSeq(map, 1, 0) = << >>
    <3>1. Len(SubSeq(map, 1, 0)) = 0 /\ SubSeq(map, 1, 0) \in Seq(Fields(S, B))
      BY SubSeqProperties
    <3>2. QED
      BY <3>1, EmptySeq
  <2>3. PICK a : a = acc[0]
    OBVIOUS
  <2>4. a.table = t /\ a = [table |-> a.table, map |-> << >>, ok |-> TRUE]
    BY <2>1, <2>3
  <2>5. Good(0)
    BY <2>2, <2>3, <2>4
  <2>6. QED
    BY <2>5
<1>4. ASSUME NEW i \in 1..n, i - 1 \in T
      PROVE  i \in T
  <2>1. PICK m \in 0..n : m = i - 1
    OBVIOUS
  <2>2. PICK a \in Accs(S, B, t) : a = acc[m]
    BY <1>1, <1>2 DEF Reads
  <2>3. /\ a.table \in tabs[m] /\ a.table \in Table(S) /\ Extends(t, a.table)
        /\ a.map = SubSeq(map, 1, m) /\ a.ok = TRUE
    BY <1>4, <2>1, <2>2 DEF Accs
  <2>4. PICK key \in S : key = map[i].key
    BY <1>1 DEF Fields
  <2>5. PICK e : e = entries[i] /\ Readable(e, S, B) /\ e.val = map[i].val
    <3>1. i \in DOMAIN entries
      BY <1>1, LenProperties
    <3>2. QED
      BY <1>1, <3>1 DEF AllReadable
  <2>6. Means(e.ref, a.table, key) /\ TableAfter(a.table, key, e) \in tabs[i]
    BY <1>1, <2>1, <2>3, <2>4, <2>5
  <2>7. acc[i] = ReadMapEntry(a, e)
    BY <1>1, <1>2, <2>1, <2>2, <2>5 DEF Reads
  <2>8. ReadMapEntry(a, e) = [table |-> TableAfter(a.table, key, e),
                              map |-> Append(a.map, Entry(key, e.val)), ok |-> TRUE]
    <3>1. a.ok /\ Readable(e, S, B) /\ Means(e.ref, a.table, key)
      BY <2>3, <2>5, <2>6
    <3>2. ReadAs(a, e, key)
      BY <3>1, EntryMeant
    <3>3. QED
      BY <3>2 DEF ReadAs
  <2>9. Entry(key, e.val) = map[i]
    <3>1. map[i] \in Fields(S, B)
      BY <1>1
    <3>2. QED
      BY <2>4, <2>5, <3>1 DEF Fields, Entry
  <2>10. Append(a.map, Entry(key, e.val)) = SubSeq(map, 1, i)
    BY <1>1, <2>1, <2>3, <2>9, NextPrefix
  <2>11. Good(i)
    BY <2>6, <2>7, <2>8, <2>10
  <2>12. QED
    BY <2>11
<1>5. 0..n \subseteq T
  <2> HIDE DEF T
  <2>1. QED
    BY <1>3, <1>4, UpTo
<1>6. Good(n)
  BY <1>5
<1>7. SubSeq(map, 1, n) = map
  <2>1. \A j \in 1..n : map[j] \in Fields(S, B)
    BY <1>1
  <2>2. 1 \in Int /\ n \in Int
    OBVIOUS
  <2>3. SubSeq(map, 1, n) \in Seq(Fields(S, B))
    BY <2>1, <2>2, SubSeqProperties
  <2>4. Len(SubSeq(map, 1, n)) = n /\ \A j \in 1..n : SubSeq(map, 1, n)[j] = map[j]
    BY <2>1, <2>2, SubSeqProperties
  <2>5. QED
    BY <1>1, <2>3, <2>4, SeqEqual
<1>8. QED
  BY <1>1, <1>2, <1>6, <1>7

\* A reader to whom every reference already means its key reads the map, and
\* its table stays if it has all the keys.
LEMMA ReadKnown ==
    ASSUME NEW S, NEW B, NEW t \in Table(S), NEW map \in Seq(Fields(S, B)),
           NEW entries, entries \in Seq(Range(entries)), AllReadable(entries, S, B),
           Stands(entries, map, t)
    PROVE  \E u \in Table(S) :
              /\ read_entries(t, entries) = [table |-> u, map |-> map, ok |-> TRUE]
              /\ Extends(t, u)
              /\ AllKnown(S, map, t) => u = t
<1>1. PICK n \in Nat : n = Len(map) /\ \A i \in 1..n : map[i] \in Fields(S, B)
  BY LenProperties, ElementOfSeq
<1> USE DEF Stands
<1>2. \A i \in 1..n : map[i].key \in S /\ Readable(entries[i], S, B)
  BY <1>1, LenProperties DEF AllReadable, Fields
<1>3. \A u \in Table(S) : u \in Seq(S)
  BY DEF Table
<1>4. Extends(t, t)
  BY <1>3, ExtendsItself
<1> DEFINE Onward == {u \in Table(S) : Extends(t, u)}
<1>5. CASE ~AllKnown(S, map, t)
  <2> DEFINE tabs == [i \in 0..n |-> Onward]
  <2>1. t \in tabs[0]
    BY <1>4
  <2>2. ASSUME NEW i \in 1..n, NEW u \in tabs[i - 1]
        PROVE  /\ Means(entries[i].ref, u, map[i].key)
               /\ TableAfter(u, map[i].key, entries[i]) \in tabs[i]
    <3>1. u \in Table(S) /\ Extends(t, u)
      BY <2>2
    <3>2. PICK key \in S : key = map[i].key
      BY <1>2
    <3>3. PICK e : e = entries[i] /\ NestedKeys(e.val) \in Seq(S)
      BY <1>2 DEF Readable
    <3>4. TableAfter(u, key, e) \in Onward
      BY <3>1, <3>3, TableAfterEntry
    <3>5. Means(entries[i].ref, u, map[i].key)
      BY <1>1, <1>3, <3>1, StillMeans
    <3>6. QED
      BY <3>2, <3>3, <3>4, <3>5
  <2>3. tabs[n] = Onward
    OBVIOUS
  <2> HIDE DEF tabs
  <2>4. \E u \in tabs[n] :
           read_entries(t, entries) = [table |-> u, map |-> map, ok |-> TRUE]
    BY <1>1, <2>1, <2>2, ReadAlong
  <2>5. QED
    BY <1>1, <1>5, <2>3, <2>4
<1>6. CASE AllKnown(S, map, t)
  <2> DEFINE tabs == [i \in 0..n |-> {t}]
  <2>1. t \in tabs[0]
    OBVIOUS
  <2>2. ASSUME NEW i \in 1..n, NEW u \in tabs[i - 1]
        PROVE  /\ Means(entries[i].ref, u, map[i].key)
               /\ TableAfter(u, map[i].key, entries[i]) \in tabs[i]
    <3>1. u = t
      BY <2>2
    <3>2. PICK key \in S : key = map[i].key /\ HasValue(t, key)
      BY <1>1, <1>2, <1>6 DEF AllKnown
    <3>3. PICK e : e = entries[i] /\ NestedKeys(e.val) \in Seq(S) /\ e.val = map[i].val
      BY <1>1, <1>2 DEF Readable
    <3>4. register_value(t, key) = t
      BY <3>2, RegisteredOne
    <3>5. PICK keys \in Seq({k \in S : HasValue(t, k)}) : keys = NestedKeys(e.val)
      BY <1>1, <1>6, <3>3 DEF AllKnown, Among
    <3>6. RegisterAll(t, keys) = t
      BY RegisteredBefore
    <3>7. TableAfter(t, key, e) = t
      BY <3>4, <3>5, <3>6 DEF TableAfter
    <3>8. QED
      BY <1>1, <3>1, <3>2, <3>3, <3>7
  <2>3. tabs[n] = {t}
    OBVIOUS
  <2> HIDE DEF tabs
  <2>4. \E u \in tabs[n] :
           read_entries(t, entries) = [table |-> u, map |-> map, ok |-> TRUE]
    BY <1>1, <2>1, <2>2, ReadAlong
  <2>5. QED
    BY <1>1, <1>4, <2>3, <2>4
<1>7. QED
  BY <1>5, <1>6

\* A reader with the table the writer had reads a map that holds no other, and
\* has the table the writer had then.
LEMMA ReadFresh ==
    ASSUME NEW S, NEW B, NEW t \in Table(S), NEW map \in Seq(Fields(S, B)),
           NEW entries, entries \in Seq(Range(entries)), AllReadable(entries, S, B),
           Len(entries) = Len(map),
           \A i \in 1..Len(map) :
              /\ entries[i].val = map[i].val /\ NestedKeys(map[i].val) = << >>
              /\ entries[i].ref = KeyRefAt(t, KeysOf(map), i)
    PROVE  read_entries(t, entries)
              = [table |-> RegisterAll(t, KeysOf(map)), map |-> map, ok |-> TRUE]
<1>1. PICK n \in Nat : /\ n = Len(map) /\ DOMAIN map = 1..n
                       /\ \A i \in 1..n : map[i] \in Fields(S, B)
  BY LenProperties, ElementOfSeq
<1>2. \A i \in 1..n : map[i].key \in S
  BY <1>1 DEF Fields
<1>3. PICK keys \in Seq(S) : /\ keys = KeysOf(map) /\ Len(keys) = n
                             /\ \A i \in 1..n : keys[i] = map[i].key
  <2>1. KeysOf(map) \in [1..n -> S] /\ \A i \in 1..n : KeysOf(map)[i] = map[i].key
    BY <1>1, <1>2 DEF KeysOf
  <2>2. KeysOf(map) \in Seq(S) /\ Len(KeysOf(map)) = n
    BY <2>1, LenProperties
  <2>3. QED
    BY <2>1, <2>2
<1>4. PICK after : Turns(after, S, t, keys) /\ RegisterAll(t, keys) = after[n]
  BY <1>3, RegisterTurns
<1> DEFINE tabs == [i \in 0..n |-> {after[i]}]
<1>5. t \in tabs[0]
  BY <1>4 DEF Turns
<1>6. ASSUME NEW i \in 1..n, NEW u \in tabs[i - 1]
      PROVE  /\ Means(entries[i].ref, u, map[i].key)
             /\ TableAfter(u, map[i].key, entries[i]) \in tabs[i]
  <2>1. u = after[i - 1] /\ i - 1 \in 0..n
    BY <1>6
  <2>2. i \in 1..Len(keys)
    BY <1>3
  <2>3. u \in Table(S)
    BY <1>3, <1>4, <2>1 DEF Turns
  <2>4. Means(entries[i].ref, u, keys[i])
    BY <1>1, <1>3, <1>4, <2>1, <2>2, KeyRef
  <2>5. PICK v : v = register_value(u, keys[i])
    OBVIOUS
  <2>6. after[i] = v /\ v \in Table(S)
    BY <1>3, <1>4, <2>1, <2>2, <2>5, SMTT(30) DEF Turns
  <2>7. RegisterAll(v, << >>) = v
    <3>1. PICK none \in Seq({k \in S : HasValue(v, k)}) : none = << >>
      BY EmptySeq
    <3>2. RegisterAll(v, none) = v
      BY <2>6, RegisteredBefore
    <3>3. QED
      BY <3>1, <3>2
  <2>8. NestedKeys(entries[i].val) = << >>
    BY <1>1
  <2>9. TableAfter(u, keys[i], entries[i]) = v
    BY <2>5, <2>7, <2>8 DEF TableAfter
  <2>10. QED
    BY <1>3, <2>4, <2>6, <2>9
<1>7. tabs[n] = {after[n]}
  OBVIOUS
<1> HIDE DEF tabs
<1>8. \E u \in tabs[n] :
         read_entries(t, entries) = [table |-> u, map |-> map, ok |-> TRUE]
  BY <1>1, <1>5, <1>6, ReadAlong, SMTT(30)
<1>9. QED
  BY <1>3, <1>4, <1>7, <1>8

-----------------------------------------------------------------------------
(* The shape table and the codec. *)

\* The key lists of the table are in L.
ShapesOK(s, L) ==
    /\ s = [by_keys |-> s.by_keys, by_id |-> s.by_id,
            observations |-> s.observations, next_id |-> s.next_id]
    /\ s.next_id \in Nat
    /\ s.by_id \in [0..s.next_id - 1 -> L]
    /\ \A id \in DOMAIN s.by_id : /\ ShapeKnown(s, s.by_id[id])
                                  /\ shape_id(s, s.by_id[id]) = id
    /\ \A sk \in DOMAIN s.by_keys : /\ s.by_keys[sk] \in DOMAIN s.by_id
                                    /\ shape_key(s.by_id[s.by_keys[sk]]) = sk

\* No number changes its meaning.
ShapesKept(s, u) ==
    \A id \in DOMAIN s.by_id : id \in DOMAIN u.by_id /\ u.by_id[id] = s.by_id[id]

CodecOK(c, S, L) ==
    /\ c = [key_table |-> c.key_table, shape_table |-> c.shape_table,
            encode_shape_observations |-> c.encode_shape_observations]
    /\ c.key_table \in Table(S)
    /\ ShapesOK(c.shape_table, L)

\* What encoding and decoding do to a codec.
Grown(c, d) == /\ Extends(c.key_table, d.key_table)
               /\ ShapesKept(c.shape_table, d.shape_table)

\* A codec of the proof is well formed as the sessions state it.
LEMMA CodecWellFormed ==
    ASSUME NEW c, NEW S, NEW L, CodecOK(c, S, L)
    PROVE  WellFormed(c)
BY DEF CodecOK, ShapesOK, WellFormed, Table

\* A new codec is well formed.
LEMMA NewCodecOK ==
    ASSUME NEW S, NEW L
    PROVE  CodecOK(NewCodec, S, L)
<1>1. << >> \in Table(S)
  BY EmptySeq DEF Table, Distinct
<1>2. EmptyShapes = [by_keys |-> << >>, by_id |-> << >>,
                     observations |-> << >>, next_id |-> 0]
  BY DEF EmptyShapes
<1>3. DOMAIN << >> = {} /\ 0..0 - 1 = {} /\ << >> \in [{} -> L]
  OBVIOUS
<1>4. ShapesOK(EmptyShapes, L)
  BY <1>2, <1>3 DEF ShapesOK
<1>5. QED
  BY <1>1, <1>4 DEF CodecOK, NewCodec, clear

\* Growth of a codec is transitive: its numbers are kept over two steps.
LEMMA GrownTwice ==
    ASSUME NEW S, NEW L, NEW b, NEW c, NEW d,
           CodecOK(b, S, L), CodecOK(c, S, L), CodecOK(d, S, L), Grown(b, c), Grown(c, d)
    PROVE  Grown(b, d)
<1>1. b.key_table \in Seq(S) /\ c.key_table \in Seq(S) /\ d.key_table \in Seq(S)
  BY DEF CodecOK, Table
<1>2. Extends(b.key_table, d.key_table)
  BY <1>1, ExtendsTwice DEF Grown
<1>3. ShapesKept(b.shape_table, d.shape_table)
  BY DEF Grown, ShapesKept
<1>4. QED
  BY <1>2, <1>3 DEF Grown

\* Registering a shape keeps the shape table well formed and every shape in
\* it.
LEMMA RegisterKeys ==
    ASSUME NEW s, NEW L, ShapesOK(s, L), NEW keys \in L
    PROVE  ShapesOK(register_keys(s, keys), L) /\ ShapesKept(s, register_keys(s, keys))
<1>1. CASE ShapeKnown(s, keys)
  BY <1>1 DEF register_keys, ShapesKept
<1>2. CASE ~ShapeKnown(s, keys)
  <2>1. PICK n \in Nat : n = s.next_id
    BY DEF ShapesOK
  <2>2. PICK sk : sk = shape_key(keys) /\ sk \notin DOMAIN s.by_keys
    BY <1>2 DEF ShapeKnown
  <2>3. PICK by_keys : by_keys = Put(s.by_keys, sk, n)
    OBVIOUS
  <2>4. PICK by_id : by_id = Put(s.by_id, n, keys)
    OBVIOUS
  <2>5. /\ DOMAIN by_keys = DOMAIN s.by_keys \cup {sk} /\ by_keys[sk] = n
        /\ \A k \in DOMAIN s.by_keys : by_keys[k] = s.by_keys[k]
    BY <2>2, <2>3 DEF Put
  <2>6. n \notin DOMAIN s.by_id /\ DOMAIN s.by_id = 0..n - 1
    BY <2>1 DEF ShapesOK
  <2>7. /\ DOMAIN by_id = DOMAIN s.by_id \cup {n} /\ by_id[n] = keys
        /\ \A id \in DOMAIN s.by_id : by_id[id] = s.by_id[id]
        /\ by_id = [z \in DOMAIN by_id |-> by_id[z]]
    BY <2>4, <2>6 DEF Put
  <2>8. PICK u : u = register_keys(s, keys)
    OBVIOUS
  <2>9. u = [by_keys |-> by_keys, by_id |-> by_id,
             observations |-> s.observations, next_id |-> n + 1]
    BY <1>2, <2>1, <2>2, <2>3, <2>4, <2>8 DEF register_keys, ShapesOK
  <2>10. DOMAIN by_id = 0..(n + 1) - 1
    BY <2>6, <2>7
  <2>11. \A id \in DOMAIN by_id : by_id[id] \in L
    BY <2>1, <2>6, <2>7 DEF ShapesOK
  <2>12. by_id \in [0..(n + 1) - 1 -> L]
    BY <2>7, <2>10, <2>11
  <2>13. ASSUME NEW id \in DOMAIN by_id
         PROVE  /\ shape_key(by_id[id]) \in DOMAIN by_keys
                /\ by_keys[shape_key(by_id[id])] = id
    <3>1. CASE id = n
      BY <2>2, <2>5, <2>7, <3>1
    <3>2. CASE id # n
      <4>1. id \in DOMAIN s.by_id /\ by_id[id] = s.by_id[id]
        BY <2>7, <3>2
      <4>2. /\ shape_key(s.by_id[id]) \in DOMAIN s.by_keys
            /\ s.by_keys[shape_key(s.by_id[id])] = id
        BY <4>1 DEF ShapesOK, ShapeKnown, shape_id
      <4>3. QED
        BY <2>5, <4>1, <4>2
    <3>3. QED
      BY <3>1, <3>2
  <2>14. ASSUME NEW k \in DOMAIN by_keys
         PROVE  by_keys[k] \in DOMAIN by_id /\ shape_key(by_id[by_keys[k]]) = k
    <3>1. CASE k = sk
      BY <2>2, <2>5, <2>7, <3>1
    <3>2. CASE k # sk
      <4>1. k \in DOMAIN s.by_keys /\ by_keys[k] = s.by_keys[k]
        BY <2>5, <3>2
      <4>2. s.by_keys[k] \in DOMAIN s.by_id /\ shape_key(s.by_id[s.by_keys[k]]) = k
        BY <4>1 DEF ShapesOK
      <4>3. QED
        BY <2>7, <4>1, <4>2
    <3>3. QED
      BY <3>1, <3>2
  <2>15. n + 1 \in Nat
    OBVIOUS
  <2>16. ShapesOK(u, L)
    BY <2>9, <2>12, <2>13, <2>14, <2>15 DEF ShapesOK, ShapeKnown, shape_id
  <2>17. ShapesKept(s, u)
    BY <2>7, <2>9 DEF ShapesKept
  <2>18. QED
    BY <2>8, <2>16, <2>17
<1>3. QED
  BY <1>1, <1>2

-----------------------------------------------------------------------------
(* Writing. *)

\* After the keys of some parts were registered the table has those of each.
LEMMA WrittenParts ==
    ASSUME NEW S, NEW t \in Table(S), NEW parts \in Seq(Seq(S)),
           NEW u, u = RegisterAll(t, FlattenSeq(parts))
    PROVE  /\ u \in Table(S) /\ Extends(t, u)
           /\ \A i \in 1..Len(parts) : parts[i] \in Seq(Among(S, u))
           /\ (\A i \in 1..Len(parts) : parts[i] \in Seq(Among(S, t))) => u = t
<1>1. PICK keys \in Seq(S) : keys = FlattenSeq(parts)
  BY FlattenSeqs
<1>2. /\ u \in Table(S) /\ Extends(t, u)
      /\ \A i \in 1..Len(keys) : HasValue(u, keys[i])
  BY <1>1, RegisteredAll
<1>3. keys \in Seq(Among(S, u))
  <2>1. PICK n \in Nat : n = Len(keys) /\ keys \in [1..n -> S]
    BY LenProperties
  <2>2. keys \in [1..n -> Among(S, u)]
    BY <1>2, <2>1 DEF Among
  <2>3. QED
    BY <2>2
<1>4. \A i \in 1..Len(parts) : parts[i] \in Seq(Among(S, u))
  BY <1>1, <1>3, FlattenParts
<1>5. ASSUME \A i \in 1..Len(parts) : parts[i] \in Seq(Among(S, t))
      PROVE  u = t
  <2>1. PICK n \in Nat : n = Len(parts) /\ parts \in [1..n -> Seq(S)]
    BY LenProperties
  <2>2. parts \in [1..n -> Seq(Among(S, t))]
    BY <1>5, <2>1
  <2>3. parts \in Seq(Seq(Among(S, t)))
    BY <2>2
  <2>4. keys \in Seq(Among(S, t))
    BY <1>1, <2>3, FlattenSeqs
  <2>5. RegisterAll(t, keys) = t
    BY <2>4, RegisteredBefore DEF Among
  <2>6. QED
    BY <1>1, <2>5
<1>6. QED
  BY <1>2, <1>4, <1>5

\* Keys that are in a table are in every extension of it.
LEMMA AmongLater ==
    ASSUME NEW S, NEW t \in Table(S), NEW u \in Table(S), Extends(t, u),
           NEW keys \in Seq(Among(S, t))
    PROVE  keys \in Seq(Among(S, u))
<1>1. t \in Seq(S) /\ u \in Seq(S)
  BY DEF Table
<1>2. Among(S, t) \subseteq Among(S, u)
  BY <1>1, StillKnown DEF Among
<1>3. PICK n \in Nat : keys \in [1..n -> Among(S, t)]
  BY LenProperties
<1>4. keys \in [1..n -> Among(S, u)]
  BY <1>2, <1>3
<1>5. QED
  BY <1>4

\* The values a codec can write: the keys nested in them are of S.
ValuesOK(S, B) == Null \in B /\ \A b \in B : NestedKeys(b) \in Seq(S)

\* The message stands for the map, to a reader with the tables of this codec,
\* which have all its keys.
SaysMap(S, msg, map, table) ==
    /\ msg.kind = "Map"
    /\ msg.entries \in Seq(Range(msg.entries)) /\ Len(msg.entries) = Len(map)
    /\ \A i \in 1..Len(map) :
          /\ msg.entries[i].ref.is_id \in BOOLEAN
          /\ msg.entries[i].val = map[i].val
          /\ Means(msg.entries[i].ref, table, map[i].key)
          /\ HasValue(table, map[i].key)
          /\ NestedKeys(map[i].val) \in Seq(Among(S, table))

SaysShaped(S, msg, map, c) ==
    /\ msg.kind = "ShapedObject"
    /\ msg.shape \in DOMAIN c.shape_table.by_id
    /\ shape_key(c.shape_table.by_id[msg.shape]) = shape_key(KeysOf(map))
    /\ msg.vals = [i \in DOMAIN c.shape_table.by_id[msg.shape] |->
                      FieldOf(map, c.shape_table.by_id[msg.shape][i])]
    /\ \A i \in DOMAIN msg.vals : NestedKeys(msg.vals[i]) \in Seq(Among(S, c.key_table))

Says(S, msg, map, c) == SaysMap(S, msg, map, c.key_table) \/ SaysShaped(S, msg, map, c)

\* A map message says the same map over every extension of the key table.
LEMMA StillSaysMap ==
    ASSUME NEW S, NEW t \in Table(S), NEW u \in Table(S), Extends(t, u),
           NEW msg, NEW map, SaysMap(S, msg, map, t)
    PROVE  SaysMap(S, msg, map, u)
<1>1. t \in Seq(S) /\ u \in Seq(S)
  BY DEF Table
<1>2. ASSUME NEW i \in 1..Len(map)
      PROVE  /\ Means(msg.entries[i].ref, u, map[i].key)
             /\ HasValue(u, map[i].key)
             /\ NestedKeys(map[i].val) \in Seq(Among(S, u))
  <2>1. /\ Means(msg.entries[i].ref, t, map[i].key)
        /\ HasValue(t, map[i].key)
        /\ NestedKeys(map[i].val) \in Seq(Among(S, t))
    BY DEF SaysMap
  <2>2. Means(msg.entries[i].ref, u, map[i].key)
    BY <1>1, <2>1, StillMeans
  <2>3. HasValue(u, map[i].key)
    BY <1>1, <2>1, StillKnown
  <2>4. NestedKeys(map[i].val) \in Seq(Among(S, u))
    BY <2>1, AmongLater
  <2>5. QED
    BY <2>2, <2>3, <2>4
<1>3. QED
  BY <1>2 DEF SaysMap

\* A message says the same map to every codec grown from the one it was
\* written for.
LEMMA StillSays ==
    ASSUME NEW S, NEW L, NEW c, NEW d, CodecOK(c, S, L), CodecOK(d, S, L), Grown(c, d),
           NEW msg, NEW map, Says(S, msg, map, c)
    PROVE  Says(S, msg, map, d)
<1>1. PICK t \in Table(S), u \in Table(S) :
         t = c.key_table /\ u = d.key_table /\ t \in Seq(S) /\ u \in Seq(S)
  BY DEF CodecOK, Table
<1>2. Extends(t, u)
  BY <1>1 DEF Grown
<1>3. \A keys \in Seq(Among(S, t)) : keys \in Seq(Among(S, u))
  BY <1>2, AmongLater
<1>4. CASE SaysMap(S, msg, map, c.key_table)
  <2>1. SaysMap(S, msg, map, t)
    BY <1>1, <1>4
  <2>2. SaysMap(S, msg, map, u)
    BY <1>2, <2>1, StillSaysMap
  <2>3. QED
    BY <1>1, <2>2 DEF Says
<1>5. CASE SaysShaped(S, msg, map, c)
  <2>1. /\ msg.shape \in DOMAIN d.shape_table.by_id
        /\ d.shape_table.by_id[msg.shape] = c.shape_table.by_id[msg.shape]
    BY <1>5 DEF SaysShaped, Grown, ShapesKept
  <2>2. SaysShaped(S, msg, map, d)
    BY <1>1, <1>3, <1>5, <2>1 DEF SaysShaped
  <2>3. QED
    BY <2>2 DEF Says
<1>6. QED
  BY <1>4, <1>5 DEF Says

-----------------------------------------------------------------------------
(* The message of a map. *)

\* The keys of a map, one for each field.
LEMMA KeysTyped ==
    ASSUME NEW S, NEW B, NEW map \in Seq(Fields(S, B))
    PROVE  /\ KeysOf(map) \in Seq(S) /\ Len(KeysOf(map)) = Len(map)
           /\ DOMAIN map = 1..Len(map) /\ DOMAIN KeysOf(map) = 1..Len(map)
           /\ \A i \in 1..Len(map) : KeysOf(map)[i] = map[i].key
<1>1. PICK n \in Nat : /\ n = Len(map) /\ DOMAIN map = 1..n
                       /\ \A i \in 1..n : map[i] \in Fields(S, B)
  BY LenProperties, ElementOfSeq
<1>2. \A i \in 1..n : map[i].key \in S
  BY <1>1 DEF Fields
<1>3. KeysOf(map) \in [1..n -> S] /\ \A i \in 1..n : KeysOf(map)[i] = map[i].key
  BY <1>1, <1>2 DEF KeysOf
<1>4. KeysOf(map) \in Seq(S) /\ Len(KeysOf(map)) = n
  BY <1>3, LenProperties
<1>5. QED
  BY <1>1, <1>3, <1>4

\* Observing a shape keeps the codec well formed and leaves its key table
\* alone.
LEMMA Observed ==
    ASSUME NEW S, NEW L, NEW c, CodecOK(c, S, L), NEW keys \in L,
           NEW d, d = observe_encode_shape_candidate(c, keys)
    PROVE  /\ CodecOK(d, S, L) /\ Grown(c, d) /\ d.key_table = c.key_table
<1>1. PICK shapes : shapes = IF should_register_shape(keys,
                                   Count(Counted(c.encode_shape_observations, keys), keys))
                             THEN register_keys(c.shape_table, keys) ELSE c.shape_table
  OBVIOUS
<1>2. d = [key_table |-> c.key_table, shape_table |-> shapes,
           encode_shape_observations |-> Counted(c.encode_shape_observations, keys)]
  BY <1>1 DEF observe_encode_shape_candidate, CodecOK
<1>3. ShapesOK(shapes, L) /\ ShapesKept(c.shape_table, shapes)
  <2>1. ShapesOK(c.shape_table, L)
    BY DEF CodecOK
  <2>2. /\ ShapesOK(register_keys(c.shape_table, keys), L)
        /\ ShapesKept(c.shape_table, register_keys(c.shape_table, keys))
    BY <2>1, RegisterKeys
  <2>3. ShapesKept(c.shape_table, c.shape_table)
    BY DEF ShapesKept
  <2>4. QED
    BY <1>1, <2>1, <2>2, <2>3
<1>4. c.key_table \in Table(S) /\ Extends(c.key_table, c.key_table)
  BY ExtendsItself DEF CodecOK, Table
<1>5. QED
  BY <1>2, <1>3, <1>4 DEF CodecOK, Grown

\* The value of a field is the null or one of the map's, and the map's own if
\* it names each key once.
LEMMA FieldIs ==
    ASSUME NEW S, NEW B, NEW map \in Seq(Fields(S, B)), NEW k
    PROVE  \/ FieldOf(map, k) = Null
           \/ \E i \in 1..Len(map) : map[i].key = k /\ FieldOf(map, k) = map[i].val
<1>1. PICK n \in Nat : n = Len(map) /\ DOMAIN map = 1..n
  BY LenProperties
<1> DEFINE at == {i \in 1..n : map[i].key = k}
<1>2. CASE at = {}
  BY <1>1, <1>2 DEF FieldOf
<1>3. CASE at # {}
  <2>1. \E i \in at : \A j \in at : j <= i
    <3> DEFINE U == {n - i : i \in at}
    <3>1. U \in SUBSET Nat /\ U # {}
      BY <1>3
    <3>2. PICK m \in U : \A u \in U : m <= u
      <4> HIDE DEF U
      <4>1. QED
        BY <3>1, Smallest
    <3>3. PICK i \in at : m = n - i
      OBVIOUS
    <3>4. \A j \in at : n - j \in U
      OBVIOUS
    <3>5. ASSUME NEW j \in at
          PROVE  j <= i
      <4>1. n - i <= n - j
        BY <3>2, <3>3, <3>4
      <4>2. i \in 1..n /\ j \in 1..n
        OBVIOUS
      <4> HIDE DEF at
      <4>3. QED
        BY <4>1, <4>2
    <3>6. QED
      BY <3>5
  <2>2. PICK i \in at : i = CHOOSE x \in at : \A j \in at : j <= x
    <3> HIDE DEF at
    <3>1. QED
      BY <2>1
  <2>3. FieldOf(map, k) = map[CHOOSE x \in at : \A j \in at : j <= x].val
    BY <1>1, <1>3 DEF FieldOf
  <2>4. FieldOf(map, k) = map[i].val
    BY <2>2, <2>3
  <2>5. i \in 1..n /\ map[i].key = k
    OBVIOUS
  <2>6. QED
    BY <1>1, <2>4, <2>5
<1>4. QED
  BY <1>2, <1>3

\* The value under a key that a map holds once is the value of that field.
LEMMA FieldAt ==
    ASSUME NEW S, NEW B, NEW map \in Seq(Fields(S, B)), NEW i \in 1..Len(map),
           \A j \in 1..Len(map) : map[j].key = map[i].key => j = i
    PROVE  FieldOf(map, map[i].key) = map[i].val
<1>1. DOMAIN map = 1..Len(map) /\ Len(map) \in Nat
  BY LenProperties
<1>2. {j \in DOMAIN map : map[j].key = map[i].key} = {i}
  BY <1>1
<1>3. (CHOOSE x \in {i} : \A j \in {i} : j <= x) = i
  BY <1>1
<1>4. QED
  BY <1>2, <1>3 DEF FieldOf

\* What message_for_map makes of a map, before it is written: either a Map
\* message, and the keys were registered, or a shaped object.
MadeMap(made, c, map) ==
    /\ made.msg.kind = "Map"
    /\ made.msg.entries = [i \in DOMAIN map |->
                              [ref |-> KeyRefAt(c.key_table, KeysOf(map), i),
                               val |-> map[i].val]]
    /\ made.codec.key_table = RegisterAll(c.key_table, KeysOf(map))

MadeShaped(made, c, map) ==
    LET shapes == made.codec.shape_table
    IN  /\ made.msg.kind = "ShapedObject"
        /\ made.msg.shape \in DOMAIN shapes.by_id
        /\ shape_key(shapes.by_id[made.msg.shape]) = shape_key(KeysOf(map))
        /\ made.msg.vals = [i \in DOMAIN shapes.by_id[made.msg.shape] |->
                               FieldOf(map, shapes.by_id[made.msg.shape][i])]
        /\ made.codec.key_table = c.key_table

\* A map is sent either as a map message with its fields or as a shaped
\* message of a registered shape, and the codec grows.
LEMMA MessageMade ==
    ASSUME NEW S, NEW L, NEW B, NEW c, CodecOK(c, S, L),
           NEW map \in Seq(Fields(S, B)), KeysOf(map) \in L,
           NEW made, made = message_for_map(c, map)
    PROVE  /\ CodecOK(made.codec, S, L) /\ Grown(c, made.codec)
           /\ MadeMap(made, c, map) \/ MadeShaped(made, c, map)
<1>1. PICK keys \in L : keys = KeysOf(map) /\ keys \in Seq(S)
  BY KeysTyped
<1>2. PICK d : d = observe_encode_shape_candidate(c, keys)
  OBVIOUS
<1>3. CodecOK(d, S, L) /\ Grown(c, d) /\ d.key_table = c.key_table
  BY <1>2, Observed
<1>4. \/ /\ ShapeKnown(d.shape_table, keys)
         /\ made = shaped_message(d, shape_id(d.shape_table, keys), map)
      \/ made = map_message(d, map)
  BY <1>1, <1>2 DEF message_for_map
<1>5. CASE /\ ShapeKnown(d.shape_table, keys)
           /\ made = shaped_message(d, shape_id(d.shape_table, keys), map)
  <2>1. PICK id : id = shape_id(d.shape_table, keys)
    OBVIOUS
  <2>2. /\ id \in DOMAIN d.shape_table.by_id
        /\ shape_key(d.shape_table.by_id[id]) = shape_key(keys)
    BY <1>3, <1>5, <2>1 DEF CodecOK, ShapesOK, ShapeKnown, shape_id
  <2>3. made = [codec |-> d,
                msg   |-> [kind |-> "ShapedObject", shape |-> id,
                           vals |-> [i \in DOMAIN d.shape_table.by_id[id] |->
                                        FieldOf(map, d.shape_table.by_id[id][i])]]]
    BY <1>5, <2>1 DEF shaped_message
  <2>4. MadeShaped(made, c, map)
    <3>1. PICK by_id : by_id = d.shape_table.by_id
      OBVIOUS
    <3>2. PICK msg : msg = made.msg
      OBVIOUS
    <3>3. /\ made.codec = d /\ msg.kind = "ShapedObject" /\ msg.shape = id
          /\ msg.vals = [i \in DOMAIN by_id[id] |-> FieldOf(map, by_id[id][i])]
      BY <2>3, <3>1, <3>2
    <3>4. id \in DOMAIN by_id /\ shape_key(by_id[id]) = shape_key(keys)
      BY <2>2, <3>1
    <3>5. QED
      BY <1>1, <1>3, <3>1, <3>2, <3>3, <3>4 DEF MadeShaped
  <2>5. QED
    BY <1>3, <2>3, <2>4
<1>6. CASE made = map_message(d, map)
  <2>1. PICK t \in Table(S) : t = c.key_table
    BY DEF CodecOK
  <2>2. PICK u \in Table(S) : u = RegisterAll(t, keys) /\ Extends(t, u)
    BY <1>1, RegisteredAll
  <2>3. PICK e : e = made.codec
    OBVIOUS
  <2>4. e = [d EXCEPT !.key_table = RegisterAll(@, keys)]
    BY <1>1, <1>6, <2>3 DEF map_message
  <2>5. e = [key_table |-> u, shape_table |-> d.shape_table,
             encode_shape_observations |-> d.encode_shape_observations]
    BY <1>3, <2>1, <2>2, <2>4 DEF CodecOK
  <2>6. CodecOK(e, S, L) /\ Grown(c, e)
    BY <1>3, <2>1, <2>2, <2>5 DEF CodecOK, Grown
  <2>7. made.msg = [kind |-> "Map",
                    entries |-> [i \in DOMAIN map |->
                                   [ref |-> KeyRefAt(t, keys, i), val |-> map[i].val]]]
    BY <1>1, <1>3, <1>6, <2>1 DEF map_message
  <2>8. MadeMap(made, c, map)
    BY <1>1, <2>1, <2>2, <2>3, <2>5, <2>7 DEF MadeMap
  <2>9. QED
    BY <2>3, <2>6, <2>8
<1>7. QED
  BY <1>4, <1>5, <1>6

\* Of the tables that register one key at a time, a later one extends an
\* earlier one.
LEMMA TurnsExtend ==
    ASSUME NEW S, NEW t \in Table(S), NEW keys \in Seq(S),
           NEW after, Turns(after, S, t, keys),
           NEW m \in 0..Len(keys), NEW k \in 0..Len(keys), m <= k
    PROVE  Extends(after[m], after[k])
<1>1. PICK n \in Nat : n = Len(keys) /\ \A i \in 1..n : keys[i] \in S
  BY LenProperties, ElementOfSeq
<1>2. \A i \in 0..n : after[i] \in Table(S) /\ after[i] \in Seq(S)
  BY <1>1 DEF Turns, Table
<1> DEFINE T == {i \in 0..n : m <= i => Extends(after[m], after[i])}
<1>3. 0 \in T
  <2>1. m = 0 => Extends(after[m], after[0])
    BY <1>1, <1>2, ExtendsItself
  <2>2. m <= 0 => m = 0
    BY <1>1
  <2>3. QED
    BY <2>1, <2>2
<1>4. ASSUME NEW i \in 1..n, i - 1 \in T
      PROVE  i \in T
  <2>1. SUFFICES ASSUME m <= i
                 PROVE  Extends(after[m], after[i])
    OBVIOUS
  <2>2. CASE m = i
    BY <1>2, <2>2, ExtendsItself
  <2>3. CASE m # i
    <3>1. m <= i - 1 /\ m \in 0..n /\ i - 1 \in 0..n
      BY <1>1, <2>1, <2>3
    <3>2. Extends(after[m], after[i - 1])
      BY <1>4, <3>1
    <3>3. after[i] = register_value(after[i - 1], keys[i])
      BY <1>1 DEF Turns
    <3>4. Extends(after[i - 1], after[i])
      <4>1. PICK a \in Table(S), key \in S : a = after[i - 1] /\ key = keys[i]
        BY <1>1, <1>2, <3>1
      <4>2. Extends(a, register_value(a, key))
        BY RegisteredOne
      <4>3. QED
        BY <3>3, <4>1, <4>2
    <3>5. QED
      BY <1>2, <3>1, <3>2, <3>4, ExtendsTwice
  <2>4. QED
    BY <2>2, <2>3
<1>5. 0..n \subseteq T
  <2> HIDE DEF T
  <2>1. QED
    BY <1>3, <1>4, UpTo
<1>6. QED
  BY <1>1, <1>5

\* A key travels as a literal only if the codec did not know it and it did not
\* occur before in the map.
LiteralsNew(msg, map, c) ==
    \A i \in 1..Len(map) :
        msg.kind = "Map" /\ ~msg.entries[i].ref.is_id
            => /\ ~HasValue(c.key_table, map[i].key)
               /\ \A j \in 1..i - 1 : map[j].key # map[i].key

\* What is nested in the message.
NoneNested(msg, map) ==
    IF msg.kind = "Map" THEN \A i \in 1..Len(map) : NestedKeys(map[i].val) = << >>
                        ELSE \A i \in DOMAIN msg.vals : NestedKeys(msg.vals[i]) = << >>

\* A map message, once written, says the map it was made of; its literals are
\* the keys the table lacked.
LEMMA MapWritten ==
    ASSUME NEW S, NEW L, NEW B, ValuesOK(S, B), NEW c, CodecOK(c, S, L),
           NEW map \in Seq(Fields(S, B)), KeysOf(map) \in L,
           NEW made, CodecOK(made.codec, S, L), Grown(c, made.codec), MadeMap(made, c, map),
           NEW d, d = write_map_message(made.codec, made.msg)
    PROVE  /\ CodecOK(d, S, L) /\ Grown(made.codec, d)
           /\ SaysMap(S, made.msg, map, d.key_table) /\ LiteralsNew(made.msg, map, c)
           /\ NoneNested(made.msg, map) => d.key_table = made.codec.key_table
<1>1. PICK n \in Nat : /\ n = Len(map) /\ DOMAIN map = 1..n
                       /\ \A i \in 1..n : map[i] \in Fields(S, B)
  BY LenProperties, ElementOfSeq
<1>2. PICK keys \in Seq(S) : /\ keys = KeysOf(map) /\ Len(keys) = n
                             /\ \A i \in 1..n : keys[i] = map[i].key
  BY <1>1, KeysTyped
<1>3. PICK t \in Table(S) : t = c.key_table
  BY DEF CodecOK
<1>4. PICK after : Turns(after, S, t, keys) /\ RegisterAll(t, keys) = after[n]
  BY <1>2, RegisterTurns
<1>5. PICK u \in Table(S) : u = after[n] /\ u = made.codec.key_table
  BY <1>2, <1>3, <1>4 DEF MadeMap, CodecOK
<1>6. PICK entries : entries = made.msg.entries
  OBVIOUS
<1>7. /\ entries = [i \in 1..n |-> [ref |-> KeyRefAt(t, keys, i), val |-> map[i].val]]
      /\ made.msg.kind = "Map"
  BY <1>1, <1>2, <1>3, <1>6 DEF MadeMap
<1>8. \A i \in 1..n : entries[i].ref = KeyRefAt(t, keys, i) /\ entries[i].val = map[i].val
  BY <1>7
<1>9. ASSUME NEW i \in 1..n
      PROVE  /\ entries[i].ref.is_id \in BOOLEAN
             /\ Means(entries[i].ref, after[i - 1], keys[i])
             /\ ~entries[i].ref.is_id => ~HasValue(after[i - 1], keys[i])
  <2>1. i \in 1..Len(keys)
    BY <1>2
  <2>2. /\ Means(KeyRefAt(t, keys, i), after[i - 1], keys[i])
        /\ ~KeyRefAt(t, keys, i).is_id => ~HasValue(after[i - 1], keys[i])
        /\ KeyRefAt(t, keys, i).is_id \in BOOLEAN
    BY <1>4, <2>1, KeyRef
  <2>3. PICK ref : ref = KeyRefAt(t, keys, i)
    OBVIOUS
  <2>4. QED
    BY <1>8, <2>2, <2>3
<1>10. \A i \in 0..n : after[i] \in Table(S) /\ after[i] \in Seq(S)
  BY <1>2, <1>4 DEF Turns, Table
<1>11. LiteralsNew(made.msg, map, c)
  <2>1. SUFFICES ASSUME NEW i \in 1..n, ~entries[i].ref.is_id
                 PROVE  /\ ~HasValue(t, keys[i])
                        /\ \A j \in 1..i - 1 : keys[j] # keys[i]
    <3>1. \A i \in 1..n : \A j \in 1..i - 1 : j \in 1..n
      OBVIOUS
    <3>2. QED
      BY <1>1, <1>2, <1>3, <1>6, <3>1 DEF LiteralsNew
  <2>2. PICK m \in 0..n : m = i - 1
    OBVIOUS
  <2>3. ~HasValue(after[m], keys[i])
    BY <1>9, <2>1, <2>2
  <2>4. Extends(t, after[m]) /\ \A j \in 1..m : HasValue(after[m], keys[j])
    BY <1>2, <1>4, TurnsGrow
  <2>5. ~HasValue(t, keys[i])
    BY <1>10, <2>3, <2>4, StillKnown DEF Table
  <2>6. QED
    BY <2>2, <2>3, <2>4, <2>5
<1>12. ASSUME NEW i \in 1..n
       PROVE  Means(entries[i].ref, u, keys[i]) /\ HasValue(u, keys[i])
  <2>1. PICK m \in 0..n : m = i - 1
    OBVIOUS
  <2>2. Extends(after[m], after[n])
    BY <1>2, <1>4, TurnsExtend
  <2>3. Means(entries[i].ref, after[m], keys[i])
    BY <1>9, <2>1
  <2>4. Means(entries[i].ref, u, keys[i])
    <3>1. PICK a \in Seq(S) : a = after[m]
      BY <1>10
    <3>2. u \in Seq(S) /\ Extends(a, u)
      BY <1>5, <2>2, <3>1 DEF Table
    <3>3. PICK ref, key : ref = entries[i].ref /\ key = keys[i]
      OBVIOUS
    <3>4. Means(ref, a, key)
      BY <2>3, <3>1, <3>3
    <3>5. Means(ref, u, key)
      BY <3>2, <3>4, StillMeans
    <3>6. QED
      BY <3>3, <3>5
  <2>5. \A j \in 1..n : HasValue(after[n], keys[j])
    BY <1>2, <1>4, TurnsGrow, SMTT(30)
  <2>6. QED
    BY <1>5, <2>4, <2>5
<1> DEFINE parts == [i \in 1..n |-> WrittenKeys(entries[i])]
<1>13. ASSUME NEW i \in 1..n
       PROVE  \E head \in Seq(Among(S, u)) :
                 /\ parts[i] = head \o NestedKeys(map[i].val) /\ head \in Seq(S)
                 /\ NestedKeys(map[i].val) \in Seq(S)
  <2>1. keys[i] \in Among(S, u) /\ keys[i] \in S
    BY <1>2, <1>12, ElementOfSeq DEF Among
  <2>2. NestedKeys(map[i].val) \in Seq(S)
    BY <1>1 DEF ValuesOK, Fields
  <2>3. ~entries[i].ref.is_id => entries[i].ref.literal = keys[i]
    BY <1>12 DEF Means
  <2>4. CASE entries[i].ref.is_id
    <3>1. parts[i] = << >> \o NestedKeys(map[i].val)
      BY <1>8, <2>4 DEF WrittenKeys
    <3>2. << >> \in Seq(Among(S, u)) /\ << >> \in Seq(S)
      BY EmptySeq
    <3>3. QED
      BY <2>2, <3>1, <3>2
  <2>5. CASE ~entries[i].ref.is_id
    <3>1. parts[i] = << keys[i] >> \o NestedKeys(map[i].val)
      BY <1>8, <2>3, <2>5 DEF WrittenKeys
    <3>2. << keys[i] >> \in Seq(Among(S, u)) /\ << keys[i] >> \in Seq(S)
      BY <2>1
    <3>3. QED
      BY <2>2, <3>1, <3>2
  <2>6. QED
    BY <1>9, <2>4, <2>5
<1>14. \A i \in 1..n : parts[i] \in Seq(S)
  <2> HIDE DEF parts
  <2>1. QED
    BY <1>13, ConcatProperties
<1>15. parts \in Seq(Seq(S)) /\ Len(parts) = n
  <2>1. parts \in [1..n -> Seq(S)]
    BY <1>14
  <2> HIDE DEF parts
  <2>2. QED
    BY <2>1, LenProperties
<1>16. PICK w : w = RegisterAll(u, FlattenSeq(parts))
  OBVIOUS
<1>17. d = [key_table |-> w, shape_table |-> made.codec.shape_table,
            encode_shape_observations |-> made.codec.encode_shape_observations]
  <2>1. [i \in DOMAIN entries |-> WrittenKeys(entries[i])] = parts
    BY <1>7
  <2> HIDE DEF parts
  <2>2. QED
    BY <1>5, <1>6, <1>7, <1>16, <2>1 DEF write_map_message, CodecOK
<1> HIDE DEF parts
<1>18. /\ w \in Table(S) /\ Extends(u, w)
       /\ \A i \in 1..n : parts[i] \in Seq(Among(S, w))
       /\ (\A i \in 1..n : parts[i] \in Seq(Among(S, u))) => w = u
  BY <1>15, <1>16, WrittenParts
<1>19. CodecOK(d, S, L) /\ Grown(made.codec, d)
  BY <1>5, <1>17, <1>18 DEF CodecOK, Grown, ShapesKept
<1>20. SaysMap(S, made.msg, map, d.key_table)
  <2>1. ASSUME NEW i \in 1..n
        PROVE  /\ Means(entries[i].ref, w, keys[i]) /\ HasValue(w, keys[i])
               /\ NestedKeys(map[i].val) \in Seq(Among(S, w))
    <3>1. u \in Seq(S) /\ w \in Seq(S)
      BY <1>18 DEF Table
    <3>2. Means(entries[i].ref, w, keys[i]) /\ HasValue(w, keys[i])
      BY <1>12, <1>18, <3>1, StillMeans, StillKnown
    <3>3. PICK head \in Seq(S) : /\ parts[i] = head \o NestedKeys(map[i].val)
                                 /\ NestedKeys(map[i].val) \in Seq(S)
      BY <1>13
    <3>4. head \o NestedKeys(map[i].val) \in Seq(Among(S, w))
      BY <1>18, <3>3
    <3>5. NestedKeys(map[i].val) \in Seq(Among(S, w))
      BY <3>3, <3>4, ConcatParts
    <3>6. QED
      BY <3>2, <3>5
  <2>2. entries \in Seq(Range(entries)) /\ Len(entries) = n
    <3>1. entries \in [1..n -> Range(entries)]
      BY <1>7 DEF Range
    <3>2. QED
      BY <3>1, LenProperties
  <2>3. d.key_table = w
    BY <1>17
  <2>4. \A i \in 1..n : entries[i].ref.is_id \in BOOLEAN
    BY <1>9
  <2>5. QED
    BY <1>1, <1>2, <1>6, <1>7, <1>8, <2>1, <2>2, <2>3, <2>4 DEF SaysMap
<1>21. ASSUME NoneNested(made.msg, map)
       PROVE  w = u
  <2>1. ASSUME NEW i \in 1..n
        PROVE  parts[i] \in Seq(Among(S, u))
    <3>1. NestedKeys(map[i].val) = << >>
      BY <1>1, <1>7, <1>21 DEF NoneNested
    <3>2. PICK head \in Seq(Among(S, u)) : parts[i] = head \o << >>
      BY <1>13, <3>1
    <3>3. head \o << >> = head
      BY ConcatEmptySeq
    <3>4. QED
      BY <3>2, <3>3
  <2>2. QED
    BY <1>18, <2>1
<1>22. QED
  BY <1>5, <1>11, <1>17, <1>19, <1>20, <1>21

\* A shaped message, once written, says the map it was made of.
LEMMA ShapedWritten ==
    ASSUME NEW S, NEW L \in SUBSET Seq(S), NEW B, ValuesOK(S, B), NEW c, CodecOK(c, S, L),
           NEW map \in Seq(Fields(S, B)),
           NEW made, CodecOK(made.codec, S, L), Grown(c, made.codec), MadeShaped(made, c, map),
           NEW d, d = write_map_message(made.codec, made.msg)
    PROVE  /\ CodecOK(d, S, L) /\ Grown(made.codec, d)
           /\ SaysShaped(S, made.msg, map, d)
           /\ NoneNested(made.msg, map) => d.key_table = made.codec.key_table
<1>1. PICK m : m = made.codec
  OBVIOUS
<1>2. PICK t \in Table(S) : t = m.key_table
  BY <1>1 DEF CodecOK
<1>3. PICK by_id : by_id = m.shape_table.by_id
  OBVIOUS
<1>4. PICK msg : msg = made.msg
  BY Zenon
<1>5. /\ msg.kind = "ShapedObject" /\ msg.shape \in DOMAIN by_id
      /\ shape_key(by_id[msg.shape]) = shape_key(KeysOf(map))
      /\ msg.vals = [i \in DOMAIN by_id[msg.shape] |-> FieldOf(map, by_id[msg.shape][i])]
  BY <1>1, <1>3, <1>4, Zenon DEF MadeShaped
<1>6. PICK list \in Seq(S) : list = by_id[msg.shape]
  BY <1>1, <1>3, <1>5 DEF CodecOK, ShapesOK
<1>7. PICK n \in Nat : n = Len(list) /\ DOMAIN list = 1..n
  BY LenProperties
<1>8. PICK vals : vals = [i \in 1..n |-> FieldOf(map, list[i])]
  OBVIOUS
<1>9. msg.vals = vals
  BY <1>5, <1>6, <1>7, <1>8
<1>10. ASSUME NEW i \in 1..n
       PROVE  NestedKeys(vals[i]) \in Seq(S)
  <2>1. PICK v : v = FieldOf(map, list[i])
    OBVIOUS
  <2>2. v = Null \/ \E j \in 1..Len(map) : v = map[j].val
    BY <2>1, FieldIs
  <2>3. v \in B
    <3>1. \A j \in 1..Len(map) : map[j] \in Fields(S, B)
      BY LenProperties, ElementOfSeq
    <3>2. \A j \in 1..Len(map) : map[j].val \in B
      BY <3>1 DEF Fields
    <3>3. QED
      BY <2>2, <3>2 DEF ValuesOK
  <2>4. vals[i] = v
    BY <1>8, <2>1
  <2>5. QED
    BY <2>3, <2>4 DEF ValuesOK
<1> DEFINE parts == [i \in 1..n |-> NestedKeys(vals[i])]
<1>11. parts \in Seq(Seq(S)) /\ Len(parts) = n
  <2>1. parts \in [1..n -> Seq(S)]
    BY <1>10
  <2> HIDE DEF parts
  <2>2. QED
    BY <2>1, LenProperties
<1>12. PICK w : w = RegisterAll(t, FlattenSeq(parts))
  OBVIOUS
<1>13. d = [key_table |-> w, shape_table |-> m.shape_table,
            encode_shape_observations |-> m.encode_shape_observations]
  <2>1. [i \in DOMAIN vals |-> NestedKeys(vals[i])] = parts
    BY <1>8
  <2> HIDE DEF parts
  <2>2. AllNestedKeys(t, vals) = w
    BY <1>12, <2>1 DEF AllNestedKeys
  <2>3. d = [m EXCEPT !.key_table = AllNestedKeys(@, vals)]
    BY <1>1, <1>4, <1>5, <1>9 DEF write_map_message
  <2>4. QED
    BY <1>1, <1>2, <2>2, <2>3 DEF CodecOK
<1>14. \A i \in 1..n : parts[i] = NestedKeys(vals[i])
  OBVIOUS
<1> HIDE DEF parts
<1>15. /\ w \in Table(S) /\ Extends(t, w)
       /\ \A i \in 1..n : parts[i] \in Seq(Among(S, w))
       /\ (\A i \in 1..n : parts[i] \in Seq(Among(S, t))) => w = t
  BY <1>11, <1>12, WrittenParts
<1>16. CodecOK(d, S, L) /\ Grown(m, d)
  BY <1>1, <1>2, <1>13, <1>15 DEF CodecOK, Grown, ShapesKept
<1>17. SaysShaped(S, msg, map, d)
  <2>1. d.shape_table.by_id = by_id /\ d.key_table = w
    BY <1>3, <1>13
  <2>2. \A i \in DOMAIN vals : NestedKeys(vals[i]) \in Seq(Among(S, w))
    BY <1>8, <1>14, <1>15
  <2>3. QED
    BY <1>5, <1>9, <2>1, <2>2 DEF SaysShaped
<1>18. ASSUME NoneNested(msg, map)
       PROVE  w = t
  <2>1. ASSUME NEW i \in 1..n
        PROVE  parts[i] \in Seq(Among(S, t))
    <3>1. msg.kind # "Map"
      BY <1>5
    <3>2. NestedKeys(vals[i]) = << >>
      BY <1>8, <1>9, <1>18, <3>1 DEF NoneNested
    <3>3. << >> \in Seq(Among(S, t))
      BY EmptySeq
    <3>4. QED
      BY <1>14, <3>2, <3>3
  <2>2. QED
    BY <1>15, <2>1
<1>19. d.key_table = w
  BY <1>13
<1>20. QED
  BY <1>1, <1>2, <1>4, <1>16, <1>17, <1>18, <1>19

\* The references of the message, and the table after its keys were written.
RefsOf(msg, map, t, u) ==
    IF msg.kind = "Map"
    THEN /\ u = RegisterAll(t, KeysOf(map))
         /\ \A i \in 1..Len(map) : msg.entries[i].ref = KeyRefAt(t, KeysOf(map), i)
    ELSE u = t

\* Encoding a map.
LEMMA MapEncoded ==
    ASSUME NEW S, NEW L \in SUBSET Seq(S), NEW B, ValuesOK(S, B), NEW c, CodecOK(c, S, L),
           NEW map \in Seq(Fields(S, B)), KeysOf(map) \in L,
           NEW e, e = encode_map(c, map)
    PROVE  /\ CodecOK(e.codec, S, L) /\ Grown(c, e.codec) /\ Says(S, e.msg, map, e.codec)
           /\ LiteralsNew(e.msg, map, c)
           /\ NoneNested(e.msg, map) =>
                 RefsOf(e.msg, map, c.key_table, e.codec.key_table)
<1>1. PICK made : made = message_for_map(c, map)
  OBVIOUS
<1>2. /\ CodecOK(made.codec, S, L) /\ Grown(c, made.codec)
      /\ MadeMap(made, c, map) \/ MadeShaped(made, c, map)
  BY <1>1, MessageMade
<1>3. PICK d : d = write_map_message(made.codec, made.msg)
  OBVIOUS
<1>4. e.codec = d /\ e.msg = made.msg
  BY <1>1, <1>3 DEF encode_map
<1>5. CASE MadeMap(made, c, map)
  <2>1. /\ CodecOK(d, S, L) /\ Grown(made.codec, d)
        /\ SaysMap(S, made.msg, map, d.key_table) /\ LiteralsNew(made.msg, map, c)
        /\ NoneNested(made.msg, map) => d.key_table = made.codec.key_table
    BY <1>2, <1>3, <1>5, MapWritten
  <2>2. Grown(c, d)
    BY <1>2, <2>1, GrownTwice
  <2>3. DOMAIN map = 1..Len(map)
    BY LenProperties
  <2>4. /\ made.codec.key_table = RegisterAll(c.key_table, KeysOf(map))
        /\ \A i \in 1..Len(map) :
              made.msg.entries[i].ref = KeyRefAt(c.key_table, KeysOf(map), i)
        /\ made.msg.kind = "Map"
    BY <1>5, <2>3 DEF MadeMap
  <2>5. QED
    BY <1>4, <2>1, <2>2, <2>4 DEF Says, RefsOf
<1>6. CASE MadeShaped(made, c, map)
  <2>1. /\ CodecOK(d, S, L) /\ Grown(made.codec, d)
        /\ SaysShaped(S, made.msg, map, d)
        /\ NoneNested(made.msg, map) => d.key_table = made.codec.key_table
    BY <1>2, <1>3, <1>6, ShapedWritten
  <2>2. Grown(c, d)
    BY <1>2, <2>1, GrownTwice, SMTT(30)
  <2>3. made.codec.key_table = c.key_table /\ made.msg.kind = "ShapedObject"
    BY <1>6 DEF MadeShaped
  <2>4. LiteralsNew(made.msg, map, c)
    BY <2>3 DEF LiteralsNew
  <2>5. QED
    BY <1>4, <2>1, <2>2, <2>3, <2>4 DEF Says, RefsOf
<1>7. QED
  BY <1>2, <1>5, <1>6

-----------------------------------------------------------------------------
(* Reading. *)

\* What is enough for a codec to read the message without coming to harm.
ReadableMap(msg, S, B) ==
    /\ msg.kind = "Map"
    /\ msg.entries \in Seq(Range(msg.entries)) /\ AllReadable(msg.entries, S, B)

ReadableShaped(msg, S) ==
    /\ msg.kind = "ShapedObject"
    /\ \E n \in Nat : msg.vals = [i \in 1..n |-> msg.vals[i]]
    /\ \A i \in DOMAIN msg.vals : NestedKeys(msg.vals[i]) \in Seq(S)

ReadableMessage(msg, S, B) == ReadableMap(msg, S, B) \/ ReadableShaped(msg, S)

\* A message that says a map can be read, whatever the reader holds.
LEMMA SaysReadable ==
    ASSUME NEW S, NEW L \in SUBSET Seq(S), NEW B, ValuesOK(S, B), NEW c, CodecOK(c, S, L),
           NEW map \in Seq(Fields(S, B)), NEW msg, Says(S, msg, map, c)
    PROVE  ReadableMessage(msg, S, B)
<1>1. PICK n \in Nat : n = Len(map) /\ \A i \in 1..n : map[i] \in Fields(S, B)
  BY LenProperties, ElementOfSeq
<1>2. CASE SaysMap(S, msg, map, c.key_table)
  <2>1. PICK entries : entries = msg.entries
    OBVIOUS
  <2>2. /\ entries \in Seq(Range(entries)) /\ Len(entries) = n
        /\ \A i \in 1..n : /\ entries[i].ref.is_id \in BOOLEAN
                           /\ entries[i].val = map[i].val
                           /\ Means(entries[i].ref, c.key_table, map[i].key)
    BY <1>1, <1>2, <2>1 DEF SaysMap
  <2>3. \A i \in 1..n : Readable(entries[i], S, B)
    BY <1>1, <2>2 DEF Readable, Means, Fields, ValuesOK
  <2>4. DOMAIN entries = 1..n
    BY <2>2, LenProperties
  <2>5. msg.kind = "Map"
    BY <1>2 DEF SaysMap
  <2>6. QED
    BY <2>1, <2>2, <2>3, <2>4, <2>5 DEF ReadableMessage, ReadableMap, AllReadable
<1>3. CASE SaysShaped(S, msg, map, c)
  <2>1. PICK list \in Seq(S) : list = c.shape_table.by_id[msg.shape]
    BY <1>3 DEF SaysShaped, CodecOK, ShapesOK
  <2>2. PICK k \in Nat : DOMAIN list = 1..k
    BY LenProperties
  <2>3. msg.vals = [i \in 1..k |-> FieldOf(map, list[i])]
    BY <1>3, <2>1, <2>2 DEF SaysShaped
  <2>4. msg.vals = [i \in 1..k |-> msg.vals[i]]
    BY <2>3
  <2>5. \A i \in DOMAIN msg.vals : NestedKeys(msg.vals[i]) \in Seq(S)
    <3>1. \A i \in DOMAIN msg.vals : NestedKeys(msg.vals[i]) \in Seq(Among(S, c.key_table))
      BY <1>3 DEF SaysShaped
    <3>2. Among(S, c.key_table) \subseteq S
      BY DEF Among
    <3>3. \A keys \in Seq(Among(S, c.key_table)) : keys \in Seq(S)
      BY <3>2
    <3>4. QED
      BY <3>1, <3>3
  <2>6. msg.kind = "ShapedObject"
    BY <1>3 DEF SaysShaped
  <2>7. QED
    BY <2>4, <2>5, <2>6 DEF ReadableMessage, ReadableShaped
<1>4. QED
  BY <1>2, <1>3 DEF Says

\* Observing a shape as a reader keeps the shape table well formed and every
\* shape in it.
LEMMA ObservedRead ==
    ASSUME NEW s, NEW L, ShapesOK(s, L), NEW keys \in L,
           NEW u, u = observe_decode_shape_candidate(s, keys)
    PROVE  ShapesOK(u, L) /\ ShapesKept(s, u)
<1>1. PICK o : o = [s EXCEPT !.observations = Counted(s.observations, keys)]
  OBVIOUS
<1>2. o = [by_keys |-> s.by_keys, by_id |-> s.by_id,
           observations |-> Counted(s.observations, keys), next_id |-> s.next_id]
  BY <1>1 DEF ShapesOK
<1>3. ShapesOK(o, L) /\ ShapesKept(s, o)
  BY <1>2 DEF ShapesOK, ShapesKept, ShapeKnown, shape_id
<1>4. PICK r : r = register_keys(o, keys)
  OBVIOUS
<1>5. ShapesOK(r, L) /\ ShapesKept(o, r)
  BY <1>3, <1>4, RegisterKeys
<1>6. ShapesKept(s, r) /\ ShapesKept(s, s)
  BY <1>3, <1>5 DEF ShapesKept
<1>7. u = s \/ u = r \/ u = o
  BY <1>1, <1>4 DEF observe_decode_shape_candidate
<1>8. QED
  BY <1>3, <1>5, <1>6, <1>7

\* A codec after it read a Map message.
LEMMA MapRead ==
    ASSUME NEW S, NEW L, NEW B, NEW c, CodecOK(c, S, L),
           NEW msg, ReadableMap(msg, S, B),
           NEW read, read = read_entries(c.key_table, msg.entries),
           KeysOf(read.map) \in L,
           NEW d, d = read_map(c, msg)
    PROVE  /\ CodecOK(d.codec, S, L) /\ Grown(c, d.codec)
           /\ d.codec.key_table = read.table
           /\ read.ok => d.res = read.map
<1>1. PICK t \in Table(S) : t = c.key_table
  BY DEF CodecOK
<1>2. read \in Accs(S, B, t)
  BY <1>1, EntriesRead DEF ReadableMap
<1>3. read.table \in Table(S) /\ Extends(t, read.table) /\ read.ok \in BOOLEAN
  BY <1>2 DEF Accs
<1>4. PICK kept : kept = [c EXCEPT !.key_table = read.table]
  OBVIOUS
<1>5. kept = [key_table |-> read.table, shape_table |-> c.shape_table,
              encode_shape_observations |-> c.encode_shape_observations]
  BY <1>4 DEF CodecOK
<1>6. ShapesOK(c.shape_table, L) /\ ShapesKept(c.shape_table, c.shape_table)
  BY DEF CodecOK, ShapesKept
<1>7. CASE read.ok
  <2>1. PICK shapes : shapes = observe_decode_shape_candidate(c.shape_table, KeysOf(read.map))
    OBVIOUS
  <2>2. ShapesOK(shapes, L) /\ ShapesKept(c.shape_table, shapes)
    BY <1>6, <1>7, <2>1, ObservedRead
  <2>3. d = [codec |-> [kept EXCEPT !.shape_table = shapes], res |-> read.map]
    BY <1>4, <1>5, <1>7, <2>1 DEF read_map
  <2>4. d.codec = [key_table |-> read.table, shape_table |-> shapes,
                   encode_shape_observations |-> c.encode_shape_observations]
    BY <1>5, <2>3
  <2>5. QED
    BY <1>1, <1>3, <2>2, <2>3, <2>4 DEF CodecOK, Grown
<1>8. CASE ~read.ok
  <2>1. d.codec = kept
    BY <1>4, <1>8 DEF read_map
  <2>2. QED
    BY <1>1, <1>3, <1>5, <1>6, <1>8, <2>1 DEF CodecOK, Grown
<1>9. QED
  BY <1>3, <1>7, <1>8

\* So many values, with nested keys of this set.
NestedOnly(vals, n, K) == /\ vals = [i \in 1..n |-> vals[i]]
                          /\ \A i \in 1..n : NestedKeys(vals[i]) \in Seq(K)

\* A codec after it read a shaped object.
LEMMA ShapedRead ==
    ASSUME NEW S, NEW L, NEW c, CodecOK(c, S, L),
           NEW msg, NEW n \in Nat, NestedOnly(msg.vals, n, S), NEW d, d = read_shaped(c, msg)
    PROVE  /\ CodecOK(d, S, L) /\ Grown(c, d) /\ d.shape_table = c.shape_table
           /\ NestedOnly(msg.vals, n, Among(S, c.key_table)) => d.key_table = c.key_table
<1> USE DEF NestedOnly
<1>1. PICK t \in Table(S) : t = c.key_table
  BY DEF CodecOK
<1>2. PICK vals : vals = msg.vals /\ DOMAIN vals = 1..n
  OBVIOUS
<1> DEFINE parts == [i \in 1..n |-> NestedKeys(vals[i])]
<1>3. parts \in Seq(Seq(S)) /\ Len(parts) = n
  <2>1. parts \in [1..n -> Seq(S)]
    BY <1>2
  <2> HIDE DEF parts
  <2>2. QED
    BY <2>1, LenProperties
<1>4. [i \in DOMAIN vals |-> NestedKeys(vals[i])] = parts
  BY <1>2
<1>5. \A i \in 1..n : parts[i] = NestedKeys(vals[i])
  OBVIOUS
<1> HIDE DEF parts
<1>6. PICK w : w = RegisterAll(t, FlattenSeq(parts))
  OBVIOUS
<1>7. /\ w \in Table(S) /\ Extends(t, w)
      /\ (\A i \in 1..n : parts[i] \in Seq(Among(S, t))) => w = t
  BY <1>3, <1>6, WrittenParts
<1>8. d = [key_table |-> w, shape_table |-> c.shape_table,
           encode_shape_observations |-> c.encode_shape_observations]
  BY <1>1, <1>2, <1>4, <1>6 DEF read_shaped, AllNestedKeys, CodecOK
<1>9. CodecOK(d, S, L) /\ Grown(c, d)
  BY <1>1, <1>7, <1>8 DEF CodecOK, Grown, ShapesKept
<1>10. QED
  BY <1>1, <1>2, <1>5, <1>7, <1>8, <1>9

\* Whatever a codec decodes, its tables only grow.
LEMMA ForeignDecoded ==
    ASSUME NEW S, NEW L, Seq(S) \subseteq L, NEW B, NEW c, CodecOK(c, S, L),
           NEW msg, ReadableMessage(msg, S, B), NEW d, d = decode_map(c, msg)
    PROVE  CodecOK(d.codec, S, L) /\ Grown(c, d.codec)
<1>1. CASE ReadableMap(msg, S, B)
  <2>1. PICK read : read = read_entries(c.key_table, msg.entries)
    OBVIOUS
  <2>2. read \in Accs(S, B, c.key_table)
    BY <1>1, <2>1, EntriesRead DEF CodecOK, ReadableMap
  <2>3. KeysOf(read.map) \in L
    <3>1. read.map \in Seq(Fields(S, B))
      BY <2>2 DEF Accs
    <3>2. QED
      BY <3>1, KeysTyped
  <2>4. d = read_map(c, msg)
    BY <1>1 DEF decode_map, ReadableMap
  <2>5. QED
    BY <1>1, <2>1, <2>3, <2>4, MapRead
<1>2. CASE ReadableShaped(msg, S)
  <2>1. PICK n \in Nat : msg.vals = [i \in 1..n |-> msg.vals[i]]
    BY <1>2 DEF ReadableShaped
  <2>2. NestedOnly(msg.vals, n, S)
    BY <1>2, <2>1 DEF ReadableShaped, NestedOnly
  <2>3. d.codec = read_shaped(c, msg)
    BY <1>2 DEF decode_map, ReadableShaped
  <2>4. QED
    BY <2>2, <2>3, ShapedRead
<1>3. QED
  BY <1>1, <1>2 DEF ReadableMessage

\* A map whose keys are all different, and whose key list has a shape_key of
\* its own among these.
OwnShape(map, L) ==
    /\ Distinct(KeysOf(map))
    /\ \A list \in L : shape_key(list) = shape_key(KeysOf(map)) => list = KeysOf(map)

\* The keys of a map without repeated keys, paired with the values found
\* under them, are the map again.
LEMMA PairedAgain ==
    ASSUME NEW S, NEW B, NEW map \in Seq(Fields(S, B)), Distinct(KeysOf(map)),
           NEW vals, vals = [i \in DOMAIN KeysOf(map) |-> FieldOf(map, KeysOf(map)[i])]
    PROVE  Paired(KeysOf(map), vals) = map
<1>1. PICK n \in Nat : n = Len(map) /\ DOMAIN map = 1..n
  BY LenProperties
<1>2. PICK keys : keys = KeysOf(map)
  OBVIOUS
<1>3. DOMAIN keys = 1..n /\ \A i \in 1..n : keys[i] = map[i].key
  BY <1>1, <1>2, KeysTyped
<1>4. \A i \in 1..n : map[i] = [key |-> map[i].key, val |-> map[i].val]
  <2>1. \A i \in 1..n : map[i] \in Fields(S, B)
    BY <1>1, ElementOfSeq
  <2>2. QED
    BY <2>1 DEF Fields
<1>5. \A i \in 1..n : vals[i] = map[i].val
  <2> SUFFICES ASSUME NEW i \in 1..n PROVE vals[i] = map[i].val
    OBVIOUS
  <2>1. vals[i] = FieldOf(map, map[i].key)
    BY <1>2, <1>3
  <2>2. \A j \in 1..n : map[j].key = map[i].key => j = i
    BY <1>2, <1>3 DEF Distinct
  <2>3. QED
    BY <1>1, <2>1, <2>2, FieldAt
<1>6. Paired(keys, vals) = [i \in 1..n |-> Entry(keys[i], vals[i])]
  BY <1>2, <1>3 DEF Paired
<1>7. \A i \in 1..n : Entry(keys[i], vals[i]) = map[i]
  BY <1>3, <1>4, <1>5 DEF Entry
<1>8. map = [i \in 1..n |-> map[i]]
  BY <1>1
<1>9. QED
  BY <1>2, <1>6, <1>7, <1>8

\* A codec that has the keys of a Map message reads it too, and its table
\* stays.
LEMMA KnownDecoded ==
    ASSUME NEW S, NEW L, NEW B, NEW c, CodecOK(c, S, L),
           NEW map \in Seq(Fields(S, B)), KeysOf(map) \in L, NEW msg, ReadableMap(msg, S, B),
           SaysMap(S, msg, map, c.key_table), NEW d, d = decode_map(c, msg)
    PROVE  /\ CodecOK(d.codec, S, L) /\ Grown(c, d.codec)
           /\ d.codec.key_table = c.key_table /\ d.res = map
<1>1. PICK t \in Table(S) : t = c.key_table
  BY DEF CodecOK
<1>0. PICK entries : entries = msg.entries
  OBVIOUS
<1>2. AllReadable(entries, S, B) /\ entries \in Seq(Range(entries))
  BY <1>0 DEF ReadableMap
<1>3. Stands(entries, map, t) /\ AllKnown(S, map, t)
  BY <1>0, <1>1 DEF SaysMap, Stands, AllKnown
<1>4. read_entries(t, entries) = [table |-> t, map |-> map, ok |-> TRUE]
  BY <1>2, <1>3, ReadKnown
<1>5. PICK read : read = [table |-> t, map |-> map, ok |-> TRUE]
  OBVIOUS
<1>6. read = read_entries(c.key_table, msg.entries) /\ KeysOf(read.map) \in L
  BY <1>0, <1>1, <1>4, <1>5
<1>7. d = read_map(c, msg)
  BY DEF decode_map, SaysMap
<1>8. /\ CodecOK(d.codec, S, L) /\ Grown(c, d.codec)
      /\ d.codec.key_table = read.table
      /\ read.ok => d.res = read.map
  BY <1>6, <1>7, MapRead
<1>9. QED
  BY <1>1, <1>5, <1>8

\* A codec decodes a message whose keys it all knows: nothing is registered
\* and the map comes back.
LEMMA OwnDecoded ==
    ASSUME NEW S, NEW L \in SUBSET Seq(S), NEW B, ValuesOK(S, B), NEW c, CodecOK(c, S, L),
           NEW map \in Seq(Fields(S, B)), KeysOf(map) \in L,
           NEW msg, Says(S, msg, map, c), NEW d, d = decode_map(c, msg)
    PROVE  /\ CodecOK(d.codec, S, L) /\ Grown(c, d.codec)
           /\ d.codec.key_table = c.key_table
           /\ msg.kind = "Map" \/ OwnShape(map, L) => d.res = map
<1>2. CASE SaysMap(S, msg, map, c.key_table)
  <2>1. ReadableMap(msg, S, B)
    BY <1>2, SaysReadable DEF Says, ReadableMessage, SaysMap, ReadableShaped
  <2>2. QED
    BY <1>2, <2>1, KnownDecoded
<1>3. CASE SaysShaped(S, msg, map, c)
  <2>1. msg.kind = "ShapedObject" /\ msg.shape \in DOMAIN c.shape_table.by_id
    BY <1>3 DEF SaysShaped
  <2>2. PICK list \in L : list = c.shape_table.by_id[msg.shape]
    BY <2>1 DEF CodecOK, ShapesOK
  <2>3. PICK n \in Nat : DOMAIN list = 1..n
    BY LenProperties
  <2>4. msg.vals = [i \in 1..n |-> FieldOf(map, list[i])]
    BY <1>3, <2>2, <2>3 DEF SaysShaped
  <2>5. msg.vals = [i \in 1..n |-> msg.vals[i]] /\ DOMAIN msg.vals = 1..n
    BY <2>4
  <2>6. \A i \in 1..n : NestedKeys(msg.vals[i]) \in Seq(Among(S, c.key_table))
    BY <1>3, <2>5 DEF SaysShaped
  <2>7. \A keys \in Seq(Among(S, c.key_table)) : keys \in Seq(S)
    <3>1. Among(S, c.key_table) \subseteq S
      BY DEF Among
    <3>2. QED
      BY <3>1
  <2>8. d = [codec |-> read_shaped(c, msg), res |-> shaped_value(c.shape_table, msg)]
    BY <2>1 DEF decode_map
  <2>9. PICK r : r = read_shaped(c, msg)
    OBVIOUS
  <2>10. /\ CodecOK(r, S, L) /\ Grown(c, r)
         /\ r.key_table = c.key_table
    <3>1. NestedOnly(msg.vals, n, S) /\ NestedOnly(msg.vals, n, Among(S, c.key_table))
      BY <2>5, <2>6, <2>7 DEF NestedOnly
    <3>2. QED
      BY <2>9, <3>1, ShapedRead
  <2>11. ASSUME OwnShape(map, L) PROVE d.res = map
    <3>1. list = KeysOf(map)
      BY <1>3, <2>2, <2>11 DEF OwnShape, SaysShaped
    <3>2. msg.vals = [i \in DOMAIN KeysOf(map) |-> FieldOf(map, KeysOf(map)[i])]
      BY <2>3, <2>4, <3>1
    <3>3. Paired(KeysOf(map), msg.vals) = map
      BY <2>11, <3>2, PairedAgain DEF OwnShape
    <3>4. d.res = Paired(list, msg.vals)
      BY <2>1, <2>2, <2>8 DEF shaped_value
    <3>5. QED
      BY <3>1, <3>3, <3>4
  <2>12. QED
    BY <2>1, <2>8, <2>9, <2>10, <2>11
<1>4. QED
  BY <1>2, <1>3 DEF Says

\* What a flat message tells a reader with the table the writer had: the map,
\* and how the writer's table went on.
Renews(msg, map, t, u) ==
    /\ NoneNested(msg, map)
    /\ IF msg.kind = "Map"
       THEN read_entries(t, msg.entries) = [table |-> u, map |-> map, ok |-> TRUE]
       ELSE u = t

\* Encoding a map without nested maps grows the key table just as a reader of
\* the message grows its own.
LEMMA FlatEncoded ==
    ASSUME NEW S, NEW L \in SUBSET Seq(S), NEW B, ValuesOK(S, B), NEW c, CodecOK(c, S, L),
           NEW map \in Seq(Fields(S, B)), KeysOf(map) \in L,
           NEW e, e = encode_map(c, map), NoneNested(e.msg, map)
    PROVE  Renews(e.msg, map, c.key_table, e.codec.key_table)
<1>1. PICK t \in Table(S) : t = c.key_table
  BY DEF CodecOK
<1> DEFINE u == e.codec.key_table
<1>2. /\ CodecOK(e.codec, S, L) /\ Says(S, e.msg, map, e.codec)
      /\ RefsOf(e.msg, map, c.key_table, e.codec.key_table)
  BY MapEncoded
<1>3. CASE e.msg.kind = "Map"
  <2>1. PICK entries : entries = e.msg.entries
    OBVIOUS
  <2>2. /\ u = RegisterAll(t, KeysOf(map))
        /\ \A i \in 1..Len(map) : entries[i].ref = KeyRefAt(t, KeysOf(map), i)
    BY <1>1, <1>2, <1>3, <2>1 DEF RefsOf
  <2>3. SaysMap(S, e.msg, map, u)
    BY <1>1, <1>2, <1>3 DEF Says, SaysShaped
  <2>4. ReadableMessage(e.msg, S, B)
    BY <1>2, SaysReadable
  <2>5. AllReadable(entries, S, B) /\ entries \in Seq(Range(entries))
    BY <1>3, <2>1, <2>4 DEF ReadableMessage, ReadableMap, ReadableShaped
  <2>6. Len(entries) = Len(map) /\ \A i \in 1..Len(map) : entries[i].val = map[i].val
    BY <2>1, <2>3 DEF SaysMap
  <2>7. \A i \in 1..Len(map) : NestedKeys(map[i].val) = << >>
    BY <1>3 DEF NoneNested
  <2>8. read_entries(t, entries) = [table |-> u, map |-> map, ok |-> TRUE]
    BY <2>2, <2>5, <2>6, <2>7, ReadFresh
  <2>9. QED
    BY <1>1, <1>3, <2>1, <2>8 DEF Renews
<1>4. CASE e.msg.kind # "Map"
  BY <1>1, <1>2, <1>4 DEF Renews, RefsOf
<1>5. QED
  BY <1>3, <1>4

\* The decode got the map of a Map message, and the codec this table.
Renewed(d, msg, map, u) ==
    /\ d.codec.key_table = u
    /\ msg.kind = "Map" => d.res = map

\* Another codec with that table reads it.
LEMMA FreshDecoded ==
    ASSUME NEW S, NEW L, NEW B, NEW c, CodecOK(c, S, L),
           NEW map \in Seq(Fields(S, B)), KeysOf(map) \in L, NEW msg, ReadableMessage(msg, S, B),
           NEW u, Renews(msg, map, c.key_table, u), NEW d, d = decode_map(c, msg)
    PROVE  Renewed(d, msg, map, u)
<1> USE DEF Renewed
<1>1. CASE msg.kind = "Map"
  <2>1. PICK read : read = read_entries(c.key_table, msg.entries)
    OBVIOUS
  <2>2. read = [table |-> u, map |-> map, ok |-> TRUE]
    BY <1>1, <2>1 DEF Renews
  <2>3. KeysOf(read.map) \in L
    BY <2>2
  <2>4. ReadableMap(msg, S, B)
    BY <1>1 DEF ReadableMessage, ReadableShaped
  <2>5. d = read_map(c, msg)
    BY <1>1 DEF decode_map
  <2>6. d.codec.key_table = read.table /\ (read.ok => d.res = read.map)
    BY <2>1, <2>3, <2>4, <2>5, MapRead
  <2>7. QED
    BY <2>2, <2>6
<1>2. CASE msg.kind # "Map"
  <2>1. ReadableShaped(msg, S)
    BY <1>2 DEF ReadableMessage, ReadableMap
  <2>2. PICK n \in Nat : msg.vals = [i \in 1..n |-> msg.vals[i]]
    BY <2>1 DEF ReadableShaped
  <2>3. \A i \in 1..n : NestedKeys(msg.vals[i]) = << >>
    BY <1>2, <2>2 DEF Renews, NoneNested
  <2>4. \A K : << >> \in Seq(K)
    OBVIOUS
  <2>5. NestedOnly(msg.vals, n, S) /\ NestedOnly(msg.vals, n, Among(S, c.key_table))
    BY <2>2, <2>3, <2>4 DEF NestedOnly
  <2>6. d.codec = read_shaped(c, msg)
    BY <1>2 DEF decode_map
  <2>7. d.codec.key_table = c.key_table
    BY <2>5, <2>6, ShapedRead
  <2>8. QED
    BY <1>2, <2>7 DEF Renews
<1>3. QED
  BY <1>1, <1>2

=============================================================================
