------------------------- MODULE BatchSessionProofs -------------------------
(***************************************************************************)
(* Theorems about BatchSession: about the columns of its batches and what  *)
(* their merge under a template returns; about what a session keeps,       *)
(* whatever is lost or reset; and about what the two peers share as long   *)
(* as no buffer is lost: the layouts, their numbers, and the fates of      *)
(* buffers.                                                                *)
(***************************************************************************)
EXTENDS BatchSession, Induction

-----------------------------------------------------------------------------
(* The columns that travel and the cursor over them. *)

\* The set bits up to a place are finitely many, for any mask.
LEMMA FiniteBits ==
    ASSUME NEW mask, NEW i \in Nat
    PROVE  IsFiniteSet({j \in 1..i : mask[j]})
<1>1. IsFiniteSet(1..i)
  BY FS_Interval
<1>2. {j \in 1..i : mask[j]} \in SUBSET (1..i)
  OBVIOUS
<1>3. QED
  BY <1>1, <1>2, FS_Subset

\* The number of set bits up to a place is a natural number.
LEMMA SetBits ==
    ASSUME NEW mask, NEW i \in Nat
    PROVE  SetBitsTo(mask, i) \in Nat
BY FiniteBits, FS_CardinalityType DEF SetBitsTo

\* The number of set bits never falls along a mask, and grows at every set
\* bit.
LEMMA SetBitsGrow ==
    ASSUME NEW n \in Nat, NEW mask \in [1..n -> BOOLEAN],
           NEW i \in 0..n, NEW k \in 0..n, i <= k
    PROVE  /\ SetBitsTo(mask, i) <= SetBitsTo(mask, k)
           /\ i < k /\ mask[k] => SetBitsTo(mask, i) < SetBitsTo(mask, k)
<1> DEFINE A == {j \in 1..i : mask[j]}
           B == {j \in 1..k : mask[j]}
<1>1. IsFiniteSet(B)
  BY FiniteBits
<1>2. A \in SUBSET B
  OBVIOUS
<1>3. i < k /\ mask[k] => A # B
  <2>1. i < k /\ mask[k] => k \in B /\ k \notin A
    OBVIOUS
  <2>2. QED
    BY <2>1
<1>4. Cardinality(A) <= Cardinality(B) /\ (Cardinality(B) = Cardinality(A) => B = A)
  <2> HIDE DEF A, B
  <2>1. QED
    BY <1>1, <1>2, FS_Subset
<1>5. SetBitsTo(mask, i) = Cardinality(A) /\ SetBitsTo(mask, k) = Cardinality(B)
  BY DEF SetBitsTo
<1>6. SetBitsTo(mask, i) \in Nat /\ SetBitsTo(mask, k) \in Nat
  BY SetBits
<1>7. QED
  BY <1>3, <1>4, <1>5, <1>6

\* The cursor over the columns that travelled is at column i when it is due.
LEMMA MaskedAt ==
    ASSUME NEW n \in Nat, NEW mask \in [1..n -> BOOLEAN], NEW columns,
           NEW i \in 1..n, mask[i]
    PROVE  Masked(mask, columns)[SetBitsTo(mask, i)] = columns[i]
<1> DEFINE b == SetBitsTo(mask, i)
           P(k) == mask[k] /\ SetBitsTo(mask, k) = b
<1>1. Len(mask) = n /\ DOMAIN mask = 1..n
  <2>1. mask \in Seq(BOOLEAN)
    OBVIOUS
  <2>2. QED
    BY <2>1, LenProperties
<1>2. b \in 1..SetBitsTo(mask, n)
  <2>1. SetBitsTo(mask, 0) < b /\ b <= SetBitsTo(mask, n)
    BY SetBitsGrow
  <2>2. b \in Nat /\ SetBitsTo(mask, 0) \in Nat /\ SetBitsTo(mask, n) \in Nat
    BY SetBits
  <2> HIDE DEF b
  <2>3. QED
    BY <2>1, <2>2
<1>3. \A k \in 1..n : P(k) => k = i
  <2>1. SUFFICES ASSUME NEW k \in 1..n, P(k), k # i
                 PROVE  FALSE
    OBVIOUS
  <2>2. CASE k < i
    <3>1. SetBitsTo(mask, k) < SetBitsTo(mask, i)
      BY <2>2, SetBitsGrow
    <3>2. SetBitsTo(mask, k) \in Nat
      BY SetBits
    <3>3. QED
      BY <3>1, <3>2, <2>1
  <2>3. CASE i < k
    <3>1. SetBitsTo(mask, i) < SetBitsTo(mask, k)
      BY <2>1, <2>3, SetBitsGrow
    <3>2. SetBitsTo(mask, k) \in Nat
      BY SetBits
    <3>3. QED
      BY <3>1, <3>2, <2>1
  <2>4. QED
    BY <2>1, <2>2, <2>3
<1>4. P(i)
  OBVIOUS
<1>5. (CHOOSE k \in DOMAIN mask : P(k)) = i
  <2> HIDE DEF P
  <2>1. QED
    BY <1>1, <1>3, <1>4
<1>6. Masked(mask, columns)[b] = columns[CHOOSE k \in DOMAIN mask : P(k)]
  BY <1>1, <1>2 DEF Masked
<1>7. QED
  BY <1>5, <1>6

\* Merging what travelled of columns: the sent ones at the places of the
\* mask, the previous ones elsewhere.
THEOREM MergeSent ==
    ASSUME NEW n \in Nat, NEW mask \in [1..n -> BOOLEAN],
           NEW columns, NEW previous
    PROVE  merge_template_columns(previous, mask, Masked(mask, columns))
               = [i \in 1..n |-> IF mask[i] THEN columns[i] ELSE previous[i]]
<1>1. \A i \in 1..n :
         mask[i] => Masked(mask, columns)[SetBitsTo(mask, i)] = columns[i]
  BY MaskedAt
<1>2. DOMAIN mask = 1..n
  OBVIOUS
<1>3. QED
  BY <1>1, <1>2 DEF merge_template_columns

\* All of them, when all travelled.
LEMMA MaskedAll ==
    ASSUME NEW n \in Nat, NEW mask \in [1..n -> BOOLEAN], \A i \in 1..n : mask[i],
           NEW columns, columns = [i \in 1..n |-> columns[i]]
    PROVE  Masked(mask, columns) = columns
<1>1. \A i \in 0..n : SetBitsTo(mask, i) = i
  <2>1. ASSUME NEW i \in 0..n
        PROVE  SetBitsTo(mask, i) = i
    <3>1. {j \in 1..i : mask[j]} = 1..i
      OBVIOUS
    <3>2. Cardinality(1..i) = i
      BY FS_Interval
    <3>3. QED
      BY <3>1, <3>2 DEF SetBitsTo
  <2>2. QED
    BY <2>1
<1>2. Len(mask) = n
  <2>1. mask \in Seq(BOOLEAN)
    OBVIOUS
  <2>2. QED
    BY <2>1, LenProperties
<1>3. DOMAIN Masked(mask, columns) = 1..n
  BY <1>1, <1>2 DEF Masked
<1>4. \A i \in 1..n : Masked(mask, columns)[i] = columns[i]
  BY <1>1, MaskedAt, SMTT(30)
<1>5. Masked(mask, columns) = [i \in DOMAIN Masked(mask, columns) |->
                                  Masked(mask, columns)[i]]
  BY DEF Masked
<1>6. QED
  BY <1>3, <1>4, <1>5

-----------------------------------------------------------------------------
(* The columns of a micro batch are a sequence. *)

\* The keys of a micro batch, gathered in the order they are first seen, are
\* a sequence of the keys of its rows.
LEMMA KeyOrder ==
    ASSUME NEW S, NEW values, values \in Seq(Range(values)),
           \A r \in DOMAIN values : KeysOf(values[r]) \in Seq(S)
    PROVE  key_order(values) \in Seq(S)
<1>1. PICK all \in Seq(S) :
         all = FlattenSeq([r \in DOMAIN values |-> KeysOf(values[r])])
  <2>1. DOMAIN values = 1..Len(values) /\ Len(values) \in Nat
    BY LenProperties
  <2>2. [r \in DOMAIN values |-> KeysOf(values[r])] \in Seq(Seq(S))
    <3> DEFINE rows == [r \in DOMAIN values |-> KeysOf(values[r])]
    <3>1. rows \in [1..Len(values) -> Seq(S)]
      BY <2>1
    <3> HIDE DEF rows
    <3>2. rows \in Seq(Seq(S))
      BY <2>1, <3>1
    <3>3. QED
      BY <3>2 DEF rows
  <2>3. QED
    BY <2>2, FlattenSeqs
<1>2. PICK n \in Nat : n = Len(all) /\ \A i \in 1..n : all[i] \in S
  BY LenProperties, ElementOfSeq
<1> DEFINE Extend(before, i) == IF Contains(before, all[i]) THEN before
                                ELSE Append(before, all[i])
           Step(f) == [i \in 0..n |-> IF i = 0 THEN << >> ELSE Extend(f[i - 1], i)]
           keys == CHOOSE f : f = Step(f)
<1>3. key_order(values) = keys[n]
  BY <1>1, <1>2 DEF key_order
<1>4. \A s \in Seq(S), i \in 1..n : Extend(s, i) \in Seq(S)
  BY <1>2, AppendProperties
<1>5. \E f : f = Step(f)
  <2> DEFINE F == [x \in Seq(S) \X (1..n) |-> Extend(x[1], x[2])]
  <2>1. F \in [Seq(S) \X (1..n) -> Seq(S)]
    BY <1>4
  <2>2. << >> \in Seq(S)
    BY EmptySeq
  <2>3. PICK f \in [0..n -> Seq(S)] : Follows(f, n, << >>, F)
    <3> HIDE DEF F
    <3>1. QED
      BY <2>1, <2>2, Iteration
  <2>4. ASSUME NEW i \in 0..n
        PROVE  f[i] = IF i = 0 THEN << >> ELSE Extend(f[i - 1], i)
    <3>1. CASE i = 0
      BY <3>1, <2>3 DEF Follows
    <3>2. CASE i # 0
      <4>1. i \in 1..n /\ i - 1 \in 0..n
        BY <3>2
      <4>2. << f[i - 1], i >> \in Seq(S) \X (1..n)
        BY <4>1
      <4>3. F[<< f[i - 1], i >>] = Extend(f[i - 1], i)
        BY <4>2
      <4> HIDE DEF F, Extend
      <4>4. f[i] = F[<< f[i - 1], i >>]
        BY <4>1, <2>3 DEF Follows
      <4>5. QED
        BY <3>2, <4>3, <4>4
    <3>3. QED
      BY <3>1, <3>2
  <2> HIDE DEF Extend
  <2>5. f = Step(f)
    BY <2>4
  <2>6. QED
    BY <2>5
<1> HIDE DEF Extend
<1>6. keys = Step(keys)
  <2> HIDE DEF Step
  <2>1. QED
    BY <1>5
<1> HIDE DEF keys
<1>7. keys[0] \in Seq(S) /\ \A i \in 1..n : keys[i - 1] \in Seq(S) => keys[i] \in Seq(S)
  <2>1. keys[0] = << >>
    BY <1>6
  <2>2. \A i \in 1..n : keys[i] = Extend(keys[i - 1], i)
    BY <1>6
  <2>3. QED
    BY <1>4, <2>1, <2>2, EmptySeq
<1>8. \A i \in 0..n : keys[i] \in Seq(S)
  BY <1>7, StaysIn
<1>9. QED
  BY <1>3, <1>8

\* The columns of the rows of a micro batch.
LEMMA ColumnsOfMaps ==
    ASSUME NEW values, values \in Seq(Range(values)), values # << >>, AllMaps(values),
           \A r \in DOMAIN values :
               values[r].fields \in Seq(Range(values[r].fields))
    PROVE  BatchColumns(values) \in Seq(Range(BatchColumns(values)))
<1> DEFINE S == UNION {Range(KeysOf(values[r])) : r \in DOMAIN values}
<1>1. \A r \in DOMAIN values : KeysOf(values[r]) \in Seq(S)
  <2>1. SUFFICES ASSUME NEW r \in DOMAIN values
                 PROVE  KeysOf(values[r]) \in Seq(S)
    OBVIOUS
  <2>2. PICK n \in Nat : n = Len(values[r].fields) /\ DOMAIN values[r].fields = 1..n
    BY LenProperties
  <2>3. KeysOf(values[r]) \in [1..n -> Range(KeysOf(values[r]))]
    BY <2>2 DEF KeysOf, Range
  <2>4. Range(KeysOf(values[r])) \subseteq S
    OBVIOUS
  <2> HIDE DEF S
  <2>5. QED
    BY <2>3, <2>4
<1>2. PICK keys \in Seq(S) : keys = key_order(values)
  <2> HIDE DEF S
  <2>1. QED
    BY <1>1, KeyOrder
<1>3. PICK n \in Nat : n = Len(keys) /\ DOMAIN keys = 1..n
  BY LenProperties
<1>4. CASE columns_from_map_values(values) # << >>
  <2>1. PICK columns : columns = BatchColumns(values)
    OBVIOUS
  <2>2. DOMAIN columns = 1..n /\ columns = [k \in 1..n |-> columns[k]]
    BY <1>2, <1>3, <1>4, <2>1 DEF BatchColumns, columns_from_map_values
  <2>3. columns \in [1..n -> Range(columns)]
    BY <2>2 DEF Range
  <2>4. QED
    BY <2>1, <2>3
<1>5. CASE columns_from_map_values(values) = << >>
  <2>1. \A r \in DOMAIN values : rows_from_values(values)[r] = << values[r] >>
    BY DEF AllMaps, rows_from_values
  <2>2. DOMAIN rows_from_values(values) = DOMAIN values
    BY DEF rows_from_values
  <2>3. 1 \in DOMAIN values
    BY EmptySeq, LenProperties
  <2>4. {Len(rows_from_values(values)[r]) : r \in DOMAIN rows_from_values(values)} = {1}
    <3>1. \A r \in DOMAIN values : Len(rows_from_values(values)[r]) = 1
      <4>1. \A v : Len(<< v >>) = 1
        OBVIOUS
      <4>2. QED
        BY <2>1, <4>1, Zenon
    <3>2. QED
      BY <2>2, <2>3, <3>1
  <2>5. Max({1}) = 1
    BY DEF Max
  <2>6. rows_from_values(values) # << >>
    BY <2>2, <2>3
  <2>7. PICK columns : columns = BatchColumns(values)
    OBVIOUS
  <2>8. DOMAIN columns = 1..1 /\ columns = [k \in 1..1 |-> columns[k]]
    BY <1>5, <2>4, <2>5, <2>6, <2>7 DEF BatchColumns, rows_to_columns
  <2>9. columns \in [1..1 -> Range(columns)]
    BY <2>8 DEF Range
  <2>10. columns \in Seq(Range(columns))
    <3>1. PICK m \in Nat : m = 1
      OBVIOUS
    <3>2. columns \in [1..m -> Range(columns)]
      BY <2>9, <3>1
    <3>3. QED
      BY <3>2
  <2>11. QED
    BY <2>7, <2>10
<1>6. QED
  BY <1>4, <1>5

-----------------------------------------------------------------------------
(* What a session state is, and what encoding and decoding make of it. *)

SessionFields == {"templates", "template_columns", "next_template_id",
                  "previous", "base_snapshots", "next_base_id"}

\* The templates are numbered by naturals, described as they are, and each
\* holds a sequence of columns.
TemplatesOK(state) ==
    /\ DOMAIN state = SessionFields
    /\ state.next_template_id \in Nat
    /\ DOMAIN state.template_columns \subseteq Nat
    /\ DOMAIN state.templates = DOMAIN state.template_columns
    /\ state.template_columns = [id \in DOMAIN state.template_columns |->
                                    state.template_columns[id]]
    /\ \A id \in DOMAIN state.template_columns :
          /\ state.templates[id] = descriptor(state.template_columns[id])
          /\ state.template_columns[id] \in Seq(Range(state.template_columns[id]))
    /\ 0..state.next_template_id - 1 \subseteq DOMAIN state.templates

\* A template message that carries the masked ones of n columns.
Carries(msg, columns, n) ==
    /\ msg.kind = "TemplateBatch"
    /\ msg.template_id \in Nat
    /\ msg.mask \in [1..n -> BOOLEAN]
    /\ columns = [i \in 1..n |-> columns[i]]
    /\ msg.columns = Masked(msg.mask, columns)

\* Min is in its set and bounds it from below.
LEMMA MinIn ==
    ASSUME NEW S \in SUBSET Nat, S # {}
    PROVE  Min(S) \in S /\ \A k \in S : Min(S) <= k
<1>1. \E m \in S : \A k \in S : m <= k
  BY Smallest
<1>2. QED
  BY <1>1 DEF Min

\* Each peer has exactly one other peer, and is that peer's other.
LEMMA TwoOfThem ==
    ASSUME NEW p \in Peers
    PROVE  /\ Other(p) \in Peers /\ Other(p) # p
           /\ \A q \in Peers : q # p => q = Other(p)
           /\ Other(Other(p)) = p
<1>1. IsFiniteSet(Peers \ {p}) /\ Cardinality(Peers \ {p}) = 1
  BY TwoPeers, FS_RemoveElement
<1>2. PICK q : Peers \ {p} = {q}
  BY <1>1, FS_Singleton
<1>3. Peers = {p, q} /\ q # p
  BY <1>2
<1>4. Other(p) = q /\ Other(q) = p
  BY <1>3 DEF Other
<1>5. QED
  BY <1>3, <1>4

\* What encode_micro_batch makes of rows of equal keys: the number of the
\* template, and a mask of all columns unless the template was known.
LEMMA TemplateMade ==
    ASSUME NEW state, TemplatesOK(state), NEW values \in MicroBatches,
           has_uniform_micro_batch_shape(values)
    PROVE  LET columns == BatchColumns(values)
               msg     == template_message(state, values)
               id      == msg.template_id
               after   == after_template(state, values)
           IN  /\ \E n \in Nat : Carries(msg, columns, n)
               /\ TemplatesOK(after)
               /\ after.template_columns = With(state.template_columns, id, columns)
               /\ \/ /\ \A c \in DOMAIN msg.mask : msg.mask[c]
                     /\ \A d \in DOMAIN state.templates :
                           state.templates[d] # descriptor(columns)
                  \/ /\ id \in DOMAIN state.template_columns
                     /\ state.templates[id] = descriptor(columns)
                     /\ msg.mask = changed_mask(state.template_columns[id], columns)
<1> DEFINE columns == BatchColumns(values)
           t       == template_of(state, columns)
           msg     == template_message(state, values)
           id      == msg.template_id
           after   == after_template(state, values)
<1>1. columns \in Seq(Range(columns))
  BY RowsAreSequences, ColumnsOfMaps DEF has_uniform_micro_batch_shape
<1>2. PICK n \in Nat : DOMAIN columns = 1..n /\ columns = [i \in 1..n |-> columns[i]]
  <2> HIDE DEF columns
  <2>1. QED
    BY <1>1, LenProperties
<1>3. /\ t.new \in BOOLEAN /\ t.id \in Nat
      /\ t.new => /\ t.id = state.next_template_id
                  /\ \A d \in DOMAIN state.templates :
                        state.templates[d] # descriptor(columns)
      /\ ~t.new => /\ t.id \in DOMAIN state.template_columns
                   /\ state.templates[t.id] = descriptor(columns)
  <2> HIDE DEF columns
  <2> DEFINE found == find_template_id(state.templates, columns)
  <2>1. found \subseteq DOMAIN state.templates /\ found \subseteq Nat
    BY DEF find_template_id, TemplatesOK
  <2>2. t.new = (found = {}) /\ t.id = IF found = {} THEN state.next_template_id
                                                     ELSE Min(found)
    BY DEF template_of
  <2>3. found # {} => Min(found) \in found
    <3> HIDE DEF found
    <3>1. QED
      BY <2>1, MinIn
  <2>4. \A d \in DOMAIN state.templates :
            state.templates[d] = descriptor(columns) <=> d \in found
    BY DEF find_template_id
  <2>5. state.next_template_id \in Nat /\ DOMAIN state.templates = DOMAIN state.template_columns
    BY DEF TemplatesOK
  <2> HIDE DEF found, t
  <2>6. QED
    BY <2>1, <2>2, <2>3, <2>4, <2>5
<1> DEFINE mask == IF t.new THEN [i \in DOMAIN columns |-> TRUE]
                   ELSE changed_mask(state.template_columns[t.id], columns)
<1>4. mask \in [1..n -> BOOLEAN]
  <2> HIDE DEF columns, t
  <2>1. QED
    BY <1>2 DEF changed_mask
<1>5. /\ msg.kind = "TemplateBatch" /\ msg.template_id = t.id
      /\ msg.mask = mask /\ msg.columns = Masked(mask, columns)
  <2> HIDE DEF mask, t, columns
  <2>1. msg = TemplateBatch(t.id, Len(values), mask, Masked(mask, columns))
    BY DEF template_message, mask, t, columns
  <2>2. QED
    BY <2>1 DEF TemplateBatch
<1>6. Carries(msg, columns, n)
  <2> HIDE DEF mask, t, columns, msg
  <2>1. QED
    BY <1>2, <1>3, <1>4, <1>5 DEF Carries
<1>7. /\ DOMAIN after = SessionFields
      /\ after.template_columns = With(state.template_columns, t.id, columns)
      /\ after.templates = IF t.new THEN With(state.templates, t.id, descriptor(columns))
                                    ELSE state.templates
      /\ after.next_template_id = IF t.new THEN state.next_template_id + 1
                                           ELSE state.next_template_id
  <2> HIDE DEF t, columns
  <2>1. after = [state EXCEPT
            !.template_columns = With(@, t.id, columns),
            !.templates = IF t.new THEN With(@, t.id, descriptor(columns)) ELSE @,
            !.next_template_id = IF t.new THEN @ + 1 ELSE @]
    BY DEF after_template, t, columns
  <2> HIDE DEF after
  <2>2. DOMAIN state = SessionFields
    BY DEF TemplatesOK
  <2>3. QED
    BY <2>1, <2>2 DEF SessionFields
<1>8. TemplatesOK(after)
  <2> HIDE DEF t, columns, msg, after
  <2>1. /\ DOMAIN after.template_columns = DOMAIN state.template_columns \cup {t.id}
        /\ after.template_columns[t.id] = columns
        /\ \A d \in DOMAIN state.template_columns :
              d # t.id => after.template_columns[d] = state.template_columns[d]
        /\ after.template_columns = [d \in DOMAIN after.template_columns |->
                                        after.template_columns[d]]
    BY <1>7 DEF With
  <2>2. /\ DOMAIN after.templates = DOMAIN state.templates \cup {t.id}
        /\ after.templates[t.id] = descriptor(columns)
        /\ \A d \in DOMAIN state.templates :
              d # t.id => after.templates[d] = state.templates[d]
    <3>1. CASE t.new
      BY <3>1, <1>7 DEF With
    <3>2. CASE ~t.new
      BY <3>2, <1>7, <1>3 DEF TemplatesOK
    <3>3. QED
      BY <3>1, <3>2, <1>3
  <2>3. 0..after.next_template_id - 1 \subseteq DOMAIN after.templates
    BY <1>3, <1>7, <2>2 DEF TemplatesOK
  <2>4. QED
    BY <1>1, <1>3, <1>7, <2>1, <2>2, <2>3 DEF TemplatesOK
<1>9. \/ /\ \A c \in DOMAIN msg.mask : msg.mask[c]
         /\ t.new
      \/ ~t.new /\ msg.mask = changed_mask(state.template_columns[t.id], columns)
  <2> HIDE DEF columns, t
  <2>1. QED
    BY <1>3, <1>5
<1>10. QED
  <2> HIDE DEF columns, t, msg, after, mask
  <2>1. /\ \E m \in Nat : Carries(msg, columns, m)
        /\ TemplatesOK(after)
        /\ after.template_columns = With(state.template_columns, id, columns)
        /\ \/ /\ \A c \in DOMAIN msg.mask : msg.mask[c]
              /\ \A d \in DOMAIN state.templates :
                    state.templates[d] # descriptor(columns)
           \/ /\ id \in DOMAIN state.template_columns
              /\ state.templates[id] = descriptor(columns)
              /\ msg.mask = changed_mask(state.template_columns[id], columns)
    BY <1>3, <1>5, <1>6, <1>7, <1>8, <1>9
  <2>2. QED
    BY <2>1 DEF columns, msg, after

\* What the receiver keeps of a template message it accepts: the columns that
\* travelled, and in the other places those it had.
LEMMA TemplateDecoded ==
    ASSUME NEW state, TemplatesOK(state), NEW msg, NEW columns, NEW n \in Nat,
           Carries(msg, columns, n), Verdict(state, msg) = "ok"
    PROVE  LET id    == msg.template_id
               kept  == state.template_columns
               after == decode_message(state, msg)
           IN  /\ TemplatesOK(after)
               /\ after.template_columns = With(kept, id,
                     [i \in 1..n |-> IF msg.mask[i] THEN columns[i] ELSE kept[id][i]])
               /\ \A i \in 1..n :
                     msg.mask[i] \/ (id \in DOMAIN kept /\ i \in DOMAIN kept[id])
<1> DEFINE id    == msg.template_id
           kept  == state.template_columns
           after == decode_message(state, msg)
           full  == [i \in 1..n |-> IF msg.mask[i] THEN columns[i] ELSE kept[id][i]]
<1>1. /\ msg.kind = "TemplateBatch" /\ id \in Nat /\ msg.mask \in [1..n -> BOOLEAN]
      /\ columns = [i \in 1..n |-> columns[i]] /\ msg.columns = Masked(msg.mask, columns)
      /\ DOMAIN msg.mask = 1..n
  BY DEF Carries
<1>2. \A i \in 1..n : msg.mask[i] \/ (id \in DOMAIN kept /\ i \in DOMAIN kept[id])
  <2>1. IF id \in DOMAIN kept THEN CanMerge(kept[id], msg.mask)
                              ELSE \A i \in DOMAIN msg.mask : msg.mask[i]
    BY <1>1 DEF Verdict, Known
  <2>2. QED
    BY <1>1, <2>1 DEF CanMerge
<1>3. full_columns(state, msg) = full
  <2>1. CASE id \in DOMAIN kept
    <3>1. full_columns(state, msg)
              = merge_template_columns(kept[id], msg.mask, Masked(msg.mask, columns))
      BY <1>1, <2>1 DEF full_columns, Known
    <3>2. merge_template_columns(kept[id], msg.mask, Masked(msg.mask, columns)) = full
      <4> HIDE DEF id, kept
      <4>1. \A previous : \A mask \in [1..n -> BOOLEAN] :
               merge_template_columns(previous, mask, Masked(mask, columns))
                   = [i \in 1..n |-> IF mask[i] THEN columns[i] ELSE previous[i]]
        BY MergeSent
      <4>2. QED
        BY <1>1, <4>1
    <3>3. QED
      BY <3>1, <3>2
  <2>2. CASE id \notin DOMAIN kept
    <3>1. full_columns(state, msg) = Masked(msg.mask, columns)
      BY <1>1, <2>2 DEF full_columns, Known
    <3>2. \A i \in 1..n : msg.mask[i]
      BY <1>2, <2>2
    <3>3. Masked(msg.mask, columns) = columns
      BY <1>1, <3>2, MaskedAll
    <3>4. columns = full
      BY <1>1, <3>2
    <3>5. QED
      BY <3>1, <3>3, <3>4
  <2>3. QED
    BY <2>1, <2>2
<1>4. full \in Seq(Range(full))
  <2>1. full \in [1..n -> Range(full)]
    BY DEF Range
  <2> HIDE DEF full
  <2>2. QED
    BY <2>1
<1>5. /\ DOMAIN after = SessionFields
      /\ after.template_columns = With(kept, id, full)
      /\ after.templates = With(state.templates, id, descriptor(full))
      /\ after.next_template_id = state.next_template_id
  <2> HIDE DEF full
  <2>1. DOMAIN state = SessionFields
    BY DEF TemplatesOK
  <2>2. PICK previous :
          after = [state EXCEPT !.template_columns = With(@, id, full),
                                !.templates = With(@, id, descriptor(full)),
                                !.previous = previous]
    BY <1>1, <1>3 DEF decode_message, after_decode
  <2> HIDE DEF after
  <2>3. QED
    BY <2>1, <2>2 DEF SessionFields
<1>6. TemplatesOK(after)
  <2> HIDE DEF full, after
  <2>1. /\ DOMAIN after.template_columns = DOMAIN kept \cup {id}
        /\ after.template_columns[id] = full
        /\ \A d \in DOMAIN kept : d # id => after.template_columns[d] = kept[d]
        /\ after.template_columns = [d \in DOMAIN after.template_columns |->
                                        after.template_columns[d]]
    BY <1>5 DEF With
  <2>2. /\ DOMAIN after.templates = DOMAIN state.templates \cup {id}
        /\ after.templates[id] = descriptor(full)
        /\ \A d \in DOMAIN state.templates :
              d # id => after.templates[d] = state.templates[d]
    BY <1>5 DEF With
  <2>3. QED
    BY <1>1, <1>4, <1>5, <2>1, <2>2 DEF TemplatesOK
<1>7. QED
  BY <1>2, <1>5, <1>6

\* Any other message, and one that is refused, leaves the templates alone.
LEMMA TemplatesLeft ==
    ASSUME NEW state, TemplatesOK(state), NEW msg,
           msg.kind # "TemplateBatch" \/ Verdict(state, msg) # "ok"
    PROVE  LET after == decode_message(state, msg)
           IN  /\ TemplatesOK(after)
               /\ after.template_columns = state.template_columns
               /\ after.templates = state.templates
<1> DEFINE after == decode_message(state, msg)
<1>1. \/ after = state
      \/ after = [state EXCEPT !.previous = msg]
  BY DEF decode_message, Verdict, after_decode
<1>2. DOMAIN state = SessionFields
  BY DEF TemplatesOK
<1> HIDE DEF after
<1>3. /\ DOMAIN after = SessionFields
      /\ after.template_columns = state.template_columns
      /\ after.templates = state.templates
      /\ after.next_template_id = state.next_template_id
  BY <1>1, <1>2 DEF SessionFields
<1>4. TemplatesOK(after)
  BY <1>3 DEF TemplatesOK
<1>5. QED
  BY <1>3, <1>4 DEF after

\* A batch of its own leaves them alone as well.
LEMMA TemplatesLeftByBatch ==
    ASSUME NEW state, TemplatesOK(state), NEW values
    PROVE  LET after == after_batch(state, values)
           IN  /\ TemplatesOK(after)
               /\ after.template_columns = state.template_columns
               /\ after.templates = state.templates
               /\ batch_message(values).kind # "TemplateBatch"
<1> DEFINE after == after_batch(state, values)
           kept  == [state EXCEPT !.previous = batch_message(values)]
<1>1. DOMAIN state = SessionFields
  BY DEF TemplatesOK
<1>2. \/ after = state
      \/ after = kept
      \/ \E n, snapshots : after = [kept EXCEPT !.next_base_id = n,
                                                !.base_snapshots = snapshots]
  BY DEF after_batch, record_full_message_as_base
<1> HIDE DEF after
<1>3. /\ DOMAIN after = SessionFields
      /\ after.template_columns = state.template_columns
      /\ after.templates = state.templates
      /\ after.next_template_id = state.next_template_id
  <2>1. /\ DOMAIN kept = SessionFields
        /\ kept.template_columns = state.template_columns
        /\ kept.templates = state.templates
        /\ kept.next_template_id = state.next_template_id
    BY <1>1 DEF SessionFields
  <2> HIDE DEF kept
  <2>2. QED
    BY <1>1, <1>2, <2>1 DEF SessionFields
<1>4. TemplatesOK(after)
  BY <1>3 DEF TemplatesOK
<1>5. batch_message(values).kind # "TemplateBatch"
  BY DEF batch_message, RowBatch, ColumnBatch
<1>6. QED
  BY <1>3, <1>4, <1>5 DEF after

-----------------------------------------------------------------------------
(* The inductive invariant. *)

EntryFields == {"from", "values", "msg", "fate", "templates"}

\* The shape of the state: the log is a sequence, what left the transport is
\* a prefix of it, a reset happens when nothing is under way, and all that is
\* under way comes from one peer.
Shape ==
    /\ DOMAIN session = Peers /\ DOMAIN since = Peers
    /\ log \in Seq(Range(log)) /\ pos \in 0..Len(log)
    /\ \A p \in Peers : since[p] \in 0..pos
    /\ \A i \in 1..Len(log) : /\ DOMAIN log[i] = EntryFields
                              /\ log[i].from \in Peers
                              /\ log[i].fate = "sent" <=> i > pos
    /\ \A i, j \in UnderWay : log[i].from = log[j].from

SessionsOK == \A p \in Peers : TemplatesOK(session[p])

\* The columns a template buffer was made from: those its sender kept.
Sent(i) == log[i].templates[log[i].msg.template_id]

MessagesOK ==
    \A i \in 1..Len(log) :
        log[i].msg.kind = "TemplateBatch" =>
            /\ log[i].msg.template_id \in DOMAIN log[i].templates
            /\ \E n \in Nat : Carries(log[i].msg, Sent(i), n)

AllBits(i) == \A c \in DOMAIN log[i].msg.mask : log[i].msg.mask[c]

\* A buffer that lacks columns is not the first of its template.
NotTheFirst ==
    \A i \in 1..Len(log) :
        log[i].msg.kind = "TemplateBatch" /\ ~AllBits(i) =>
            \E j \in 1..i - 1 : IsTemplate(j, log[i].msg.template_id)

\* Buffer i gave p columns of template id.
Gave(p, id, i) ==
    /\ i \in since[p] + 1..Len(log)
    /\ IsTemplate(i, id)
    /\ log[i].from = p \/ log[i].fate = "ok"

\* A peer knows a template when it was given columns of it since it was new,
\* and has as many of them as the last buffer that gave it any.
KnownAsGiven ==
    \A p \in Peers : \A id \in Nat :
        /\ id \in DOMAIN KnownTo(p) <=> \E i \in 1..Len(log) : Gave(p, id, i)
        /\ \A i \in 1..Len(log) :
              Gave(p, id, i) /\ (\A j \in 1..Len(log) : Gave(p, id, j) => j <= i)
                  => DOMAIN KnownTo(p)[id] = DOMAIN log[i].msg.mask

\* The peer that sent last has not changed its templates since.
OwnKept ==
    \A p \in Peers :
        Len(log) > since[p] /\ log[Len(log)].from = p =>
            KnownTo(p) = log[Len(log)].templates

\* Whom the buffer delivered last may be delivered to again.
Again(q) == /\ pos > since[q]
            /\ log[pos].from = Other(q) /\ log[pos].fate # "lost"
            /\ \A i \in UnderWay : log[i].from # q

\* It would be judged again as it was.
JudgedAgain ==
    \A q \in Peers : Again(q) /\ log[pos].fate # "ok" =>
        Verdict(session[q], log[pos].msg) = log[pos].fate

TInv == /\ Shape /\ SessionsOK /\ MessagesOK /\ NotTheFirst /\ KnownAsGiven
        /\ OwnKept /\ JudgedAgain /\ ColumnsAsLastSent

-----------------------------------------------------------------------------
(* What the actions do to the log and to the sessions. *)

\* The log with another fate of one buffer.
Judged(old, new, k, fate) ==
    /\ new \in Seq(Range(new))
    /\ Len(new) = Len(old)
    /\ \A i \in 1..Len(old) : /\ i # k => new[i] = old[i]
                              /\ DOMAIN new[i] = DOMAIN old[i]
                              /\ new[i].from = old[i].from
                              /\ new[i].msg = old[i].msg
                              /\ new[i].templates = old[i].templates
    /\ new[k].fate = fate

\* Setting the fate of one entry leaves every other entry, and the rest of
\* that one, alone.
LEMMA FateSet ==
    ASSUME NEW s, s \in Seq(Range(s)), NEW k \in 1..Len(s), NEW fate,
           DOMAIN s[k] = EntryFields
    PROVE  Judged(s, [s EXCEPT ![k].fate = fate], k, fate)
<1> DEFINE e   == [s[k] EXCEPT !.fate = fate]
           S   == Range(s) \cup {e}
           new == [s EXCEPT ![k] = e]
<1>1. s \in Seq(S)
  BY SeqMonotonic
<1>2. e \in S
  OBVIOUS
<1>3. /\ DOMAIN e = DOMAIN s[k] /\ e.from = s[k].from /\ e.msg = s[k].msg
      /\ e.templates = s[k].templates /\ e.fate = fate
  BY DEF EntryFields
<1>4. [s EXCEPT ![k].fate = fate] = new
  OBVIOUS
<1> HIDE DEF S, e
<1>5. /\ new \in Seq(S)
      /\ Len(new) = Len(s)
      /\ \A i \in 1..Len(s) : new[i] = IF i = k THEN e ELSE s[i]
  BY <1>1, <1>2, ExceptSeq
<1>6. new \in Seq(Range(new))
  BY <1>5, SeqOfRange
<1> HIDE DEF new
<1>7. QED
  BY <1>3, <1>4, <1>5, <1>6 DEF Judged

\* A buffer of p is sent; p's state becomes state.
Sending(p, state, msg) ==
    /\ MaySend(p)
    /\ \E values : Send(p, values, state, msg)

\* A send appends one entry to the log, sets the sender's session and leaves
\* the other peer's alone.
LEMMA SendEffect ==
    ASSUME Shape, NEW p \in Peers, NEW state, NEW msg, Sending(p, state, msg)
    PROVE  /\ Shape'
           /\ Len(log') = Len(log) + 1 /\ Len(log) \in Nat
           /\ \A i \in 1..Len(log) : log'[i] = log[i]
           /\ log'[Len(log) + 1].from = p /\ log'[Len(log) + 1].msg = msg
           /\ log'[Len(log) + 1].fate = "sent"
           /\ log'[Len(log) + 1].templates = state.template_columns
           /\ session'[p] = state
           /\ \A q \in Peers : q # p => session'[q] = session[q]
           /\ pos' = pos /\ since' = since
           /\ \A i \in UnderWay : log[i].from = p
<1>1. PICK values : Send(p, values, state, msg)
  BY DEF Sending
<1> DEFINE e == [from |-> p, values |-> values, msg |-> msg, fate |-> "sent",
                 templates |-> state.template_columns]
<1>2. Longer(log, log', e)
  BY <1>1, Appended DEF Shape, Send
<1>3. /\ DOMAIN e = EntryFields /\ e.from = p /\ e.msg = msg /\ e.fate = "sent"
      /\ e.templates = state.template_columns
  BY DEF EntryFields
<1> HIDE DEF e
<1>4. Len(log) \in Nat /\ pos \in 0..Len(log)
  BY LenProperties DEF Shape
<1>5. Len(log') = Len(log) + 1 /\ \A i \in 1..Len(log) : log'[i] = log[i]
  BY <1>2 DEF Longer
<1>6. log'[Len(log) + 1] = e
  BY <1>2, <1>5 DEF Longer
<1>7. pos' = pos /\ since' = since /\ session' = [session EXCEPT ![p] = state]
  BY <1>1 DEF Send
<1>8. /\ DOMAIN session' = Peers /\ session'[p] = state
      /\ \A q \in Peers : q # p => session'[q] = session[q]
  BY <1>7 DEF Shape
<1>9. \A i \in UnderWay : log[i].from = p
  BY DEF Sending, MaySend
<1>10. Shape'
  <2>1. log' \in Seq(Range(log')) /\ pos' \in 0..Len(log')
    BY <1>2, <1>4, <1>5, <1>7 DEF Longer
  <2>2. \A q \in Peers : since'[q] \in 0..pos'
    BY <1>7 DEF Shape
  <2>3. ASSUME NEW i \in 1..Len(log')
        PROVE  /\ DOMAIN log'[i] = EntryFields
               /\ log'[i].from \in Peers
               /\ log'[i].fate = "sent" <=> i > pos'
    <3>1. CASE i = Len(log) + 1
      BY <3>1, <1>3, <1>4, <1>6, <1>7
    <3>2. CASE i # Len(log) + 1
      <4>1. i \in 1..Len(log) /\ log'[i] = log[i]
        BY <3>2, <1>4, <1>5
      <4>2. QED
        BY <4>1, <1>7 DEF Shape
    <3>3. QED
      BY <3>1, <3>2
  <2>4. ASSUME NEW i \in UnderWay'
        PROVE  log'[i].from = p
    <3>1. CASE i = Len(log) + 1
      BY <3>1, <1>3, <1>6
    <3>2. CASE i # Len(log) + 1
      <4>1. i \in UnderWay /\ log'[i] = log[i]
        BY <3>2, <1>4, <1>5, <1>7 DEF UnderWay
      <4>2. QED
        BY <4>1, <1>9
    <3>3. QED
      BY <3>1, <3>2
  <2>5. QED
    BY <1>7, <1>8, <2>1, <2>2, <2>3, <2>4 DEF Shape
<1>11. QED
  BY <1>3, <1>4, <1>5, <1>6, <1>7, <1>8, <1>9, <1>10

\* The next buffer leaves the transport with this fate.
Leaving(fate) ==
    /\ UnderWay # {}
    /\ log' = [log EXCEPT ![pos + 1].fate = fate]
    /\ pos' = pos + 1
    /\ UNCHANGED since

\* A message that is decoded or lost gets its fate; no other entry changes
\* and the place moves on by one.
LEMMA LeaveEffect ==
    ASSUME Shape, DOMAIN session' = Peers, NEW fate, fate # "sent", Leaving(fate)
    PROVE  /\ Shape'
           /\ Len(log') = Len(log) /\ Len(log) \in Nat
           /\ pos + 1 \in 1..Len(log) /\ pos \in Nat
           /\ log[pos + 1].fate = "sent" /\ log'[pos + 1].fate = fate
           /\ \A i \in 1..Len(log) : /\ i # pos + 1 => log'[i] = log[i]
                                     /\ log'[i].from = log[i].from
                                     /\ log'[i].msg = log[i].msg
                                     /\ log'[i].templates = log[i].templates
           /\ pos' = pos + 1 /\ since' = since
<1>1. Len(log) \in Nat /\ pos \in 0..Len(log)
  BY LenProperties DEF Shape
<1>2. pos + 1 \in 1..Len(log)
  BY <1>1 DEF Leaving, UnderWay
<1>3. Judged(log, log', pos + 1, fate)
  BY <1>2, FateSet DEF Shape, Leaving
<1>4. /\ Len(log') = Len(log) /\ log'[pos + 1].fate = fate
      /\ log' \in Seq(Range(log'))
      /\ \A i \in 1..Len(log) : /\ i # pos + 1 => log'[i] = log[i]
                                /\ DOMAIN log'[i] = DOMAIN log[i]
                                /\ log'[i].from = log[i].from
                                /\ log'[i].msg = log[i].msg
                                /\ log'[i].templates = log[i].templates
  BY <1>3 DEF Judged
<1>5. pos' = pos + 1 /\ since' = since
  BY DEF Leaving
<1>6. log[pos + 1].fate = "sent"
  BY <1>1, <1>2 DEF Shape
<1>7. Shape'
  <2>1. \A q \in Peers : since'[q] \in 0..pos'
    BY <1>1, <1>5 DEF Shape
  <2>2. \A i \in 1..Len(log') : /\ DOMAIN log'[i] = EntryFields
                                /\ log'[i].from \in Peers
    BY <1>4 DEF Shape
  <2>3. \A i \in 1..Len(log') : log'[i].fate = "sent" <=> i > pos'
    <3>1. SUFFICES ASSUME NEW i \in 1..Len(log)
                   PROVE  log'[i].fate = "sent" <=> i > pos'
      BY <1>4
    <3>2. CASE i = pos + 1
      BY <3>2, <1>1, <1>4, <1>5
    <3>3. CASE i # pos + 1
      <4>1. log'[i] = log[i] /\ (log[i].fate = "sent" <=> i > pos)
        BY <3>3, <1>4 DEF Shape
      <4>2. QED
        BY <3>3, <4>1, <1>1, <1>5
    <3>4. QED
      BY <3>2, <3>3
  <2>4. \A i, j \in UnderWay' : log'[i].from = log'[j].from
    <3>1. UnderWay' \subseteq UnderWay /\ UnderWay \subseteq 1..Len(log)
      BY <1>1, <1>4, <1>5 DEF UnderWay
    <3>2. QED
      BY <3>1, <1>4 DEF Shape
  <2>5. since' = since /\ pos' \in 0..Len(log')
    BY <1>1, <1>2, <1>4, <1>5
  <2>6. QED
    BY <1>4, <2>1, <2>2, <2>3, <2>4, <2>5 DEF Shape
<1>8. QED
  BY <1>1, <1>2, <1>4, <1>5, <1>6, <1>7

-----------------------------------------------------------------------------
(* The actions preserve the invariant. *)

\* What p has made of its state with the buffer it sends.
Makes(p, state, msg) ==
    /\ TemplatesOK(state)
    /\ \/ /\ msg.kind # "TemplateBatch"
          /\ state.template_columns = KnownTo(p)
       \/ \E n \in Nat, columns \in {BatchColumns(values) : values \in MicroBatches} :
             /\ Carries(msg, columns, n)
             /\ state.template_columns = With(KnownTo(p), msg.template_id, columns)
             /\ \/ \A c \in DOMAIN msg.mask : msg.mask[c]
                \/ msg.template_id \in DOMAIN KnownTo(p)

\* A send keeps the invariant.
LEMMA SendKeeps ==
    ASSUME TInv, NEW p \in Peers, NEW state, NEW msg,
           Sending(p, state, msg), Makes(p, state, msg)
    PROVE  TInv'
<1> DEFINE id == msg.template_id
           template == msg.kind = "TemplateBatch"
<1> PICK k \in Nat : k = Len(log) + 1
  BY LenProperties DEF TInv, Shape
<1>1. /\ Shape'
      /\ Len(log') = k /\ Len(log) \in Nat
      /\ \A i \in 1..Len(log) : log'[i] = log[i]
      /\ log'[k].from = p /\ log'[k].msg = msg
      /\ log'[k].fate = "sent"
      /\ log'[k].templates = state.template_columns
      /\ session'[p] = state
      /\ \A q \in Peers : q # p => session'[q] = session[q]
      /\ pos' = pos /\ since' = since
      /\ \A i \in UnderWay : log[i].from = p
  BY SendEffect DEF TInv
<1>2. /\ pos \in 0..Len(log)
      /\ \A q \in Peers : since[q] \in 0..Len(log)
  BY <1>1 DEF TInv, Shape
<1>3. /\ TemplatesOK(state)
      /\ ~template => state.template_columns = KnownTo(p)
      /\ template => /\ id \in Nat
                     /\ DOMAIN state.template_columns = DOMAIN KnownTo(p) \cup {id}
                     /\ \A d \in DOMAIN KnownTo(p) :
                           d # id => state.template_columns[d] = KnownTo(p)[d]
                     /\ DOMAIN state.template_columns[id] = DOMAIN msg.mask
                     /\ \E n \in Nat : Carries(msg, state.template_columns[id], n)
                     /\ \/ \A c \in DOMAIN msg.mask : msg.mask[c]
                        \/ id \in DOMAIN KnownTo(p)
  <2>1. CASE ~template
    BY <2>1 DEF Makes, Carries
  <2>2. CASE template
    <3>1. PICK n \in Nat, columns \in {BatchColumns(values) : values \in MicroBatches} :
             /\ Carries(msg, columns, n)
             /\ state.template_columns = With(KnownTo(p), id, columns)
             /\ \/ \A c \in DOMAIN msg.mask : msg.mask[c]
                \/ id \in DOMAIN KnownTo(p)
      BY <2>2 DEF Makes
    <3>2. state.template_columns[id] = columns
      BY <3>1 DEF With
    <3>3. DOMAIN columns = 1..n /\ DOMAIN msg.mask = 1..n /\ id \in Nat
      BY <3>1 DEF Carries
    <3>4. /\ DOMAIN state.template_columns = DOMAIN KnownTo(p) \cup {id}
          /\ \A d \in DOMAIN KnownTo(p) :
                d # id => state.template_columns[d] = KnownTo(p)[d]
      BY <3>1 DEF With
    <3>5. TemplatesOK(state)
      BY DEF Makes
    <3>6. QED
      BY <2>2, <3>1, <3>2, <3>3, <3>4, <3>5
  <2>3. QED
    BY <2>1, <2>2
<1>4. KnownTo(p)' = state.template_columns
      /\ \A q \in Peers : q # p => KnownTo(q)' = KnownTo(q)
  BY <1>1 DEF KnownTo
<1>5. SessionsOK'
  BY <1>1, <1>3 DEF TInv, SessionsOK
<1>6. MessagesOK'
  <2>1. SUFFICES ASSUME NEW i \in 1..Len(log'), log'[i].msg.kind = "TemplateBatch"
                 PROVE  /\ log'[i].msg.template_id \in DOMAIN log'[i].templates
                        /\ \E n \in Nat : Carries(log'[i].msg, Sent(i)', n)
    BY DEF MessagesOK
  <2>2. CASE i = k
    BY <1>1, <1>3, <2>1, <2>2 DEF Sent
  <2>3. CASE i # k
    <3>1. i \in 1..Len(log) /\ log'[i] = log[i]
      BY <1>1, <2>3
    <3>2. Sent(i)' = Sent(i)
      BY <3>1 DEF Sent
    <3>3. QED
      BY <2>1, <3>1, <3>2 DEF TInv, MessagesOK
  <2>4. QED
    BY <2>2, <2>3
<1>7. NotTheFirst'
  <2>1. SUFFICES ASSUME NEW i \in 1..Len(log'), log'[i].msg.kind = "TemplateBatch",
                        ~AllBits(i)'
                 PROVE  \E j \in 1..i - 1 :
                           /\ log'[j].msg.kind = "TemplateBatch"
                           /\ log'[j].msg.template_id = log'[i].msg.template_id
    BY DEF NotTheFirst, IsTemplate
  <2>2. CASE i = k
    <3>1. id \in DOMAIN KnownTo(p) /\ id \in Nat
      BY <1>1, <1>3, <2>1, <2>2 DEF AllBits
    <3>2. PICK j \in 1..Len(log) : Gave(p, id, j)
      BY <3>1 DEF TInv, KnownAsGiven
    <3>3. log'[j].msg.kind = "TemplateBatch" /\ log'[j].msg.template_id = id
      BY <1>1, <3>2 DEF Gave, IsTemplate
    <3>4. QED
      BY <1>1, <2>2, <3>3
  <2>3. CASE i # k
    <3>1. i \in 1..Len(log) /\ log'[i] = log[i]
      BY <1>1, <2>3
    <3>2. ~AllBits(i)
      BY <2>1, <3>1 DEF AllBits
    <3>3. PICK j \in 1..i - 1 : IsTemplate(j, log[i].msg.template_id)
      BY <2>1, <3>1, <3>2 DEF TInv, NotTheFirst
    <3>4. log'[j] = log[j]
      BY <1>1, <3>1
    <3>5. QED
      BY <3>1, <3>3, <3>4 DEF IsTemplate
  <2>4. QED
    BY <2>2, <2>3
<1>8. \A q \in Peers, d \in Nat :
         /\ \A i \in 1..Len(log) : Gave(q, d, i)' <=> Gave(q, d, i)
         /\ Gave(q, d, k)' <=> q = p /\ template /\ d = id
  <2>1. SUFFICES ASSUME NEW q \in Peers, NEW d \in Nat
                 PROVE  /\ \A i \in 1..Len(log) : Gave(q, d, i)' <=> Gave(q, d, i)
                        /\ Gave(q, d, k)' <=> q = p /\ template /\ d = id
    OBVIOUS
  <2>2. ASSUME NEW i \in 1..Len(log)
        PROVE  Gave(q, d, i)' <=> Gave(q, d, i)
    <3>1. log'[i] = log[i] /\ since' = since
      BY <1>1
    <3>2. i \in since[q] + 1..Len(log') <=> i \in since[q] + 1..Len(log)
      BY <1>1, <1>2
    <3>3. QED
      BY <3>1, <3>2 DEF Gave, IsTemplate
  <2>3. Gave(q, d, k)' <=> q = p /\ template /\ d = id
    <3>1. k \in since'[q] + 1..Len(log')
      BY <1>1, <1>2
    <3>2. QED
      BY <1>1, <3>1 DEF Gave, IsTemplate
  <2>4. QED
    BY <2>2, <2>3
<1>9. KnownAsGiven'
  <2>1. SUFFICES ASSUME NEW q \in Peers, NEW d \in Nat
                 PROVE  /\ d \in DOMAIN KnownTo(q)' <=> \E i \in 1..k : Gave(q, d, i)'
                        /\ \A i \in 1..k :
                              Gave(q, d, i)' /\ (\A j \in 1..k : Gave(q, d, j)' => j <= i)
                                 => DOMAIN KnownTo(q)'[d] = DOMAIN log'[i].msg.mask
    BY <1>1 DEF KnownAsGiven
  <2>2. CASE q = p /\ template /\ d = id
    <3>1. Gave(q, d, k)' /\ k \in 1..k
      BY <1>1, <1>8, <2>2
    <3>2. d \in DOMAIN KnownTo(q)'
      BY <1>3, <1>4, <2>2
    <3>3. \A i \in 1..k : (\A j \in 1..k : Gave(q, d, j)' => j <= i) => i = k
      BY <3>1
    <3>4. DOMAIN KnownTo(q)'[d] = DOMAIN log'[k].msg.mask
      BY <1>1, <1>3, <1>4, <2>2
    <3>5. QED
      BY <3>1, <3>2, <3>3, <3>4
  <2>3. CASE ~(q = p /\ template /\ d = id)
    <3>1. /\ d \in DOMAIN KnownTo(q)' <=> d \in DOMAIN KnownTo(q)
          /\ d \in DOMAIN KnownTo(q) => KnownTo(q)'[d] = KnownTo(q)[d]
      BY <1>3, <1>4, <2>3
    <3>2. \A i \in 1..k : Gave(q, d, i)' <=> i \in 1..Len(log) /\ Gave(q, d, i)
      <4>1. ~Gave(q, d, k)' /\ k \notin 1..Len(log)
        BY <1>1, <1>8, <2>3
      <4>2. \A i \in 1..k : i = k \/ i \in 1..Len(log)
        BY <1>1
      <4>3. QED
        BY <1>8, <4>1, <4>2
    <3>3. /\ d \in DOMAIN KnownTo(q) <=> \E i \in 1..Len(log) : Gave(q, d, i)
          /\ \A i \in 1..Len(log) :
                Gave(q, d, i) /\ (\A j \in 1..Len(log) : Gave(q, d, j) => j <= i)
                    => DOMAIN KnownTo(q)[d] = DOMAIN log[i].msg.mask
      BY DEF TInv, KnownAsGiven
    <3>4. \A i \in 1..Len(log) : log'[i] = log[i] /\ i \in 1..k
      BY <1>1
    <3>5. QED
      BY <3>1, <3>2, <3>3, <3>4
  <2>4. QED
    BY <2>2, <2>3
<1>10. OwnKept'
  BY <1>1, <1>4 DEF OwnKept
<1>11. JudgedAgain'
  <2>1. SUFFICES ASSUME NEW q \in Peers, Again(q)', log'[pos'].fate # "ok"
                 PROVE  Verdict(session'[q], log'[pos'].msg) = log'[pos'].fate
    BY DEF JudgedAgain
  <2>2. q # p
    <3>1. k \in UnderWay'
      BY <1>1, <1>2 DEF UnderWay
    <3>2. QED
      BY <1>1, <2>1, <3>1 DEF Again
  <2>3. pos \in 1..Len(log) /\ log'[pos] = log[pos]
    BY <1>1, <1>2, <2>1 DEF Again
  <2>4. UnderWay \subseteq UnderWay' /\ UnderWay \subseteq 1..Len(log)
    BY <1>1, <1>2 DEF UnderWay
  <2>5. Again(q)
    BY <1>1, <2>1, <2>3, <2>4 DEF Again
  <2>6. QED
    BY <1>1, <2>1, <2>2, <2>3, <2>5 DEF TInv, JudgedAgain
<1>12. ColumnsAsLastSent'
  <2>1. SUFFICES ASSUME NEW q \in Peers, NEW d \in DOMAIN KnownTo(q)',
                        NEW c \in DOMAIN KnownTo(q)'[d]
                 PROVE  /\ Carried(q, d, c)' # {}
                        /\ \A i \in Carried(q, d, c)' :
                              (\A j \in Carried(q, d, c)' : j <= i) =>
                                  KnownTo(q)'[d][c] = log'[i].templates[d][c]
    BY DEF ColumnsAsLastSent, KnownTo
  <2>2. CASE q = p /\ template /\ d = id
    <3>1. k \in Carried(q, d, c)'
      BY <1>1, <1>2, <2>2 DEF Carried, IsTemplate
    <3>2. \A i \in Carried(q, d, c)' : i \in 1..k
      BY <1>1, <1>2 DEF Carried
    <3>3. KnownTo(q)'[d][c] = log'[k].templates[d][c]
      BY <1>1, <1>4, <2>2
    <3>4. \A i \in Carried(q, d, c)' : k <= i => i = k
      BY <1>1, <3>2
    <3>5. QED
      BY <3>1, <3>3, <3>4
  <2>3. CASE ~(q = p /\ template /\ d = id)
    <3>1. d \in DOMAIN KnownTo(q) /\ KnownTo(q)'[d] = KnownTo(q)[d]
      BY <1>3, <1>4, <2>1, <2>3
    <3>2. /\ Carried(q, d, c) # {}
          /\ \A i \in Carried(q, d, c) :
                (\A j \in Carried(q, d, c) : j <= i) =>
                    KnownTo(q)[d][c] = log[i].templates[d][c]
      BY <2>1, <3>1 DEF TInv, ColumnsAsLastSent, KnownTo
    <3>3. Carried(q, d, c)' = Carried(q, d, c)
      <4>1. ASSUME NEW i \in since[q] + 1..Len(log)
            PROVE  i \in Carried(q, d, c)' <=> i \in Carried(q, d, c)
        <5>1. i \in since'[q] + 1..Len(log') /\ log'[i] = log[i]
          BY <1>1, <1>2
        <5>2. QED
          BY <1>1, <5>1 DEF Carried, IsTemplate
      <4>2. k \notin Carried(q, d, c)'
        BY <1>1, <2>3 DEF Carried, IsTemplate
      <4>3. \A i \in since'[q] + 1..Len(log') : i = k \/ i \in since[q] + 1..Len(log)
        BY <1>1, <1>2
      <4>4. Carried(q, d, c)' \subseteq since'[q] + 1..Len(log')
        BY DEF Carried
      <4>5. Carried(q, d, c) \subseteq since[q] + 1..Len(log)
        BY DEF Carried
      <4>6. QED
        BY <4>1, <4>2, <4>3, <4>4, <4>5
    <3>4. \A i \in Carried(q, d, c) : log'[i] = log[i]
      BY <1>1, <1>2 DEF Carried
    <3>5. QED
      BY <3>1, <3>2, <3>3, <3>4
  <2>4. QED
    BY <2>2, <2>3
<1>13. QED
  BY <1>1, <1>5, <1>6, <1>7, <1>9, <1>10, <1>11, <1>12 DEF TInv

\* A decode keeps the invariant.
LEMMA DecodeKeeps ==
    ASSUME TInv, Decode
    PROVE  TInv'
<1> PICK m \in Nat : m = pos + 1
  BY DEF TInv, Shape
<1> PICK msg : msg = log[m].msg
  OBVIOUS
<1> PICK q : q = Other(log[m].from)
  OBVIOUS
<1> PICK v : v = Verdict(session[q], msg)
  OBVIOUS
<1> DEFINE id       == msg.template_id
           accepted == v = "ok" /\ msg.kind = "TemplateBatch"
<1>1. Shape /\ SessionsOK /\ MessagesOK /\ NotTheFirst /\ KnownAsGiven
  BY DEF TInv
<1>2. m \in 1..Len(log) /\ Len(log) \in Nat /\ m \in UnderWay /\ pos \in Nat
  BY <1>1, LenProperties DEF Shape, Decode, UnderWay
<1>3. log[m].from \in Peers /\ q \in Peers /\ q # log[m].from
      /\ log[m].from = Other(q)
  BY <1>1, <1>2, TwoOfThem DEF Shape
<1>4. /\ session' = [session EXCEPT ![q] = decode_message(@, msg)]
      /\ Leaving(v)
  BY DEF Decode, Leaving
<1>5. /\ DOMAIN session' = Peers
      /\ session'[q] = decode_message(session[q], msg)
      /\ \A r \in Peers : r # q => session'[r] = session[r]
  BY <1>1, <1>3, <1>4 DEF Shape
<1>6. v \in {"ok", "invalid", "refused"}
  BY DEF Verdict
<1>7. /\ Shape'
      /\ Len(log') = Len(log)
      /\ log[m].fate = "sent" /\ log'[m].fate = v
      /\ \A i \in 1..Len(log) : /\ i # m => log'[i] = log[i]
                                /\ log'[i].from = log[i].from
                                /\ log'[i].msg = log[i].msg
                                /\ log'[i].templates = log[i].templates
      /\ pos' = m /\ since' = since
  <2>1. v # "sent"
    BY <1>6
  <2>2. QED
    BY <1>1, <1>4, <1>5, <2>1, LeaveEffect
<1>8. \A r \in Peers : since[r] \in 0..pos /\ since[r] \in Nat
  BY <1>1 DEF Shape
<1>9. \A i \in 1..Len(log) : i > pos => log[i].from # q /\ log[i].fate = "sent"
  <2>1. ASSUME NEW i \in 1..Len(log), i > pos
        PROVE  i \in UnderWay
    BY <2>1, <1>1 DEF Shape, UnderWay
  <2>2. QED
    BY <2>1, <1>1, <1>2, <1>3, SMTT(30) DEF Shape
<1>10. TemplatesOK(session[q])
  BY <1>1, <1>3 DEF SessionsOK
<1>11. accepted =>
          /\ id \in Nat
          /\ TemplatesOK(session'[q])
          /\ DOMAIN KnownTo(q)' = DOMAIN KnownTo(q) \cup {id}
          /\ \A d \in DOMAIN KnownTo(q) : d # id => KnownTo(q)'[d] = KnownTo(q)[d]
          /\ DOMAIN KnownTo(q)'[id] = DOMAIN msg.mask
          /\ \A c \in DOMAIN msg.mask :
                \/ msg.mask[c] /\ KnownTo(q)'[id][c] = Sent(m)[c]
                \/ /\ ~msg.mask[c]
                   /\ id \in DOMAIN KnownTo(q) /\ c \in DOMAIN KnownTo(q)[id]
                   /\ KnownTo(q)'[id][c] = KnownTo(q)[id][c]
  <2>1. SUFFICES ASSUME accepted
                 PROVE  /\ id \in Nat
                        /\ TemplatesOK(session'[q])
                        /\ DOMAIN KnownTo(q)' = DOMAIN KnownTo(q) \cup {id}
                        /\ \A d \in DOMAIN KnownTo(q) :
                              d # id => KnownTo(q)'[d] = KnownTo(q)[d]
                        /\ DOMAIN KnownTo(q)'[id] = DOMAIN msg.mask
                        /\ \A c \in DOMAIN msg.mask :
                              \/ msg.mask[c] /\ KnownTo(q)'[id][c] = Sent(m)[c]
                              \/ /\ ~msg.mask[c]
                                 /\ id \in DOMAIN KnownTo(q)
                                 /\ c \in DOMAIN KnownTo(q)[id]
                                 /\ KnownTo(q)'[id][c] = KnownTo(q)[id][c]
    OBVIOUS
  <2>2. PICK n \in Nat : Carries(msg, Sent(m), n)
    BY <1>1, <1>2, <2>1 DEF MessagesOK
  <2>3. id \in Nat /\ DOMAIN msg.mask = 1..n /\ msg.mask \in [1..n -> BOOLEAN]
    BY <2>2, SMTT(30) DEF Carries
  <2> DEFINE full == [i \in 1..n |-> IF msg.mask[i] THEN Sent(m)[i] ELSE KnownTo(q)[id][i]]
  <2>4. /\ TemplatesOK(session'[q])
        /\ session'[q].template_columns = With(KnownTo(q), id, full)
        /\ \A i \in 1..n :
              msg.mask[i] \/ (id \in DOMAIN KnownTo(q) /\ i \in DOMAIN KnownTo(q)[id])
    <3>1. PICK state : state = session[q]
      OBVIOUS
    <3>2. PICK columns : columns = Sent(m)
      OBVIOUS
    <3>3. TemplatesOK(state) /\ Carries(msg, columns, n) /\ Verdict(state, msg) = "ok"
      BY <1>10, <2>1, <2>2, <3>1, <3>2
    <3>4. LET kept  == state.template_columns
              after == decode_message(state, msg)
          IN  /\ TemplatesOK(after)
              /\ after.template_columns = With(kept, id,
                    [i \in 1..n |-> IF msg.mask[i] THEN columns[i] ELSE kept[id][i]])
              /\ \A i \in 1..n :
                    msg.mask[i] \/ (id \in DOMAIN kept /\ i \in DOMAIN kept[id])
      BY <3>3, TemplateDecoded, SMTT(30)
    <3>5. QED
      BY <1>5, <3>1, <3>2, <3>4 DEF KnownTo
  <2>5. KnownTo(q)' = With(KnownTo(q), id, full)
    BY <2>4 DEF KnownTo
  <2> HIDE DEF full
  <2>6. PICK mask, sent, old, new :
           mask = msg.mask /\ sent = Sent(m) /\ old = KnownTo(q) /\ new = KnownTo(q)'
    OBVIOUS
  <2>7. full = [i \in 1..n |-> IF mask[i] THEN sent[i] ELSE old[id][i]]
    BY <2>6 DEF full
  <2>8. \A c \in 1..n : IF mask[c] THEN full[c] = sent[c] ELSE full[c] = old[id][c]
    BY <2>7, SMTT(30)
  <2>9. /\ DOMAIN new = DOMAIN old \cup {id}
        /\ \A d \in DOMAIN old : d # id => new[d] = old[d]
        /\ new[id] = full /\ DOMAIN full = 1..n
    BY <2>5, <2>6, <2>7 DEF With
  <2>10. ASSUME NEW c \in 1..n
         PROVE  \/ mask[c] /\ new[id][c] = sent[c]
                \/ /\ ~mask[c] /\ id \in DOMAIN old /\ c \in DOMAIN old[id]
                   /\ new[id][c] = old[id][c]
    <3>1. mask[c] \/ (id \in DOMAIN old /\ c \in DOMAIN old[id])
      BY <2>4, <2>6
    <3>2. QED
      BY <3>1, <2>8, <2>9
  <2>11. TemplatesOK(session'[q])
    BY <2>4
  <2>12. DOMAIN msg.mask = 1..n /\ DOMAIN KnownTo(q)'[id] = DOMAIN msg.mask
    BY <2>3, <2>6, <2>9
  <2>13. \A c \in DOMAIN msg.mask :
            \/ msg.mask[c] /\ KnownTo(q)'[id][c] = Sent(m)[c]
            \/ /\ ~msg.mask[c] /\ id \in DOMAIN KnownTo(q) /\ c \in DOMAIN KnownTo(q)[id]
               /\ KnownTo(q)'[id][c] = KnownTo(q)[id][c]
    BY <2>6, <2>10, <2>12, Zenon
  <2>14. /\ DOMAIN KnownTo(q)' = DOMAIN KnownTo(q) \cup {id}
         /\ \A d \in DOMAIN KnownTo(q) : d # id => KnownTo(q)'[d] = KnownTo(q)[d]
    BY <2>6, <2>9
  <2>15. QED
    BY <2>3, <2>11, <2>12, <2>13, <2>14, ZenonT(60)
<1>12. ~accepted => TemplatesOK(session'[q]) /\ KnownTo(q)' = KnownTo(q)
  BY <1>5, <1>10, TemplatesLeft, SMTT(30) DEF KnownTo
<1>13. \A r \in Peers : r # q => KnownTo(r)' = KnownTo(r)
  BY <1>5 DEF KnownTo
<1>14. SessionsOK'
  BY <1>1, <1>5, <1>11, <1>12 DEF SessionsOK
<1>15. MessagesOK'
  <2>1. \A i \in 1..Len(log) : Sent(i)' = Sent(i)
    BY <1>7 DEF Sent
  <2>2. QED
    BY <1>1, <1>7, <2>1 DEF MessagesOK
<1>16. NotTheFirst'
  <2>1. SUFFICES ASSUME NEW i \in 1..Len(log), log[i].msg.kind = "TemplateBatch",
                        ~AllBits(i)
                 PROVE  \E j \in 1..i - 1 :
                           /\ log'[j].msg.kind = "TemplateBatch"
                           /\ log'[j].msg.template_id = log[i].msg.template_id
    BY <1>7 DEF NotTheFirst, IsTemplate, AllBits
  <2>2. PICK j \in 1..i - 1 : IsTemplate(j, log[i].msg.template_id)
    BY <1>1, <2>1 DEF NotTheFirst
  <2>3. j \in 1..Len(log)
    BY <1>2
  <2>4. QED
    BY <1>7, <2>2, <2>3 DEF IsTemplate
<1>17. \A r \in Peers, d \in Nat, i \in 1..Len(log) :
          Gave(r, d, i)' <=> \/ Gave(r, d, i)
                             \/ r = q /\ i = m /\ accepted /\ d = id
  <2>1. SUFFICES ASSUME NEW r \in Peers, NEW d \in Nat, NEW i \in 1..Len(log)
                 PROVE  Gave(r, d, i)' <=> \/ Gave(r, d, i)
                                           \/ r = q /\ i = m /\ accepted /\ d = id
    OBVIOUS
  <2>2. CASE i # m
    BY <1>7, <2>2 DEF Gave, IsTemplate
  <2>3. CASE i = m
    <3>1. m \in since[r] + 1..Len(log) /\ m \in since'[r] + 1..Len(log')
      BY <1>2, <1>7, <1>8
    <3>2. r = q \/ r = log[m].from
      BY <1>3, TwoOfThem
    <3>3. QED
      BY <1>3, <1>7, <2>3, <3>1, <3>2 DEF Gave, IsTemplate
  <2>4. QED
    BY <2>2, <2>3
<1>18. KnownAsGiven'
  <2>1. SUFFICES ASSUME NEW r \in Peers, NEW d \in Nat
                 PROVE  /\ d \in DOMAIN KnownTo(r)' <=> \E i \in 1..Len(log) : Gave(r, d, i)'
                        /\ \A i \in 1..Len(log) :
                              Gave(r, d, i)' /\ (\A j \in 1..Len(log) : Gave(r, d, j)' => j <= i)
                                 => DOMAIN KnownTo(r)'[d] = DOMAIN log[i].msg.mask
    BY <1>7, SMTT(30) DEF KnownAsGiven
  <2>2. /\ d \in DOMAIN KnownTo(r) <=> \E i \in 1..Len(log) : Gave(r, d, i)
        /\ \A i \in 1..Len(log) :
              Gave(r, d, i) /\ (\A j \in 1..Len(log) : Gave(r, d, j) => j <= i)
                  => DOMAIN KnownTo(r)[d] = DOMAIN log[i].msg.mask
    BY <1>1 DEF KnownAsGiven
  <2>3. CASE r = q /\ accepted /\ d = id
    <3>1. Gave(r, d, m)'
      BY <1>2, <1>17, <2>3
    <3>2. \A i \in 1..Len(log) : Gave(r, d, i)' => i <= m
      <4>1. \A i \in 1..Len(log) : Gave(r, d, i) => ~(i > pos)
        BY <1>9, <2>3 DEF Gave
      <4>2. \A i \in 1..Len(log) : ~(i > pos) => i <= m
        BY <1>2
      <4>3. \A i \in 1..Len(log) : Gave(r, d, i)' => Gave(r, d, i) \/ i = m
        BY <1>17
      <4>4. QED
        BY <1>2, <4>1, <4>2, <4>3
    <3>3. \A i \in 1..Len(log) : (\A j \in 1..Len(log) : Gave(r, d, j)' => j <= i)
                                     /\ Gave(r, d, i)' => i = m
      BY <1>2, <3>1, <3>2
    <3>4. d \in DOMAIN KnownTo(r)' /\ DOMAIN KnownTo(r)'[d] = DOMAIN msg.mask
      BY <1>11, <2>3
    <3>5. QED
      BY <1>2, <3>1, <3>3, <3>4
  <2>4. CASE ~(r = q /\ accepted /\ d = id)
    <3>1. \A i \in 1..Len(log) : Gave(r, d, i)' <=> Gave(r, d, i)
      BY <1>17, <2>4
    <3>2. /\ d \in DOMAIN KnownTo(r)' <=> d \in DOMAIN KnownTo(r)
          /\ d \in DOMAIN KnownTo(r) => KnownTo(r)'[d] = KnownTo(r)[d]
      <4>1. CASE r # q
        <5>1. KnownTo(r)' = KnownTo(r)
          BY <1>13, <4>1
        <5>2. QED
          BY <5>1
      <4>2. CASE r = q /\ ~accepted
        <5>1. KnownTo(q)' = KnownTo(q)
          BY <1>12, <4>2
        <5>2. QED
          BY <4>2, <5>1
      <4>3. CASE r = q /\ accepted /\ d # id
        <5>1. /\ DOMAIN KnownTo(q)' = DOMAIN KnownTo(q) \cup {id}
              /\ \A e \in DOMAIN KnownTo(q) : e # id => KnownTo(q)'[e] = KnownTo(q)[e]
          BY <1>11, <4>3
        <5>2. QED
          BY <4>3, <5>1, SMTT(30)
      <4>4. QED
        BY <2>4, <4>1, <4>2, <4>3
    <3>3. QED
      BY <2>2, <3>1, <3>2
  <2>5. QED
    BY <2>3, <2>4
<1>19. OwnKept'
  <2>1. log[Len(log)].from # q
    BY <1>2, <1>9
  <2>2. Len(log) \in 1..Len(log)
    BY <1>2
  <2>3. QED
    BY <1>7, <1>13, <2>1, <2>2 DEF TInv, OwnKept
<1>7a. JudgedAgain'
  <2>1. SUFFICES ASSUME NEW r \in Peers, Again(r)', v # "ok"
                 PROVE  Verdict(session'[r], msg) = v
    BY <1>2, <1>7 DEF JudgedAgain
  <2>2. r = q
    BY <1>2, <1>3, <1>7, <2>1, TwoOfThem DEF Again
  <2>3. session'[q] = session[q]
    BY <1>5, <2>1 DEF decode_message
  <2>4. QED
    BY <2>2, <2>3
<1>9a. ColumnsAsLastSent'
  <2>1. SUFFICES ASSUME NEW r \in Peers, NEW d \in DOMAIN KnownTo(r)',
                        NEW c \in DOMAIN KnownTo(r)'[d]
                 PROVE  /\ Carried(r, d, c)' # {}
                        /\ \A i \in Carried(r, d, c)' :
                              (\A j \in Carried(r, d, c)' : j <= i) =>
                                  KnownTo(r)'[d][c] = log'[i].templates[d][c]
    BY DEF ColumnsAsLastSent, KnownTo
  <2>2. \A i : i \in Carried(r, d, c)' <=>
                  \/ i \in Carried(r, d, c)
                  \/ /\ r = q /\ i = m /\ accepted /\ d = id
                     /\ c \in DOMAIN msg.mask /\ msg.mask[c]
    <3> SUFFICES ASSUME NEW i
                 PROVE  i \in Carried(r, d, c)' <=>
                           \/ i \in Carried(r, d, c)
                           \/ /\ r = q /\ i = m /\ accepted /\ d = id
                              /\ c \in DOMAIN msg.mask /\ msg.mask[c]
      OBVIOUS
    <3>1. Carried(r, d, c)' \subseteq 1..Len(log) /\ Carried(r, d, c) \subseteq 1..Len(log)
      BY <1>2, <1>7, <1>8 DEF Carried
    <3>2. CASE i # m
      <4>1. i \in 1..Len(log) => (i \in Carried(r, d, c)' <=> i \in Carried(r, d, c))
        BY <1>7, <3>2 DEF Carried, IsTemplate
      <4>2. QED
        BY <3>1, <3>2, <4>1
    <3>3. CASE i = m
      <4>1. m \in since[r] + 1..Len(log) /\ m \in since'[r] + 1..Len(log')
        BY <1>2, <1>7, <1>8
      <4>2. r = q \/ r = log[m].from
        BY <1>3, TwoOfThem
      <4>3. m \in Carried(r, d, c) <=>
                IsTemplate(m, d) /\ r = log[m].from
        BY <1>3, <1>7, <4>1, <4>2 DEF Carried
      <4>4. m \in Carried(r, d, c)' <=>
                /\ IsTemplate(m, d)
                /\ \/ r = log[m].from
                   \/ v = "ok" /\ c \in DOMAIN msg.mask /\ msg.mask[c]
        BY <1>2, <1>7, <4>1 DEF Carried, IsTemplate
      <4>5. IsTemplate(m, d) <=> msg.kind = "TemplateBatch" /\ d = id
        BY DEF IsTemplate
      <4>6. QED
        BY <1>3, <3>3, <4>2, <4>3, <4>4, <4>5
    <3>4. QED
      BY <3>2, <3>3
  <2>3. CASE r = q /\ accepted /\ d = id /\ msg.mask[c]
    <3>1. c \in DOMAIN msg.mask /\ KnownTo(r)'[d][c] = Sent(m)[c]
      BY <1>11, <2>1, <2>3
    <3>2. m \in Carried(r, d, c)'
      BY <2>2, <2>3, <3>1
    <3>3. \A i \in Carried(r, d, c) : i \in Nat /\ i <= m
      <4>1. \A i \in Carried(r, d, c) : i \in 1..Len(log)
        BY <1>2, <1>8 DEF Carried
      <4>2. QED
        BY <1>2, <1>9, <2>3, <4>1 DEF Carried
    <3>4. \A i \in Carried(r, d, c)' : m <= i => i = m
      BY <2>2, <3>3
    <3>5. log'[m].templates[d][c] = Sent(m)[c]
      BY <1>2, <1>7, <2>3 DEF Sent
    <3>6. QED
      BY <3>1, <3>2, <3>4, <3>5
  <2>4. CASE ~(r = q /\ accepted /\ d = id /\ msg.mask[c])
    <3>1. Carried(r, d, c)' = Carried(r, d, c)
      BY <2>2, <2>4
    <3>2. /\ d \in DOMAIN KnownTo(r) /\ c \in DOMAIN KnownTo(r)[d]
          /\ KnownTo(r)'[d][c] = KnownTo(r)[d][c]
      <4>1. CASE r # q
        <5>1. KnownTo(r)' = KnownTo(r)
          BY <1>13, <4>1
        <5>2. QED
          BY <2>1, <5>1
      <4>2. CASE r = q /\ ~accepted
        <5>1. KnownTo(q)' = KnownTo(q)
          BY <1>12, <4>2
        <5>2. QED
          BY <2>1, <4>2, <5>1
      <4>3. CASE r = q /\ accepted /\ d # id
        <5>1. /\ DOMAIN KnownTo(q)' = DOMAIN KnownTo(q) \cup {id}
              /\ \A e \in DOMAIN KnownTo(q) : e # id => KnownTo(q)'[e] = KnownTo(q)[e]
          BY <1>11, <4>3
        <5>2. d \in DOMAIN KnownTo(q) /\ KnownTo(q)'[d] = KnownTo(q)[d]
          BY <2>1, <4>3, <5>1
        <5>3. QED
          BY <2>1, <4>3, <5>2
      <4>4. CASE r = q /\ accepted /\ d = id /\ ~msg.mask[c]
        <5>1. c \in DOMAIN msg.mask
          BY <1>11, <2>1, <4>4
        <5>2. QED
          BY <1>11, <4>4, <5>1
      <4>5. QED
        BY <2>4, <4>1, <4>2, <4>3, <4>4
    <3>3. /\ Carried(r, d, c) # {}
          /\ \A i \in Carried(r, d, c) :
                (\A j \in Carried(r, d, c) : j <= i) =>
                    KnownTo(r)[d][c] = log[i].templates[d][c]
      BY <3>2 DEF TInv, ColumnsAsLastSent, KnownTo
    <3>4. \A i \in Carried(r, d, c) : log'[i].templates = log[i].templates
      BY <1>2, <1>7, <1>8 DEF Carried
    <3>5. QED
      BY <3>1, <3>2, <3>3, <3>4
  <2>5. QED
    BY <2>3, <2>4
<1>22. QED
  BY <1>7, <1>14, <1>15, <1>16, <1>18, <1>19, <1>7a, <1>9a DEF TInv

\* A loss keeps the invariant.
LEMMA LoseKeeps ==
    ASSUME TInv, Lose
    PROVE  TInv'
<1> PICK m \in Nat : m = pos + 1
  BY DEF TInv, Shape
<1>1. Shape /\ SessionsOK /\ MessagesOK /\ NotTheFirst /\ KnownAsGiven
  BY DEF TInv
<1>2. m \in 1..Len(log) /\ Len(log) \in Nat
  BY <1>1, LenProperties DEF Shape, Lose, UnderWay
<1>3. /\ Shape'
      /\ Len(log') = Len(log)
      /\ log[m].fate = "sent" /\ log'[m].fate = "lost"
      /\ \A i \in 1..Len(log) : /\ i # m => log'[i] = log[i]
                                /\ log'[i].from = log[i].from
                                /\ log'[i].msg = log[i].msg
                                /\ log'[i].templates = log[i].templates
      /\ pos' = m /\ since' = since /\ session' = session
  <2>1. Leaving("lost") /\ session' = session
    BY DEF Lose, Leaving
  <2>2. DOMAIN session' = Peers
    BY <1>1, <2>1 DEF Shape
  <2>3. QED
    BY <1>1, <2>1, <2>2, LeaveEffect
<1>4. \A r \in Peers : since[r] \in Nat
  BY <1>1 DEF Shape
<1>5. SessionsOK'
  BY <1>1, <1>3 DEF SessionsOK
<1>6. MessagesOK'
  <2>1. \A i \in 1..Len(log) : Sent(i)' = Sent(i)
    BY <1>3 DEF Sent
  <2>2. QED
    BY <1>1, <1>3, <2>1 DEF MessagesOK
<1>7. NotTheFirst'
  <2>1. SUFFICES ASSUME NEW i \in 1..Len(log), log[i].msg.kind = "TemplateBatch",
                        ~AllBits(i)
                 PROVE  \E j \in 1..i - 1 :
                           /\ log'[j].msg.kind = "TemplateBatch"
                           /\ log'[j].msg.template_id = log[i].msg.template_id
    BY <1>3 DEF NotTheFirst, IsTemplate, AllBits
  <2>2. PICK j \in 1..i - 1 : IsTemplate(j, log[i].msg.template_id)
    BY <1>1, <2>1 DEF NotTheFirst
  <2>3. j \in 1..Len(log)
    BY <1>2
  <2>4. QED
    BY <1>3, <2>2, <2>3 DEF IsTemplate
<1>8. \A i \in 1..Len(log) : log'[i].fate = "ok" <=> log[i].fate = "ok"
  BY <1>3
<1>9. KnownAsGiven'
  <2>1. \A r \in Peers, d \in Nat, i \in 1..Len(log) : Gave(r, d, i)' <=> Gave(r, d, i)
    BY <1>3, <1>8 DEF Gave, IsTemplate
  <2>2. \A r \in Peers : KnownTo(r)' = KnownTo(r)
    BY <1>3 DEF KnownTo
  <2>3. QED
    BY <1>1, <1>3, <2>1, <2>2 DEF KnownAsGiven
<1>10. OwnKept'
  <2>1. CASE Len(log) = 0
    BY <1>2, <2>1
  <2>2. CASE Len(log) # 0
    <3>1. Len(log) \in 1..Len(log)
      BY <1>2, <2>2
    <3>2. QED
      BY <1>3, <3>1 DEF TInv, OwnKept, KnownTo
  <2>3. QED
    BY <2>1, <2>2
<1>11. JudgedAgain'
  BY <1>3 DEF JudgedAgain, Again
<1>12. ColumnsAsLastSent'
  <2>1. \A d, c : \A r \in Peers : Carried(r, d, c)' = Carried(r, d, c)
    <3>1. SUFFICES ASSUME NEW r \in Peers, NEW d, NEW c
                   PROVE  Carried(r, d, c)' = Carried(r, d, c)
      OBVIOUS
    <3>2. \A i \in since[r] + 1..Len(log) : i \in 1..Len(log)
      BY <1>2, <1>4
    <3>3. since'[r] + 1..Len(log') = since[r] + 1..Len(log)
      BY <1>3
    <3>4. QED
      BY <1>3, <1>8, <3>2, <3>3 DEF Carried, IsTemplate
  <2>2. \A d, c : \A r \in Peers : \A i \in Carried(r, d, c) : i \in 1..Len(log)
    BY <1>2, <1>4 DEF Carried
  <2>3. QED
    BY <1>3, <2>1, <2>2 DEF TInv, ColumnsAsLastSent
<1>13. QED
  BY <1>3, <1>5, <1>6, <1>7, <1>9, <1>10, <1>11, <1>12 DEF TInv

\* A session that starts anew.
LEMMA NewTemplates ==
    /\ TemplatesOK(NewSession)
    /\ NewSession.template_columns = << >> /\ DOMAIN << >> = {}
    /\ NewSession.templates = << >>
BY DEF TemplatesOK, NewSession, SessionFields

\* A peer that resets its session keeps the invariant.
LEMMA ResetKeeps ==
    ASSUME TInv, NEW p \in Peers, reset(p)
    PROVE  TInv'
<1>1. /\ Shape /\ SessionsOK /\ MessagesOK /\ NotTheFirst /\ KnownAsGiven /\ OwnKept
      /\ JudgedAgain /\ ColumnsAsLastSent
  BY DEF TInv
<1>2. /\ log' = log /\ pos' = pos /\ pos = Len(log) /\ Len(log) \in Nat
      /\ UnderWay = {}
  <2>1. log' = log /\ pos' = pos /\ UnderWay = {}
    BY DEF reset
  <2>2. Len(log) \in Nat /\ pos \in 0..Len(log)
    BY <1>1, LenProperties DEF Shape
  <2>3. pos = Len(log)
    <3>1. SUFFICES ASSUME pos < Len(log)
                   PROVE  FALSE
      BY <2>2
    <3>2. pos + 1 \in UnderWay
      BY <2>2, <3>1 DEF UnderWay
    <3>3. QED
      BY <2>1, <3>2
  <2>4. QED
    BY <2>1, <2>2, <2>3
<1>3. /\ DOMAIN session' = Peers /\ session'[p] = NewSession
      /\ \A q \in Peers : q # p => session'[q] = session[q]
      /\ DOMAIN since' = Peers /\ since'[p] = Len(log)
      /\ \A q \in Peers : q # p => since'[q] = since[q]
  BY <1>1 DEF reset, Shape
<1>4. KnownTo(p)' = << >> /\ DOMAIN KnownTo(p)' = {}
      /\ \A q \in Peers : q # p => KnownTo(q)' = KnownTo(q)
  BY <1>3, NewTemplates DEF KnownTo
<1>5. Shape'
  <2>1. \A q \in Peers : since'[q] \in 0..pos'
    BY <1>1, <1>2, <1>3 DEF Shape
  <2>2. UnderWay' = UnderWay
    BY <1>2 DEF UnderWay
  <2>3. QED
    BY <1>1, <1>2, <1>3, <2>1, <2>2 DEF Shape
<1>6. SessionsOK'
  BY <1>1, <1>3, NewTemplates DEF SessionsOK
<1>7. MessagesOK' /\ NotTheFirst'
  BY <1>1, <1>2 DEF MessagesOK, Sent, NotTheFirst, AllBits, IsTemplate
<1>8. KnownAsGiven'
  <2>1. \A q \in Peers, d \in Nat, i \in 1..Len(log) :
            Gave(q, d, i)' <=> q # p /\ Gave(q, d, i)
    BY <1>2, <1>3 DEF Gave, IsTemplate
  <2>2. QED
    BY <1>1, <1>2, <1>4, <2>1 DEF KnownAsGiven
<1>9. OwnKept'
  BY <1>1, <1>2, <1>3, <1>4 DEF OwnKept
<1>10. JudgedAgain'
  <2>1. SUFFICES ASSUME NEW q \in Peers, Again(q)', log[pos].fate # "ok"
                 PROVE  Verdict(session'[q], log[pos].msg) = log[pos].fate
    BY <1>2 DEF JudgedAgain
  <2>2. q # p /\ Again(q)
    BY <1>2, <1>3, <2>1 DEF Again
  <2>3. QED
    BY <1>1, <1>3, <2>1, <2>2 DEF JudgedAgain
<1>11. ColumnsAsLastSent'
  <2>1. \A d, c : \A q \in Peers : q # p => Carried(q, d, c)' = Carried(q, d, c)
    BY <1>2, <1>3 DEF Carried, IsTemplate
  <2>2. QED
    BY <1>1, <1>2, <1>4, <2>1 DEF ColumnsAsLastSent, KnownTo
<1>12. QED
  BY <1>5, <1>6, <1>7, <1>8, <1>9, <1>10, <1>11 DEF TInv

\* The initial state satisfies the invariant.
LEMMA NewKeeps == Init => TInv
<1> SUFFICES ASSUME Init PROVE TInv
  OBVIOUS
<1>1. /\ DOMAIN session = Peers /\ DOMAIN since = Peers
      /\ \A p \in Peers : session[p] = NewSession /\ since[p] = 0
      /\ log = << >> /\ Len(log) = 0 /\ pos = 0
  BY DEF Init
<1>2. Shape
  BY <1>1, EmptySeq DEF Shape, UnderWay
<1>3. SessionsOK
  BY <1>1, NewTemplates DEF SessionsOK
<1>4. MessagesOK /\ NotTheFirst /\ OwnKept /\ JudgedAgain
  BY <1>1 DEF MessagesOK, NotTheFirst, OwnKept, JudgedAgain, Again
<1>5. \A p \in Peers : DOMAIN KnownTo(p) = {}
  BY <1>1, NewTemplates DEF KnownTo
<1>6. KnownAsGiven /\ ColumnsAsLastSent
  BY <1>1, <1>5 DEF KnownAsGiven, ColumnsAsLastSent, KnownTo
<1>7. QED
  BY <1>2, <1>3, <1>4, <1>6 DEF TInv

\* Decoding columns a peer already has changes nothing it keeps.
LEMMA Redecoded ==
    ASSUME NEW state, TemplatesOK(state), NEW msg, NEW columns, NEW n \in Nat,
           Carries(msg, columns, n),
           msg.template_id \in DOMAIN state.template_columns,
           DOMAIN state.template_columns[msg.template_id] = 1..n,
           \A c \in 1..n : msg.mask[c] =>
               state.template_columns[msg.template_id][c] = columns[c]
    PROVE  /\ TemplatesOK(decode_message(state, msg))
           /\ decode_message(state, msg).template_columns = state.template_columns
<1> DEFINE id   == msg.template_id
           kept == state.template_columns
           full == [i \in 1..n |-> IF msg.mask[i] THEN columns[i] ELSE kept[id][i]]
<1>1. msg.kind = "TemplateBatch" /\ DOMAIN msg.mask = 1..n
  BY DEF Carries
<1>2. Verdict(state, msg) = "ok"
  BY <1>1 DEF Verdict, Known, CanMerge
<1>3. /\ TemplatesOK(decode_message(state, msg))
      /\ decode_message(state, msg).template_columns = With(kept, id, full)
  BY <1>2, TemplateDecoded
<1>4. kept[id] \in Seq(Range(kept[id]))
  BY DEF TemplatesOK
<1>5. kept[id] = [i \in 1..n |-> kept[id][i]]
  <2>1. DOMAIN kept[id] = 1..n
    OBVIOUS
  <2> HIDE DEF id, kept
  <2>2. QED
    BY <1>4, <2>1, LenProperties
<1>6. full = kept[id]
  <2>1. \A i \in 1..n : full[i] = kept[id][i]
    OBVIOUS
  <2>2. QED
    BY <1>5, <2>1
<1> HIDE DEF full
<1>7. With(kept, id, full) = kept
  <2>1. kept = [d \in DOMAIN kept |-> kept[d]]
    BY DEF TemplatesOK
  <2>2. DOMAIN kept \cup {id} = DOMAIN kept
    OBVIOUS
  <2>3. \A d \in DOMAIN kept : (IF d = id THEN full ELSE kept[d]) = kept[d]
    BY <1>6
  <2> HIDE DEF id, kept
  <2>4. With(kept, id, full) = [d \in DOMAIN kept |-> kept[d]]
    BY <2>2, <2>3 DEF With
  <2>5. QED
    BY <2>1, <2>4
<1>8. QED
  BY <1>3, <1>7

\* A step that changes neither the templates of a session nor the log keeps
\* the invariant.
LEMMA QuietKeeps ==
    ASSUME TInv, NEW q \in Peers, NEW state, TemplatesOK(state),
           state.template_columns = KnownTo(q),
           session' = [session EXCEPT ![q] = state],
           UNCHANGED << log, pos, since >>
    PROVE  TInv'
<1>1. /\ DOMAIN session' = Peers /\ session'[q] = state
      /\ \A r \in Peers : r # q => session'[r] = session[r]
  BY DEF TInv, Shape
<1>2. log' = log /\ pos' = pos /\ since' = since
  OBVIOUS
<1>3. \A r \in Peers : KnownTo(r)' = KnownTo(r)
  BY <1>1 DEF KnownTo
<1>4. Shape'
  BY <1>1, <1>2 DEF TInv, Shape, UnderWay
<1>5. SessionsOK'
  BY <1>1 DEF TInv, SessionsOK
<1>6. MessagesOK' /\ NotTheFirst'
  BY <1>2 DEF TInv, MessagesOK, Sent, NotTheFirst, AllBits, IsTemplate
<1>7. KnownAsGiven'
  <2>1. \A r \in Peers, d \in Nat, i \in 1..Len(log) : Gave(r, d, i)' <=> Gave(r, d, i)
    BY <1>2 DEF Gave, IsTemplate
  <2>2. QED
    BY <1>2, <1>3, <2>1 DEF TInv, KnownAsGiven
<1>8. OwnKept'
  BY <1>2, <1>3 DEF TInv, OwnKept
<1>9. JudgedAgain'
  <2>1. SUFFICES ASSUME NEW r \in Peers, Again(r), log[pos].fate # "ok"
                 PROVE  Verdict(session'[r], log[pos].msg) = log[pos].fate
    BY <1>2 DEF JudgedAgain, Again, UnderWay
  <2>2. Verdict(session[r], log[pos].msg) = log[pos].fate
    BY <2>1 DEF TInv, JudgedAgain
  <2>3. session'[r].template_columns = session[r].template_columns
    BY <1>3 DEF KnownTo
  <2>4. QED
    BY <2>2, <2>3 DEF Verdict, Known
<1>10. ColumnsAsLastSent'
  <2>1. \A d, c : \A r \in Peers : Carried(r, d, c)' = Carried(r, d, c)
    BY <1>2 DEF Carried, IsTemplate
  <2>2. QED
    BY <1>2, <1>3, <2>1 DEF TInv, ColumnsAsLastSent, KnownTo
<1>11. QED
  BY <1>4, <1>5, <1>6, <1>7, <1>8, <1>9, <1>10 DEF TInv

\* What the receiver keeps when the last buffer is delivered to it again.
LEMMA AgainQuiet ==
    ASSUME TInv, DecodeAgain
    PROVE  LET q == Other(log[pos].from)
           IN  /\ q \in Peers
               /\ TemplatesOK(decode_message(session[q], log[pos].msg))
               /\ decode_message(session[q], log[pos].msg).template_columns = KnownTo(q)
<1> PICK q : q = Other(log[pos].from)
  OBVIOUS
<1> PICK msg : msg = log[pos].msg
  OBVIOUS
<1> PICK state : state = session[q]
  OBVIOUS
<1>1. Shape /\ SessionsOK /\ MessagesOK /\ KnownAsGiven /\ JudgedAgain
  BY DEF TInv
<1>2. pos \in 1..Len(log) /\ Len(log) \in Nat
  BY <1>1, LenProperties DEF Shape, DecodeAgain
<1>3. q \in Peers /\ log[pos].from = Other(q) /\ log[pos].from # q
  BY <1>1, <1>2, TwoOfThem DEF Shape
<1>4. /\ pos > since[q] /\ since[q] \in Nat /\ log[pos].fate # "lost"
      /\ \A i \in UnderWay : log[i].from # q
  BY <1>1, <1>3 DEF DecodeAgain, Shape
<1>5. TemplatesOK(state) /\ state.template_columns = KnownTo(q)
  BY <1>1, <1>3 DEF SessionsOK, KnownTo
<1>6. CASE msg.kind # "TemplateBatch" \/ Verdict(state, msg) # "ok"
  BY <1>3, <1>5, <1>6, TemplatesLeft
<1>7. CASE msg.kind = "TemplateBatch" /\ Verdict(state, msg) = "ok"
  <2> DEFINE id == msg.template_id
  <2>1. PICK n \in Nat : Carries(msg, Sent(pos), n)
    BY <1>1, <1>2, <1>7 DEF MessagesOK
  <2>2. id \in Nat /\ DOMAIN msg.mask = 1..n
    BY <2>1 DEF Carries
  <2>3. log[pos].fate = "ok"
    <3>1. log[pos].fate # "ok" => Verdict(state, msg) = log[pos].fate
      BY <1>1, <1>3, <1>4 DEF JudgedAgain, Again
    <3>2. QED
      BY <1>7, <3>1
  <2>4. pos \in since[q] + 1..Len(log) /\ IsTemplate(pos, id)
    BY <1>2, <1>4, <1>7 DEF IsTemplate
  <2>5. Gave(q, id, pos)
    BY <2>3, <2>4 DEF Gave
  <2>6. \A j \in 1..Len(log) : j > pos => log[j].from # q /\ log[j].fate = "sent"
    <3>1. \A j \in 1..Len(log) : j > pos => j \in UnderWay
      BY <1>2 DEF UnderWay
    <3>2. QED
      BY <1>1, <1>4, <3>1 DEF Shape
  <2>7. \A j \in 1..Len(log) : Gave(q, id, j) => j <= pos
    <3>1. \A j \in 1..Len(log) : Gave(q, id, j) => ~(j > pos)
      BY <2>6 DEF Gave
    <3>2. QED
      BY <1>2, <3>1
  <2>8. id \in DOMAIN KnownTo(q) /\ DOMAIN KnownTo(q)[id] = 1..n
    BY <1>1, <1>2, <1>3, <2>2, <2>5, <2>7 DEF KnownAsGiven
  <2>9. ASSUME NEW c \in 1..n, msg.mask[c]
        PROVE  KnownTo(q)[id][c] = Sent(pos)[c]
    <3>1. pos \in Carried(q, id, c)
      BY <2>2, <2>3, <2>4, <2>9 DEF Carried
    <3>2. \A j \in Carried(q, id, c) : j <= pos
      <4>1. \A j \in Carried(q, id, c) : j \in 1..Len(log) /\ ~(j > pos)
        BY <1>2, <1>4, <2>6 DEF Carried
      <4>2. QED
        BY <1>2, <4>1
    <3>3. KnownTo(q)[id][c] = log[pos].templates[id][c]
      BY <1>3, <2>8, <3>1, <3>2 DEF TInv, ColumnsAsLastSent, KnownTo
    <3>4. QED
      BY <3>3 DEF Sent
  <2> HIDE DEF id
  <2>10. /\ TemplatesOK(decode_message(state, msg))
         /\ decode_message(state, msg).template_columns = state.template_columns
    BY <1>5, <2>1, <2>8, <2>9, Redecoded DEF id
  <2>11. QED
    BY <1>3, <1>5, <2>10
<1>8. QED
  BY <1>6, <1>7

\* What a peer keeps when it decodes the buffer it made last.
LEMMA OwnQuiet ==
    ASSUME TInv, DecodeOwn
    PROVE  LET k == Len(log)
               p == log[k].from
           IN  /\ p \in Peers
               /\ TemplatesOK(decode_message(session[p], log[k].msg))
               /\ decode_message(session[p], log[k].msg).template_columns = KnownTo(p)
<1> PICK k : k = Len(log)
  OBVIOUS
<1> PICK p : p = log[k].from
  OBVIOUS
<1> PICK msg : msg = log[k].msg
  OBVIOUS
<1> PICK state : state = session[p]
  OBVIOUS
<1>1. Shape /\ SessionsOK /\ MessagesOK /\ OwnKept
  BY DEF TInv
<1>2. k \in 1..Len(log) /\ p \in Peers /\ k > since[p]
  <2>1. Len(log) \in Nat /\ Len(log) # 0
    BY <1>1, EmptySeq, LenProperties DEF Shape, DecodeOwn
  <2>2. QED
    BY <1>1, <2>1 DEF Shape, DecodeOwn, Last
<1>3. TemplatesOK(state) /\ state.template_columns = KnownTo(p)
  BY <1>1, <1>2 DEF SessionsOK, KnownTo
<1>4. CASE msg.kind # "TemplateBatch"
  BY <1>2, <1>3, <1>4, TemplatesLeft
<1>5. CASE msg.kind = "TemplateBatch"
  <2> DEFINE id == msg.template_id
  <2>1. PICK n \in Nat : Carries(msg, Sent(k), n)
    BY <1>1, <1>2, <1>5 DEF MessagesOK
  <2>2. KnownTo(p) = log[k].templates
    BY <1>1, <1>2 DEF OwnKept
  <2>3. id \in DOMAIN KnownTo(p) /\ KnownTo(p)[id] = Sent(k)
    BY <1>1, <1>2, <1>5, <2>2 DEF MessagesOK, Sent
  <2>4. DOMAIN Sent(k) = 1..n
    BY <2>1 DEF Carries
  <2>5. /\ TemplatesOK(decode_message(state, msg))
        /\ decode_message(state, msg).template_columns = state.template_columns
    BY <1>3, <2>1, <2>3, <2>4, Redecoded
  <2>6. QED
    BY <1>2, <1>3, <2>5
<1>6. QED
  BY <1>4, <1>5

\* Every batch and micro batch is sent as one of the two messages the
\* invariant speaks of: a batch in full, or a template message with the
\* columns that changed.
LEMMA SentAsMade ==
    ASSUME SessionsOK, NEW p \in Peers
    PROVE  /\ \A values \in Batches \cup MicroBatches : encode_batch(p, values) =>
                 /\ Sending(p, after_batch(session[p], values), batch_message(values))
                 /\ Makes(p, after_batch(session[p], values), batch_message(values))
           /\ \A values \in MicroBatches : encode_micro_batch(p, values) =>
                 \/ /\ Sending(p, after_batch(session[p], values), batch_message(values))
                    /\ Makes(p, after_batch(session[p], values), batch_message(values))
                 \/ /\ has_uniform_micro_batch_shape(values)
                    /\ Sending(p, after_template(session[p], values),
                               template_message(session[p], values))
                    /\ Makes(p, after_template(session[p], values),
                             template_message(session[p], values))
<1>1. TemplatesOK(session[p])
  BY DEF SessionsOK
<1>2. \A values : Makes(p, after_batch(session[p], values), batch_message(values))
  BY <1>1, TemplatesLeftByBatch DEF Makes, KnownTo
<1>3. ASSUME NEW values \in MicroBatches, has_uniform_micro_batch_shape(values)
      PROVE  Makes(p, after_template(session[p], values),
                   template_message(session[p], values))
  <2> PICK state : state = session[p]
    OBVIOUS
  <2> PICK columns : columns = BatchColumns(values)
    OBVIOUS
  <2> PICK msg : msg = template_message(state, values)
    OBVIOUS
  <2> PICK after : after = after_template(state, values)
    OBVIOUS
  <2>1. /\ \E n \in Nat : Carries(msg, columns, n)
        /\ TemplatesOK(after)
        /\ after.template_columns
               = With(state.template_columns, msg.template_id, columns)
        /\ \/ \A c \in DOMAIN msg.mask : msg.mask[c]
           \/ msg.template_id \in DOMAIN state.template_columns
    BY <1>1, <1>3, TemplateMade
  <2>2. columns \in {BatchColumns(w) : w \in MicroBatches}
    OBVIOUS
  <2>3. QED
    BY <2>1, <2>2 DEF Makes, KnownTo
<1>4. QED
  BY <1>2, <1>3 DEF encode_batch, encode_micro_batch, Sending

\* Every action preserves the invariant.
LEMMA TemplatesInductive == TInv /\ [Next]_vars => TInv'
<1> SUFFICES ASSUME TInv, [Next]_vars PROVE TInv'
  OBVIOUS
<1>0. SessionsOK /\ Shape /\ Len(log) \in Nat
  BY LenProperties DEF TInv, Shape
<1>1. ASSUME NEW p \in Peers, NEW values \in Batches, encode_batch(p, values)
      PROVE  TInv'
  BY <1>0, <1>1, SentAsMade, SendKeeps
<1>2. ASSUME NEW p \in Peers, NEW values \in MicroBatches,
             encode_micro_batch(p, values)
      PROVE  TInv'
  BY <1>0, <1>2, SentAsMade, SendKeeps
<1>3. ASSUME NEW p \in Peers, reset(p) PROVE TInv'
  BY <1>3, ResetKeeps
<1>4. CASE Decode
  BY <1>4, DecodeKeeps
<1>5. CASE DecodeAgain
  <2> PICK q : q = Other(log[pos].from)
    OBVIOUS
  <2> PICK state : state = decode_message(session[q], log[pos].msg)
    OBVIOUS
  <2>1. /\ q \in Peers /\ TemplatesOK(state)
        /\ state.template_columns = KnownTo(q)
    BY <1>5, AgainQuiet
  <2>2. /\ session' = [session EXCEPT ![q] = state]
        /\ UNCHANGED << log, pos, since >>
    BY <1>5 DEF DecodeAgain
  <2>3. QED
    BY <2>1, <2>2, QuietKeeps
<1>6. CASE DecodeOwn
  <2> PICK k : k = Len(log)
    OBVIOUS
  <2> PICK p : p = log[k].from
    OBVIOUS
  <2> PICK state : state = decode_message(session[p], log[k].msg)
    OBVIOUS
  <2>1. /\ p \in Peers /\ TemplatesOK(state)
        /\ state.template_columns = KnownTo(p)
    BY <1>6, OwnQuiet
  <2>2. Last(log) = log[k]
    BY DEF Last
  <2>3. /\ session' = [session EXCEPT ![p] = state]
        /\ UNCHANGED << log, pos, since >>
    BY <1>6, <2>2 DEF DecodeOwn
  <2>4. QED
    BY <2>1, <2>3, QuietKeeps
<1>7. CASE Lose
  BY <1>7, LoseKeeps
<1>8. CASE reset_both
  <2>1. Init'
    BY <1>8 DEF reset_both, Init
  <2>2. Init' => TInv'
    BY NewKeeps, PTL
  <2>3. QED
    BY <2>1, <2>2
<1>9. CASE UNCHANGED vars
  <2>1. TInv' = TInv
    BY <1>9 DEF vars, TInv, Shape, SessionsOK, MessagesOK, NotTheFirst,
       KnownAsGiven, OwnKept, JudgedAgain, ColumnsAsLastSent, UnderWay, Sent,
       AllBits, IsTemplate, Gave, KnownTo, Again, Carried
  <2>2. QED
    BY <2>1
<1>10. QED
  BY <1>1, <1>2, <1>3, <1>4, <1>5, <1>6, <1>7, <1>8, <1>9 DEF Next

\* Whatever was lost, refused, delivered twice or numbered twice, a column a
\* peer keeps for a template is the one of the last buffer that gave it one
\* (merge_template_columns and the tables of src/session.c).
THEOREM ColumnsKept == Spec => []ColumnsAsLastSent
<1>1. TInv => ColumnsAsLastSent
  BY DEF TInv
<1>2. QED
  BY <1>1, NewKeeps, TemplatesInductive, PTL DEF Spec

-----------------------------------------------------------------------------
(* The base snapshots: the newest batches, with consecutive ids. *)


Consecutive(snapshots, next) ==
    \A i \in 1..Len(snapshots) :
        snapshots[i].id = next - Len(snapshots) + i - 1

AsManyAsMayBe(snapshots, next) ==
    Len(snapshots) = Lesser(next, MaxBaseSnapshots)

SnapshotsOK(state) ==
    /\ state.next_base_id \in Nat
    /\ state.base_snapshots \in Seq(Range(state.base_snapshots))
    /\ AsManyAsMayBe(state.base_snapshots, state.next_base_id)
    /\ Consecutive(state.base_snapshots, state.next_base_id)

\* Where the newest snapshots begin when there is one more than before.
LEMMA Window ==
    ASSUME NEW n \in Nat, NEW M \in Nat, n <= M, NEW len \in Nat, len = n + 1
    PROVE  Max({1, len - M + 1}) = IF n = M THEN 2 ELSE 1
<1>1. \A k \in Int : Max({1, k}) = IF 1 <= k THEN k ELSE 1
  BY LesserAndGreater DEF Lesser
<1>2. PICK k \in Int : k = len - M + 1
  OBVIOUS
<1>3. Max({1, len - M + 1}) = IF 1 <= k THEN k ELSE 1
  BY <1>1, <1>2
<1>4. QED
  BY <1>2, <1>3

\* A number no snapshot has leaves them all in place.
LEMMA NoOther ==
    ASSUME NEW s, s \in Seq(Range(s)), NEW id,
           \A i \in 1..Len(s) : s[i].id # id
    PROVE  OtherSnapshots(s, id) = s
<1> DEFINE S == Range(s)
<1> PICK n \in Nat : n = Len(s)
  BY LenProperties
<1> DEFINE Extend(before, i) == IF s[i].id = id THEN before ELSE Append(before, s[i])
           Step(f) == [i \in 0..n |-> IF i = 0 THEN << >> ELSE Extend(f[i - 1], i)]
           kept == CHOOSE f : f = Step(f)
           prefix(i) == SubSeq(s, 1, i)
           all  == [i \in 0..n |-> prefix(i)]
<1>1. OtherSnapshots(s, id) = kept[n]
  BY DEF OtherSnapshots
<1>2. prefix(0) = << >> /\ prefix(n) = s
  BY SubSeqProperties, EmptySeq
<1>3. ASSUME NEW i \in 1..n
      PROVE  Append(prefix(i - 1), s[i]) = prefix(i)
  <2>1. /\ SubSeq(s, 1, i - 1) \in Seq(S) /\ Len(SubSeq(s, 1, i - 1)) = i - 1
        /\ \A j \in 1..i - 1 : SubSeq(s, 1, i - 1)[j] = s[j]
    BY SubSeqProperties
  <2>2. /\ SubSeq(s, 1, i) \in Seq(S) /\ Len(SubSeq(s, 1, i)) = i
        /\ \A j \in 1..i : SubSeq(s, 1, i)[j] = s[j]
    BY SubSeqProperties
  <2>3. s[i] \in S
    BY ElementOfSeq
  <2> HIDE DEF S
  <2>4. /\ Append(SubSeq(s, 1, i - 1), s[i]) \in Seq(S)
        /\ Len(Append(SubSeq(s, 1, i - 1), s[i])) = i
        /\ \A j \in 1..i : Append(SubSeq(s, 1, i - 1), s[i])[j] = s[j]
    BY <2>1, <2>3, AppendProperties
  <2>5. QED
    BY <2>2, <2>4, SeqEqual
<1> HIDE DEF prefix
<1>4. all = Step(all)
  <2>1. \A i \in 1..n : Extend(all[i - 1], i) = prefix(i)
    BY <1>3
  <2> HIDE DEF Extend
  <2>2. \A i \in 0..n : prefix(i) = IF i = 0 THEN << >> ELSE Extend(all[i - 1], i)
    BY <1>2, <2>1
  <2>3. QED
    BY <2>2
<1> HIDE DEF Extend
<1>5. kept = Step(kept)
  <2> HIDE DEF Step, all
  <2>1. QED
    BY <1>4
<1> HIDE DEF kept
<1>6. kept[0] = << >> /\ \A i \in 1..n : kept[i] = Extend(kept[i - 1], i)
  BY <1>5
<1>7. \A i \in 0..n : kept[i] = prefix(i)
  <2> DEFINE T == {i \in 0..n : kept[i] = prefix(i)}
  <2>1. 0 \in T
    BY <1>2, <1>6
  <2>2. ASSUME NEW i \in 1..n, i - 1 \in T
        PROVE  i \in T
    <3>1. kept[i - 1] = prefix(i - 1)
      BY <2>2
    <3>2. s[i].id # id
      OBVIOUS
    <3>3. kept[i] = Append(prefix(i - 1), s[i])
      BY <1>6, <3>1, <3>2 DEF Extend
    <3>4. kept[i] = prefix(i)
      BY <1>3, <3>3, Zenon
    <3>5. QED
      BY <3>4
  <2>3. 0..n \subseteq T
    <3> HIDE DEF T
    <3>1. QED
      BY <2>1, <2>2, UpTo
  <2>4. QED
    BY <2>3
<1>8. QED
  BY <1>1, <1>2, <1>7

\* Registering a snapshot under the next number keeps the numbers consecutive
\* and as many as the option allows.
LEMMA Registered ==
    ASSUME NEW s, s \in Seq(Range(s)), NEW next \in Nat, NEW msg,
           MaxBaseSnapshots # 0,
           AsManyAsMayBe(s, next), Consecutive(s, next)
    PROVE  LET new == register_base_snapshot(s, next, msg)
           IN  /\ new \in Seq(Range(new))
               /\ AsManyAsMayBe(new, next + 1)
               /\ Consecutive(new, next + 1)
<1> PICK M \in Nat : M = MaxBaseSnapshots /\ M # 0
  BY SnapshotsBounded
<1> PICK n \in Nat : n = Len(s)
  BY LenProperties
<1>1. n = (IF next <= M THEN next ELSE M) /\ n <= next /\ n <= M
  BY DEF AsManyAsMayBe, Lesser
<1>2. \A i \in 1..n : s[i].id = next - n + i - 1
  BY DEF Consecutive
<1> DEFINE e   == SnapshotEntry(next, msg)
           all == Append(s, e)
           new == register_base_snapshot(s, next, msg)
           S   == Range(s) \cup {e}
<1> PICK lo \in 1..2 : lo = IF n = M THEN 2 ELSE 1
  OBVIOUS
<1>3. \A i \in 1..n : s[i].id # next
  <2>1. \A i \in 1..n : next - n + i - 1 # next
    OBVIOUS
  <2>2. QED
    BY <1>2, <2>1
<1>4. OtherSnapshots(s, next) = s
  BY <1>3, NoOther
<1>5. s \in Seq(S) /\ e \in S /\ e.id = next
  BY SeqMonotonic DEF SnapshotEntry
<1> HIDE DEF S, e, all
<1> PICK len \in Nat : len = n + 1
  OBVIOUS
<1>6. /\ all \in Seq(S) /\ Len(all) = len /\ all[len] = e
      /\ \A i \in 1..n : all[i] = s[i]
  BY <1>5, AppendProperties DEF all
<1>7. new = SubSeq(all, lo, len)
  <2>1. new = SubSeq(all, Max({1, Len(all) - M + 1}), Len(all))
    BY <1>4 DEF register_base_snapshot, e, all
  <2> HIDE DEF new
  <2>2. new = SubSeq(all, Max({1, len - M + 1}), len)
    <3>1. Len(all) = len
      BY <1>6
    <3>2. QED
      BY <2>1, <3>1, Zenon
  <2>3. Max({1, len - M + 1}) = lo
    BY <1>1, Window
  <2>4. QED
    BY <2>2, <2>3
<1> HIDE DEF new
<1>7a. len - lo + 1 \in Nat /\ lo <= len
  OBVIOUS
<1> PICK l \in Nat : l = len - lo + 1
  BY <1>7a, Zenon
<1>8. /\ new \in Seq(S) /\ Len(new) = l
      /\ \A i \in 1..l : new[i] = all[lo + i - 1]
  <2>1. \A i \in lo..len : all[i] \in S
    BY <1>6, ElementOfSeq
  <2>2. /\ SubSeq(all, lo, len) \in Seq(S)
        /\ Len(SubSeq(all, lo, len)) = IF lo <= len THEN len - lo + 1 ELSE 0
        /\ \A i \in 1..len - lo + 1 : SubSeq(all, lo, len)[i] = all[lo + i - 1]
    BY <2>1, SubSeqProperties
  <2>3. (IF lo <= len THEN len - lo + 1 ELSE 0) = l
    BY <1>7a, Zenon
  <2>4. /\ new \in Seq(S) /\ Len(new) = l
        /\ \A i \in 1..len - lo + 1 : new[i] = all[lo + i - 1]
    BY <2>2, <2>3, <1>7, Zenon
  <2>5. QED
    BY <2>4, Zenon
<1>9. new \in Seq(Range(new))
  BY <1>8, SeqOfRange
<1>9a. next - n - 1 \in Int
  OBVIOUS
<1> PICK base \in Int : base = next - n - 1
  BY <1>9a, Zenon
<1>10. \A k \in 1..len : all[k].id = base + k
  <2>1. base + len = next /\ \A k \in 1..n : base + k = next - n + k - 1
    OBVIOUS
  <2>2. all[len].id = base + len
    BY <1>5, <1>6, <2>1
  <2>3. \A k \in 1..n : all[k].id = base + k
    BY <1>2, <1>6, <2>1
  <2>4. QED
    BY <2>2, <2>3
<1>11. \A i \in 1..l : new[i].id = (next + 1) - l + i - 1
  <2>1. (next + 1) - l = base + lo
    OBVIOUS
  <2>2. SUFFICES ASSUME NEW i \in 1..l
                 PROVE  new[i].id = (next + 1) - l + i - 1
    OBVIOUS
  <2>3. PICK k \in 1..len : k = lo + i - 1
    OBVIOUS
  <2>4. new[i].id = base + k
    BY <1>8, <1>10, <2>3
  <2>5. base + k = (next + 1) - l + i - 1
    BY <2>1, <2>3
  <2>6. QED
    BY <2>4, <2>5
<1>12. AsManyAsMayBe(new, next + 1)
  <2>1. l = IF next + 1 <= M THEN next + 1 ELSE M
    BY <1>1
  <2>2. QED
    BY <2>1, <1>8 DEF AsManyAsMayBe, Lesser
<1>13. Consecutive(new, next + 1)
  BY <1>8, <1>11 DEF Consecutive
<1>14. QED
  BY <1>8, <1>9, <1>12, <1>13 DEF new

\* A batch becomes the newest snapshot, if any are kept.
LEMMA BatchRecorded ==
    ASSUME NEW state, TemplatesOK(state), SnapshotsOK(state), NEW values
    PROVE  SnapshotsOK(after_batch(state, values))
<1> DEFINE kept  == [state EXCEPT !.previous = batch_message(values)]
           after == record_full_message_as_base(kept)
           new   == register_base_snapshot(state.base_snapshots,
                        state.next_base_id, batch_message(values))
<1>1. /\ DOMAIN kept = SessionFields
      /\ kept.next_base_id = state.next_base_id
      /\ kept.base_snapshots = state.base_snapshots
      /\ kept.previous = batch_message(values)
  BY DEF SessionFields, TemplatesOK
<1>2. SnapshotsOK(kept)
  <2> HIDE DEF kept
  <2>1. QED
    BY <1>1 DEF SnapshotsOK
<1>3. ASSUME MaxBaseSnapshots # 0
      PROVE  SnapshotsOK(after)
  <2>1. /\ new \in Seq(Range(new))
        /\ AsManyAsMayBe(new, state.next_base_id + 1)
        /\ Consecutive(new, state.next_base_id + 1)
    BY <1>3, Registered DEF SnapshotsOK
  <2> HIDE DEF kept, new
  <2>2. /\ after.next_base_id = state.next_base_id + 1
        /\ after.base_snapshots = new
    BY <1>1, <1>3 DEF record_full_message_as_base, new, SessionFields
  <2>3. state.next_base_id \in Nat
    BY DEF SnapshotsOK
  <2> HIDE DEF after
  <2>4. QED
    BY <2>1, <2>2, <2>3 DEF SnapshotsOK
<1>4. MaxBaseSnapshots = 0 => after = kept
  BY DEF record_full_message_as_base
<1>5. after_batch(state, values) = state \/ after_batch(state, values) = after
  BY DEF after_batch
<1>6. QED
  BY <1>2, <1>3, <1>4, <1>5

\* Templates leave the snapshots alone.
LEMMA SnapshotsLeft ==
    ASSUME NEW state, TemplatesOK(state), SnapshotsOK(state)
    PROVE  /\ \A values : SnapshotsOK(after_template(state, values))
           /\ \A msg : SnapshotsOK(decode_message(state, msg))
<1>1. DOMAIN state = SessionFields
  BY DEF TemplatesOK
<1>2. ASSUME NEW after,
             after.next_base_id = state.next_base_id,
             after.base_snapshots = state.base_snapshots
      PROVE  SnapshotsOK(after)
  BY <1>2 DEF SnapshotsOK
<1>3. ASSUME NEW values
      PROVE  SnapshotsOK(after_template(state, values))
  <2>1. PICK columns, templates, n :
          after_template(state, values)
              = [state EXCEPT !.template_columns = columns,
                              !.templates = templates, !.next_template_id = n]
    BY DEF after_template
  <2> HIDE DEF SnapshotsOK
  <2>2. /\ after_template(state, values).next_base_id = state.next_base_id
        /\ after_template(state, values).base_snapshots = state.base_snapshots
    BY <1>1, <2>1 DEF SessionFields
  <2>3. QED
    BY <1>2, <2>2
<1>4. ASSUME NEW msg
      PROVE  SnapshotsOK(decode_message(state, msg))
  <2>1. \/ decode_message(state, msg) = state
        \/ decode_message(state, msg) = [state EXCEPT !.previous = msg]
        \/ \E columns, templates, previous :
              decode_message(state, msg)
                  = [state EXCEPT !.template_columns = columns,
                                  !.templates = templates, !.previous = previous]
    BY DEF decode_message, after_decode
  <2>2. /\ decode_message(state, msg).next_base_id = state.next_base_id
        /\ decode_message(state, msg).base_snapshots = state.base_snapshots
    BY <1>1, <2>1 DEF SessionFields
  <2>3. QED
    BY <1>2, <2>2
<1>5. QED
  BY <1>3, <1>4

SnapshotsKept == \A p \in Peers : SnapshotsOK(session[p])

\* A new session holds no base snapshot.
LEMMA NewSnapshots == SnapshotsOK(NewSession)
<1>1. NewSession.base_snapshots = << >> /\ NewSession.next_base_id = 0
  BY DEF NewSession
<1>2. Lesser(0, MaxBaseSnapshots) = 0
  BY SnapshotsBounded DEF Lesser
<1>3. << >> \in Seq(Range(<< >>)) /\ Len(<< >>) = 0
  BY EmptySeq
<1>4. QED
  BY <1>1, <1>2, <1>3 DEF SnapshotsOK, Consecutive, AsManyAsMayBe

\* Every step keeps the base snapshots of a session bounded, in the order
\* they were registered and without gaps.
LEMMA SnapshotsInductive ==
    TInv /\ SnapshotsKept /\ [Next]_vars => SnapshotsKept'
<1> SUFFICES ASSUME TInv, SnapshotsKept, [Next]_vars PROVE SnapshotsKept'
  OBVIOUS
<1>1. ASSUME NEW p, NEW after, p \in Peers => SnapshotsOK(after),
             session' = [session EXCEPT ![p] = after]
      PROVE  SnapshotsKept'
  BY <1>1 DEF SnapshotsKept, TInv, Shape
<1>2. \A p \in Peers : TemplatesOK(session[p]) /\ SnapshotsOK(session[p])
  BY DEF TInv, SessionsOK, SnapshotsKept
<1>3. ASSUME NEW p \in Peers, NEW values,
             \/ encode_batch(p, values)
             \/ encode_micro_batch(p, values)
      PROVE  SnapshotsKept'
  <2>1. \/ session' = [session EXCEPT ![p] = after_batch(session[p], values)]
        \/ session' = [session EXCEPT ![p] = after_template(session[p], values)]
    BY <1>3 DEF encode_batch, encode_micro_batch, Send
  <2>2. /\ SnapshotsOK(after_batch(session[p], values))
        /\ SnapshotsOK(after_template(session[p], values))
    BY <1>2, BatchRecorded, SnapshotsLeft
  <2>3. QED
    BY <1>1, <2>1, <2>2
<1>4. CASE Decode \/ DecodeAgain \/ DecodeOwn
  <2>1. PICK p, msg : session' = [session EXCEPT ![p] = decode_message(session[p], msg)]
    BY <1>4 DEF Decode, DecodeAgain, DecodeOwn
  <2>2. p \in Peers => SnapshotsOK(decode_message(session[p], msg))
    BY <1>2, SnapshotsLeft
  <2>3. QED
    BY <1>1, <2>1, <2>2
<1>5. ASSUME NEW p \in Peers, reset(p) PROVE SnapshotsKept'
  <2>1. session' = [session EXCEPT ![p] = NewSession]
    BY <1>5 DEF reset
  <2>2. QED
    BY <1>1, <2>1, NewSnapshots
<1>6. CASE reset_both
  BY <1>6, NewSnapshots DEF reset_both, SnapshotsKept
<1>7. CASE Lose \/ UNCHANGED vars
  BY <1>7 DEF Lose, vars, SnapshotsKept
<1>8. QED
  BY <1>3, <1>4, <1>5, <1>6, <1>7 DEF Next

\* A peer describes the templates it keeps as they are and holds every one it
\* numbered, and its base snapshots are the newest batches with consecutive
\* ids, no more than the option allows (record_full_message_as_base,
\* register_base_snapshot and the template handling of decode_message).
THEOREM SessionsTyped == Spec => []TypeOK
<1>1. Init => SnapshotsKept
  BY NewSnapshots DEF Init, SnapshotsKept
<1>2. TInv /\ SnapshotsKept => TypeOK
  <2> SUFFICES ASSUME TInv, SnapshotsKept PROVE TypeOK
    OBVIOUS
  <2>1. DOMAIN log = 1..Len(log)
    BY LenProperties DEF TInv, Shape
  <2>2. \A p \in Peers :
           LET next == session[p].next_base_id
           IN  Min({next, MaxBaseSnapshots}) = Lesser(next, MaxBaseSnapshots)
    BY SnapshotsBounded, LesserAndGreater DEF SnapshotsKept, SnapshotsOK
  <2>3. \A p \in Peers :
           LET state == session[p]
               n     == Len(state.base_snapshots)
           IN  /\ n = Min({state.next_base_id, MaxBaseSnapshots})
               /\ \A i \in 1..n :
                     state.base_snapshots[i].id = state.next_base_id - n + i - 1
    BY <2>2 DEF SnapshotsKept, SnapshotsOK, Consecutive, AsManyAsMayBe
  <2>4. QED
    BY <2>1, <2>3 DEF TInv, SessionsOK, TemplatesOK, TypeOK, Shape
<1>3. QED
  BY <1>1, <1>2, NewKeeps, TemplatesInductive, SnapshotsInductive, PTL DEF Spec

-----------------------------------------------------------------------------
(* What the two peers share as long as nothing is lost. *)

NoReset == \A q \in Peers : since[q] = 0

LayoutOf(column) ==
    << column.field_id, column.null_strategy, estimate_column_size(column) >>

\* Templates of one layout under each number that both have, and if no side
\* was reset the same numbers.
Alike(kept, others, whole) ==
    /\ \A id \in DOMAIN kept \cap DOMAIN others : Layout(kept[id]) = Layout(others[id])
    /\ whole => DOMAIN kept = DOMAIN others

\* The columns that do not travel are there and have the layout of the new.
Fits(old, mask, new) ==
    \A c \in DOMAIN mask :
        mask[c] \/ (c \in DOMAIN old /\ LayoutOf(old[c]) = LayoutOf(new[c]))

\* A peer that keeps these templates sent msg and kept those after it.
SentFrom(kept, msg, after) ==
    LET id == msg.template_id
    IN  \/ msg.kind # "TemplateBatch" /\ after = kept
        \/ /\ msg.kind = "TemplateBatch"
           /\ after = With(kept, id, after[id])
           /\ \/ \A c \in DOMAIN msg.mask : msg.mask[c]
              \/ id \in DOMAIN kept /\ Fits(kept[id], msg.mask, after[id])

\* No two templates that the same columns fit.
OneEach(kept) ==
    \A a, b \in DOMAIN kept : descriptor(kept[a]) = descriptor(kept[b]) => a = b

\* As long as nothing is lost: with nothing under way the peers are alike;
\* otherwise the receiver of the next buffer is like the sender was before it
\* sent it, and each buffer under way was sent from the templates of the one
\* before; a peer that has nothing under way is like the sender of the buffer
\* delivered last was; and without a reset layouts have one number each.
InStep ==
    Lost = {} =>
        /\ UnderWay = {} =>
              \A p, q \in Peers : Alike(KnownTo(p), KnownTo(q), NoReset)
        /\ UnderWay # {} =>
              \E kept : /\ Alike(KnownTo(Other(log[pos + 1].from)), kept, NoReset)
                        /\ SentFrom(kept, log[pos + 1].msg, log[pos + 1].templates)
        /\ \A i \in UnderWay :
              i + 1 \in UnderWay =>
                  SentFrom(log[i].templates, log[i + 1].msg, log[i + 1].templates)
        /\ \A p \in Peers :
              pos > 0 /\ (\A i \in UnderWay : log[i].from # p) =>
                  Alike(KnownTo(p), log[pos].templates, NoReset)
        /\ NoReset => /\ \A p \in Peers : OneEach(KnownTo(p))
                      /\ \A i \in UnderWay : OneEach(log[i].templates)

-----------------------------------------------------------------------------
(* One step of a sender and of a receiver. *)

\* Two lists of columns have one layout when they agree on every column's.
LEMMA LayoutsAlike ==
    ASSUME NEW a, NEW b
    PROVE  Layout(a) = Layout(b) <=>
               /\ DOMAIN a = DOMAIN b
               /\ \A c \in DOMAIN a : LayoutOf(a[c]) = LayoutOf(b[c])
BY DEF Layout, LayoutOf

\* The descriptor of a template is read off its layout alone.
LEMMA DescribedAlike ==
    ASSUME NEW a, NEW b, Layout(a) = Layout(b)
    PROVE  descriptor(a) = descriptor(b)
<1>1. DOMAIN a = DOMAIN b /\ \A c \in DOMAIN a : LayoutOf(a[c]) = LayoutOf(b[c])
  BY LayoutsAlike
<1>2. \A c \in DOMAIN a : /\ a[c].field_id = b[c].field_id
                          /\ a[c].null_strategy = b[c].null_strategy
  BY <1>1 DEF LayoutOf
<1>3. QED
  BY <1>1, <1>2 DEF descriptor

\* What encode_micro_batch sends comes from the templates the peer kept, and
\* gives a layout no second number.
LEMMA MadeInStep ==
    ASSUME NEW state, TemplatesOK(state), NEW values \in MicroBatches,
           has_uniform_micro_batch_shape(values)
    PROVE  LET msg   == template_message(state, values)
               after == after_template(state, values)
           IN  /\ SentFrom(state.template_columns, msg, after.template_columns)
               /\ OneEach(state.template_columns) => OneEach(after.template_columns)
<1> PICK columns, msg, id, after, kept :
        /\ columns = BatchColumns(values)
        /\ msg = template_message(state, values)
        /\ id = msg.template_id
        /\ after = after_template(state, values).template_columns
        /\ kept = state.template_columns
  OBVIOUS
<1>1. /\ \E n \in Nat : Carries(msg, columns, n)
      /\ after = With(kept, id, columns)
      /\ \/ /\ \A c \in DOMAIN msg.mask : msg.mask[c]
            /\ \A d \in DOMAIN state.templates :
                  state.templates[d] # descriptor(columns)
         \/ /\ id \in DOMAIN kept
            /\ state.templates[id] = descriptor(columns)
            /\ msg.mask = changed_mask(kept[id], columns)
  BY TemplateMade
<1>2. /\ DOMAIN state.templates = DOMAIN kept
      /\ \A d \in DOMAIN kept : /\ state.templates[d] = descriptor(kept[d])
                                /\ kept[d] \in Seq(Range(kept[d]))
  BY DEF TemplatesOK
<1>3. /\ DOMAIN after = DOMAIN kept \cup {id} /\ after[id] = columns
      /\ \A d \in DOMAIN kept : d # id => after[d] = kept[d]
  BY <1>1 DEF With
<1>4. ASSUME id \in DOMAIN kept, descriptor(kept[id]) = descriptor(columns),
             msg.mask = changed_mask(kept[id], columns)
      PROVE  Fits(kept[id], msg.mask, columns)
  <2>1. PICK n \in Nat : Carries(msg, columns, n)
    BY <1>1
  <2>2. DOMAIN msg.mask = 1..n
    BY <2>1 DEF Carries
  <2>3. DOMAIN columns = DOMAIN msg.mask
    BY <1>4 DEF changed_mask
  <2>4. DOMAIN kept[id] = DOMAIN columns
    BY <1>4 DEF descriptor
  <2>5. \A c \in DOMAIN columns : /\ kept[id][c].field_id = columns[c].field_id
                                  /\ kept[id][c].null_strategy = columns[c].null_strategy
    BY <1>4, <2>4 DEF descriptor
  <2>6. \A c \in DOMAIN columns :
           ~msg.mask[c] => estimate_column_size(kept[id][c]) = estimate_column_size(columns[c])
    BY <1>4 DEF changed_mask
  <2>7. QED
    BY <2>3, <2>4, <2>5, <2>6 DEF Fits, LayoutOf
<1>5. SentFrom(kept, msg, after)
  <2>1. msg.kind = "TemplateBatch"
    BY <1>1 DEF Carries
  <2>2. after = With(kept, id, after[id])
    BY <1>1, <1>3
  <2>3. \/ \A c \in DOMAIN msg.mask : msg.mask[c]
        \/ id \in DOMAIN kept /\ Fits(kept[id], msg.mask, after[id])
    BY <1>1, <1>2, <1>3, <1>4
  <2>4. QED
    BY <2>1, <2>2, <2>3 DEF SentFrom
<1>6. ASSUME OneEach(kept), NEW a \in DOMAIN after, NEW b \in DOMAIN after,
             descriptor(after[a]) = descriptor(after[b])
      PROVE  a = b
  <2>1. \A d \in DOMAIN kept : d # id => descriptor(kept[d]) # descriptor(columns)
    BY <1>1, <1>2, <1>6 DEF OneEach
  <2>2. QED
    BY <1>3, <1>6, <2>1 DEF OneEach
<1>7. QED
  BY <1>5, <1>6 DEF OneEach

\* A receiver that is like the sender was before it sent a buffer is like the
\* sender was after it, and does not find the buffer invalid.
LEMMA DecodedInStep ==
    ASSUME NEW state, TemplatesOK(state), NEW msg, NEW kept, NEW after,
           NEW whole \in BOOLEAN,
           Alike(state.template_columns, kept, whole),
           SentFrom(kept, msg, after),
           msg.kind = "TemplateBatch" =>
               \E n \in Nat : Carries(msg, after[msg.template_id], n)
    PROVE  /\ Alike(decode_message(state, msg).template_columns, after, whole)
           /\ Verdict(state, msg) # "invalid"
<1> PICK mine, id, new : /\ mine = state.template_columns
                         /\ id = msg.template_id
                         /\ new = decode_message(state, msg).template_columns
  OBVIOUS
<1>1. CASE msg.kind # "TemplateBatch"
  <2>1. new = mine
    BY <1>1, TemplatesLeft
  <2>2. after = kept
    BY <1>1 DEF SentFrom
  <2>3. Verdict(state, msg) = "ok"
    BY <1>1 DEF Verdict
  <2>4. QED
    BY <2>1, <2>2, <2>3
<1>2. ASSUME msg.kind = "TemplateBatch"
      PROVE  /\ Alike(new, after, whole)
             /\ Verdict(state, msg) # "invalid"
  <2>1. PICK n \in Nat : Carries(msg, after[id], n)
    BY <1>2
  <2>2. /\ after = With(kept, id, after[id])
        /\ \/ \A c \in DOMAIN msg.mask : msg.mask[c]
           \/ id \in DOMAIN kept /\ Fits(kept[id], msg.mask, after[id])
    BY <1>2 DEF SentFrom
  <2>3. /\ DOMAIN after = DOMAIN kept \cup {id}
        /\ \A d \in DOMAIN kept : d # id => after[d] = kept[d]
    BY <2>2 DEF With
  <2>4. /\ \A d \in DOMAIN mine \cap DOMAIN kept : Layout(mine[d]) = Layout(kept[d])
        /\ whole => DOMAIN mine = DOMAIN kept
    BY DEF Alike
  <2>5. DOMAIN msg.mask = 1..n
    BY <2>1 DEF Carries
  <2>6. ASSUME NEW c \in 1..n, ~msg.mask[c], id \in DOMAIN mine
        PROVE  c \in DOMAIN mine[id] /\ LayoutOf(mine[id][c]) = LayoutOf(after[id][c])
    <3>1. id \in DOMAIN kept /\ Fits(kept[id], msg.mask, after[id])
      BY <2>2, <2>5, <2>6
    <3>2. c \in DOMAIN kept[id] /\ LayoutOf(kept[id][c]) = LayoutOf(after[id][c])
      BY <2>5, <2>6, <3>1 DEF Fits
    <3>3. Layout(mine[id]) = Layout(kept[id])
      BY <2>4, <2>6, <3>1
    <3>4. QED
      BY <3>2, <3>3, LayoutsAlike
  <2>7. CASE Verdict(state, msg) = "ok"
    <3> PICK full : full = [c \in 1..n |-> IF msg.mask[c] THEN after[id][c]
                                                           ELSE mine[id][c]]
      OBVIOUS
    <3>1. /\ new = With(mine, id, full)
          /\ \A c \in 1..n :
                msg.mask[c] \/ (id \in DOMAIN mine /\ c \in DOMAIN mine[id])
      BY <2>1, <2>7, TemplateDecoded
    <3>2. /\ DOMAIN new = DOMAIN mine \cup {id} /\ new[id] = full
          /\ \A d \in DOMAIN mine : d # id => new[d] = mine[d]
      BY <3>1 DEF With
    <3>3. Layout(full) = Layout(after[id])
      <4>1. DOMAIN full = 1..n /\ DOMAIN after[id] = 1..n
        BY <2>1 DEF Carries
      <4>2. \A c \in 1..n : LayoutOf(full[c]) = LayoutOf(after[id][c])
        BY <2>6, <3>1
      <4>3. QED
        BY <4>1, <4>2, LayoutsAlike
    <3>4. \A d \in DOMAIN new \cap DOMAIN after : Layout(new[d]) = Layout(after[d])
      BY <2>3, <2>4, <3>2, <3>3
    <3>5. whole => DOMAIN new = DOMAIN after
      BY <2>3, <2>4, <3>2
    <3>6. QED
      BY <2>7, <3>4, <3>5 DEF Alike
  <2>8. CASE Verdict(state, msg) # "ok"
    <3>1. /\ new = mine
          /\ id \in DOMAIN mine => /\ ~CanMerge(mine[id], msg.mask)
                                   /\ Verdict(state, msg) = "invalid"
          /\ id \notin DOMAIN mine => /\ ~\A c \in DOMAIN msg.mask : msg.mask[c]
                                      /\ Verdict(state, msg) = "refused"
      BY <1>2, <2>8, TemplatesLeft DEF Verdict, Known
    <3>2. id \notin DOMAIN mine
      BY <2>5, <2>6, <3>1 DEF CanMerge
    <3>3. id \in DOMAIN kept /\ ~whole
      BY <2>2, <2>4, <3>1, <3>2
    <3>4. \A d \in DOMAIN new \cap DOMAIN after : Layout(new[d]) = Layout(after[d])
      BY <2>3, <2>4, <3>1, <3>2
    <3>5. QED
      BY <3>1, <3>2, <3>3, <3>4 DEF Alike
  <2>9. QED
    BY <2>7, <2>8
<1>3. QED
  BY <1>1, <1>2

-----------------------------------------------------------------------------
(* The actions keep the peers in step. *)

\* The places of the log, and the messages that are under way.
LEMMA DomainOfLog ==
    Shape => /\ DOMAIN log = 1..Len(log) /\ Len(log) \in Nat
             /\ pos \in 0..Len(log) /\ UnderWay \subseteq 1..Len(log)
             /\ \A i \in UnderWay : i > pos
BY LenProperties DEF Shape, UnderWay

\* A send keeps the peers in step.
LEMMA SendInStep ==
    ASSUME TInv, InStep, NEW p \in Peers, NEW state, NEW msg,
           Sending(p, state, msg),
           SentFrom(KnownTo(p), msg, state.template_columns),
           OneEach(KnownTo(p)) => OneEach(state.template_columns)
    PROVE  InStep'
<1> PICK k \in Nat : k = Len(log) + 1
  BY DomainOfLog DEF TInv
<1> PICK n \in Nat : n = pos
  BY DomainOfLog DEF TInv
<1> PICK whole \in BOOLEAN : whole = NoReset
  BY DEF NoReset
<1>1. /\ Shape /\ Shape'
      /\ Len(log') = k /\ Len(log) \in Nat
      /\ \A i \in 1..Len(log) : log'[i] = log[i]
      /\ log'[k].from = p /\ log'[k].msg = msg
      /\ log'[k].fate = "sent"
      /\ log'[k].templates = state.template_columns
      /\ session'[p] = state
      /\ \A q \in Peers : q # p => session'[q] = session[q]
      /\ pos' = pos /\ since' = since
      /\ \A i \in UnderWay : log[i].from = p
  BY SendEffect DEF TInv
<1>2. pos \in 0..Len(log) /\ DOMAIN log = 1..Len(log) /\ DOMAIN log' = 1..k
  BY <1>1, LenProperties, DomainOfLog DEF Shape
<1>3. UnderWay = n + 1..k - 1 /\ UnderWay' = n + 1..k /\ n + 1 <= k
  BY <1>1, <1>2 DEF UnderWay
<1>4. SUFFICES ASSUME Lost' = {}
               PROVE  (/\ UnderWay = {} =>
                             \A q, r \in Peers : Alike(KnownTo(q), KnownTo(r), NoReset)
                       /\ UnderWay # {} =>
                             \E kept : /\ Alike(KnownTo(Other(log[pos + 1].from)), kept, NoReset)
                                       /\ SentFrom(kept, log[pos + 1].msg, log[pos + 1].templates)
                       /\ \A i \in UnderWay :
                             i + 1 \in UnderWay =>
                                 SentFrom(log[i].templates, log[i + 1].msg, log[i + 1].templates)
                       /\ \A q \in Peers :
                             pos > 0 /\ (\A i \in UnderWay : log[i].from # q) =>
                                 Alike(KnownTo(q), log[pos].templates, NoReset)
                       /\ NoReset => /\ \A q \in Peers : OneEach(KnownTo(q))
                                     /\ \A i \in UnderWay : OneEach(log[i].templates))'
  BY DEF InStep
<1>5. Lost = {}
  <2>1. \A i \in DOMAIN log : i \in DOMAIN log' /\ log'[i] = log[i]
    BY <1>1, <1>2
  <2>2. QED
    BY <1>4, <2>1 DEF Lost
<1>6. /\ UnderWay = {} =>
            \A q, r \in Peers : Alike(KnownTo(q), KnownTo(r), whole)
      /\ UnderWay # {} =>
            \E kept : /\ Alike(KnownTo(Other(log[n + 1].from)), kept, whole)
                      /\ SentFrom(kept, log[n + 1].msg, log[n + 1].templates)
      /\ \A i \in UnderWay :
            i + 1 \in UnderWay =>
                SentFrom(log[i].templates, log[i + 1].msg, log[i + 1].templates)
      /\ \A q \in Peers :
            n > 0 /\ (\A i \in UnderWay : log[i].from # q) =>
                Alike(KnownTo(q), log[n].templates, whole)
      /\ whole => /\ \A q \in Peers : OneEach(KnownTo(q))
                  /\ \A i \in UnderWay : OneEach(log[i].templates)
  BY <1>5 DEF InStep
<1>7. NoReset' = whole
  BY <1>1 DEF NoReset
<1>8. /\ KnownTo(p)' = state.template_columns
      /\ \A q \in Peers : q # p => KnownTo(q)' = KnownTo(q)
  BY <1>1 DEF KnownTo
<1> PICK q \in Peers : q = Other(p)
  BY TwoOfThem
<1>9. UnderWay' # {} /\ pos' = n
  BY <1>1, <1>3, SMTT(30)
<1>10. /\ Other(log'[n + 1].from) = q
       /\ \E kept : /\ Alike(KnownTo(q)', kept, whole)
                    /\ SentFrom(kept, log'[n + 1].msg, log'[n + 1].templates)
  <2>1. CASE UnderWay = {}
    <3>1. n + 1 = k
      BY <1>3, <2>1
    <3>2. Alike(KnownTo(q), KnownTo(p), whole)
      BY <1>6, <2>1
    <3>3. q # p
      BY TwoOfThem
    <3>4. KnownTo(q)' = KnownTo(q)
      BY <1>8, <3>3
    <3>5. Other(log'[n + 1].from) = q
      BY <1>1, <3>1
    <3>6. SentFrom(KnownTo(p), log'[n + 1].msg, log'[n + 1].templates)
      BY <1>1, <3>1
    <3>7. QED
      BY <3>2, <3>4, <3>5, <3>6
  <2>2. CASE UnderWay # {}
    <3>1. n + 1 \in UnderWay /\ n + 1 \in 1..Len(log)
      BY <1>1, <1>2, <1>3, <2>2
    <3>2. log'[n + 1] = log[n + 1] /\ log[n + 1].from = p
      BY <1>1, <3>1
    <3>3. KnownTo(q)' = KnownTo(q)
      BY <1>8, TwoOfThem
    <3>4. QED
      BY <1>6, <2>2, <3>2, <3>3
  <2>3. QED
    BY <2>1, <2>2
<1>11. ASSUME NEW i \in UnderWay', i + 1 \in UnderWay'
       PROVE  SentFrom(log'[i].templates, log'[i + 1].msg, log'[i + 1].templates)
  <2>1. i \in UnderWay /\ i \in 1..Len(log) /\ log'[i] = log[i] /\ i \in Nat
    BY <1>1, <1>2, <1>3, <1>11
  <2>2. CASE i + 1 = k
    <3>1. i = Len(log) /\ log[i].from = p
      BY <1>1, <2>1, <2>2
    <3>2. Len(log) > since[p]
      BY <1>1, <1>2, <2>1, <3>1 DEF Shape, UnderWay
    <3>3. KnownTo(p) = log[i].templates
      BY <3>1, <3>2 DEF TInv, OwnKept
    <3>4. QED
      BY <1>1, <2>1, <2>2, <3>3
  <2>3. CASE i + 1 # k
    <3>1. i + 1 \in UnderWay /\ i + 1 \in 1..Len(log)
      BY <1>1, <1>2, <1>3, <1>11, <2>1, <2>3
    <3>2. log'[i + 1] = log[i + 1]
      BY <1>1, <3>1
    <3>3. QED
      BY <1>6, <2>1, <3>1, <3>2
  <2>4. QED
    BY <2>2, <2>3
<1>12. ASSUME NEW r \in Peers, n > 0, \A i \in UnderWay' : log'[i].from # r
       PROVE  Alike(KnownTo(r)', log'[n].templates, whole)
  <2>1. k \in UnderWay'
    BY <1>3
  <2>2. r # p
    BY <1>1, <1>12, <2>1
  <2>3. n \in 1..Len(log) /\ log'[n] = log[n]
    BY <1>1, <1>2, <1>12
  <2>4. \A i \in UnderWay : log[i].from # r
    BY <1>1, <2>2
  <2>5. QED
    BY <1>6, <1>8, <1>12, <2>2, <2>3, <2>4
<1>13. ASSUME whole
       PROVE  /\ \A r \in Peers : OneEach(KnownTo(r)')
              /\ \A i \in UnderWay' : OneEach(log'[i].templates)
  <2>1. \A r \in Peers : OneEach(KnownTo(r)')
    BY <1>6, <1>8, <1>13
  <2>2. ASSUME NEW i \in UnderWay'
        PROVE  OneEach(log'[i].templates)
    <3>1. CASE i = k
      BY <1>1, <1>6, <1>13, <3>1
    <3>2. CASE i # k
      <4>1. i \in UnderWay /\ i \in 1..Len(log)
        BY <1>1, <1>2, <1>3, <2>2, <3>2
      <4>2. QED
        BY <1>1, <1>6, <1>13, <4>1
    <3>3. QED
      BY <3>1, <3>2
  <2>3. QED
    BY <2>1, <2>2
<1>14. QED
  BY <1>7, <1>9, <1>10, <1>11, <1>12, <1>13 DEF KnownTo

\* As long as nothing was lost the next buffer is not found invalid, and
\* leaves its receiver like its sender was after it.
LEMMA NextInStep ==
    ASSUME TInv, InStep, Lost = {}, UnderWay # {},
           NEW m, m = pos + 1, NEW q, q = Other(log[m].from),
           NEW whole \in BOOLEAN, whole = NoReset
    PROVE  /\ Verdict(session[q], log[m].msg) # "invalid"
           /\ Alike(decode_message(session[q], log[m].msg).template_columns,
                    log[m].templates, whole)
<1>1. PICK kept : /\ Alike(KnownTo(q), kept, whole)
                  /\ SentFrom(kept, log[m].msg, log[m].templates)
  BY DEF InStep
<1>2. m \in 1..Len(log)
  BY DomainOfLog DEF TInv, Shape, UnderWay
<1>3. TemplatesOK(session[q])
  BY <1>2, TwoOfThem DEF TInv, Shape, SessionsOK
<1>4. log[m].msg.kind = "TemplateBatch" =>
          \E n \in Nat : Carries(log[m].msg, log[m].templates[log[m].msg.template_id], n)
  BY <1>2 DEF TInv, MessagesOK, Sent
<1>5. Alike(session[q].template_columns, kept, whole)
  BY <1>1 DEF KnownTo
<1> HIDE DEF SentFrom, Alike
<1>6. QED
  BY <1>1, <1>3, <1>4, <1>5, DecodedInStep

\* Alike goes both ways, and what is like another is like itself.
LEMMA LikeAnother ==
    ASSUME NEW a, NEW b, NEW whole \in BOOLEAN, Alike(a, b, whole)
    PROVE  Alike(b, a, whole) /\ Alike(a, a, whole) /\ Alike(b, b, whole)
BY DEF Alike

\* Numbering each layout once carries over from one table of templates to a
\* table of the same layouts.
LEMMA OneEachAlike ==
    ASSUME NEW a, NEW b, Alike(a, b, TRUE), OneEach(b)
    PROVE  OneEach(a)
<1>1. DOMAIN a = DOMAIN b /\ \A d \in DOMAIN a : Layout(a[d]) = Layout(b[d])
  BY DEF Alike
<1>2. \A d \in DOMAIN a : descriptor(a[d]) = descriptor(b[d])
  BY <1>1, DescribedAlike
<1>3. QED
  BY <1>1, <1>2 DEF OneEach

\* A decode keeps the peers in step.
LEMMA DecodeInStep ==
    ASSUME TInv, InStep, Decode
    PROVE  InStep'
<1> PICK n \in Nat : n = pos
  BY DomainOfLog DEF TInv
<1> PICK m \in Nat : m = n + 1
  OBVIOUS
<1> PICK msg : msg = log[m].msg
  OBVIOUS
<1> PICK p : p = log[m].from
  OBVIOUS
<1> PICK q : q = Other(p)
  OBVIOUS
<1> PICK v : v = Verdict(session[q], msg)
  OBVIOUS
<1> PICK whole \in BOOLEAN : whole = NoReset
  BY DEF NoReset
<1>0. Shape /\ SessionsOK
  BY DEF TInv
<1>1. m \in 1..Len(log) /\ Len(log) \in Nat /\ m \in UnderWay
  BY <1>0, DomainOfLog DEF Decode, UnderWay
<1>2. p \in Peers /\ q \in Peers /\ q # p /\ \A r \in Peers : r # p => r = q
  BY <1>0, <1>1, TwoOfThem DEF Shape
<1>3. /\ session' = [session EXCEPT ![q] = decode_message(session[q], msg)]
      /\ Leaving(v)
  BY DEF Decode, Leaving
<1>4. v # "sent" /\ v # "lost"
  BY DEF Verdict
<1>5. DOMAIN session' = Peers
  BY <1>0, <1>3 DEF Shape
<1>6. /\ Shape'
      /\ Len(log') = Len(log)
      /\ log'[m].fate = v
      /\ \A i \in 1..Len(log) : /\ i # m => log'[i] = log[i]
                                /\ log'[i].from = log[i].from
                                /\ log'[i].msg = log[i].msg
                                /\ log'[i].templates = log[i].templates
      /\ pos' = m /\ since' = since
  BY <1>0, <1>3, <1>4, <1>5, LeaveEffect
<1>7. /\ UnderWay = m..Len(log) /\ UnderWay' = m + 1..Len(log)
      /\ UnderWay \subseteq 1..Len(log) /\ UnderWay' \subseteq UnderWay
  BY <1>1, <1>6 DEF UnderWay
<1>8. \A i \in UnderWay : log[i].from = p
  BY <1>0, <1>1 DEF Shape
<1>9. SUFFICES ASSUME Lost' = {}
               PROVE  (/\ UnderWay = {} =>
                             \A r, s \in Peers : Alike(KnownTo(r), KnownTo(s), NoReset)
                       /\ UnderWay # {} =>
                             \E kept : /\ Alike(KnownTo(Other(log[pos + 1].from)), kept, NoReset)
                                       /\ SentFrom(kept, log[pos + 1].msg, log[pos + 1].templates)
                       /\ \A i \in UnderWay :
                             i + 1 \in UnderWay =>
                                 SentFrom(log[i].templates, log[i + 1].msg, log[i + 1].templates)
                       /\ \A r \in Peers :
                             pos > 0 /\ (\A i \in UnderWay : log[i].from # r) =>
                                 Alike(KnownTo(r), log[pos].templates, NoReset)
                       /\ NoReset => /\ \A r \in Peers : OneEach(KnownTo(r))
                                     /\ \A i \in UnderWay : OneEach(log[i].templates))'
  BY DEF InStep
<1>10. Lost = {}
  <2>1. DOMAIN log = 1..Len(log) /\ DOMAIN log' = 1..Len(log)
    BY <1>0, <1>6, DomainOfLog, LenProperties DEF Shape
  <2>2. log[m].fate # "lost"
    BY <1>0, <1>1, <1>7 DEF Shape, UnderWay
  <2>3. QED
    BY <1>6, <1>9, <2>1, <2>2 DEF Lost
<1>11. /\ \A i \in UnderWay :
             i + 1 \in UnderWay =>
                 SentFrom(log[i].templates, log[i + 1].msg, log[i + 1].templates)
       /\ whole => /\ \A r \in Peers : OneEach(KnownTo(r))
                   /\ \A i \in UnderWay : OneEach(log[i].templates)
  BY <1>10 DEF InStep
<1>12. NoReset' = whole
  BY <1>6 DEF NoReset
<1>13. /\ KnownTo(q)' = decode_message(session[q], msg).template_columns
       /\ \A r \in Peers : r # q => KnownTo(r)' = KnownTo(r)
  BY <1>0, <1>2, <1>3 DEF KnownTo, Shape
<1>14. Alike(KnownTo(q)', log[m].templates, whole)
  <2>1. UnderWay # {}
    BY <1>1
  <2>2. QED
    BY <1>10, <1>13, <2>1, NextInStep
<1>15. ASSUME UnderWay' = {}
       PROVE  KnownTo(p)' = log[m].templates
  <2>1. m = Len(log)
    BY <1>1, <1>7, <1>15
  <2>2. Len(log) > since[p]
    BY <1>0, <1>2, <2>1 DEF Shape
  <2>3. KnownTo(p) = log[m].templates
    BY <1>2, <2>1, <2>2 DEF TInv, OwnKept
  <2>4. QED
    BY <1>2, <1>13, <2>3
<1>16. ASSUME UnderWay' = {}
       PROVE  \A r, s \in Peers : Alike(KnownTo(r)', KnownTo(s)', whole)
  <2>1. Alike(KnownTo(q)', KnownTo(p)', whole)
    BY <1>14, <1>15, <1>16
  <2>2. /\ Alike(KnownTo(p)', KnownTo(q)', whole)
        /\ Alike(KnownTo(p)', KnownTo(p)', whole)
        /\ Alike(KnownTo(q)', KnownTo(q)', whole)
    BY <2>1, LikeAnother
  <2>3. QED
    BY <2>1, <2>2, <1>2
<1>17. ASSUME UnderWay' # {}
       PROVE  /\ Other(log'[m + 1].from) = q
              /\ SentFrom(log[m].templates, log'[m + 1].msg, log'[m + 1].templates)
  <2>1. m + 1 \in UnderWay /\ m + 1 \in 1..Len(log)
    BY <1>1, <1>7, <1>17
  <2>2. log'[m + 1] = log[m + 1]
    BY <1>6, <2>1
  <2>3. QED
    BY <1>1, <1>8, <1>11, <2>1, <2>2
<1>18. ASSUME NEW i \in UnderWay', i + 1 \in UnderWay'
       PROVE  SentFrom(log'[i].templates, log'[i + 1].msg, log'[i + 1].templates)
  <2>1. i \in UnderWay /\ i + 1 \in UnderWay /\ i \in 1..Len(log) /\ i + 1 \in 1..Len(log)
    BY <1>7, <1>18
  <2>2. QED
    BY <1>6, <1>11, <2>1
<1>19. ASSUME NEW r \in Peers, \A i \in UnderWay' : log'[i].from # r
       PROVE  Alike(KnownTo(r)', log'[m].templates, whole)
  <2>1. log'[m].templates = log[m].templates
    BY <1>1, <1>6
  <2>2. CASE r = q
    BY <1>14, <2>1, <2>2
  <2>3. CASE r # q
    <3>1. r = p
      BY <1>2, <2>3
    <3>2. UnderWay' = {}
      <4>1. \A i \in UnderWay' : log'[i].from = p
        BY <1>6, <1>7, <1>8
      <4>2. QED
        BY <4>1, <3>1, <1>19
    <3>3. Alike(KnownTo(p)', log[m].templates, whole)
      BY <1>14, <1>15, <3>2, LikeAnother
    <3>4. QED
      BY <2>1, <3>1, <3>3
  <2>4. QED
    BY <2>2, <2>3
<1>20. ASSUME whole
       PROVE  /\ \A r \in Peers : OneEach(KnownTo(r)')
              /\ \A i \in UnderWay' : OneEach(log'[i].templates)
  <2>1. Alike(KnownTo(q)', log[m].templates, TRUE)
    BY <1>14, <1>20
  <2>2. OneEach(KnownTo(q)')
    BY <1>1, <1>11, <1>20, <2>1, OneEachAlike
  <2>3. \A r \in Peers : OneEach(KnownTo(r)')
    BY <1>2, <1>11, <1>13, <1>20, <2>2
  <2>4. \A i \in UnderWay' : OneEach(log'[i].templates)
    BY <1>6, <1>7, <1>11, <1>20
  <2>5. QED
    BY <2>3, <2>4
<1>21. m > 0
  BY <1>1
<1>22. QED
  BY <1>6, <1>12, <1>14, <1>16, <1>17, <1>18, <1>19, <1>20, <1>21 DEF KnownTo

\* A peer that resets its session keeps the peers in step.
LEMMA ResetInStep ==
    ASSUME TInv, InStep, NEW p \in Peers, reset(p)
    PROVE  InStep'
<1> PICK whole \in BOOLEAN : whole = NoReset
  BY DEF NoReset
<1>1. /\ UnderWay = {} /\ Len(log) > 0
      /\ session' = [session EXCEPT ![p] = NewSession]
      /\ since' = [since EXCEPT ![p] = Len(log)]
      /\ log' = log /\ pos' = pos
  BY DomainOfLog, EmptySeq DEF TInv, Shape, reset
<1>2. /\ DOMAIN KnownTo(p)' = {}
      /\ \A q \in Peers : q # p => KnownTo(q)' = KnownTo(q)
  BY <1>1, NewTemplates DEF KnownTo, TInv, Shape
<1>3. since'[p] # 0 /\ ~NoReset'
  BY <1>1, DomainOfLog DEF TInv, Shape, NoReset
<1>4. UnderWay' = {} /\ Lost' = Lost
  BY <1>1 DEF UnderWay, Lost
<1>5. ASSUME NEW kept
      PROVE  /\ Alike(KnownTo(p)', kept, FALSE)
             /\ Alike(kept, KnownTo(p)', FALSE)
  BY <1>2 DEF Alike
<1>6. ASSUME NEW a, NEW b, Alike(a, b, whole)
      PROVE  Alike(a, b, FALSE)
  BY <1>6 DEF Alike
<1>7. ASSUME Lost = {}
      PROVE  /\ \A q, r \in Peers : Alike(KnownTo(q)', KnownTo(r)', FALSE)
             /\ pos > 0 => \A q \in Peers : Alike(KnownTo(q)', log[pos].templates, FALSE)
  <2>1. /\ \A q, r \in Peers : Alike(KnownTo(q), KnownTo(r), whole)
        /\ pos > 0 => \A q \in Peers : Alike(KnownTo(q), log[pos].templates, whole)
    BY <1>1, <1>7 DEF InStep
  <2>2. ASSUME NEW q \in Peers, NEW r \in Peers
        PROVE  Alike(KnownTo(q)', KnownTo(r)', FALSE)
    <3>1. CASE q = p \/ r = p
      BY <1>5, <3>1
    <3>2. CASE q # p /\ r # p
      BY <1>2, <1>6, <2>1, <3>2
    <3>3. QED
      BY <3>1, <3>2
  <2>3. ASSUME pos > 0, NEW q \in Peers
        PROVE  Alike(KnownTo(q)', log[pos].templates, FALSE)
    <3>1. CASE q = p
      BY <1>5, <3>1
    <3>2. CASE q # p
      BY <1>2, <1>6, <2>1, <2>3, <3>2
    <3>3. QED
      BY <3>1, <3>2
  <2>4. QED
    BY <2>2, <2>3
<1>8. NoReset' = FALSE
  BY <1>3 DEF NoReset
<1>9. QED
  BY <1>1, <1>4, <1>7, <1>8 DEF InStep

\* A loss is not forgotten before both sides reset.
LEMMA LoseInStep ==
    ASSUME TInv, Lose
    PROVE  InStep'
<1>1. pos + 1 \in DOMAIN log /\ log' = [log EXCEPT ![pos + 1].fate = "lost"]
  BY DomainOfLog DEF TInv, Lose, UnderWay
<1>2. "fate" \in DOMAIN log[pos + 1]
  BY <1>1, DomainOfLog DEF TInv, Shape, EntryFields
<1>3. pos + 1 \in Lost'
  BY <1>1, <1>2 DEF Lost
<1>4. QED
  BY <1>3 DEF InStep

\* A step that changes no template and not the log keeps the peers in step.
LEMMA QuietInStep ==
    ASSUME TInv, InStep, NEW q \in Peers, NEW state,
           state.template_columns = KnownTo(q),
           session' = [session EXCEPT ![q] = state],
           UNCHANGED << log, pos, since >>
    PROVE  InStep'
<1>1. \A r \in Peers : session'[r].template_columns = session[r].template_columns
  BY DEF TInv, Shape, KnownTo
<1>2. UnderWay' = UnderWay /\ Lost' = Lost /\ NoReset' = NoReset
  BY DEF UnderWay, Lost, NoReset
<1>3. \A i \in UnderWay : Other(log[i].from) \in Peers
  BY DomainOfLog, TwoOfThem DEF TInv, Shape
<1>4. UnderWay # {} => pos + 1 \in UnderWay
  BY DomainOfLog DEF TInv, Shape, UnderWay
<1>5. QED
  BY <1>1, <1>2, <1>3, <1>4 DEF InStep, KnownTo

\* The initial state has the peers in step.
LEMMA NewInStep == Init => InStep
<1> SUFFICES ASSUME Init PROVE InStep
  OBVIOUS
<1>1. /\ \A p \in Peers : session[p] = NewSession
      /\ pos = 0 /\ Len(log) = 0
  BY DEF Init
<1>2. \A p \in Peers : DOMAIN KnownTo(p) = {} /\ KnownTo(p) = << >>
  BY <1>1, NewTemplates DEF KnownTo
<1>3. UnderWay = {}
  BY <1>1 DEF UnderWay
<1>4. \A p, q \in Peers : Alike(KnownTo(p), KnownTo(q), NoReset)
  BY <1>2 DEF Alike
<1>5. \A p \in Peers : OneEach(KnownTo(p))
  BY <1>2 DEF OneEach
<1>6. QED
  BY <1>1, <1>3, <1>4, <1>5 DEF InStep

\* Every action keeps the peers in step.
LEMMA InStepInductive == TInv /\ InStep /\ [Next]_vars => InStep'
<1> SUFFICES ASSUME TInv, InStep, [Next]_vars PROVE InStep'
  OBVIOUS
<1>0. SessionsOK
  BY DEF TInv
<1>1. ASSUME NEW p \in Peers, NEW values,
             Sending(p, after_batch(session[p], values), batch_message(values))
      PROVE  InStep'
  <2> PICK state : state = after_batch(session[p], values)
    OBVIOUS
  <2> PICK msg : msg = batch_message(values)
    OBVIOUS
  <2>1. state.template_columns = KnownTo(p) /\ msg.kind # "TemplateBatch"
    BY <1>0, TemplatesLeftByBatch DEF SessionsOK, KnownTo
  <2>2. SentFrom(KnownTo(p), msg, state.template_columns)
    BY <2>1 DEF SentFrom
  <2>3. QED
    BY <1>1, <2>1, <2>2, SendInStep
<1>2. ASSUME NEW p \in Peers, NEW values \in MicroBatches,
             has_uniform_micro_batch_shape(values),
             Sending(p, after_template(session[p], values),
                     template_message(session[p], values))
      PROVE  InStep'
  <2> PICK state : state = after_template(session[p], values)
    OBVIOUS
  <2> PICK msg : msg = template_message(session[p], values)
    OBVIOUS
  <2>1. TemplatesOK(session[p])
    BY <1>0 DEF SessionsOK
  <2>2. /\ SentFrom(KnownTo(p), msg, state.template_columns)
        /\ OneEach(KnownTo(p)) => OneEach(state.template_columns)
    BY <1>2, <2>1, MadeInStep DEF KnownTo
  <2>3. QED
    BY <1>2, <2>2, SendInStep
<1>3. ASSUME NEW p \in Peers,
             \/ \E values \in Batches : encode_batch(p, values)
             \/ \E values \in MicroBatches : encode_micro_batch(p, values)
      PROVE  InStep'
  BY <1>0, <1>1, <1>2, <1>3, SentAsMade
<1>4. CASE DecodeAgain
  <2> PICK q : q = Other(log[pos].from)
    OBVIOUS
  <2> PICK state : state = decode_message(session[q], log[pos].msg)
    OBVIOUS
  <2>1. q \in Peers /\ state.template_columns = KnownTo(q)
    BY <1>4, AgainQuiet
  <2>2. /\ session' = [session EXCEPT ![q] = state]
        /\ UNCHANGED << log, pos, since >>
    BY <1>4 DEF DecodeAgain
  <2>3. QED
    BY <2>1, <2>2, QuietInStep
<1>5. CASE DecodeOwn
  <2> PICK k : k = Len(log)
    OBVIOUS
  <2> PICK p : p = log[k].from
    OBVIOUS
  <2> PICK state : state = decode_message(session[p], log[k].msg)
    OBVIOUS
  <2>1. p \in Peers /\ state.template_columns = KnownTo(p)
    BY <1>5, OwnQuiet
  <2>2. Last(log) = log[k]
    BY DEF Last
  <2>3. /\ session' = [session EXCEPT ![p] = state]
        /\ UNCHANGED << log, pos, since >>
    BY <1>5, <2>2 DEF DecodeOwn
  <2>4. QED
    BY <2>1, <2>3, QuietInStep
<1>6. CASE reset_both
  <2>1. Init'
    BY <1>6 DEF reset_both, Init
  <2>2. Init' => InStep'
    BY NewInStep, PTL
  <2>3. QED
    BY <2>1, <2>2
<1>7. CASE UNCHANGED vars
  <2>1. InStep' = InStep
    BY <1>7 DEF vars, InStep, Lost, UnderWay, KnownTo, NoReset
  <2>2. QED
    BY <2>1
<1>8. QED
  BY <1>3, <1>4, <1>5, <1>6, <1>7, DecodeInStep, ResetInStep, LoseInStep DEF Next

-----------------------------------------------------------------------------
(* The fates of buffers. *)

\* What RefusedAfterLoss says of buffer i.
RightlyJudged(i) ==
    LET q       == Other(log[i].from)
        earlier == {j \in 1..i - 1 : IsTemplate(j, log[i].msg.template_id)}
    IN  /\ log[i].fate = "refused" =>
              /\ earlier # {}
              /\ \A j \in earlier :
                    log[j].from = q \/ log[j].fate = "ok" => j <= since[q]
        /\ log[i].fate = "invalid" => Lost # {}

\* A verdict that was right stays right as messages are lost and peers reset.
LEMMA JudgedStays ==
    ASSUME Shape, NEW k \in Nat, k <= Len(log), k <= Len(log'), NEW i \in 1..k,
           RightlyJudged(i),
           \A j \in 1..k : /\ log'[j].from = log[j].from
                           /\ log'[j].msg = log[j].msg
                           /\ log'[j].fate = log[j].fate,
           \A q \in Peers : since'[q] \in Nat /\ since[q] <= since'[q],
           Lost \subseteq Lost'
    PROVE  RightlyJudged(i)'
<1> PICK q \in Peers : q = Other(log[i].from)
  BY DomainOfLog, TwoOfThem DEF Shape
<1> PICK id : id = log[i].msg.template_id
  OBVIOUS
<1>1. i \in 1..Len(log) /\ 1..i - 1 \subseteq 1..k /\ \A j \in 1..i - 1 : j \in Nat
  BY DomainOfLog
<1>2. since[q] \in Nat /\ since'[q] \in Nat /\ since[q] <= since'[q]
  BY DEF Shape
<1> DEFINE earlier == {j \in 1..i - 1 : IsTemplate(j, id)}
<1>3. {j \in 1..i - 1 : /\ log'[j].msg.kind = "TemplateBatch"
                        /\ log'[j].msg.template_id = id} = earlier
  BY <1>1 DEF IsTemplate
<1>4. /\ log[i].fate = "refused" =>
            /\ earlier # {}
            /\ \A j \in earlier :
                  log[j].from = q \/ log[j].fate = "ok" => j <= since[q]
      /\ log[i].fate = "invalid" => Lost # {}
  BY DEF RightlyJudged
<1>5. \A j \in earlier : log[j].from = log'[j].from /\ log[j].fate = log'[j].fate
                         /\ j \in Nat
  BY <1>1
<1> HIDE DEF earlier
<1>6. \A j \in earlier : j <= since[q] => j <= since'[q]
  BY <1>2, <1>5
<1>7. log[i].fate = "refused" =>
            /\ earlier # {}
            /\ \A j \in earlier :
                  log'[j].from = q \/ log'[j].fate = "ok" => j <= since'[q]
  BY <1>4, <1>5, <1>6
<1>8. /\ log'[i].from = log[i].from /\ log'[i].msg = log[i].msg
      /\ log'[i].fate = log[i].fate
  OBVIOUS
<1>9. QED
  BY <1>3, <1>4, <1>7, <1>8 DEF RightlyJudged, IsTemplate

\* The verdict a decode reaches is right: a template message is refused only
\* after a loss or a reset.
LEMMA RightNow ==
    ASSUME TInv, InStep, Decode, NEW m \in Nat, m = pos + 1
    PROVE  RightlyJudged(m)'
<1> PICK n \in Nat : n = pos /\ m = n + 1
  BY DomainOfLog DEF TInv
<1> PICK msg : msg = log[m].msg
  OBVIOUS
<1> PICK id : id = msg.template_id
  OBVIOUS
<1> PICK p : p = log[m].from
  OBVIOUS
<1> PICK q : q = Other(p)
  OBVIOUS
<1> PICK v : v = Verdict(session[q], msg)
  OBVIOUS
<1>0. Shape /\ SessionsOK /\ MessagesOK /\ NotTheFirst /\ KnownAsGiven
  BY DEF TInv
<1>1. m \in 1..Len(log) /\ Len(log) \in Nat /\ m \in UnderWay /\ DOMAIN log = 1..Len(log)
  BY <1>0, DomainOfLog DEF Decode, UnderWay
<1>2. p \in Peers /\ q \in Peers /\ q # p
  BY <1>0, <1>1, TwoOfThem DEF Shape
<1>3. /\ session' = [session EXCEPT ![q] = decode_message(session[q], msg)]
      /\ Leaving(v)
  BY DEF Decode, Leaving
<1>4. v # "sent" /\ v # "lost"
  BY DEF Verdict
<1>5. DOMAIN session' = Peers
  BY <1>0, <1>3 DEF Shape
<1>6. /\ Shape'
      /\ Len(log') = Len(log)
      /\ log'[m].fate = v
      /\ log[m].fate = "sent"
      /\ \A i \in 1..Len(log) : /\ i # m => log'[i] = log[i]
                                /\ log'[i].from = log[i].from
                                /\ log'[i].msg = log[i].msg
      /\ pos' = m /\ since' = since
  BY <1>0, <1>3, <1>4, <1>5, LeaveEffect
<1> DEFINE earlier == {j \in 1..m - 1 : IsTemplate(j, id)}
<1>7. {j \in 1..m - 1 : /\ log'[j].msg.kind = "TemplateBatch"
                        /\ log'[j].msg.template_id = id} = earlier
  <2>1. 1..m - 1 \subseteq 1..Len(log)
    BY <1>1
  <2>2. QED
    BY <1>6, <2>1 DEF IsTemplate
<1>8. ASSUME v = "invalid"
      PROVE  Lost' # {}
  <2>1. Lost # {}
    BY <1>1, <1>8, NextInStep DEF NoReset
  <2>2. Lost \subseteq Lost'
    <3>1. DOMAIN log' = 1..Len(log)
      BY <1>6, DomainOfLog, LenProperties DEF Shape
    <3>2. QED
      BY <1>1, <1>6, <3>1 DEF Lost
  <2>3. QED
    BY <2>1, <2>2
<1>9. ASSUME v = "refused"
      PROVE  /\ earlier # {}
             /\ \A j \in earlier :
                   log'[j].from = q \/ log'[j].fate = "ok" => j <= since'[q]
  <2>1. /\ msg.kind = "TemplateBatch"
        /\ id \notin DOMAIN KnownTo(q)
        /\ ~AllBits(m)
    BY <1>9 DEF Verdict, Known, KnownTo, AllBits
  <2>2. earlier # {}
    BY <1>0, <1>1, <2>1 DEF NotTheFirst
  <2>3. id \in Nat
    BY <1>0, <1>1, <2>1 DEF MessagesOK, Carries
  <2>4. \A j \in 1..Len(log) : ~Gave(q, id, j)
    BY <1>0, <1>2, <2>1, <2>3 DEF KnownAsGiven
  <2>5. ASSUME NEW j \in earlier, log[j].from = q \/ log[j].fate = "ok"
        PROVE  j <= since[q]
    <3>1. j \in 1..Len(log) /\ IsTemplate(j, id) /\ since[q] \in Nat
      BY <1>0, <1>1, <1>2 DEF Shape
    <3>2. j \notin since[q] + 1..Len(log)
      BY <2>4, <2>5, <3>1 DEF Gave
    <3>3. QED
      BY <1>1, <3>1, <3>2
  <2>6. \A j \in earlier : log'[j] = log[j]
    BY <1>1, <1>6
  <2>7. QED
    BY <1>6, <2>2, <2>5, <2>6
<1>10. /\ log'[m].fate = v /\ Other(log'[m].from) = q
       /\ log'[m].msg.template_id = id
  BY <1>1, <1>6
<1> HIDE DEF earlier
<1>11. QED
  BY <1>7, <1>8, <1>9, <1>10 DEF RightlyJudged, IsTemplate

\* Every step keeps every verdict right.
LEMMA JudgedInductive ==
    TInv /\ InStep /\ RefusedAfterLoss /\ [Next]_vars => RefusedAfterLoss'
<1> SUFFICES ASSUME TInv, InStep, RefusedAfterLoss, [Next]_vars
             PROVE  RefusedAfterLoss'
  OBVIOUS
<1> PICK n \in Nat : n = pos /\ n <= Len(log)
  BY DomainOfLog DEF TInv
<1>0. Shape /\ \A q \in Peers : since[q] \in Nat /\ since[q] <= since[q]
  BY DEF TInv, Shape
<1>1. Shape'
  BY TemplatesInductive DEF TInv
<1>2. DOMAIN log = 1..Len(log) /\ DOMAIN log' = 1..Len(log') /\ Len(log) \in Nat
      /\ Len(log') \in Nat
  BY <1>0, <1>1, DomainOfLog, LenProperties DEF Shape
<1>3. \A i \in 1..Len(log) : RightlyJudged(i)
  BY <1>2 DEF RefusedAfterLoss, RightlyJudged
<1>4. SUFFICES ASSUME NEW i \in 1..Len(log')
               PROVE  RightlyJudged(i)'
  BY <1>2 DEF RefusedAfterLoss, RightlyJudged
<1>5. ASSUME NEW p \in Peers, NEW values,
             encode_batch(p, values) \/ encode_micro_batch(p, values)
      PROVE  RightlyJudged(i)'
  <2>1. PICK state, msg : Sending(p, state, msg)
    BY <1>5 DEF encode_batch, encode_micro_batch, Sending
  <2>2. /\ Len(log') = Len(log) + 1
        /\ \A j \in 1..Len(log) : log'[j] = log[j]
        /\ log'[Len(log) + 1].fate = "sent"
        /\ since' = since
    BY <1>0, <2>1, SendEffect
  <2>3. CASE i = Len(log) + 1
    <3>1. log'[i].fate = "sent"
      BY <2>2, <2>3
    <3>2. QED
      BY <3>1 DEF RightlyJudged
  <2>4. CASE i # Len(log) + 1
    <3>1. i \in 1..Len(log) /\ RightlyJudged(i)
      BY <1>2, <1>3, <2>2, <2>4
    <3>2. Lost \subseteq Lost'
      BY <1>2, <2>2 DEF Lost
    <3>3. \A q \in Peers : since'[q] \in Nat /\ since[q] <= since'[q]
      BY <1>0, <2>2
    <3>4. Len(log) <= Len(log')
      BY <1>2, <2>2
    <3>5. QED
      BY <1>0, <1>2, <2>2, <3>1, <3>2, <3>3, <3>4, JudgedStays
  <2>5. QED
    BY <2>3, <2>4
<1>6. ASSUME NEW fate, fate # "sent", Leaving(fate), DOMAIN session' = Peers,
             i # n + 1
      PROVE  RightlyJudged(i)'
  <2>1. /\ Len(log') = Len(log)
        /\ n + 1 \in 1..Len(log)
        /\ log[n + 1].fate = "sent"
        /\ \A j \in 1..Len(log) : j # n + 1 => log'[j] = log[j]
        /\ pos' = n + 1 /\ since' = since
    BY <1>0, <1>6, LeaveEffect
  <2>2. Lost \subseteq Lost'
    BY <1>2, <2>1 DEF Lost
  <2>3. CASE i <= n
    <3>1. i \in 1..n /\ RightlyJudged(i) /\ n <= Len(log')
      BY <1>2, <1>3, <2>1, <2>3
    <3>2. \A j \in 1..n : log'[j] = log[j]
      BY <1>2, <2>1
    <3>3. \A q \in Peers : since'[q] \in Nat /\ since[q] <= since'[q]
      BY <1>0, <2>1
    <3>4. QED
      BY <1>0, <2>2, <3>1, <3>2, <3>3, JudgedStays
  <2>4. CASE i > n
    <3>1. log'[i].fate = "sent"
      BY <1>1, <1>6, <2>1, <2>4 DEF Shape
    <3>2. QED
      BY <3>1 DEF RightlyJudged
  <2>5. QED
    BY <2>3, <2>4
<1>7. CASE Decode
  <2>1. PICK fate, s, p : /\ Leaving(fate) /\ fate # "sent"
                          /\ session' = [session EXCEPT ![p] = s]
    BY <1>7 DEF Decode, Leaving, Verdict
  <2>2. DOMAIN session' = Peers
    BY <1>0, <2>1 DEF Shape
  <2>3. CASE i = n + 1
    BY <1>7, <2>3, RightNow DEF TInv
  <2>4. CASE i # n + 1
    BY <1>6, <2>1, <2>2, <2>4
  <2>5. QED
    BY <2>3, <2>4, SMTT(30)
<1>8. CASE Lose
  <2>1. Leaving("lost") /\ DOMAIN session' = Peers
    BY <1>0, <1>8 DEF Lose, Leaving, Shape
  <2>2. CASE i = n + 1
    <3>1. log'[n + 1].fate = "lost"
      BY <1>0, <2>1, LeaveEffect
    <3>2. QED
      BY <2>2, <3>1 DEF RightlyJudged
  <2>3. CASE i # n + 1
    BY <1>6, <2>1, <2>3
  <2>4. QED
    BY <2>2, <2>3
<1>9. ASSUME log' = log, \A q \in Peers : since'[q] \in Nat /\ since[q] <= since'[q]
      PROVE  RightlyJudged(i)'
  <2>1. Lost' = Lost
    BY <1>9 DEF Lost
  <2>2. QED
    BY <1>0, <1>2, <1>3, <1>9, <2>1, JudgedStays
<1>10. ASSUME NEW p \in Peers, reset(p) PROVE RightlyJudged(i)'
  <2>1. log' = log /\ since' = [since EXCEPT ![p] = Len(log)]
    BY <1>10 DEF reset
  <2>2. \A q \in Peers : since'[q] \in Nat /\ since[q] <= since'[q]
    BY <1>0, <1>2, <2>1 DEF Shape
  <2>3. QED
    BY <1>9, <2>1, <2>2
<1>11. CASE DecodeAgain \/ DecodeOwn \/ UNCHANGED vars
  <2>1. log' = log /\ since' = since
    BY <1>11 DEF DecodeAgain, DecodeOwn, vars
  <2>2. QED
    BY <1>0, <1>9, <2>1
<1>12. CASE reset_both
  <2>1. Len(log') = 0
    BY <1>12 DEF reset_both
  <2>2. QED
    BY <2>1
<1>13. QED
  BY <1>5, <1>7, <1>8, <1>10, <1>11, <1>12 DEF Next

\* A buffer is refused only by a peer that has lost, or reset away, every
\* earlier one of its template, and found invalid only after a loss
\* (TWILIC_ERR_UNKNOWN_REFERENCE and merge_template_columns in decode_message).
THEOREM Refusals == Spec => []RefusedAfterLoss
<1>1. Init => RefusedAfterLoss
  BY DEF Init, RefusedAfterLoss
<1>2. QED
  BY <1>1, NewKeeps, NewInStep, TemplatesInductive, InStepInductive,
     JudgedInductive, PTL DEF Spec

-----------------------------------------------------------------------------
(* What the peers agree on. *)

\* With nothing lost, what a peer knows of the other's templates is what the
\* other had when it sent the last message that was read.
LEMMA Settled ==
    ASSUME TInv, InStep, Lost = {}, NEW p \in Peers, Applied(p) > 0
    PROVE  Alike(KnownTo(p), log[Applied(p)].templates, NoReset)
<1> PICK whole \in BOOLEAN : whole = NoReset
  BY DEF NoReset
<1> PICK k \in Nat : k = Len(log)
  BY DomainOfLog DEF TInv
<1>0. Shape /\ SessionsOK /\ KnownAsGiven /\ OwnKept
  BY DEF TInv
<1>1. pos \in 0..k /\ UnderWay = pos + 1..k
      /\ \A q \in Peers : since[q] \in 0..pos
  BY <1>0, DomainOfLog DEF Shape, UnderWay
<1>2. /\ UnderWay = {} =>
            \A q, r \in Peers : Alike(KnownTo(q), KnownTo(r), whole)
      /\ pos > 0 /\ (\A i \in UnderWay : log[i].from # p) =>
            Alike(KnownTo(p), log[pos].templates, whole)
  BY DEF InStep
<1>3. Alike(KnownTo(p), KnownTo(p), whole)
  BY DEF Alike
<1>4. CASE UnderWay # {} /\ \A i \in UnderWay : log[i].from = p
  <2>1. Applied(p) = k /\ k \in UnderWay /\ k > since[p]
    BY <1>1, <1>4 DEF Applied
  <2>2. KnownTo(p) = log[k].templates
    BY <1>0, <1>4, <2>1 DEF OwnKept
  <2>3. QED
    BY <1>3, <2>1, <2>2
<1>5. CASE UnderWay = {}
  <2>1. Applied(p) = k /\ pos = k
    BY <1>1, <1>5 DEF Applied
  <2>2. QED
    BY <1>2, <1>5, <2>1
<1>6. CASE ~\A i \in UnderWay : log[i].from = p
  <2>1. Applied(p) = pos
    BY <1>6 DEF Applied
  <2>2. \A i \in UnderWay : log[i].from # p
    BY <1>0, <1>6 DEF Shape
  <2>3. QED
    BY <1>2, <2>1, <2>2
<1>7. QED
  BY <1>4, <1>5, <1>6

\* Without loss both peers have the same layout under every number both
\* know, and the same numbers unless a side was reset alone (template_of and
\* the two tables that decode_message fills).
THEOREM LayoutsAgree == Spec => []LayoutsInSync
<1>1. TInv /\ InStep => LayoutsInSync
  <2> SUFFICES ASSUME TInv, InStep, Lost = {}, NEW p \in Peers, Applied(p) > 0
               PROVE  LET sent == log[Applied(p)].templates
                      IN  /\ \A id \in DOMAIN KnownTo(p) \cap DOMAIN sent :
                                Layout(KnownTo(p)[id]) = Layout(sent[id])
                          /\ (\A q \in Peers : since[q] = 0) =>
                                DOMAIN KnownTo(p) = DOMAIN sent
    BY DEF LayoutsInSync
  <2>1. QED
    BY Settled DEF Alike, NoReset
<1>2. QED
  BY <1>1, NewKeeps, NewInStep, TemplatesInductive, InStepInductive, PTL DEF Spec

\* Without loss and without a reset of one side a layout has one number, with
\* each peer, although both give out numbers (find_template_id).
THEOREM OneNumberEach == Spec => []OneTemplatePerLayout
<1>1. TInv /\ InStep => OneTemplatePerLayout
  <2> SUFFICES ASSUME TInv, InStep, Lost = {}, NoReset, NEW p \in Peers,
                      NEW a \in DOMAIN session[p].templates,
                      NEW b \in DOMAIN session[p].templates,
                      session[p].templates[a] = session[p].templates[b]
               PROVE  a = b
    BY DEF OneTemplatePerLayout, NoReset
  <2>1. OneEach(KnownTo(p))
    BY DEF InStep
  <2>2. TemplatesOK(session[p])
    BY DEF TInv, SessionsOK
  <2>3. QED
    BY <2>1, <2>2 DEF OneEach, TemplatesOK, KnownTo
<1>2. QED
  BY <1>1, NewKeeps, NewInStep, TemplatesInductive, InStepInductive, PTL DEF Spec

-----------------------------------------------------------------------------
(* The cells of a column batch. *)

\* A cell is present unless it is the null.
CellsOK(cells, n) ==
    /\ DOMAIN cells = 1..n /\ Len(cells) = n
    /\ \A i \in 1..n : cells[i].present = NotNull(cells[i].val)
    /\ \A i \in 1..n : ~NotNull(cells[i].val) => cells[i].val = Null

\* The elements taken are as many as there are bits set.
LEMMA TakenAll ==
    ASSUME NEW n \in Nat, NEW mask \in [1..n -> BOOLEAN],
           \A i \in 1..n : mask[i], NEW items
    PROVE  \A i \in 1..n : Masked(mask, items)[i] = items[i]
<1>1. ASSUME NEW i \in 1..n
      PROVE  SetBitsTo(mask, i) = i
  <2>1. {j \in 1..i : mask[j]} = 1..i
    OBVIOUS
  <2>2. Cardinality(1..i) = i
    BY FS_Interval
  <2>3. QED
    BY <2>1, <2>2 DEF SetBitsTo
<1>2. QED
  BY <1>1, MaskedAt

\* Whatever null strategy a column takes, the cell of a row can be read from
\* its bitmap and the values that are left (column_null_strategy and
\* strip_nulls).
THEOREM ColumnReadsBack ==
    ASSUME NEW n \in Nat, NEW cells, CellsOK(cells, n), NEW field_id,
           NEW r \in 1..n
    PROVE  CellAt(Column(field_id, cells), r) = cells[r].val
<1> DEFINE bits  == [i \in DOMAIN cells |-> cells[i].present]
           vals  == [i \in DOMAIN cells |-> cells[i].val]
           kept  == [i \in DOMAIN cells |-> NotNull(cells[i].val)]
           nulls == {i \in DOMAIN cells : IsNull(cells[i].val)}
           col   == Column(field_id, cells)
           inverse == [i \in DOMAIN bits |-> ~bits[i]]
<1>1. /\ DOMAIN cells = 1..n /\ Len(cells) = n
      /\ bits = kept /\ kept \in [1..n -> BOOLEAN]
      /\ \A i \in 1..n : kept[i] <=> cells[i].val.kind # "Null"
  <2>1. DOMAIN cells = 1..n /\ Len(cells) = n
    BY DEF CellsOK
  <2>2. \A i \in 1..n : cells[i].present = NotNull(cells[i].val)
    BY Zenon DEF CellsOK
  <2>3. bits = kept
    BY <2>1, <2>2, Zenon
  <2>4. \A i \in 1..n : kept[i] = NotNull(cells[i].val)
    BY <2>1
  <2>5. \A i \in 1..n : NotNull(cells[i].val) \in BOOLEAN
    BY DEF NotNull
  <2>6. kept \in [1..n -> BOOLEAN]
    BY <2>1, <2>5
  <2>7. \A i \in 1..n : kept[i] <=> cells[i].val.kind # "Null"
    BY <2>4 DEF NotNull
  <2> HIDE DEF bits, kept
  <2>8. QED
    BY <2>1, <2>3, <2>6, <2>7
<1>2. col.values = Masked(kept, vals)
  BY DEF Column, strip_nulls
<1>3. /\ col.null_strategy = column_null_strategy(cells).strategy
      /\ col.presence = column_null_strategy(cells).presence
  BY DEF Column
<1>4. \/ /\ Cardinality(nulls) = 0 /\ col.null_strategy = "AllPresentElided"
      \/ /\ col.null_strategy = "InvertedPresenceBitmap" /\ col.presence = inverse
      \/ /\ col.null_strategy = "PresenceBitmap" /\ col.presence = bits
  BY <1>1, <1>3 DEF column_null_strategy
<1> SUFFICES CellAt(col, r) = cells[r].val
  OBVIOUS
<1> HIDE DEF col
<1>5. CASE Cardinality(nulls) = 0 /\ col.null_strategy = "AllPresentElided"
  <2>1. nulls = {}
    <3>1. IsFiniteSet(1..n) /\ nulls \in SUBSET (1..n)
      BY <1>1, FS_Interval
    <3>2. IsFiniteSet(nulls)
      BY <3>1, FS_Subset
    <3> HIDE DEF nulls
    <3>3. QED
      BY <1>5, <3>2, FS_EmptySet
  <2>2. \A i \in 1..n : kept[i]
    BY <1>1, <2>1 DEF IsNull
  <2>3. Masked(kept, vals)[r] = vals[r]
    <3> HIDE DEF kept, vals
    <3>1. QED
      BY <1>1, <2>2, TakenAll
  <2>4. QED
    BY <1>1, <1>2, <1>5, <2>3 DEF CellAt
<1>6. CASE \/ col.null_strategy = "InvertedPresenceBitmap" /\ col.presence = inverse
           \/ col.null_strategy = "PresenceBitmap" /\ col.presence = bits
  <2> DEFINE here == IF col.null_strategy = "PresenceBitmap" THEN col.presence
                     ELSE [i \in DOMAIN col.presence |-> ~col.presence[i]]
  <2>1. here = kept
    BY <1>1, <1>6
  <2>2. CellAt(col, r) = IF here[r] THEN col.values[Cardinality({i \in 1..r : here[i]})]
                         ELSE Null
    BY <1>6 DEF CellAt
  <2>3. kept[r] => Masked(kept, vals)[SetBitsTo(kept, r)] = vals[r]
    <3> HIDE DEF kept, vals
    <3>1. QED
      BY <1>1, MaskedAt
  <2>4. ~kept[r] => cells[r].val = Null
    BY <1>1 DEF CellsOK, NotNull
  <2>5. vals[r] = cells[r].val
    BY <1>1
  <2> HIDE DEF here, kept, vals
  <2>6. QED
    BY <1>2, <2>1, <2>2, <2>3, <2>4, <2>5 DEF SetBitsTo
<1>7. QED
  BY <1>4, <1>5, <1>6

\* Parts of one element each make the sequence of these.
LEMMA FlattenSingles ==
    ASSUME NEW n \in Nat, NEW x
    PROVE  FlattenSeq([r \in 1..n |-> << x[r] >>]) = [r \in 1..n |-> x[r]]
<1> DEFINE S    == {x[r] : r \in 1..n}
           seqs == [r \in 1..n |-> << x[r] >>]
<1>1. seqs \in Seq(Seq(S)) /\ Len(seqs) = n /\ \A i \in 1..n : seqs[i] = << x[i] >>
  <2>1. \A r \in 1..n : << x[r] >> \in Seq(S)
    OBVIOUS
  <2>2. seqs \in [1..n -> Seq(S)]
    BY <2>1
  <2> HIDE DEF S
  <2>3. QED
    BY <2>2
<1> HIDE DEF seqs
<1>2. PICK f : Flattening(f, S, seqs) /\ FlattenSeq(seqs) = f[n]
  BY <1>1, FlattenSteps
<1>3. /\ f[0] = << >>
      /\ \A i \in 1..n : f[i] = f[i - 1] \o << x[i] >>
  BY <1>1, <1>2 DEF Flattening
<1> DEFINE T == {i \in 0..n : f[i] = [k \in 1..i |-> x[k]]}
<1>4. 0 \in T
  <2>1. [k \in 1..0 |-> x[k]] = << >>
    OBVIOUS
  <2>2. QED
    BY <1>3, <2>1
<1>5. ASSUME NEW i \in 1..n, i - 1 \in T
      PROVE  i \in T
  <2>1. PICK m \in Nat : m = i - 1
    OBVIOUS
  <2>2. [k \in 1..m |-> x[k]] \o << x[i] >> = [k \in 1..i |-> x[k]]
    BY <2>1
  <2>3. f[m] = [k \in 1..m |-> x[k]] /\ f[i] = f[m] \o << x[i] >>
    BY <1>3, <1>5, <2>1
  <2>4. f[i] = [k \in 1..i |-> x[k]]
    BY <2>2, <2>3, Zenon
  <2>5. QED
    BY <2>4
<1>6. 0..n \subseteq T
  <2> HIDE DEF T
  <2>1. QED
    BY <1>4, <1>5, UpTo
<1>7. QED
  BY <1>2, <1>6 DEF seqs

\* The cell a map has for a key.
CellOf(map, key) == IF \E e \in Range(map.fields) : e.key = key
                    THEN Present(FieldOf(map, key)) ELSE Missing

\* A map without a repeated key gives every column one cell.
LEMMA OneCell ==
    ASSUME NEW row, row.fields \in Seq(Range(row.fields)),
           IsInjective(KeysOf(row)), NEW key
    PROVE  CellsOfKey(row, key) = << CellOf(row, key) >>
<1> DEFINE here  == [i \in DOMAIN row.fields |-> row.fields[i].key = key]
           items == [i \in DOMAIN here |-> Present(row.fields[i].val)]
<1>1. PICK n \in Nat : n = Len(row.fields) /\ DOMAIN row.fields = 1..n
  BY LenProperties
<1>2. /\ here \in [1..n -> BOOLEAN]
      /\ \A i \in 1..n : here[i] <=> row.fields[i].key = key
  BY <1>1
<1>3. CellsOfKey(row, key) = IF \A i \in DOMAIN here : ~here[i] THEN << Missing >>
                             ELSE Masked(here, items)
  BY DEF CellsOfKey
<1>4. CASE \A i \in 1..n : row.fields[i].key # key
  <2>1. ~ \E e \in Range(row.fields) : e.key = key
    BY <1>1, <1>4 DEF Range
  <2>2. CellOf(row, key) = Missing
    BY <2>1 DEF CellOf
  <2>3. \A i \in DOMAIN here : ~here[i]
    BY <1>2, <1>4
  <2> HIDE DEF here, items
  <2>4. QED
    BY <1>3, <2>2, <2>3
<1>5. ASSUME NEW k \in 1..n, row.fields[k].key = key
      PROVE  CellsOfKey(row, key) = << CellOf(row, key) >>
  <2>1. \A i \in 1..n : row.fields[i].key = key => i = k
    <3>1. \A i \in 1..n : KeysOf(row)[i] = row.fields[i].key
      BY <1>1 DEF KeysOf
    <3>2. DOMAIN KeysOf(row) = 1..n
      BY <1>1 DEF KeysOf
    <3>3. QED
      BY <1>5, <3>1, <3>2 DEF IsInjective
  <2>2. CellOf(row, key) = Present(row.fields[k].val)
    <3>1. \A e \in Range(row.fields) : e.key = key => e = row.fields[k]
      BY <1>1, <2>1 DEF Range
    <3>2. row.fields[k] \in Range(row.fields)
      BY <1>1, <1>5 DEF Range
    <3>3. (CHOOSE e \in Range(row.fields) : e.key = key) = row.fields[k]
      BY <1>5, <3>1, <3>2
    <3>4. QED
      BY <1>5, <3>2, <3>3 DEF CellOf, FieldOf
  <2>3. \A i \in 1..n : here[i] <=> i = k
    BY <1>2, <1>5, <2>1
  <2>4. Len(here) = n
    <3> HIDE DEF here
    <3>1. here \in Seq(BOOLEAN)
      BY <1>2
    <3>2. QED
      BY <1>2, <3>1, LenProperties
  <2>5. items[k] = Present(row.fields[k].val)
    BY <1>1
  <2>6. ~ \A i \in DOMAIN here : ~here[i]
    BY <1>2, <2>3
  <2> HIDE DEF here, items
  <2>7. SetBitsTo(here, k) = 1 /\ SetBitsTo(here, n) = 1
    <3>1. {j \in 1..k : here[j]} = {k} /\ {j \in 1..n : here[j]} = {k}
      BY <2>3
    <3>2. Cardinality({k}) = 1
      BY FS_Singleton
    <3>3. QED
      BY <3>1, <3>2 DEF SetBitsTo
  <2>8. Masked(here, items)[1] = items[k]
    BY <1>2, <2>3, <2>7, MaskedAt
  <2>9. DOMAIN Masked(here, items) = 1..1
    BY <2>4, <2>7 DEF Masked
  <2>10. Masked(here, items) = [i \in DOMAIN Masked(here, items) |->
                                  Masked(here, items)[i]]
    BY DEF Masked
  <2>11. PICK v : v = Masked(here, items)[1]
    OBVIOUS
  <2>12. PICK m : m = Masked(here, items)
    OBVIOUS
  <2>13. m = [i \in 1..1 |-> v]
    BY <2>9, <2>10, <2>11, <2>12
  <2>14. m = << v >>
    BY <2>13
  <2>15. QED
    BY <1>3, <2>2, <2>5, <2>6, <2>8, <2>11, <2>12, <2>14
<1>6. QED
  BY <1>4, <1>5

\* The column of a key, when no map repeats one or holds a null.
LEMMA MapCells ==
    ASSUME NEW n \in Nat, NEW values, DOMAIN values = 1..n, NEW key,
           \A r \in 1..n :
               /\ values[r].fields \in Seq(Range(values[r].fields))
               /\ IsInjective(KeysOf(values[r]))
               /\ \A i \in DOMAIN values[r].fields : NotNull(values[r].fields[i].val)
    PROVE  LET cells == FlattenSeq([r \in DOMAIN values |-> CellsOfKey(values[r], key)])
           IN  /\ CellsOK(cells, n)
               /\ \A r \in 1..n : cells[r].val = FieldOf(values[r], key)
<1> DEFINE x == [r \in 1..n |-> CellOf(values[r], key)]
<1>1. [r \in DOMAIN values |-> CellsOfKey(values[r], key)] = [r \in 1..n |-> << x[r] >>]
  BY OneCell
<1>2. FlattenSeq([r \in DOMAIN values |-> CellsOfKey(values[r], key)]) = x
  <2>1. x = [r \in 1..n |-> x[r]]
    OBVIOUS
  <2> HIDE DEF x
  <2>2. QED
    BY <1>1, <2>1, FlattenSingles
<1>3. DOMAIN x = 1..n /\ Len(x) = n
  <2>1. x \in [1..n -> Range(x)]
    BY DEF Range
  <2>2. DOMAIN x = 1..n
    OBVIOUS
  <2> HIDE DEF x
  <2>3. x \in Seq(Range(x))
    BY <2>1
  <2>4. QED
    BY <2>2, <2>3, LenProperties
<1>4. ASSUME NEW r \in 1..n
      PROVE  /\ x[r].present = NotNull(x[r].val)
             /\ ~NotNull(x[r].val) => x[r].val = Null
             /\ x[r].val = FieldOf(values[r], key)
  <2>1. x[r] = CellOf(values[r], key)
    OBVIOUS
  <2>2. CASE \E e \in Range(values[r].fields) : e.key = key
    <3>1. \A e \in Range(values[r].fields) : NotNull(e.val)
      BY DEF Range
    <3>2. NotNull(FieldOf(values[r], key))
      BY <2>2, <3>1 DEF FieldOf
    <3>3. x[r].val = FieldOf(values[r], key) /\ x[r].present = TRUE
      BY <2>1, <2>2 DEF CellOf, Present
    <3>4. QED
      BY <3>2, <3>3
  <2>3. CASE ~ \E e \in Range(values[r].fields) : e.key = key
    <3>1. x[r].val = Null /\ x[r].present = FALSE
      BY <2>1, <2>3 DEF CellOf, Missing
    <3>2. FieldOf(values[r], key) = Null
      BY <2>3 DEF FieldOf
    <3>3. NotNull(Null) = FALSE
      BY DEF NotNull, Null, Scalar
    <3> HIDE DEF x
    <3>4. QED
      BY <3>1, <3>2, <3>3
  <2>4. QED
    BY <2>2, <2>3
<1> HIDE DEF x
<1>5. CellsOK(x, n)
  BY <1>3, <1>4, Zenon DEF CellsOK
<1>6. QED
  BY <1>2, <1>4, <1>5

\* The column at a place of the rows.
LEMMA RowCells ==
    ASSUME NEW n \in Nat, NEW rows, DOMAIN rows = 1..n, NEW c \in Nat, c > 0,
           \A r \in 1..n : /\ rows[r] \in Seq(Range(rows[r]))
                           /\ \A i \in DOMAIN rows[r] :
                                 IsNull(rows[r][i]) => rows[r][i] = Null
    PROVE  LET cells == [r \in DOMAIN rows |->
                            IF c <= Len(rows[r]) /\ NotNull(rows[r][c])
                            THEN Present(rows[r][c]) ELSE Missing]
           IN  /\ CellsOK(cells, n)
               /\ \A r \in 1..n : cells[r].val = ElementOf(rows[r], c)
<1> DEFINE x == [r \in DOMAIN rows |->
                    IF c <= Len(rows[r]) /\ NotNull(rows[r][c])
                    THEN Present(rows[r][c]) ELSE Missing]
<1>1. DOMAIN x = 1..n /\ Len(x) = n
  <2>1. x \in [1..n -> Range(x)]
    BY DEF Range
  <2>2. DOMAIN x = 1..n
    OBVIOUS
  <2> HIDE DEF x
  <2>3. x \in Seq(Range(x))
    BY <2>1
  <2>4. QED
    BY <2>2, <2>3, LenProperties
<1>2. ASSUME NEW r \in 1..n
      PROVE  /\ x[r].present = NotNull(x[r].val)
             /\ ~NotNull(x[r].val) => x[r].val = Null
             /\ x[r].val = ElementOf(rows[r], c)
  <2>1. CASE c <= Len(rows[r]) /\ NotNull(rows[r][c])
    <3>1. x[r].val = rows[r][c] /\ x[r].present = TRUE
      BY <2>1 DEF Present
    <3>2. ElementOf(rows[r], c) = rows[r][c]
      BY <2>1 DEF ElementOf
    <3> HIDE DEF x
    <3>3. QED
      BY <2>1, <3>1, <3>2
  <2>2. CASE ~(c <= Len(rows[r]) /\ NotNull(rows[r][c]))
    <3>1. x[r].val = Null /\ x[r].present = FALSE
      BY <2>2 DEF Missing
    <3>2. ElementOf(rows[r], c) = Null
      <4>1. c <= Len(rows[r]) => c \in DOMAIN rows[r]
        BY LenProperties
      <4>2. c <= Len(rows[r]) => rows[r][c] = Null
        BY <2>2, <4>1 DEF NotNull, IsNull
      <4>3. QED
        BY <4>2 DEF ElementOf
    <3>3. NotNull(Null) = FALSE
      BY DEF NotNull, Null, Scalar
    <3> HIDE DEF x
    <3>4. QED
      BY <3>1, <3>2, <3>3
  <2>3. QED
    BY <2>1, <2>2
<1> HIDE DEF x
<1>3. CellsOK(x, n)
  BY <1>1, <1>2, Zenon DEF CellsOK
<1>4. QED
  BY <1>2, <1>3 DEF x

\* The keys of maps, in the order they are first seen, are a sequence.
LEMMA KeysInOrder ==
    ASSUME NEW values, values \in Seq(Range(values)),
           \A r \in DOMAIN values :
               values[r].fields \in Seq(Range(values[r].fields))
    PROVE  \E S : key_order(values) \in Seq(S)
<1> DEFINE S == UNION {Range(KeysOf(values[r])) : r \in DOMAIN values}
<1>1. \A r \in DOMAIN values : KeysOf(values[r]) \in Seq(S)
  <2>1. SUFFICES ASSUME NEW r \in DOMAIN values
                 PROVE  KeysOf(values[r]) \in Seq(S)
    OBVIOUS
  <2>2. PICK n \in Nat : n = Len(values[r].fields) /\ DOMAIN values[r].fields = 1..n
    BY LenProperties
  <2>3. KeysOf(values[r]) \in [1..n -> Range(KeysOf(values[r]))]
    BY <2>2 DEF KeysOf, Range
  <2>4. Range(KeysOf(values[r])) \subseteq S
    OBVIOUS
  <2> HIDE DEF S
  <2>5. QED
    BY <2>3, <2>4
<1> HIDE DEF S
<1>2. key_order(values) \in Seq(S)
  BY <1>1, KeyOrder
<1>3. QED
  BY <1>2

\* The columns of a batch of maps with keys, and of any other batch.
LEMMA ColumnsMade ==
    ASSUME NEW values, values \in Seq(Range(values)), values # << >>,
           \A r \in DOMAIN values :
               values[r].fields \in Seq(Range(values[r].fields))
    PROVE  LET keys == key_order(values)
               rows == rows_from_values(values)
           IN  BatchColumns(values) =
                   IF AllMaps(values) /\ keys # << >>
                   THEN [k \in DOMAIN keys |->
                            Column(k - 1, FlattenSeq([r \in DOMAIN values |->
                                              CellsOfKey(values[r], keys[k])]))]
                   ELSE [c \in 1..Max({Len(rows[r]) : r \in DOMAIN rows}) |->
                            Column(c - 1, [r \in DOMAIN rows |->
                                IF c <= Len(rows[r]) /\ NotNull(rows[r][c])
                                THEN Present(rows[r][c]) ELSE Missing])]
<1> DEFINE keys == key_order(values)
           rows == rows_from_values(values)
           made == [k \in DOMAIN keys |->
                       Column(k - 1, FlattenSeq([r \in DOMAIN values |->
                                         CellsOfKey(values[r], keys[k])]))]
<1>1. columns_from_map_values(values) = IF AllMaps(values) THEN made ELSE << >>
  BY DEF columns_from_map_values
<1>2. rows # << >>
  <2>1. DOMAIN rows = 1..Len(values) /\ Len(values) \in Nat /\ Len(values) # 0
    BY LenProperties, EmptySeq DEF rows_from_values
  <2>2. 1 \in DOMAIN rows /\ DOMAIN << >> = {}
    BY <2>1
  <2> HIDE DEF rows
  <2>3. QED
    BY <2>2
<1>3. keys = << >> => made = << >>
  <2>1. keys = << >> => DOMAIN keys = {}
    OBVIOUS
  <2>2. keys = << >> => made = [k \in {} |-> made[k]]
    BY <2>1
  <2> HIDE DEF made
  <2>3. [k \in {} |-> made[k]] = << >>
    OBVIOUS
  <2>4. QED
    BY <2>2, <2>3
<1>4. keys # << >> => made # << >>
  <2>1. PICK S : keys \in Seq(S)
    BY KeysInOrder
  <2>2. DOMAIN made = DOMAIN keys
    OBVIOUS
  <2> HIDE DEF made, keys
  <2>3. keys # << >> => 1 \in DOMAIN keys
    BY <2>1, LenProperties, EmptySeq
  <2>4. DOMAIN << >> = {}
    OBVIOUS
  <2>5. QED
    BY <2>2, <2>3, <2>4
<1>5. CASE AllMaps(values) /\ keys # << >>
  <2>1. BatchColumns(values) = made
    <3> HIDE DEF made, keys
    <3>1. QED
      BY <1>1, <1>4, <1>5 DEF BatchColumns
  <2>2. QED
    BY <1>5, <2>1
<1>6. CASE ~(AllMaps(values) /\ keys # << >>)
  <2>1. BatchColumns(values) = rows_to_columns(rows)
    <3> HIDE DEF made, keys
    <3>1. QED
      BY <1>1, <1>3, <1>6 DEF BatchColumns
  <2>2. QED
    BY <1>2, <1>6, <2>1 DEF rows_to_columns
<1>7. QED
  BY <1>5, <1>6

\* Each cell of the columns of a batch is the one of its row.
LEMMA BatchReads ==
    ASSUME NEW values \in Batches \cup MicroBatches, values # << >>,
           Readable(values),
           NEW c \in DOMAIN BatchColumns(values), NEW r \in 1..Len(values)
    PROVE  CellAt(BatchColumns(values)[c], r)
               = CellSent(values, key_order(values), r, c)
<1> DEFINE keys == key_order(values)
           rows == rows_from_values(values)
<1>1. /\ values \in Seq(Range(values))
      /\ \A i \in DOMAIN values : values[i].fields \in Seq(Range(values[i].fields))
  BY RowsAreSequences
<1>2. PICK n \in Nat : n = Len(values) /\ DOMAIN values = 1..n
  BY <1>1, LenProperties
<1>3. CASE AllMaps(values) /\ keys # << >>
  <2> DEFINE cells == FlattenSeq([i \in DOMAIN values |-> CellsOfKey(values[i], keys[c])])
  <2>1. BatchColumns(values)
            = [k \in DOMAIN keys |->
                  Column(k - 1, FlattenSeq([i \in DOMAIN values |->
                                    CellsOfKey(values[i], keys[k])]))]
    BY <1>1, <1>3, ColumnsMade
  <2>2. BatchColumns(values)[c] = Column(c - 1, cells)
    BY <2>1
  <2>3. \A i \in 1..n : /\ IsInjective(KeysOf(values[i]))
                        /\ \A j \in DOMAIN values[i].fields :
                              NotNull(values[i].fields[j].val)
    BY <1>2, <1>3 DEF Readable
  <2>4. CellsOK(cells, n) /\ cells[r].val = FieldOf(values[r], keys[c])
    <3>1. PICK key : key = keys[c]
      OBVIOUS
    <3>2. \A i \in 1..n :
             /\ values[i].fields \in Seq(Range(values[i].fields))
             /\ IsInjective(KeysOf(values[i]))
             /\ \A j \in DOMAIN values[i].fields : NotNull(values[i].fields[j].val)
      BY <1>1, <1>2, <2>3
    <3>3. LET found == FlattenSeq([i \in DOMAIN values |-> CellsOfKey(values[i], key)])
          IN  /\ CellsOK(found, n)
              /\ \A i \in 1..n : found[i].val = FieldOf(values[i], key)
      BY <1>2, <3>2, MapCells, ZenonT(60)
    <3> HIDE DEF keys
    <3>4. QED
      BY <1>2, <3>1, <3>3
  <2> HIDE DEF cells, keys
  <2>5. CellAt(Column(c - 1, cells), r) = cells[r].val
    BY <1>2, <2>4, ColumnReadsBack
  <2>6. QED
    BY <1>3, <2>2, <2>4, <2>5 DEF CellSent, keys
<1>4. CASE ~(AllMaps(values) /\ keys # << >>)
  <2> DEFINE cells == [i \in DOMAIN rows |->
                          IF c <= Len(rows[i]) /\ NotNull(rows[i][c])
                          THEN Present(rows[i][c]) ELSE Missing]
  <2>1. BatchColumns(values)
            = [k \in 1..Max({Len(rows[i]) : i \in DOMAIN rows}) |->
                  Column(k - 1, [i \in DOMAIN rows |->
                      IF k <= Len(rows[i]) /\ NotNull(rows[i][k])
                      THEN Present(rows[i][k]) ELSE Missing])]
    BY <1>1, <1>4, ColumnsMade
  <2>2. c \in Nat /\ c > 0 /\ BatchColumns(values)[c] = Column(c - 1, cells)
    BY <2>1
  <2>3. DOMAIN rows = 1..n
    BY <1>2 DEF rows_from_values
  <2>4. ASSUME NEW i \in 1..n
        PROVE  /\ rows[i] \in Seq(Range(rows[i]))
               /\ \A j \in DOMAIN rows[i] : IsNull(rows[i][j]) => rows[i][j] = Null
    <3>1. \A j \in DOMAIN rows[i] : IsNull(rows[i][j]) => rows[i][j] = Null
      BY <1>2, OneNull
    <3>2. rows[i] = IF values[i].kind = "Array" THEN values[i].fields ELSE << values[i] >>
      BY <1>2 DEF rows_from_values
    <3>3. values[i].fields \in Seq(Range(values[i].fields))
      BY <1>1, <1>2
    <3>4. \A v : << v >> \in Seq(Range(<< v >>))
      <4>1. ASSUME NEW v PROVE << v >> \in Seq(Range(<< v >>))
        <5>1. << v >> \in [1..1 -> Range(<< v >>)]
          BY DEF Range
        <5>2. QED
          BY <5>1
      <4>2. QED
        BY <4>1
    <3> HIDE DEF rows
    <3>5. QED
      BY <3>1, <3>2, <3>3, <3>4
  <2>5. CellsOK(cells, n) /\ cells[r].val = ElementOf(rows[r], c)
    <3> HIDE DEF rows
    <3>1. QED
      BY <1>2, <2>2, <2>3, <2>4, RowCells, ZenonT(60)
  <2> HIDE DEF cells
  <2>6. CellAt(Column(c - 1, cells), r) = cells[r].val
    BY <1>2, <2>5, ColumnReadsBack
  <2> HIDE DEF keys
  <2>7. QED
    BY <1>4, <2>2, <2>5, <2>6 DEF CellSent, keys
<1>5. QED
  BY <1>3, <1>4

\* A column batch in the log is made of a batch of sixteen values or more.
ColumnsSent ==
    \A i \in 1..Len(log) : log[i].msg.kind = "ColumnBatch" =>
        /\ log[i].values \in Batches \cup MicroBatches
        /\ log[i].values # << >>
        /\ log[i].msg = ColumnBatch(Len(log[i].values), BatchColumns(log[i].values))

\* Every step keeps it: a batch is logged with its values.
LEMMA ColumnsSentInductive == TInv /\ ColumnsSent /\ [Next]_vars => ColumnsSent'
<1> SUFFICES ASSUME TInv, ColumnsSent, [Next]_vars PROVE ColumnsSent'
  OBVIOUS
<1>1. log \in Seq(Range(log)) /\ Len(log) \in Nat /\ DOMAIN log = 1..Len(log)
  BY LenProperties DEF TInv, Shape
<1>2. \A i \in 1..Len(log) : DOMAIN log[i] = EntryFields
  BY DEF TInv, Shape
<1>3. ASSUME NEW p, NEW values, NEW state, NEW msg, Send(p, values, state, msg),
             msg.kind = "ColumnBatch" =>
                 /\ values \in Batches \cup MicroBatches
                 /\ values # << >>
                 /\ msg = ColumnBatch(Len(values), BatchColumns(values))
      PROVE  ColumnsSent'
  <2> DEFINE e == [from |-> p, values |-> values, msg |-> msg, fate |-> "sent",
                   templates |-> state.template_columns]
  <2>1. Longer(log, log', e)
    BY <1>1, <1>3, Appended DEF Send
  <2>2. e.values = values /\ e.msg = msg
    OBVIOUS
  <2> HIDE DEF e
  <2>3. /\ Len(log') = Len(log) + 1 /\ log'[Len(log) + 1] = e
        /\ \A i \in 1..Len(log) : log'[i] = log[i]
    BY <1>1, <2>1 DEF Longer
  <2>4. ASSUME NEW i \in 1..Len(log'), log'[i].msg.kind = "ColumnBatch"
        PROVE  /\ log'[i].values \in Batches \cup MicroBatches
               /\ log'[i].values # << >>
               /\ log'[i].msg = ColumnBatch(Len(log'[i].values),
                                            BatchColumns(log'[i].values))
    <3>1. CASE i = Len(log) + 1
      BY <1>3, <2>2, <2>3, <2>4, <3>1
    <3>2. CASE i # Len(log) + 1
      <4>1. i \in 1..Len(log) /\ log'[i] = log[i]
        BY <1>1, <2>3, <3>2
      <4>2. QED
        BY <2>4, <4>1 DEF ColumnsSent
    <3>3. QED
      BY <3>1, <3>2
  <2>5. QED
    BY <2>4 DEF ColumnsSent
<1>4. ASSUME NEW values \in Batches \cup MicroBatches, batch_message(values).kind = "ColumnBatch"
      PROVE  /\ values # << >>
             /\ batch_message(values) = ColumnBatch(Len(values), BatchColumns(values))
  <2>1. Len(values) >= 16
    BY <1>4 DEF batch_message, RowBatch
  <2>2. Len(<< >>) = 0
    OBVIOUS
  <2>3. QED
    BY <2>1, <2>2 DEF batch_message
<1>5. ASSUME NEW p \in Peers, NEW values \in Batches, encode_batch(p, values)
      PROVE  ColumnsSent'
  BY <1>3, <1>4, <1>5 DEF encode_batch
<1>6. ASSUME NEW p \in Peers, NEW values \in MicroBatches,
             encode_micro_batch(p, values)
      PROVE  ColumnsSent'
  <2>1. template_message(session[p], values).kind = "TemplateBatch"
    BY DEF template_message, TemplateBatch
  <2>2. QED
    BY <1>3, <1>4, <1>6, <2>1 DEF encode_micro_batch
<1>7. ASSUME NEW fate, UnderWay # {}, log' = [log EXCEPT ![pos + 1].fate = fate]
      PROVE  ColumnsSent'
  <2>1. PICK k \in 1..Len(log) : k = pos + 1
    BY <1>1, <1>7 DEF UnderWay, TInv, Shape
  <2>2. Judged(log, log', k, fate)
    BY <1>1, <1>2, <1>7, <2>1, FateSet
  <2>3. \A i \in 1..Len(log) : log'[i].values = log[i].values
    BY <1>1, <1>2, <1>7, <2>1 DEF EntryFields
  <2>4. QED
    BY <2>2, <2>3 DEF ColumnsSent, Judged
<1>8. CASE Decode
  BY <1>7, <1>8 DEF Decode
<1>9. CASE Lose
  BY <1>7, <1>9 DEF Lose
<1>10. CASE DecodeAgain \/ DecodeOwn \/ (\E p \in Peers : reset(p)) \/ UNCHANGED vars
  <2>1. log' = log
    BY <1>10 DEF DecodeAgain, DecodeOwn, reset, vars
  <2>2. QED
    BY <2>1 DEF ColumnsSent
<1>11. CASE reset_both
  BY <1>11 DEF reset_both, ColumnsSent
<1>12. QED
  BY <1>5, <1>6, <1>8, <1>9, <1>10, <1>11 DEF Next

\* Every row of a column batch can be read back from its columns, whichever
\* null strategy each took (columns_from_map_values, rows_to_columns,
\* column_null_strategy).
THEOREM CellsRead == Spec => []CellsReadable
<1>1. Init => ColumnsSent
  BY DEF Init, ColumnsSent
<1>2. TInv /\ ColumnsSent => CellsReadable
  <2> SUFFICES ASSUME TInv, ColumnsSent, NEW i \in DOMAIN log,
                      log[i].msg.kind = "ColumnBatch", Readable(log[i].values),
                      NEW c \in DOMAIN log[i].msg.columns,
                      NEW r \in 1..log[i].msg.count
               PROVE  CellAt(log[i].msg.columns[c], r)
                          = CellSent(log[i].values, key_order(log[i].values), r, c)
    BY DEF CellsReadable
  <2>1. i \in 1..Len(log)
    BY LenProperties DEF TInv, Shape
  <2>2. PICK values \in Batches \cup MicroBatches :
          /\ values = log[i].values /\ values # << >>
          /\ log[i].msg = ColumnBatch(Len(values), BatchColumns(values))
    BY <2>1 DEF ColumnsSent
  <2>3. log[i].msg.columns = BatchColumns(values) /\ log[i].msg.count = Len(values)
    BY <2>2 DEF ColumnBatch
  <2>4. CellAt(BatchColumns(values)[c], r) = CellSent(values, key_order(values), r, c)
    BY <2>2, <2>3, BatchReads
  <2>5. QED
    BY <2>2, <2>3, <2>4
<1>3. QED
  BY <1>1, <1>2, NewKeeps, TemplatesInductive, ColumnsSentInductive, PTL DEF Spec
=============================================================================
