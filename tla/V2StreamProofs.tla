--------------------------- MODULE V2StreamProofs ---------------------------
(***************************************************************************)
(* Proofs about V2Stream, for documents of any depth over any keys and     *)
(* strings: each key and string of a document travels as a literal once,   *)
(* no frame of the reader ever holds more than it asked for, and, if no    *)
(* key is longer than 31 bytes, both sides number alike and the document   *)
(* comes back.                                                             *)
(***************************************************************************)
EXTENDS V2Stream, Induction

-----------------------------------------------------------------------------
(* Values. *)

LevelOver(f, d) ==
    IF d = 0 THEN Scalars ELSE Scalars \cup Containers(f[d - 1])

LevelsUpTo(f, m) == f = [d \in 0..m |-> LevelOver(f, d)]

\* The levels of values are those the recursion describes.
LEMMA LevelSteps ==
    /\ Level[0] = Scalars
    /\ \A d \in 1..Depth : Level[d] = Scalars \cup Containers(Level[d - 1])
<1> DEFINE T == {m \in 0..Depth : \E f : LevelsUpTo(f, m)}
<1>1. 0 \in T
  <2> DEFINE f == [d \in 0..0 |-> Scalars]
  <2>1. LevelsUpTo(f, 0)
    BY DEF LevelsUpTo, LevelOver
  <2> HIDE DEF f
  <2>2. QED
    BY <2>1, DepthAssumption
<1>2. ASSUME NEW m \in 1..Depth, m - 1 \in T
      PROVE  m \in T
  <2>1. PICK f : LevelsUpTo(f, m - 1)
    BY <1>2
  <2> DEFINE g == [d \in 0..m |-> LevelOver(f, d)]
  <2>2. \A d \in 0..(m - 1) : g[d] = f[d]
    <3>1. \A d \in 0..(m - 1) : f[d] = LevelOver(f, d)
      BY <2>1 DEF LevelsUpTo
    <3>2. QED
      BY <3>1
  <2>3. \A d \in 0..m : LevelOver(g, d) = LevelOver(f, d)
    <3>1. \A d \in 0..m : d # 0 => g[d - 1] = f[d - 1]
      BY <2>2
    <3> HIDE DEF g
    <3>2. QED
      BY <3>1 DEF LevelOver
  <2>4. LevelsUpTo(g, m)
    <3>1. \A d \in 0..m : g[d] = LevelOver(f, d)
      OBVIOUS
    <3>2. g = [d \in 0..m |-> g[d]]
      OBVIOUS
    <3> HIDE DEF g
    <3>3. QED
      BY <2>3, <3>1, <3>2 DEF LevelsUpTo
  <2> HIDE DEF g
  <2>5. QED
    BY <2>4
<1>3. 0..Depth \subseteq T
  <2> HIDE DEF T
  <2>1. QED
    BY <1>1, <1>2, UpTo, DepthAssumption
<1>4. \E f : LevelsUpTo(f, Depth)
  BY <1>3, DepthAssumption
<1>5. Level = CHOOSE f : LevelsUpTo(f, Depth)
  BY DEF Level, LevelsUpTo, LevelOver
<1>6. LevelsUpTo(Level, Depth)
  BY <1>4, <1>5
<1>7. \A d \in 0..Depth : Level[d] = LevelOver(Level, d)
  BY <1>6 DEF LevelsUpTo
<1>8. QED
  <2>1. 0 \in 0..Depth /\ \A d \in 1..Depth : d \in 0..Depth /\ d # 0
    BY DepthAssumption
  <2>2. QED
    BY <1>7, <2>1 DEF LevelOver

\* Maps and arrays over more values are more.
LEMMA ContainersGrow ==
    ASSUME NEW S, NEW T, S \subseteq T
    PROVE  Containers(S) \subseteq Containers(T)
<1>1. Seq([key : STRING, val : S]) \subseteq Seq([key : STRING, val : T])
  <2>1. [key : STRING, val : S] \subseteq [key : STRING, val : T]
    OBVIOUS
  <2>2. QED
    BY <2>1, SeqMonotonic
<1>2. Seq([key : {NoText}, val : S]) \subseteq Seq([key : {NoText}, val : T])
  <2>1. [key : {NoText}, val : S] \subseteq [key : {NoText}, val : T]
    OBVIOUS
  <2>2. QED
    BY <2>1, SeqMonotonic
<1>3. QED
  BY <1>1, <1>2 DEF Containers, ValuesOf

\* What is nested d - 1 deep at most is nested d deep at most.
LEMMA LevelsGrow == \A d \in 1..Depth : Level[d - 1] \subseteq Level[d]
<1> DEFINE T == {m \in 0..Depth : m # 0 => Level[m - 1] \subseteq Level[m]}
<1>1. 0 \in T
  BY DepthAssumption
<1>2. ASSUME NEW m \in 1..Depth, m - 1 \in T
      PROVE  m \in T
  <2>1. CASE m = 1
    BY <2>1, LevelSteps
  <2>2. CASE m # 1
    <3>1. Level[m - 2] \subseteq Level[m - 1]
      BY <1>2, <2>2
    <3>2. Containers(Level[m - 2]) \subseteq Containers(Level[m - 1])
      BY <3>1, ContainersGrow
    <3>3. m - 1 \in 1..Depth /\ (m - 1) - 1 = m - 2
      BY <2>2, DepthAssumption
    <3>4. Level[m - 1] = Scalars \cup Containers(Level[m - 2])
      BY <3>3, LevelSteps
    <3>5. Level[m] = Scalars \cup Containers(Level[m - 1])
      BY LevelSteps
    <3>6. QED
      BY <3>2, <3>4, <3>5
  <2>3. QED
    BY <2>1, <2>2
<1>3. 0..Depth \subseteq T
  <2> HIDE DEF T
  <2>1. QED
    BY <1>1, <1>2, UpTo, DepthAssumption
<1>4. QED
  BY <1>3

\* A value is a scalar, or a map or an array of values.
LEMMA ValueCases == Values \subseteq Scalars \cup Containers(Values)
<1>1. CASE Depth = 0
  BY <1>1, LevelSteps DEF Values
<1>2. CASE Depth # 0
  <2>1. Depth \in 1..Depth
    BY <1>2, DepthAssumption
  <2>2. /\ Level[Depth] = Scalars \cup Containers(Level[Depth - 1])
        /\ Level[Depth - 1] \subseteq Level[Depth]
    BY <2>1, LevelSteps, LevelsGrow
  <2>3. QED
    BY <2>2, ContainersGrow DEF Values
<1>3. QED
  BY <1>1, <1>2

\* The fields of a map or an array.
LEMMA ContainerFields ==
    ASSUME NEW S, NEW v \in Containers(S)
    PROVE  /\ v.kind \in {"Map", "Array"}
           /\ v = [kind |-> v.kind, num |-> 0, str |-> NoText, fields |-> v.fields]
           /\ Len(v.fields) \in Nat /\ DOMAIN v.fields = 1..Len(v.fields)
           /\ \A i \in 1..Len(v.fields) :
                 /\ v.fields[i] = Entry(v.fields[i].key, v.fields[i].val)
                 /\ v.fields[i].val \in S
                 /\ v.kind = "Map"   => v.fields[i].key \in STRING
                 /\ v.kind = "Array" => v.fields[i].key = NoText
<1>1. CASE v \in ValuesOf("Map", {0}, {NoText}, Seq([key : STRING, val : S]))
  <2>1. /\ v.fields \in Seq([key : STRING, val : S]) /\ v.kind = "Map"
        /\ v = [kind |-> v.kind, num |-> 0, str |-> NoText, fields |-> v.fields]
    BY <1>1 DEF ValuesOf
  <2>2. \A i \in 1..Len(v.fields) : v.fields[i] \in [key : STRING, val : S]
    BY <2>1, ElementOfSeq
  <2>3. QED
    BY <2>1, <2>2, LenProperties DEF Entry
<1>2. CASE v \in ValuesOf("Array", {0}, {NoText}, Seq([key : {NoText}, val : S]))
  <2>1. /\ v.fields \in Seq([key : {NoText}, val : S]) /\ v.kind = "Array"
        /\ v = [kind |-> v.kind, num |-> 0, str |-> NoText, fields |-> v.fields]
    BY <1>2 DEF ValuesOf
  <2>2. \A i \in 1..Len(v.fields) : v.fields[i] \in [key : {NoText}, val : S]
    BY <2>1, ElementOfSeq
  <2>3. ASSUME NEW e \in [key : {NoText}, val : S]
        PROVE  e = Entry(e.key, e.val) /\ e.key = NoText /\ e.val \in S
    <3>1. e.key \in {NoText} /\ e.val \in S
      OBVIOUS
    <3>2. QED
      BY <3>1 DEF Entry
  <2>4. Len(v.fields) \in Nat /\ DOMAIN v.fields = 1..Len(v.fields)
    BY <2>1, LenProperties
  <2>5. QED
    BY <2>1, <2>2, <2>3, <2>4
<1>3. QED
  BY <1>1, <1>2 DEF Containers

NormalOver(f, v) ==
    IF v.kind \in {"Map", "Array"}
    THEN [v EXCEPT !.fields =
             [i \in DOMAIN @ |-> Entry(@[i].key, f[@[i].val])]]
    ELSE Unsigned(v)

NormalUpTo(f, S) == f = [v \in S |-> NormalOver(f, v)]

\* Two functions that agree on the values in a value normalise it alike.
LEMMA NormalOverAlike ==
    ASSUME NEW S, NEW v \in Scalars \cup Containers(S), NEW f, NEW g,
           \A u \in S : f[u] = g[u]
    PROVE  NormalOver(f, v) = NormalOver(g, v)
<1>1. CASE v \in Scalars
  <2>1. v.kind \notin {"Map", "Array"}
    BY <1>1 DEF Scalars, ValuesOf
  <2>2. QED
    BY <2>1 DEF NormalOver
<1>2. CASE v \in Containers(S)
  <2>1. \A i \in DOMAIN v.fields : f[v.fields[i].val] = g[v.fields[i].val]
    BY <1>2, ContainerFields
  <2>2. [i \in DOMAIN v.fields |-> Entry(v.fields[i].key, f[v.fields[i].val])]
        = [i \in DOMAIN v.fields |-> Entry(v.fields[i].key, g[v.fields[i].val])]
    BY <2>1
  <2>3. QED
    BY <2>2 DEF NormalOver
<1>3. QED
  BY <1>1, <1>2

\* Normal is the function its recursion describes.
LEMMA NormalSteps == \A v \in Values : Normal[v] = NormalOver(Normal, v)
<1> DEFINE T == {m \in 0..Depth : \E f : NormalUpTo(f, Level[m])}
<1>1. 0 \in T
  <2> DEFINE f == [v \in Scalars |-> Unsigned(v)]
  <2>1. \A v \in Scalars : NormalOver(f, v) = Unsigned(v)
    <3>1. \A v \in Scalars : v.kind \notin {"Map", "Array"}
      BY DEF Scalars, ValuesOf
    <3>2. QED
      BY <3>1 DEF NormalOver
  <2>2. NormalUpTo(f, Scalars)
    <3>1. \A v \in Scalars : f[v] = NormalOver(f, v)
      BY <2>1
    <3>2. f = [v \in Scalars |-> f[v]]
      OBVIOUS
    <3> HIDE DEF f
    <3>3. QED
      BY <3>1, <3>2 DEF NormalUpTo
  <2>3. NormalUpTo(f, Level[0])
    BY <2>2, LevelSteps
  <2> HIDE DEF f
  <2>4. QED
    BY <2>3, DepthAssumption
<1>2. ASSUME NEW m \in 1..Depth, m - 1 \in T
      PROVE  m \in T
  <2>1. PICK f : NormalUpTo(f, Level[m - 1])
    BY <1>2
  <2>2. /\ Level[m] = Scalars \cup Containers(Level[m - 1])
        /\ Level[m - 1] \subseteq Level[m]
    BY LevelSteps, LevelsGrow
  <2> DEFINE g == [v \in Level[m] |-> NormalOver(f, v)]
  <2>3. \A u \in Level[m - 1] : g[u] = f[u]
    <3>1. \A u \in Level[m - 1] : f[u] = NormalOver(f, u)
      BY <2>1 DEF NormalUpTo
    <3>2. QED
      BY <2>2, <3>1
  <2>4. \A v \in Level[m] : g[v] = NormalOver(g, v)
    <3>1. \A v \in Level[m] : g[v] = NormalOver(f, v)
      OBVIOUS
    <3> HIDE DEF g
    <3>2. \A v \in Level[m] : NormalOver(g, v) = NormalOver(f, v)
      BY <2>2, <2>3, NormalOverAlike
    <3>3. QED
      BY <3>1, <3>2
  <2>5. NormalUpTo(g, Level[m])
    <3>1. g = [v \in Level[m] |-> g[v]]
      OBVIOUS
    <3> HIDE DEF g
    <3>2. QED
      BY <2>4, <3>1 DEF NormalUpTo
  <2> HIDE DEF g
  <2>6. QED
    BY <2>5
<1>3. 0..Depth \subseteq T
  <2> HIDE DEF T
  <2>1. QED
    BY <1>1, <1>2, UpTo, DepthAssumption
<1>4. \E f : NormalUpTo(f, Values)
  BY <1>3, DepthAssumption DEF Values
<1>5. Normal = CHOOSE f : NormalUpTo(f, Values)
  BY DEF Normal, NormalUpTo, NormalOver
<1>6. NormalUpTo(Normal, Values)
  BY <1>4, <1>5
<1>7. QED
  BY <1>6 DEF NormalUpTo

-----------------------------------------------------------------------------
(* Concatenations of parts of one length. *)

\* Products of numbers.
LEMMA Products ==
    ASSUME NEW i \in Nat, NEW n \in Nat, NEW k \in Nat, i <= n
    PROVE  /\ i * k \in Nat /\ n * k \in Nat /\ i * k <= n * k
           /\ i # 0 => (i - 1) * k \in Nat /\ (i - 1) * k + k = i * k
<1>1. i * k \in Nat /\ n * k \in Nat /\ (n - i) * k \in Nat
  OBVIOUS
<1>2. (n - i) * k + i * k = n * k
  OBVIOUS
<1>3. i # 0 => (i - 1) * k \in Nat /\ (i - 1) * k + k = i * k
  OBVIOUS
<1>4. QED
  BY <1>1, <1>2, <1>3

Parted(flat, seqs, k) ==
    /\ Len(flat) = Len(seqs) * k
    /\ \A i \in 1..Len(seqs), j \in 1..k :
          /\ (i - 1) * k + j \in 1..Len(seqs) * k
          /\ flat[(i - 1) * k + j] = seqs[i][j]

\* In a concatenation of parts that are k long, element j of part i is number
\* (i - 1) * k + j.
LEMMA EqualParts ==
    ASSUME NEW S, NEW seqs \in Seq(Seq(S)), NEW k \in Nat,
           \A i \in 1..Len(seqs) : Len(seqs[i]) = k
    PROVE  Parted(FlattenSeq(seqs), seqs, k)
<1>1. PICK n \in Nat : n = Len(seqs) /\ \A i \in 1..n : seqs[i] \in Seq(S)
  BY LenProperties, ElementOfSeq
<1>2. PICK f : Flattening(f, S, seqs) /\ FlattenSeq(seqs) = f[n]
  BY <1>1, FlattenSteps
<1>3. /\ f \in [0..n -> Seq(S)] /\ f[0] = << >>
      /\ \A i \in 1..n : f[i] = f[i - 1] \o seqs[i]
  BY <1>1, <1>2 DEF Flattening
<1> DEFINE T == {m \in 0..n :
                    /\ Len(f[m]) = m * k
                    /\ \A i \in 1..m, j \in 1..k : f[m][(i - 1) * k + j] = seqs[i][j]}
<1>4. 0 \in T
  <2>1. Len(f[0]) = 0 /\ 0 * k = 0
    BY <1>3, EmptySeq
  <2>2. QED
    BY <2>1
<1>5. ASSUME NEW m \in 1..n, m - 1 \in T
      PROVE  m \in T
  <2>1. PICK g \in Seq(S) : g = f[m - 1] /\ Len(g) = (m - 1) * k
    BY <1>3, <1>5
  <2>2. PICK h \in Seq(S) : h = seqs[m] /\ Len(h) = k
    BY <1>1
  <2>3. f[m] = g \o h
    BY <1>3, <2>1, <2>2
  <2>4. (m - 1) * k \in Nat /\ (m - 1) * k + k = m * k
    BY Products
  <2>5. /\ Len(f[m]) = m * k
        /\ \A p \in 1..m * k :
              f[m][p] = IF p <= (m - 1) * k THEN g[p] ELSE h[p - (m - 1) * k]
    <3> DEFINE c == (m - 1) * k
               d == m * k
    <3>1. Len(g) = c /\ c \in Nat /\ c + k = d /\ Len(h) = k
      BY <2>1, <2>2, <2>4
    <3> HIDE DEF c, d
    <3>2. /\ Len(g \o h) = d
          /\ \A p \in 1..d : (g \o h)[p] = IF p <= c THEN g[p] ELSE h[p - c]
      BY <3>1, ConcatProperties
    <3>3. QED
      BY <2>3, <3>2 DEF c, d
  <2>6. ASSUME NEW i \in 1..m, NEW j \in 1..k
        PROVE  f[m][(i - 1) * k + j] = seqs[i][j]
    <3>1. CASE i = m
      <4> DEFINE c == (m - 1) * k
                 d == m * k
      <4>1. c \in Nat /\ c + k = d
        BY <2>4
      <4>2. \A p \in 1..d : f[m][p] = IF p <= c THEN g[p] ELSE h[p - c]
        BY <2>5
      <4> HIDE DEF c, d
      <4>3. c + j \in 1..d /\ ~(c + j <= c) /\ (c + j) - c = j
        BY <4>1
      <4>4. f[m][c + j] = h[j]
        BY <4>2, <4>3
      <4>5. QED
        BY <3>1, <2>2, <4>4 DEF c
    <3>2. CASE i # m
      <4> DEFINE b == (i - 1) * k
                 c == (m - 1) * k
                 d == m * k
      <4>1. b \in Nat /\ c \in Nat /\ d \in Nat /\ b + k <= c /\ c <= d
        <5>1. i <= m - 1 /\ m - 1 \in Nat /\ i \in Nat /\ i # 0
          BY <3>2
        <5>2. i * k <= (m - 1) * k /\ (i - 1) * k \in Nat /\ (i - 1) * k + k = i * k
          BY <5>1, Products
        <5>3. m * k \in Nat
          BY Products
        <5>4. QED
          BY <2>4, <5>2, <5>3
      <4>2. /\ \A p \in 1..d : f[m][p] = IF p <= c THEN g[p] ELSE h[p - c]
            /\ g[b + j] = seqs[i][j]
        BY <1>5, <2>1, <2>5, <3>2
      <4> HIDE DEF b, c, d
      <4>3. b + j \in 1..d /\ b + j <= c
        BY <4>1
      <4>4. QED
        BY <4>2, <4>3 DEF b
    <3>3. QED
      BY <3>1, <3>2
  <2>7. \A i \in 1..m, j \in 1..k : f[m][(i - 1) * k + j] = seqs[i][j]
    BY <2>6
  <2>8. Len(f[m]) = m * k /\ m \in 0..n
    BY <2>5
  <2>9. QED
    BY <2>7, <2>8
<1>6. 0..n \subseteq T
  <2> HIDE DEF T
  <2>1. QED
    BY <1>4, <1>5, UpTo
<1>7. n \in T
  BY <1>6
<1>8. ASSUME NEW i \in 1..n, NEW j \in 1..k
      PROVE  (i - 1) * k + j \in 1..n * k
  <2> DEFINE b == (i - 1) * k
             d == n * k
  <2>1. b \in Nat /\ d \in Nat /\ b + k <= d
    <3>1. i * k <= n * k /\ (i - 1) * k \in Nat /\ (i - 1) * k + k = i * k /\ n * k \in Nat
      BY Products
    <3>2. QED
      BY <3>1
  <2> HIDE DEF b, d
  <2>2. b + j \in 1..d
    BY <2>1
  <2>3. QED
    BY <2>2 DEF b, d
<1>9. QED
  BY <1>1, <1>2, <1>7, <1>8 DEF Parted

-----------------------------------------------------------------------------
(* What a map or an array is written as after its tag. *)

Items == {WriteKeyItem(k) : k \in STRING} \cup {WriteValItem(v) : v \in Values}

Shaped(v) == v.kind = "Array" /\ HasShape(ValsOf(v))

ShapeKeys(v) == KeysOf(ValsOf(v)[1])

KeyItems(keys) == [i \in DOMAIN keys |-> WriteKeyItem(keys[i])]

Cells(rows) == FlattenSeq([i \in DOMAIN rows |-> ValItems(ValsOf(rows[i]))])

Rest(v) ==
    IF v.kind = "Map" THEN MapItems(v)
    ELSE IF Shaped(v) THEN KeyItems(ShapeKeys(v)) \o Cells(ValsOf(v))
    ELSE ValItems(ValsOf(v))

\* The frame it is read into, and how many keys that asks for.
What(v)  == IF v.kind = "Map" THEN "map" ELSE IF Shaped(v) THEN "rows" ELSE "array"
Width(v) == IF Shaped(v) THEN Len(ShapeKeys(v)) ELSE 1
Count(v) == Len(v.fields)
Keys(v)  == IF v.kind = "Map" THEN Count(v)
            ELSE IF Shaped(v) THEN Width(v) ELSE 0

\* Where key i and value j stand.
KeyAt(v, i) == IF v.kind = "Map" THEN 2 * i - 1 ELSE i
ValAt(v, j) == IF v.kind = "Map" THEN 2 * j
               ELSE IF Shaped(v) THEN Width(v) + j ELSE j

\* A sequence given element by element.
LEMMA Elementwise ==
    ASSUME NEW n \in Nat, NEW S, NEW s, s = [i \in 1..n |-> s[i]],
           \A i \in 1..n : s[i] \in S
    PROVE  s \in Seq(S) /\ Len(s) = n /\ DOMAIN s = 1..n
<1>1. s \in [1..n -> S]
  OBVIOUS
<1>2. s \in Seq(S)
  BY <1>1
<1>3. DOMAIN s = 1..n /\ DOMAIN s = 1..Len(s) /\ Len(s) \in Nat
  BY <1>1, <1>2, LenProperties
<1>4. QED
  BY <1>2, <1>3

\* The values in a map or an array, and the keys of a map.
LEMMA Contents ==
    ASSUME NEW v \in Containers(Values)
    PROVE  /\ Count(v) \in Nat
           /\ ValsOf(v) \in Seq(Values) /\ Len(ValsOf(v)) = Count(v)
           /\ DOMAIN ValsOf(v) = 1..Count(v)
           /\ \A i \in 1..Count(v) : ValsOf(v)[i] = v.fields[i].val
           /\ v.kind = "Map" =>
                 /\ KeysOf(v) \in Seq(STRING) /\ Len(KeysOf(v)) = Count(v)
                 /\ DOMAIN KeysOf(v) = 1..Count(v)
                 /\ \A i \in 1..Count(v) : KeysOf(v)[i] = v.fields[i].key
<1>1. PICK n \in Nat : n = Count(v) /\ DOMAIN v.fields = 1..n
  BY ContainerFields DEF Count
<1>2. \A i \in 1..n : /\ v.fields[i].val \in Values
                      /\ v.kind = "Map" => v.fields[i].key \in STRING
  BY <1>1, ContainerFields DEF Count
<1>3. PICK s : s = ValsOf(v)
  OBVIOUS
<1>4. s = [i \in 1..n |-> v.fields[i].val]
  BY <1>1, <1>3 DEF ValsOf
<1>5. s \in Seq(Values) /\ Len(s) = n /\ DOMAIN s = 1..n
  BY <1>2, <1>4, Elementwise
<1>6. ASSUME v.kind = "Map"
      PROVE  /\ KeysOf(v) \in Seq(STRING) /\ Len(KeysOf(v)) = n
             /\ DOMAIN KeysOf(v) = 1..n
             /\ \A i \in 1..n : KeysOf(v)[i] = v.fields[i].key
  <2>1. PICK t : t = KeysOf(v)
    OBVIOUS
  <2>2. t = [i \in 1..n |-> v.fields[i].key]
    BY <1>1, <2>1 DEF KeysOf
  <2>3. t \in Seq(STRING) /\ Len(t) = n /\ DOMAIN t = 1..n
    BY <1>2, <1>6, <2>2, Elementwise
  <2>4. QED
    BY <2>1, <2>2, <2>3
<1>7. QED
  BY <1>1, <1>3, <1>4, <1>5, <1>6

\* Every row of an array with a shape is a map with the keys of the shape.
LEMMA Rows ==
    ASSUME NEW v \in Containers(Values), Shaped(v)
    PROVE  /\ Width(v) \in Nat /\ Width(v) # 0 /\ Count(v) >= 2
           /\ ShapeKeys(v) \in Seq(STRING) /\ Len(ShapeKeys(v)) = Width(v)
           /\ DOMAIN ShapeKeys(v) = 1..Width(v)
           /\ \A i \in 1..Count(v) :
                 /\ ValsOf(v)[i] \in Containers(Values) /\ ValsOf(v)[i].kind = "Map"
                 /\ Count(ValsOf(v)[i]) = Width(v)
                 /\ \A j \in 1..Width(v) :
                       ValsOf(v)[i].fields[j].key = ShapeKeys(v)[j]
<1>1. PICK rows \in Seq(Values) : /\ rows = ValsOf(v) /\ Len(rows) = Count(v)
                                  /\ DOMAIN rows = 1..Count(v)
  BY Contents
<1>2. /\ Count(v) >= 2 /\ Count(v) \in Nat /\ 1 \in 1..Count(v)
      /\ rows[1].fields # << >>
      /\ \A i \in 1..Count(v) : /\ rows[i].kind = "Map" /\ rows[i] \in Values
                                /\ KeysOf(rows[i]) = KeysOf(rows[1])
  BY <1>1, Contents, ElementOfSeq DEF Shaped, HasShape
<1>3. \A i \in 1..Count(v) : rows[i] \in Containers(Values)
  <2>1. \A u \in Scalars : u.kind # "Map"
    BY DEF Scalars, ValuesOf
  <2>2. QED
    BY <1>2, <2>1, ValueCases
<1>4. \A i \in 1..Count(v) :
         /\ KeysOf(rows[i]) \in Seq(STRING)
         /\ Len(KeysOf(rows[i])) = Count(rows[i])
         /\ DOMAIN KeysOf(rows[i]) = 1..Count(rows[i])
         /\ \A j \in 1..Count(rows[i]) : KeysOf(rows[i])[j] = rows[i].fields[j].key
  BY <1>2, <1>3, Contents
<1>5. Width(v) = Len(KeysOf(rows[1])) /\ ShapeKeys(v) = KeysOf(rows[1])
  BY <1>1 DEF Width, ShapeKeys
<1>6. Count(rows[1]) \in Nat /\ Count(rows[1]) # 0
  <2>1. Count(rows[1]) \in Nat
    BY <1>2, <1>3, Contents
  <2>2. rows[1].fields \in Seq([key : STRING, val : Values])
    BY <1>2, <1>3 DEF Containers, ValuesOf
  <2>3. Len(rows[1].fields) # 0
    BY <1>2, <2>2, EmptySeq
  <2>4. QED
    BY <2>1, <2>3 DEF Count
<1>7. QED
  BY <1>1, <1>2, <1>3, <1>4, <1>5, <1>6

\* The items of a sequence of values.
LEMMA ValItemsOf ==
    ASSUME NEW vals \in Seq(Values)
    PROVE  /\ ValItems(vals) \in Seq({WriteValItem(u) : u \in Values})
           /\ Len(ValItems(vals)) = Len(vals)
           /\ \A i \in 1..Len(vals) : ValItems(vals)[i] = WriteValItem(vals[i])
<1>1. PICK n \in Nat : n = Len(vals) /\ DOMAIN vals = 1..n
  BY LenProperties
<1>2. PICK s : s = ValItems(vals)
  OBVIOUS
<1>3. s = [i \in 1..n |-> WriteValItem(vals[i])]
  BY <1>1, <1>2 DEF ValItems
<1>4. \A i \in 1..n : s[i] \in {WriteValItem(u) : u \in Values}
  <2>1. \A i \in 1..n : vals[i] \in Values
    BY <1>1, ElementOfSeq
  <2>2. QED
    BY <1>3, <2>1
<1>5. s \in Seq({WriteValItem(u) : u \in Values}) /\ Len(s) = n
  <2>1. s = [i \in 1..n |-> s[i]]
    BY <1>3
  <2> HIDE DEF WriteValItem
  <2>2. QED
    BY <1>4, <2>1, Elementwise
<1>6. QED
  BY <1>1, <1>2, <1>3, <1>5

\* A map is written as its keys and values in turn.
LEMMA RestOfMap ==
    ASSUME NEW v \in Containers(Values), v.kind = "Map"
    PROVE  /\ Rest(v) \in Seq(Items) /\ Len(Rest(v)) = 2 * Count(v)
           /\ \A i \in 1..Count(v) :
                 /\ Rest(v)[2 * i - 1] = WriteKeyItem(v.fields[i].key)
                 /\ Rest(v)[2 * i] = WriteValItem(v.fields[i].val)
<1>1. PICK n \in Nat : n = Count(v) /\ DOMAIN v.fields = 1..n
  BY ContainerFields DEF Count
<1> DEFINE pair(i) == << WriteKeyItem(v.fields[i].key), WriteValItem(v.fields[i].val) >>
<1>2. PICK s : s = [i \in 1..n |-> pair(i)]
  OBVIOUS
<1>3. \A i \in 1..n : pair(i) \in Seq(Items) /\ Len(pair(i)) = 2
  <2>1. ASSUME NEW i \in 1..n
        PROVE  WriteKeyItem(v.fields[i].key) \in Items /\ WriteValItem(v.fields[i].val) \in Items
    <3>1. v.fields[i].key \in STRING /\ v.fields[i].val \in Values
      BY <1>1, ContainerFields DEF Count
    <3> HIDE DEF WriteKeyItem, WriteValItem
    <3>2. QED
      BY <3>1 DEF Items
  <2>2. QED
    BY <2>1
<1>4. s \in Seq(Seq(Items)) /\ Len(s) = n /\ \A i \in 1..n : s[i] = pair(i)
  <2>1. s = [i \in 1..n |-> s[i]] /\ \A i \in 1..n : s[i] = pair(i)
    BY <1>2
  <2>2. \A i \in 1..n : s[i] \in Seq(Items)
    BY <1>3, <2>1
  <2>3. QED
    BY <2>1, <2>2, Elementwise
<1>5. Rest(v) = FlattenSeq(s)
  BY <1>1, <1>2 DEF Rest, MapItems
<1>6. \A i \in 1..n : Len(s[i]) = 2 /\ s[i][1] = WriteKeyItem(v.fields[i].key)
                      /\ s[i][2] = WriteValItem(v.fields[i].val)
  <2>1. ASSUME NEW i \in 1..n
        PROVE  /\ Len(s[i]) = 2 /\ s[i][1] = WriteKeyItem(v.fields[i].key)
               /\ s[i][2] = WriteValItem(v.fields[i].val)
    <3>1. s[i] = pair(i) /\ Len(pair(i)) = 2
      BY <1>3, <1>4
    <3>2. QED
      BY <3>1
  <2>2. QED
    BY <2>1
<1> HIDE DEF pair
<1>7. /\ Len(FlattenSeq(s)) = n * 2
      /\ \A i \in 1..n, j \in 1..2 : FlattenSeq(s)[(i - 1) * 2 + j] = s[i][j]
  <2>1. s \in Seq(Seq(Items)) /\ Len(s) = n /\ 2 \in Nat
        /\ \A i \in 1..Len(s) : Len(s[i]) = 2
    BY <1>4, <1>6
  <2>2. Parted(FlattenSeq(s), s, 2)
    BY <2>1, EqualParts
  <2>3. QED
    BY <2>1, <2>2 DEF Parted
<1>8. \A i \in 1..n : (i - 1) * 2 + 1 = 2 * i - 1 /\ (i - 1) * 2 + 2 = 2 * i
  OBVIOUS
<1>9. \A i \in 1..n : /\ FlattenSeq(s)[2 * i - 1] = s[i][1]
                      /\ FlattenSeq(s)[2 * i] = s[i][2]
  <2>1. ASSUME NEW i \in 1..n
        PROVE  FlattenSeq(s)[2 * i - 1] = s[i][1] /\ FlattenSeq(s)[2 * i] = s[i][2]
    <3>1. FlattenSeq(s)[(i - 1) * 2 + 1] = s[i][1] /\ FlattenSeq(s)[(i - 1) * 2 + 2] = s[i][2]
      BY <1>7
    <3>2. QED
      BY <1>8, <3>1
  <2>2. QED
    BY <2>1
<1>10. FlattenSeq(s) \in Seq(Items)
  BY <1>4, FlattenSeqs
<1>11. QED
  BY <1>1, <1>5, <1>6, <1>7, <1>9, <1>10

\* An array without a shape is written as its values.
LEMMA RestOfArray ==
    ASSUME NEW v \in Containers(Values), v.kind # "Map", ~Shaped(v)
    PROVE  /\ Rest(v) \in Seq(Items) /\ Len(Rest(v)) = Count(v)
           /\ \A i \in 1..Count(v) : Rest(v)[i] = WriteValItem(v.fields[i].val)
<1>1. Rest(v) = ValItems(ValsOf(v))
  BY DEF Rest
<1>2. {WriteValItem(u) : u \in Values} \subseteq Items
  BY DEF Items
<1>3. Seq({WriteValItem(u) : u \in Values}) \subseteq Seq(Items)
  BY <1>2, SeqMonotonic
<1>4. PICK vals \in Seq(Values) :
         /\ vals = ValsOf(v) /\ Len(vals) = Count(v)
         /\ \A i \in 1..Count(v) : vals[i] = v.fields[i].val
  BY Contents
<1>5. /\ ValItems(vals) \in Seq({WriteValItem(u) : u \in Values})
      /\ Len(ValItems(vals)) = Count(v)
      /\ \A i \in 1..Count(v) : ValItems(vals)[i] = WriteValItem(vals[i])
  BY <1>4, ValItemsOf
<1>6. QED
  BY <1>1, <1>3, <1>4, <1>5

\* An array with a shape is written as the keys, then the values row by row.
LEMMA RestOfRows ==
    ASSUME NEW v \in Containers(Values), Shaped(v)
    PROVE  /\ Rest(v) \in Seq(Items)
           /\ Len(Rest(v)) = Width(v) + Count(v) * Width(v)
           /\ \A j \in 1..Width(v) : Rest(v)[j] = WriteKeyItem(ShapeKeys(v)[j])
           /\ \A j \in 1..Count(v) * Width(v) :
                 \E u \in Values : Rest(v)[Width(v) + j] = WriteValItem(u)
           /\ \A i \in 1..Count(v), j \in 1..Width(v) :
                 /\ (i - 1) * Width(v) + j \in 1..Count(v) * Width(v)
                 /\ Rest(v)[Width(v) + ((i - 1) * Width(v) + j)]
                      = WriteValItem(ValsOf(v)[i].fields[j].val)
<1> DEFINE VI == {WriteValItem(u) : u \in Values}
<1>1. PICK n \in Nat, k \in Nat, rows \in Seq(Values), keys \in Seq(STRING) :
         /\ n = Count(v) /\ k = Width(v) /\ rows = ValsOf(v) /\ keys = ShapeKeys(v)
         /\ Len(rows) = n /\ DOMAIN rows = 1..n
         /\ Len(keys) = k /\ DOMAIN keys = 1..k
  BY Contents, Rows
<1>2. \A i \in 1..n : /\ rows[i] \in Containers(Values) /\ Count(rows[i]) = k
                      /\ ValsOf(rows[i]) \in Seq(Values) /\ Len(ValsOf(rows[i])) = k
                      /\ \A j \in 1..k : ValsOf(rows[i])[j] = rows[i].fields[j].val
  BY <1>1, Rows, Contents
<1>3. PICK s : s = [i \in 1..n |-> ValItems(ValsOf(rows[i]))]
  OBVIOUS
<1>4. s \in Seq(Seq(VI)) /\ Len(s) = n
  <2>1. s = [i \in 1..n |-> s[i]] /\ \A i \in 1..n : s[i] = ValItems(ValsOf(rows[i]))
    BY <1>3
  <2>2. \A i \in 1..n : s[i] \in Seq(VI)
    BY <1>2, <2>1, ValItemsOf
  <2>3. QED
    BY <2>1, <2>2, Elementwise
<1>5. \A i \in 1..n : Len(s[i]) = k /\ \A j \in 1..k : s[i][j] = WriteValItem(rows[i].fields[j].val)
  <2>1. ASSUME NEW i \in 1..n
        PROVE  /\ Len(s[i]) = k
               /\ \A j \in 1..k : s[i][j] = WriteValItem(rows[i].fields[j].val)
    <3>1. PICK vals \in Seq(Values) :
             /\ vals = ValsOf(rows[i]) /\ Len(vals) = k
             /\ \A j \in 1..k : vals[j] = rows[i].fields[j].val
      BY <1>2
    <3>2. /\ Len(ValItems(vals)) = k
          /\ \A j \in 1..k : ValItems(vals)[j] = WriteValItem(vals[j])
      BY <3>1, ValItemsOf
    <3>3. s[i] = ValItems(vals)
      BY <1>3, <3>1
    <3>4. QED
      BY <3>1, <3>2, <3>3
  <2>2. QED
    BY <2>1
<1>6. PICK cells : cells = FlattenSeq(s)
  OBVIOUS
<1>7. /\ cells \in Seq(VI) /\ Len(cells) = n * k
      /\ \A i \in 1..n, j \in 1..k : /\ (i - 1) * k + j \in 1..n * k
                                     /\ cells[(i - 1) * k + j] = s[i][j]
  <2> HIDE DEF VI
  <2>1. /\ s \in Seq(Seq(VI)) /\ Len(s) = n
        /\ \A i \in 1..Len(s) : Len(s[i]) = k
    BY <1>4, <1>5
  <2>2. FlattenSeq(s) \in Seq(VI)
    BY <2>1, FlattenSeqs
  <2>3. Parted(FlattenSeq(s), s, k)
    BY <2>1, EqualParts
  <2>4. QED
    BY <1>6, <2>1, <2>2, <2>3 DEF Parted
<1>8. PICK ki : ki = KeyItems(keys)
  OBVIOUS
<1>9. /\ ki \in Seq(Items) /\ Len(ki) = k
      /\ \A j \in 1..k : ki[j] = WriteKeyItem(keys[j])
  <2>1. ki = [j \in 1..k |-> WriteKeyItem(keys[j])]
    BY <1>1, <1>8 DEF KeyItems
  <2>2. \A j \in 1..k : ki[j] \in Items
    <3>1. \A j \in 1..k : keys[j] \in STRING
      BY <1>1, ElementOfSeq
    <3> HIDE DEF WriteKeyItem
    <3>2. QED
      BY <2>1, <3>1 DEF Items
  <2>3. ki = [j \in 1..k |-> ki[j]]
    BY <2>1
  <2>4. QED
    BY <2>1, <2>2, <2>3, Elementwise
<1>10. Rest(v) = ki \o cells
  <2>1. v.kind # "Map"
    BY DEF Shaped
  <2>2. Cells(rows) = cells
    BY <1>1, <1>3, <1>6 DEF Cells
  <2>3. QED
    BY <1>1, <1>8, <2>1, <2>2 DEF Rest
<1>11. cells \in Seq(Items)
  <2>1. VI \subseteq Items
    BY DEF Items
  <2>2. QED
    BY <1>7, <2>1, SeqMonotonic
<1>12. PICK m \in Nat : m = n * k
  BY Products
<1>13. /\ ki \o cells \in Seq(Items) /\ Len(ki \o cells) = k + m
       /\ \A j \in 1..k : (ki \o cells)[j] = ki[j]
       /\ \A j \in 1..m : (ki \o cells)[k + j] = cells[j]
  <2>1. /\ ki \o cells \in Seq(Items) /\ Len(ki \o cells) = k + m
        /\ \A j \in 1..k + m :
              (ki \o cells)[j] = IF j <= k THEN ki[j] ELSE cells[j - k]
    <3>1. ki \in Seq(Items) /\ Len(ki) = k /\ cells \in Seq(Items) /\ Len(cells) = m
      BY <1>7, <1>9, <1>11, <1>12
    <3>2. QED
      BY <3>1, ConcatProperties
  <2>2. \A j \in 1..k : j \in 1..k + m
    OBVIOUS
  <2>3. \A j \in 1..m : k + j \in 1..k + m /\ ~(k + j <= k) /\ (k + j) - k = j
    OBVIOUS
  <2>4. QED
    BY <2>1, <2>2, <2>3
<1>14. \A j \in 1..m : \E u \in Values : cells[j] = WriteValItem(u)
  <2>1. \A j \in 1..m : cells[j] \in VI
    BY <1>7, <1>12, ElementOfSeq
  <2>2. QED
    BY <2>1
<1>15. ASSUME NEW i \in 1..n, NEW j \in 1..k
       PROVE  /\ (i - 1) * k + j \in 1..n * k
              /\ (ki \o cells)[k + ((i - 1) * k + j)] = WriteValItem(rows[i].fields[j].val)
  <2>1. PICK p \in 1..m : p = (i - 1) * k + j /\ cells[p] = s[i][j]
    BY <1>7, <1>12
  <2>2. (ki \o cells)[k + p] = cells[p]
    BY <1>13
  <2>3. s[i][j] = WriteValItem(rows[i].fields[j].val)
    BY <1>5
  <2>4. QED
    BY <1>12, <2>1, <2>2, <2>3
<1>16. \A j \in 1..m : \E u \in Values : (ki \o cells)[k + j] = WriteValItem(u)
  BY <1>13, <1>14
<1>17. \A j \in 1..k : (ki \o cells)[j] = WriteKeyItem(keys[j])
  BY <1>9, <1>13
<1>18. PICK flat \in Seq(Items) :
          /\ flat = Rest(v) /\ Len(flat) = k + m
          /\ \A j \in 1..k : flat[j] = WriteKeyItem(keys[j])
          /\ \A j \in 1..m : \E u \in Values : flat[k + j] = WriteValItem(u)
          /\ \A i \in 1..n, j \in 1..k :
                /\ (i - 1) * k + j \in 1..n * k
                /\ flat[k + ((i - 1) * k + j)] = WriteValItem(rows[i].fields[j].val)
  BY <1>10, <1>13, <1>15, <1>16, <1>17
<1>19. QED
  BY <1>1, <1>12, <1>18, SMTT(30)

\* The number of values a map or an array asks for.
Size(v) == Count(v) * Width(v)

\* What a map or an array is written as: so many keys and so many values,
\* each in its place.
LEMMA RestShape ==
    ASSUME NEW v \in Containers(Values)
    PROVE  /\ Count(v) \in Nat /\ Width(v) \in Nat /\ Keys(v) \in Nat
           /\ Size(v) \in Nat
           /\ Rest(v) \in Seq(Items) /\ Len(Rest(v)) = Keys(v) + Size(v)
           /\ \A i \in 1..Keys(v) :
                 \E k \in STRING : Rest(v)[KeyAt(v, i)] = WriteKeyItem(k)
           /\ \A j \in 1..Size(v) :
                 \E u \in Values : Rest(v)[ValAt(v, j)] = WriteValItem(u)
<1>1. /\ Count(v) \in Nat /\ v.kind \in {"Map", "Array"}
      /\ \A i \in 1..Count(v) : /\ v.fields[i].val \in Values
                                /\ v.kind = "Map" => v.fields[i].key \in STRING
  BY ContainerFields DEF Count
<1>2. CASE v.kind = "Map"
  <2>1. ~Shaped(v)
    BY <1>2 DEF Shaped
  <2>2. Keys(v) = Count(v) /\ Width(v) = 1
    BY <1>2, <2>1 DEF Keys, Width
  <2>3. Size(v) = Count(v)
    BY <1>1, <2>2 DEF Size
  <2>4. \A i \in 1..Count(v) : KeyAt(v, i) = 2 * i - 1 /\ ValAt(v, i) = 2 * i
    BY <1>2 DEF KeyAt, ValAt
  <2>5. Rest(v) \in Seq(Items) /\ Len(Rest(v)) = Keys(v) + Size(v)
    BY <1>1, <1>2, <2>2, <2>3, RestOfMap
  <2>6. \A i \in 1..Count(v) :
           /\ Rest(v)[2 * i - 1] = WriteKeyItem(v.fields[i].key)
           /\ Rest(v)[2 * i] = WriteValItem(v.fields[i].val)
    BY <1>2, RestOfMap
  <2> HIDE DEF WriteKeyItem, WriteValItem
  <2>7. \A i \in 1..Count(v) :
           /\ \E k \in STRING : Rest(v)[KeyAt(v, i)] = WriteKeyItem(k)
           /\ \E u \in Values : Rest(v)[ValAt(v, i)] = WriteValItem(u)
    BY <1>1, <1>2, <2>4, <2>6
  <2>8. QED
    BY <1>1, <2>2, <2>3, <2>5, <2>7
<1>3. CASE v.kind # "Map" /\ ~Shaped(v)
  <2>1. Keys(v) = 0 /\ Width(v) = 1
    BY <1>3 DEF Keys, Width
  <2>2. Size(v) = Count(v)
    BY <1>1, <2>1 DEF Size
  <2>3. \A i \in 1..Count(v) : ValAt(v, i) = i
    BY <1>3 DEF ValAt
  <2>4. QED
    BY <1>1, <1>3, <2>1, <2>2, <2>3, RestOfArray
<1>4. CASE Shaped(v)
  <2>1. v.kind # "Map"
    BY <1>4 DEF Shaped
  <2>2. Width(v) \in Nat /\ Keys(v) = Width(v)
    BY <1>4, <2>1, Rows DEF Keys
  <2>3. Size(v) \in Nat /\ Len(Rest(v)) = Keys(v) + Size(v)
    BY <1>1, <1>4, <2>2, Products, RestOfRows DEF Size
  <2>4. \A j \in 1..Width(v) : KeyAt(v, j) = j
    BY <2>1 DEF KeyAt
  <2>5. \A j \in 1..Size(v) : ValAt(v, j) = Width(v) + j
    BY <1>4, <2>1 DEF ValAt
  <2>6. \A j \in 1..Width(v) : ShapeKeys(v)[j] \in STRING
    BY <1>4, Rows, ElementOfSeq
  <2>7. \A j \in 1..Keys(v) : \E k \in STRING : Rest(v)[KeyAt(v, j)] = WriteKeyItem(k)
    <3>1. \A j \in 1..Width(v) : Rest(v)[j] = WriteKeyItem(ShapeKeys(v)[j])
      BY <1>4, RestOfRows
    <3> HIDE DEF WriteKeyItem
    <3>2. QED
      BY <2>2, <2>4, <2>6, <3>1
  <2>8. \A j \in 1..Size(v) : \E u \in Values : Rest(v)[ValAt(v, j)] = WriteValItem(u)
    <3>1. \A j \in 1..Size(v) : \E u \in Values : Rest(v)[Width(v) + j] = WriteValItem(u)
      BY <1>4, RestOfRows DEF Size
    <3>2. QED
      BY <2>5, <3>1
  <2>9. Rest(v) \in Seq(Items)
    BY <1>4, RestOfRows
  <2>10. QED
    BY <1>1, <2>2, <2>3, <2>7, <2>8, <2>9
<1>5. QED
  BY <1>1, <1>2, <1>3, <1>4

\* A normal map or array, field by field.
LEMMA NormalFields ==
    ASSUME NEW v \in Values, v \in Containers(Values)
    PROVE  Normal[v] = Value(v.kind, 0, NoText,
              [i \in 1..Count(v) |-> Entry(v.fields[i].key, Normal[v.fields[i].val])])
<1>1. /\ v.kind \in {"Map", "Array"}
      /\ v = [kind |-> v.kind, num |-> 0, str |-> NoText, fields |-> v.fields]
      /\ DOMAIN v.fields = 1..Count(v)
  BY ContainerFields DEF Count
<1>2. Normal[v] = NormalOver(Normal, v)
  BY NormalSteps
<1> DEFINE fs == [i \in DOMAIN v.fields |-> Entry(v.fields[i].key, Normal[v.fields[i].val])]
<1>3. NormalOver(Normal, v) = [v EXCEPT !.fields = fs]
  BY <1>1 DEF NormalOver
<1>4. fs = [i \in 1..Count(v) |-> Entry(v.fields[i].key, Normal[v.fields[i].val])]
  BY <1>1
<1> HIDE DEF fs
<1>5. [v EXCEPT !.fields = fs] = [kind |-> v.kind, num |-> 0, str |-> NoText, fields |-> fs]
  BY <1>1
<1>6. QED
  BY <1>2, <1>3, <1>4, <1>5 DEF Value

\* A frame with all the keys and values of a map or an array makes it.
LEMMA FrameMakes ==
    ASSUME NEW v \in Values, v \in Containers(Values), NEW f,
           f.what = What(v), f.n = Count(v), f.k = Width(v),
           DOMAIN f.vals = 1..Size(v),
           \A i \in 1..Keys(v) : f.keys[i] = Rest(v)[KeyAt(v, i)].str,
           \A j \in 1..Size(v) : f.vals[j] = Normal[Rest(v)[ValAt(v, j)].val]
    PROVE  FrameValue(f) = Normal[v]
<1>1. PICK n \in Nat : n = Count(v) /\ DOMAIN v.fields = 1..n /\ v.kind \in {"Map", "Array"}
  BY ContainerFields DEF Count
<1>2. \A k : WriteKeyItem(k).str = k
  BY DEF WriteKeyItem
<1>3. \A u : WriteValItem(u).val = u
  BY DEF WriteValItem
<1>4. CASE v.kind = "Map"
  <2>1. Keys(v) = n /\ Width(v) = 1 /\ Size(v) = n /\ f.what = "map" /\ f.n = n
    <3>1. ~Shaped(v)
      BY <1>4 DEF Shaped
    <3>2. QED
      BY <1>1, <1>4, <3>1 DEF Keys, Width, Size, What
  <2>2. ASSUME NEW i \in 1..n
        PROVE  f.keys[i] = v.fields[i].key /\ f.vals[i] = Normal[v.fields[i].val]
    <3>1. KeyAt(v, i) = 2 * i - 1 /\ ValAt(v, i) = 2 * i
      BY <1>4 DEF KeyAt, ValAt
    <3>2. /\ Rest(v)[2 * i - 1] = WriteKeyItem(v.fields[i].key)
          /\ Rest(v)[2 * i] = WriteValItem(v.fields[i].val)
      BY <1>1, <1>4, RestOfMap
    <3>3. /\ f.keys[i] = Rest(v)[KeyAt(v, i)].str
          /\ f.vals[i] = Normal[Rest(v)[ValAt(v, i)].val]
      BY <2>1
    <3> HIDE DEF WriteKeyItem, WriteValItem
    <3>4. QED
      BY <1>2, <1>3, <3>1, <3>2, <3>3
  <2>3. [i \in 1..n |-> Entry(f.keys[i], f.vals[i])]
        = [i \in 1..n |-> Entry(v.fields[i].key, Normal[v.fields[i].val])]
    BY <2>2
  <2>4. FrameValue(f) = MapOf([i \in 1..n |-> Entry(f.keys[i], f.vals[i])])
    BY <2>1 DEF FrameValue
  <2>5. QED
    BY <1>1, <1>4, <2>3, <2>4, NormalFields DEF MapOf
<1>5. CASE v.kind = "Array" /\ ~Shaped(v)
  <2>1. Width(v) = 1 /\ Size(v) = n /\ f.what = "array" /\ f.n = n
    BY <1>1, <1>5 DEF Keys, Width, Size, What
  <2>2. ASSUME NEW i \in 1..n
        PROVE  f.vals[i] = Normal[v.fields[i].val] /\ v.fields[i].key = NoText
    <3>1. ValAt(v, i) = i
      BY <1>5 DEF ValAt
    <3>2. Rest(v)[i] = WriteValItem(v.fields[i].val)
      BY <1>1, <1>5, RestOfArray
    <3>3. f.vals[i] = Normal[Rest(v)[ValAt(v, i)].val]
      BY <2>1
    <3>4. v.fields[i].key = NoText
      BY <1>1, <1>5, ContainerFields DEF Count
    <3> HIDE DEF WriteValItem
    <3>5. QED
      BY <1>3, <3>1, <3>2, <3>3, <3>4
  <2>3. [i \in DOMAIN f.vals |-> Entry(NoText, f.vals[i])]
        = [i \in 1..n |-> Entry(v.fields[i].key, Normal[v.fields[i].val])]
    BY <2>1, <2>2
  <2>4. FrameValue(f) = Value("Array", 0, NoText, [i \in DOMAIN f.vals |-> Entry(NoText, f.vals[i])])
    BY <2>1 DEF FrameValue, ArrayOf
  <2>5. QED
    BY <1>1, <1>5, <2>3, <2>4, NormalFields
<1>6. CASE Shaped(v)
  <2>1. PICK k \in Nat, rows \in Seq(Values) :
           /\ k = Width(v) /\ rows = ValsOf(v) /\ Len(rows) = n
           /\ \A i \in 1..n : /\ rows[i] = v.fields[i].val /\ rows[i] \in Values
                              /\ rows[i] \in Containers(Values)
                              /\ rows[i].kind = "Map" /\ Count(rows[i]) = k
                              /\ \A j \in 1..k : rows[i].fields[j].key = ShapeKeys(v)[j]
    BY <1>1, <1>6, Rows, Contents, ElementOfSeq
  <2>2. /\ v.kind = "Array" /\ Keys(v) = k
        /\ f.what = "rows" /\ f.n = n /\ f.k = k
    BY <1>1, <1>6, <2>1 DEF Shaped, Keys, What
  <2> DEFINE row(i) == MapOf([j \in 1..k |-> Entry(f.keys[j], f.vals[(i - 1) * k + j])])
  <2>3. ASSUME NEW i \in 1..n
        PROVE  row(i) = Normal[v.fields[i].val] /\ v.fields[i].key = NoText
    <3>1. ASSUME NEW j \in 1..k
          PROVE  /\ f.keys[j] = rows[i].fields[j].key
                 /\ f.vals[(i - 1) * k + j] = Normal[rows[i].fields[j].val]
      <4>1. PICK p \in 1..Size(v) :
               /\ p = (i - 1) * k + j
               /\ Rest(v)[k + p] = WriteValItem(rows[i].fields[j].val)
        <5>1. \A a \in 1..Count(v), b \in 1..Width(v) :
                 /\ (a - 1) * Width(v) + b \in 1..Size(v)
                 /\ Rest(v)[Width(v) + ((a - 1) * Width(v) + b)]
                      = WriteValItem(ValsOf(v)[a].fields[b].val)
          BY <1>6, RestOfRows DEF Size
        <5> HIDE DEF WriteValItem
        <5>2. QED
          BY <1>1, <2>1, <5>1
      <4>2. Rest(v)[j] = WriteKeyItem(ShapeKeys(v)[j])
        BY <1>6, <2>1, RestOfRows
      <4>3. KeyAt(v, j) = j /\ ValAt(v, p) = k + p
        BY <1>6, <2>1, <2>2 DEF KeyAt, ValAt
      <4>4. /\ f.keys[j] = Rest(v)[KeyAt(v, j)].str
            /\ f.vals[p] = Normal[Rest(v)[ValAt(v, p)].val]
        BY <2>2
      <4>5. f.keys[j] = ShapeKeys(v)[j]
        BY <1>2, <4>2, <4>3, <4>4
      <4>6. f.vals[p] = Normal[rows[i].fields[j].val]
        BY <1>3, <4>1, <4>3, <4>4
      <4>7. QED
        BY <2>1, <4>1, <4>5, <4>6
    <3>2. [j \in 1..k |-> Entry(f.keys[j], f.vals[(i - 1) * k + j])]
          = [j \in 1..k |-> Entry(rows[i].fields[j].key, Normal[rows[i].fields[j].val])]
      BY <3>1
    <3>3. Normal[rows[i]] = Value("Map", 0, NoText,
             [j \in 1..k |-> Entry(rows[i].fields[j].key, Normal[rows[i].fields[j].val])])
      BY <2>1, NormalFields
    <3>4. row(i) = Normal[rows[i]]
      BY <3>2, <3>3 DEF MapOf
    <3>5. v.fields[i].key = NoText
      BY <1>1, <2>2, ContainerFields DEF Count
    <3>6. QED
      BY <2>1, <3>4, <3>5
  <2>4. PICK made : made = [i \in 1..n |-> row(i)]
    OBVIOUS
  <2>5. FrameValue(f) = ArrayOf(made)
    BY <2>2, <2>4 DEF FrameValue
  <2>6. /\ DOMAIN made = 1..n
        /\ \A i \in 1..n : made[i] = Normal[v.fields[i].val] /\ v.fields[i].key = NoText
    BY <2>3, <2>4
  <2>7. [i \in DOMAIN made |-> Entry(NoText, made[i])]
        = [i \in 1..n |-> Entry(v.fields[i].key, Normal[v.fields[i].val])]
    BY <2>6
  <2>8. QED
    BY <1>1, <2>2, <2>5, <2>7, NormalFields DEF ArrayOf
<1>7. QED
  BY <1>1, <1>4, <1>5, <1>6 DEF Shaped

\* How far the reading of a map or an array can be, in keys and values, and
\* whether a key comes next.
Progress(v, a, b) ==
    /\ a \in 0..Keys(v) /\ b \in 0..Size(v)
    /\ v.kind = "Map" => a - b \in {0, 1}
    /\ Shaped(v) /\ b # 0 => a = Keys(v)

AtKey(v, a, b) == IF v.kind = "Map" THEN a = b /\ b < Size(v) ELSE a < Keys(v)

\* The next item is the key or the value that is wanted, and nothing is left
\* when no more is wanted.
LEMMA NextItem ==
    ASSUME NEW v \in Containers(Values), NEW a, NEW b, Progress(v, a, b)
    PROVE  /\ AtKey(v, a, b) =>
                 /\ a + b + 1 \in 1..Len(Rest(v)) /\ a + 1 \in 1..Keys(v)
                 /\ KeyAt(v, a + 1) = a + b + 1 /\ Progress(v, a + 1, b)
           /\ ~AtKey(v, a, b) /\ b # Size(v) =>
                 /\ a + b + 1 \in 1..Len(Rest(v)) /\ b + 1 \in 1..Size(v)
                 /\ ValAt(v, b + 1) = a + b + 1 /\ Progress(v, a, b + 1)
           /\ ~AtKey(v, a, b) /\ b = Size(v) => a = Keys(v)
<1>1. PICK kn \in Nat, sz \in Nat : kn = Keys(v) /\ sz = Size(v) /\ Len(Rest(v)) = kn + sz
  BY RestShape
<1>2. a \in 0..kn /\ b \in 0..sz
  BY <1>1 DEF Progress
<1>3. CASE v.kind = "Map"
  <2>1. ~Shaped(v)
    BY <1>3 DEF Shaped
  <2>2. kn = sz
    <3>1. Width(v) = 1 /\ Count(v) \in Nat
      BY <2>1, RestShape DEF Width
    <3>2. QED
      BY <1>1, <1>3, <3>1 DEF Keys, Size
  <2>3. a - b \in {0, 1}
    BY <1>3 DEF Progress
  <2>4. KeyAt(v, a + 1) = 2 * (a + 1) - 1 /\ ValAt(v, b + 1) = 2 * (b + 1)
    BY <1>3 DEF KeyAt, ValAt
  <2>5. QED
    BY <1>1, <1>2, <1>3, <2>1, <2>2, <2>3, <2>4, SMTT(30) DEF Progress, AtKey
<1>4. CASE v.kind # "Map" /\ ~Shaped(v)
  <2>1. kn = 0
    BY <1>1, <1>4 DEF Keys
  <2>2. ValAt(v, b + 1) = b + 1
    BY <1>4 DEF ValAt
  <2>3. QED
    BY <1>1, <1>2, <1>4, <2>1, <2>2 DEF Progress, AtKey
<1>5. CASE Shaped(v)
  <2>1. v.kind # "Map"
    BY <1>5 DEF Shaped
  <2>2. KeyAt(v, a + 1) = a + 1 /\ ValAt(v, b + 1) = kn + (b + 1)
    BY <1>1, <1>5, <2>1 DEF KeyAt, ValAt, Keys
  <2>3. b # 0 => a = kn
    BY <1>1, <1>5 DEF Progress
  <2>4. a \in 0..kn /\ b \in 0..sz /\ (AtKey(v, a, b) <=> a < kn)
    BY <1>1, <1>2, <2>1 DEF AtKey
  <2>5. \A c \in 0..kn, d \in 0..sz : (d # 0 => c = kn) => Progress(v, c, d)
    BY <1>1, <2>1 DEF Progress
  <2>6. CASE a < kn
    <3>1. b = 0 /\ a + 1 \in 0..kn
      BY <2>3, <2>4, <2>6
    <3>2. Progress(v, a + 1, b)
      BY <2>4, <2>5, <3>1
    <3>3. QED
      BY <1>1, <2>2, <2>4, <2>6, <3>1, <3>2
  <2>7. CASE a = kn
    <3>1. b # sz => b + 1 \in 0..sz
      BY <2>4
    <3>2. b # sz => Progress(v, a, b + 1)
      BY <2>4, <2>5, <2>7, <3>1
    <3>3. QED
      BY <1>1, <2>2, <2>4, <2>7, <3>2, SMTT(30)
  <2>8. QED
    BY <2>4, <2>6, <2>7
<1>6. QED
  BY <1>3, <1>4, <1>5

\* What is left of a sequence after its first c elements.
Left(s, c) == [i \in 1..(Len(s) - c) |-> s[c + i]]

AllTaken(s, c) == c = Len(s)

\* Taking one item from what is left, and having taken all.
LEMMA TakeItem ==
    ASSUME NEW S, NEW s \in Seq(S), NEW c \in 0..Len(s), NEW t \in Seq(S)
    PROVE  /\ Left(s, c) \o t \in Seq(S)
           /\ ~AllTaken(s, c) =>
                 /\ Left(s, c) \o t # << >>
                 /\ Head(Left(s, c) \o t) = s[c + 1]
                 /\ Tail(Left(s, c) \o t) = Left(s, c + 1) \o t
           /\ AllTaken(s, c) => Left(s, c) \o t = t
           /\ c = 0 => Left(s, c) = s
<1>1. PICK n \in Nat : n = Len(s) /\ DOMAIN s = 1..n /\ \A i \in 1..n : s[i] \in S
  BY LenProperties, ElementOfSeq
<1>2. ASSUME NEW d \in 0..n
      PROVE  Left(s, d) \in Seq(S) /\ Len(Left(s, d)) = n - d
             /\ \A i \in 1..n - d : Left(s, d)[i] = s[d + i]
  <2>1. PICK l : l = Left(s, d)
    OBVIOUS
  <2>2. l = [i \in 1..(n - d) |-> s[d + i]] /\ n - d \in Nat
    BY <1>1, <2>1 DEF Left
  <2>3. \A i \in 1..(n - d) : l[i] \in S
    <3>1. \A i \in 1..(n - d) : d + i \in 1..n
      BY <1>2
    <3>2. QED
      BY <1>1, <2>2, <3>1
  <2>4. l = [i \in 1..(n - d) |-> l[i]]
    BY <2>2
  <2>5. l \in Seq(S) /\ Len(l) = n - d
    <3>1. PICK e \in Nat : e = n - d
      BY <2>2
    <3>2. l = [i \in 1..e |-> l[i]] /\ \A i \in 1..e : l[i] \in S
      BY <2>3, <2>4, <3>1
    <3>3. QED
      BY <3>1, <3>2, Elementwise
  <2>6. QED
    BY <2>1, <2>2, <2>5
<1>3. PICK l \in Seq(S) : l = Left(s, c) /\ Len(l) = n - c /\ \A i \in 1..n - c : l[i] = s[c + i]
  BY <1>1, <1>2
<1>4. /\ l \o t \in Seq(S) /\ Len(l \o t) = (n - c) + Len(t)
      /\ \A i \in 1..(n - c) + Len(t) :
            (l \o t)[i] = IF i <= n - c THEN l[i] ELSE t[i - (n - c)]
  <2>1. l \o t \in Seq(S) /\ Len(l \o t) = Len(l) + Len(t)
    BY ConcatProperties
  <2>2. \A i \in 1..Len(l) + Len(t) :
           (l \o t)[i] = IF i <= Len(l) THEN l[i] ELSE t[i - Len(l)]
    BY ConcatProperties
  <2>3. Len(l) = n - c
    BY <1>3
  <2>4. QED
    BY <2>1, <2>2, <2>3
<1>5. Len(t) \in Nat
  BY LenProperties
<1>6. ASSUME c # n
      PROVE  /\ l \o t # << >> /\ Head(l \o t) = s[c + 1]
             /\ Tail(l \o t) = Left(s, c + 1) \o t
  <2>1. c + 1 \in 0..n /\ n - c \in Nat /\ n - c >= 1
    BY <1>1, <1>6
  <2>2. PICK k \in Seq(S) : /\ k = Left(s, c + 1) /\ Len(k) = n - (c + 1)
                            /\ \A i \in 1..n - (c + 1) : k[i] = s[(c + 1) + i]
    BY <1>2, <2>1
  <2>3. l \o t # << >> /\ Head(l \o t) = (l \o t)[1]
    <3>1. Len(l \o t) # 0
      BY <1>4, <1>5, <2>1
    <3>2. QED
      BY <1>4, <3>1, EmptySeq, HeadTailProperties
  <2>4. (l \o t)[1] = s[c + 1]
    BY <1>3, <1>4, <1>5, <2>1
  <2>5. /\ Tail(l \o t) \in Seq(S) /\ Len(Tail(l \o t)) = (n - (c + 1)) + Len(t)
        /\ \A i \in 1..(n - (c + 1)) + Len(t) : Tail(l \o t)[i] = (l \o t)[i + 1]
    <3>1. PICK q \in Seq(S) : q = l \o t /\ q # << >> /\ Len(q) = (n - c) + Len(t)
      BY <1>4, <2>3
    <3>2. /\ Tail(q) \in Seq(S) /\ Len(Tail(q)) = Len(q) - 1
          /\ \A i \in 1..Len(Tail(q)) : Tail(q)[i] = q[i + 1]
      BY <3>1, HeadTailProperties
    <3>3. Len(q) - 1 = (n - (c + 1)) + Len(t)
      BY <1>5, <2>1, <3>1
    <3>4. QED
      BY <3>1, <3>2, <3>3
  <2>6. /\ k \o t \in Seq(S) /\ Len(k \o t) = (n - (c + 1)) + Len(t)
        /\ \A i \in 1..(n - (c + 1)) + Len(t) :
              (k \o t)[i] = IF i <= n - (c + 1) THEN k[i] ELSE t[i - (n - (c + 1))]
    <3>1. /\ k \o t \in Seq(S) /\ Len(k \o t) = Len(k) + Len(t)
          /\ \A i \in 1..Len(k) + Len(t) :
                (k \o t)[i] = IF i <= Len(k) THEN k[i] ELSE t[i - Len(k)]
      BY ConcatProperties
    <3>2. Len(k) = n - (c + 1)
      BY <2>2
    <3>3. QED
      BY <3>1, <3>2
  <2>7. ASSUME NEW i \in 1..(n - (c + 1)) + Len(t)
        PROVE  Tail(l \o t)[i] = (k \o t)[i]
    <3>1. Tail(l \o t)[i] = (l \o t)[i + 1] /\ i + 1 \in 1..(n - c) + Len(t)
      BY <1>5, <2>1, <2>5
    <3>2. CASE i <= n - (c + 1)
      <4>1. i + 1 <= n - c /\ i + 1 \in 1..n - c /\ i \in 1..n - (c + 1) /\ c + (i + 1) = (c + 1) + i
        BY <3>2, <2>1, <1>5
      <4>2. (l \o t)[i + 1] = s[c + (i + 1)]
        BY <1>3, <1>4, <3>1, <4>1
      <4>3. (k \o t)[i] = s[(c + 1) + i]
        BY <2>2, <2>6, <4>1, SMTT(30)
      <4>4. QED
        BY <3>1, <4>1, <4>2, <4>3
    <3>3. CASE ~(i <= n - (c + 1))
      <4>1. ~(i + 1 <= n - c) /\ (i + 1) - (n - c) = i - (n - (c + 1))
        BY <3>3, <2>1, <1>5
      <4>2. (l \o t)[i + 1] = t[(i + 1) - (n - c)]
        BY <1>4, <3>1, <4>1
      <4>3. (k \o t)[i] = t[i - (n - (c + 1))]
        BY <2>6, <3>3
      <4>4. QED
        BY <3>1, <4>1, <4>2, <4>3
    <3>4. QED
      BY <3>2, <3>3
  <2>8. Tail(l \o t) = k \o t
    BY <2>5, <2>6, <2>7, SeqEqual
  <2>9. QED
    BY <2>2, <2>3, <2>4, <2>8
<1>7. c = n => l \o t = t
  <2>1. ASSUME c = n
        PROVE  l \o t = t
    <3>1. l = << >>
      BY <1>3, <2>1, EmptySeq
    <3>2. QED
      BY <3>1, ConcatEmptySeq
  <2>2. QED
    BY <2>1
<1>8. c = 0 => l = s
  <2>1. ASSUME c = 0
        PROVE  l = s
    <3>1. Len(l) = n /\ \A i \in 1..n : l[i] = s[i]
      BY <1>3, <2>1
    <3>2. QED
      BY <1>1, <3>1, SeqEqual
  <2>2. QED
    BY <2>1
<1>9. AllTaken(s, c) <=> c = n
  BY <1>1 DEF AllTaken
<1>10. QED
  BY <1>1, <1>3, <1>4, <1>6, <1>7, <1>8, <1>9

-----------------------------------------------------------------------------
(* Tables and integers. *)

\* The entries of one table are the first ones of another.
Kept(s, t) ==
    Len(s) \in Nat /\ Len(t) \in Nat /\ Len(s) <= Len(t)
        /\ \A i \in 1..Len(s) : t[i] = s[i]

\* What a table keeps of one that kept another's.
LEMMA KeptByAll ==
    ASSUME NEW s, NEW t, NEW u, Kept(s, t), Kept(t, u)
    PROVE  Kept(s, u)
BY DEF Kept

\* A table keeps its own entries.
LEMMA KeptItself ==
    ASSUME NEW S, NEW s \in Seq(S)
    PROVE  Kept(s, s)
BY LenProperties DEF Kept

\* A registered value has a number, which resolves to it; the table keeps its
\* other numbers and no value gets a second one.
LEMMA Registered ==
    ASSUME NEW S, NEW table \in Seq(S), NEW v \in S, NEW t,
           t = register_value(table, v)
    PROVE  /\ t \in Seq(S) /\ Kept(table, t)
           /\ HasValue(t, v) /\ get_id(t, v) \in 0..Len(t) - 1
           /\ get_value(t, get_id(t, v)) = v
           /\ HasValue(table, v) => t = table
           /\ ~HasValue(table, v) =>
                 t = Append(table, v) /\ Len(t) = Len(table) + 1 /\ t[Len(t)] = v
           /\ Distinct(table) => Distinct(t)
<1>1. Len(table) \in Nat /\ DOMAIN table = 1..Len(table)
  BY LenProperties
<1>2. CASE HasValue(table, v)
  <2>1. t = table
    BY <1>2 DEF register_value
  <2>2. PICK i \in 1..Len(table) : table[i] = v /\ get_id(table, v) = i - 1
    BY <1>1, <1>2 DEF HasValue, get_id
  <2>3. get_value(table, i - 1) = table[i]
    BY <2>2 DEF get_value
  <2>4. QED
    BY <1>1, <1>2, <2>1, <2>2, <2>3, KeptItself
<1>3. CASE ~HasValue(table, v)
  <2>1. t = Append(table, v)
    BY <1>3 DEF register_value
  <2>2. /\ t \in Seq(S) /\ Len(t) = Len(table) + 1
        /\ \A i \in 1..Len(table) : t[i] = table[i]
        /\ t[Len(table) + 1] = v
    BY <2>1, AppendProperties
  <2>3. DOMAIN t = 1..Len(table) + 1
    BY <2>2, LenProperties
  <2>4. HasValue(t, v)
    BY <1>1, <2>2, <2>3 DEF HasValue
  <2>5. PICK i \in 1..Len(t) : t[i] = v /\ get_id(t, v) = i - 1
    BY <2>2, <2>3, <2>4 DEF HasValue, get_id
  <2>6. get_value(t, i - 1) = t[i]
    BY <2>5 DEF get_value
  <2>7. Distinct(table) => Distinct(t)
    BY <1>1, <1>3, <2>2, <2>3 DEF Distinct, HasValue
  <2>8. Kept(table, t)
    BY <1>1, <2>2 DEF Kept
  <2>9. Len(t) = Len(table) + 1 /\ t[Len(t)] = v
    BY <2>2
  <2>10. get_id(t, v) \in 0..Len(t) - 1 /\ get_value(t, get_id(t, v)) = v
    BY <1>1, <2>5, <2>6, <2>9
  <2>11. QED
    BY <1>3, <2>1, <2>2, <2>4, <2>7, <2>8, <2>9, <2>10
<1>4. QED
  BY <1>2, <1>3

\* The numbers and strings are values.
LEMMA ScalarsAreValues == Scalars \subseteq Values
<1>1. Depth \in 0..Depth
  BY DepthAssumption
<1>2. CASE Depth = 0
  BY <1>2, LevelSteps DEF Values
<1>3. CASE Depth # 0
  <2>1. Depth \in 1..Depth
    BY <1>3, DepthAssumption
  <2>2. QED
    BY <2>1, LevelSteps DEF Values
<1>4. QED
  BY <1>2, <1>3

ScalarTag(v) == CASE v.kind = "I64"  -> encode_v2_i64(v.num)
                  [] v.kind = "U64"  -> encode_v2_u64(v.num)
                  [] v.kind = "Null" -> Tag("Null", 0, NoText)

\* A scalar is its kind and what belongs to it.
LEMMA ScalarCases ==
    ASSUME NEW v \in Scalars
    PROVE  \/ v = Null
           \/ v = I64(v.num) /\ v.num \in Int
           \/ v = U64(v.num) /\ v.num \in Nat
           \/ v = Str(v.str) /\ v.str \in STRING
BY DEF Scalars, ValuesOf, Value, Null, I64, U64, Str

\* A scalar is normal but for its sign.
LEMMA NormalScalar ==
    ASSUME NEW v \in Scalars
    PROVE  Normal[v] = Unsigned(v)
<1>1. v.kind \notin {"Map", "Array"}
  BY ScalarCases DEF Value, Null, I64, U64, Str
<1>2. v \in Values
  BY ScalarsAreValues
<1>3. Normal[v] = NormalOver(Normal, v)
  BY <1>2, NormalSteps
<1>4. QED
  BY <1>1, <1>3 DEF NormalOver

\* The tag of a signed integer.
LEMMA SignedTag ==
    ASSUME NEW n \in Int, NEW t, t = encode_v2_i64(n)
    PROVE  t.tag \in IntTags /\ decode_v2_int(t) = Unsigned(I64(n))
<1>1. I64(n).kind = "I64" /\ I64(n).num = n
  BY DEF I64, Value
<1>2. CASE -32 <= n /\ n <= -1
  <2>1. t = Tag("NegFixInt", n % 256, NoText) /\ n % 256 = n + 256
    BY <1>2 DEF encode_v2_i64
  <2>2. t.tag = "NegFixInt" /\ t.num = n + 256
    BY <2>1 DEF Tag
  <2>3. decode_v2_int(t) = I64(n)
    BY <1>2, <2>2 DEF decode_v2_int
  <2>4. QED
    BY <1>1, <1>2, <2>2, <2>3 DEF Unsigned, IntTags
<1>3. CASE 0 <= n /\ n <= 127
  <2>1. t.tag = "FixInt" /\ t.num = n
    BY <1>3 DEF encode_v2_i64, Tag
  <2>2. QED
    BY <1>1, <1>3, <2>1 DEF Unsigned, IntTags, decode_v2_int
<1>4. CASE -128 <= n /\ n < -32
  <2>1. t = Tag("I8", n % 256, NoText) /\ n % 256 = n + 256
    BY <1>4 DEF encode_v2_i64
  <2>2. t.tag = "I8" /\ t.num = n + 256
    BY <2>1 DEF Tag
  <2>3. decode_v2_int(t) = I64(n)
    BY <1>4, <2>2 DEF decode_v2_int, Signed
  <2>4. QED
    BY <1>1, <1>4, <2>2, <2>3 DEF Unsigned, IntTags
<1>5. CASE (-32768 <= n /\ n < -128) \/ (127 < n /\ n <= 32767)
  <2>1. /\ t = Tag("I16", n % 65536, NoText)
        /\ n % 65536 = IF n < 0 THEN n + 65536 ELSE n
    BY <1>5 DEF encode_v2_i64
  <2>2. t.tag = "I16" /\ t.num = IF n < 0 THEN n + 65536 ELSE n
    BY <2>1 DEF Tag
  <2>3. Signed(t.num, 32768) = n
    BY <1>5, <2>2 DEF Signed
  <2>4. decode_v2_int(t) = I64(n)
    BY <2>2, <2>3 DEF decode_v2_int
  <2>5. QED
    BY <1>1, <1>5, <2>2, <2>4 DEF Unsigned, IntTags
<1>6. CASE n < -32768 \/ 32767 < n
  <2>1. t.tag = "I32" /\ t.num = n
    BY <1>6 DEF encode_v2_i64, Tag
  <2>2. decode_v2_int(t) = I64(n)
    BY <2>1 DEF decode_v2_int
  <2>3. QED
    BY <1>1, <1>6, <2>1, <2>2 DEF Unsigned, IntTags
<1>7. QED
  BY <1>2, <1>3, <1>4, <1>5, <1>6

\* The tag of a scalar that is not a string decodes to it, but for its sign.
LEMMA ScalarRoundtrip ==
    ASSUME NEW v \in Scalars, v.kind \in {"Null", "I64", "U64"}, NEW t,
           t = ScalarTag(v)
    PROVE  /\ t.tag \in IntTags \cup {"Null"}
           /\ (IF t.tag = "Null" THEN Null ELSE decode_v2_int(t)) = Normal[v]
           /\ Normal[v] \in Scalars
<1>1. Normal[v] = Unsigned(v)
  BY NormalScalar
<1>2. CASE v.kind = "Null"
  <2>1. v = Null
    BY <1>2, ScalarCases DEF Value, I64, U64, Str
  <2>2. t.tag = "Null"
    BY <1>2 DEF ScalarTag, Tag
  <2>3. Unsigned(v) = v
    BY <1>2 DEF Unsigned
  <2>4. QED
    BY <1>1, <2>1, <2>2, <2>3
<1>3. CASE v.kind = "I64"
  <2>1. v = I64(v.num) /\ v.num \in Int
    BY <1>3, ScalarCases DEF Value, Null, U64, Str
  <2>2. t = encode_v2_i64(v.num)
    BY <1>3 DEF ScalarTag
  <2>3. t.tag \in IntTags /\ decode_v2_int(t) = Unsigned(v)
    BY <2>1, <2>2, SignedTag
  <2>4. Unsigned(v) \in Scalars
    <3>1. \A n \in Nat : U64(n) \in Scalars
      BY DEF U64, Value, Scalars, ValuesOf
    <3>2. v.num \in 0..127 => v.num \in Nat
      OBVIOUS
    <3> HIDE DEF Scalars
    <3>3. QED
      BY <3>1, <3>2 DEF Unsigned
  <2>5. QED
    BY <1>1, <2>3, <2>4 DEF IntTags
<1>4. CASE v.kind = "U64"
  <2>1. v = U64(v.num) /\ v.num \in Nat
    BY <1>4, ScalarCases DEF Value, Null, I64, Str
  <2>2. t = encode_v2_u64(v.num)
    BY <1>4 DEF ScalarTag
  <2>3. t.tag \in {"FixInt", "U8", "U16", "U32"} /\ t.num = v.num
    BY <2>1, <2>2 DEF encode_v2_u64, Tag
  <2>4. decode_v2_int(t) = U64(v.num)
    BY <2>3 DEF decode_v2_int
  <2>5. Unsigned(v) = v
    BY <1>4 DEF Unsigned
  <2>6. QED
    BY <1>1, <2>1, <2>3, <2>4, <2>5 DEF IntTags
<1>5. QED
  BY <1>2, <1>3, <1>4

\* The first elements with another one after them.
Exchanged(s, j, f) == Append(SubSeq(s, 1, j - 1), f)

\* Exchanging the last frame, and leaving it for the one below.
LEMMA TopExchanged ==
    ASSUME NEW s, s \in Seq(Range(s)), NEW f, NEW j \in 1..Len(s)
    PROVE  /\ Exchanged(s, j, f) \in Seq(Range(Exchanged(s, j, f)))
           /\ Len(Exchanged(s, j, f)) = j /\ Exchanged(s, j, f) # << >>
           /\ \A i \in 1..j - 1 : Exchanged(s, j, f)[i] = s[i]
           /\ Exchanged(s, j, f)[j] = f
<1>0. PICK new : new = Exchanged(s, j, f)
  OBVIOUS
<1> DEFINE S == Range(s)
<1>1. Len(s) \in Nat /\ \A i \in 1..Len(s) : s[i] \in S
  BY LenProperties, ElementOfSeq
<1>2. PICK b : b = SubSeq(s, 1, j - 1)
  OBVIOUS
<1>3. b \in Seq(S) /\ Len(b) = j - 1 /\ \A i \in 1..j - 1 : b[i] = s[i]
  <2>1. \A i \in 1..(j - 1) : s[i] \in S
    BY <1>1
  <2> HIDE DEF S
  <2>2. /\ b \in Seq(S)
        /\ Len(b) = IF 1 <= j - 1 THEN (j - 1) - 1 + 1 ELSE 0
        /\ \A i \in 1..(j - 1) - 1 + 1 : b[i] = s[1 + i - 1]
    BY <1>2, <2>1, SubSeqProperties
  <2>3. QED
    BY <2>2
<1>4. b \in Seq(Range(b))
  BY <1>3, SeqOfRange
<1>5. Longer(b, new, f)
  BY <1>0, <1>2, <1>4, Appended DEF Exchanged
<1>6. QED
  <2>1. /\ new \in Seq(Range(new)) /\ Len(new) = (j - 1) + 1
        /\ \A i \in 1..j - 1 : new[i] = b[i]
        /\ new[Len(new)] = f
    BY <1>3, <1>5 DEF Longer
  <2>2. new # << >>
    BY <2>1, EmptySeq
  <2>3. QED
    BY <1>0, <1>3, <2>1, <2>2

-----------------------------------------------------------------------------
(* The writer: what each token was written for. *)

Tables == [keys : Seq(STRING), strings : Seq(STRING), shapes : Seq(Seq(STRING))]

\* What an item is written as, the tables after it and what it puts in front
\* of what is left to write.
TokenFor(item, t) ==
    IF item.key THEN key_token(t, item.str)
    ELSE IF item.val.kind \in {"Null", "I64", "U64"} THEN ScalarTag(item.val)
    ELSE IF item.val.kind = "String" THEN string_token(t, item.val.str)
    ELSE IF item.val.kind = "Map" THEN Tag("Map", Count(item.val), NoText)
    ELSE IF Shaped(item.val)
    THEN [tag |-> "ShapeArray", num |-> Count(item.val),
          shape |-> get_id(register_value(t.shapes, ShapeKeys(item.val)),
                           ShapeKeys(item.val)),
          key_count |-> Width(item.val)]
    ELSE Tag("Array", Count(item.val), NoText)

TablesFor(item, t) ==
    IF item.key THEN [t EXCEPT !.keys = register_value(@, item.str)]
    ELSE IF item.val.kind = "String"
    THEN [t EXCEPT !.strings = register_value(@, item.val.str)]
    ELSE IF Shaped(item.val)
    THEN [t EXCEPT !.shapes = register_value(@, ShapeKeys(item.val))]
    ELSE t

RestFor(item) ==
    IF ~item.key /\ item.val.kind \in {"Map", "Array"} THEN Rest(item.val) ELSE << >>

\* Between two tokens the writer is at a point: what is left and the tables.
Point(p) == /\ p.todo \in Seq(Items) /\ p.w \in Tables
            /\ Distinct(p.w.keys) /\ Distinct(p.w.strings)

TablesKept(t, u) ==
    Kept(t.keys, u.keys) /\ Kept(t.strings, u.strings) /\ Kept(t.shapes, u.shapes)

Wrote(p, q, token) ==
    /\ p.todo # << >>
    /\ token.tag = TokenFor(Head(p.todo), p.w)
    /\ q.w = TablesFor(Head(p.todo), p.w)
    /\ q.todo = RestFor(Head(p.todo)) \o Tail(p.todo)
    /\ token.keys = Len(q.w.keys) /\ token.strings = Len(q.w.strings)

\* An item is a key or a value.
LEMMA ItemCases ==
    ASSUME NEW item \in Items
    PROVE  \/ item.key = TRUE /\ item.str \in STRING /\ item = WriteKeyItem(item.str)
           \/ item.key = FALSE /\ item.val \in Values /\ item = WriteValItem(item.val)
BY DEF Items, WriteKeyItem, WriteValItem

\* A value is a scalar or not, by its kind.
LEMMA KindCases ==
    ASSUME NEW v \in Values
    PROVE  \/ v \in Scalars /\ v.kind \in {"Null", "I64", "U64"} /\ ~Shaped(v)
           \/ v \in Scalars /\ v.kind = "String" /\ v = Str(v.str) /\ v.str \in STRING /\ ~Shaped(v)
           \/ v \in Containers(Values) /\ v.kind \in {"Map", "Array"}
<1>1. CASE v \in Containers(Values)
  BY <1>1, ContainerFields
<1>2. CASE v \in Scalars
  BY <1>2, ScalarCases DEF Value, Null, I64, U64, Str, Shaped
<1>3. QED
  BY <1>1, <1>2, ValueCases

\* One token takes the writer from one point to another one.
LEMMA PointAfter ==
    ASSUME NEW p, Point(p), p.todo # << >>, NEW q,
           q.w = TablesFor(Head(p.todo), p.w),
           q.todo = RestFor(Head(p.todo)) \o Tail(p.todo)
    PROVE  Point(q) /\ TablesKept(p.w, q.w)
<1>1. PICK item \in Items : item = Head(p.todo) /\ Tail(p.todo) \in Seq(Items)
  BY HeadTailProperties DEF Point
<1>2. /\ p.w \in Tables /\ p.w.keys \in Seq(STRING) /\ p.w.strings \in Seq(STRING)
      /\ p.w.shapes \in Seq(Seq(STRING))
      /\ Distinct(p.w.keys) /\ Distinct(p.w.strings)
  BY DEF Point, Tables
<1>3. /\ Kept(p.w.keys, p.w.keys) /\ Kept(p.w.strings, p.w.strings)
      /\ Kept(p.w.shapes, p.w.shapes)
  BY <1>2, KeptItself
<1>4. CASE item.key = TRUE /\ item.str \in STRING
  <2>1. PICK t : t = register_value(p.w.keys, item.str)
    OBVIOUS
  <2>2. t \in Seq(STRING) /\ Kept(p.w.keys, t) /\ Distinct(t)
    BY <1>2, <1>4, <2>1, Registered
  <2>3. q.w = [p.w EXCEPT !.keys = t]
    BY <1>1, <1>4, <2>1 DEF TablesFor
  <2>4. /\ q.w \in Tables /\ q.w.keys = t /\ q.w.strings = p.w.strings
        /\ q.w.shapes = p.w.shapes
    BY <1>2, <2>2, <2>3 DEF Tables
  <2>5. RestFor(item) = << >>
    BY <1>4 DEF RestFor
  <2>6. q.todo \in Seq(Items)
    BY <1>1, <2>5, ConcatEmptySeq
  <2>7. QED
    BY <1>2, <1>3, <2>2, <2>4, <2>6 DEF Point, TablesKept
<1>5. CASE item.key = FALSE /\ item.val \in Values
  <2>1. PICK v \in Values : v = item.val
    BY <1>5
  <2>2. CASE v \in Scalars /\ v.kind = "String" /\ v.str \in STRING
    <3>1. PICK t : t = register_value(p.w.strings, v.str)
      OBVIOUS
    <3>2. t \in Seq(STRING) /\ Kept(p.w.strings, t) /\ Distinct(t)
      BY <1>2, <2>2, <3>1, Registered
    <3>3. q.w = [p.w EXCEPT !.strings = t]
      BY <1>1, <1>5, <2>1, <2>2, <3>1 DEF TablesFor
    <3>4. /\ q.w \in Tables /\ q.w.keys = p.w.keys /\ q.w.strings = t
          /\ q.w.shapes = p.w.shapes
      BY <1>2, <3>2, <3>3 DEF Tables
    <3>5. RestFor(item) = << >>
      BY <2>1, <2>2 DEF RestFor
    <3>6. q.todo \in Seq(Items)
      BY <1>1, <3>5, ConcatEmptySeq
    <3>7. QED
      BY <1>2, <1>3, <3>2, <3>4, <3>6 DEF Point, TablesKept
  <2>3. CASE v \in Scalars /\ v.kind \in {"Null", "I64", "U64"} /\ ~Shaped(v)
    <3>1. q.w = p.w
      BY <1>1, <1>5, <2>1, <2>3 DEF TablesFor
    <3>2. RestFor(item) = << >>
      BY <2>1, <2>3 DEF RestFor
    <3>3. q.todo \in Seq(Items)
      BY <1>1, <3>2, ConcatEmptySeq
    <3>4. QED
      BY <1>2, <1>3, <3>1, <3>3 DEF Point, TablesKept
  <2>4. CASE v \in Containers(Values) /\ v.kind \in {"Map", "Array"}
    <3>1. RestFor(item) = Rest(v) /\ Rest(v) \in Seq(Items)
      BY <1>5, <2>1, <2>4, RestShape DEF RestFor
    <3>2. q.todo \in Seq(Items)
      BY <1>1, <3>1, ConcatProperties
    <3>3. CASE Shaped(v)
      <4>1. PICK t : t = register_value(p.w.shapes, ShapeKeys(v))
        OBVIOUS
      <4>2. t \in Seq(Seq(STRING)) /\ Kept(p.w.shapes, t)
        BY <1>2, <2>4, <3>3, <4>1, Rows, Registered
      <4>3. q.w = [p.w EXCEPT !.shapes = t]
        BY <1>1, <1>5, <2>1, <2>4, <3>3, <4>1 DEF TablesFor
      <4>4. /\ q.w \in Tables /\ q.w.keys = p.w.keys /\ q.w.strings = p.w.strings
            /\ q.w.shapes = t
        BY <1>2, <4>2, <4>3 DEF Tables
      <4>5. QED
        BY <1>2, <1>3, <3>2, <4>2, <4>4 DEF Point, TablesKept
    <3>4. CASE ~Shaped(v)
      <4>1. q.w = p.w
        BY <1>1, <1>5, <2>1, <2>4, <3>4 DEF TablesFor
      <4>2. QED
        BY <1>2, <1>3, <3>2, <4>1 DEF Point, TablesKept
    <3>5. QED
      BY <3>3, <3>4
  <2>5. QED
    BY <2>2, <2>3, <2>4, KindCases
<1>6. QED
  BY <1>4, <1>5, ItemCases

\* Each action of the writer writes the first item that is left.
LEMMA WriterEmits ==
    ASSUME todo \in Seq(Items),
           \/ encode_v2_key \/ encode_v2_scalar \/ encode_v2_string
           \/ encode_v2_map \/ encode_v2_array
    PROVE  /\ todo # << >>
           /\ Emit(TokenFor(Head(todo), w), TablesFor(Head(todo), w), RestFor(Head(todo)))
<1>1. todo # << >>
  BY DEF encode_v2_key, encode_v2_scalar, encode_v2_string, encode_v2_map,
         encode_v2_array, Writing
<1>2. PICK item \in Items : item = Head(todo)
  BY <1>1, HeadTailProperties
<1>3. \/ item.key = TRUE
      \/ item.key = FALSE /\ item.val \in Values
  BY ItemCases
<1>4. CASE encode_v2_key
  <2>1. Emit(key_token(w, item.str), [w EXCEPT !.keys = register_value(@, item.str)], << >>)
        /\ item.key
    BY <1>2, <1>4 DEF encode_v2_key
  <2>2. QED
    BY <1>1, <1>2, <2>1 DEF TokenFor, TablesFor, RestFor
<1>5. CASE encode_v2_scalar
  <2>1. PICK v \in Values : v = item.val /\ ~item.key
    BY <1>2, <1>3, <1>5 DEF encode_v2_scalar
  <2>2. v.kind \in {"Null", "I64", "U64"} /\ Emit(ScalarTag(v), w, << >>)
    BY <1>2, <1>5, <2>1 DEF encode_v2_scalar, ScalarTag
  <2>3. v.kind # "String" /\ ~Shaped(v) /\ v.kind \notin {"Map", "Array"}
    BY <2>2 DEF Shaped
  <2>4. QED
    BY <1>1, <1>2, <2>1, <2>2, <2>3 DEF TokenFor, TablesFor, RestFor
<1>6. CASE encode_v2_string
  <2>1. PICK v \in Values : v = item.val /\ ~item.key
    BY <1>2, <1>3, <1>6 DEF encode_v2_string
  <2>2. /\ v.kind = "String"
        /\ Emit(string_token(w, v.str), [w EXCEPT !.strings = register_value(@, v.str)], << >>)
    BY <1>2, <1>6, <2>1 DEF encode_v2_string
  <2>3. QED
    BY <1>1, <1>2, <2>1, <2>2 DEF TokenFor, TablesFor, RestFor
<1>7. CASE encode_v2_map
  <2>1. PICK v \in Values : v = item.val /\ ~item.key
    BY <1>2, <1>3, <1>7 DEF encode_v2_map
  <2>2. v.kind = "Map" /\ Emit(Tag("Map", Count(v), NoText), w, MapItems(v))
    BY <1>2, <1>7, <2>1 DEF encode_v2_map, Count
  <2>3. ~Shaped(v)
    BY <2>2 DEF Shaped
  <2>4. QED
    BY <1>1, <1>2, <2>1, <2>2, <2>3 DEF TokenFor, TablesFor, RestFor, Rest
<1>8. CASE encode_v2_array
  <2>1. PICK v \in Values : v = item.val /\ ~item.key
    BY <1>2, <1>3, <1>8 DEF encode_v2_array
  <2>2. v.kind = "Array"
    BY <1>2, <1>8, <2>1 DEF encode_v2_array
  <2>3. v \in Containers(Values)
    BY <2>2, KindCases
  <2>4. Len(ValsOf(v)) = Count(v)
    BY <2>3, Contents
  <2>5. CASE Shaped(v)
    <3>1. Emit([tag |-> "ShapeArray", num |-> Count(v),
                shape |-> get_id(register_value(w.shapes, ShapeKeys(v)), ShapeKeys(v)),
                key_count |-> Width(v)],
               [w EXCEPT !.shapes = register_value(w.shapes, ShapeKeys(v))],
               KeyItems(ShapeKeys(v)) \o Cells(ValsOf(v)))
      BY <1>2, <1>8, <2>1, <2>4, <2>5
         DEF encode_v2_array, Shaped, ShapeKeys, Width, KeyItems, Cells
    <3>2. QED
      BY <1>1, <1>2, <2>1, <2>2, <2>5, <3>1 DEF TokenFor, TablesFor, RestFor, Rest
  <2>6. CASE ~Shaped(v)
    <3>1. Emit(Tag("Array", Count(v), NoText), w, ValItems(ValsOf(v)))
      BY <1>2, <1>8, <2>1, <2>2, <2>4, <2>6 DEF encode_v2_array, Shaped
    <3>2. QED
      BY <1>1, <1>2, <2>1, <2>2, <2>6, <3>1 DEF TokenFor, TablesFor, RestFor, Rest
  <2>7. QED
    BY <2>5, <2>6
<1>9. QED
  BY <1>4, <1>5, <1>6, <1>7, <1>8

\* The points h that the writer of document d went through: from the whole
\* document to what is left now, one token from each to the next.
Traced(h, d, ts, td, tb) ==
    /\ ts \in Seq(Range(ts))
    /\ h[0].todo = << WriteValItem(d) >> /\ h[0].w = NewTables
    /\ h[Len(ts)].todo = td /\ h[Len(ts)].w = tb
    /\ \A i \in 0..Len(ts) : Point(h[i])
    /\ \A i \in 1..Len(ts) : Wrote(h[i - 1], h[i], ts[i])
    /\ \A i, j \in 0..Len(ts) : i <= j => TablesKept(h[i].w, h[j].w)

\* A new document.
LEMMA TracedNew ==
    ASSUME NEW d \in Values
    PROVE  \E h : Traced(h, d, << >>, << WriteValItem(d) >>, NewTables)
<1> DEFINE p == [todo |-> << WriteValItem(d) >>, w |-> NewTables]
           h == [i \in 0..0 |-> p]
<1>1. Point(p)
  <2>1. WriteValItem(d) \in Items
    BY DEF Items
  <2>2. << WriteValItem(d) >> \in Seq(Items)
    BY <2>1
  <2>3. NewTables \in Tables /\ Distinct(NewTables.keys) /\ Distinct(NewTables.strings)
    BY DEF NewTables, Tables, clear, Distinct
  <2>4. QED
    BY <2>2, <2>3 DEF Point
<1>2. TablesKept(p.w, p.w)
  BY <1>1, KeptItself DEF Point, TablesKept, Tables
<1>3. << >> \in Seq(Range(<< >>)) /\ Len(<< >>) = 0
  BY EmptySeq
<1>4. h[0] = p
  OBVIOUS
<1>5. p.todo = << WriteValItem(d) >> /\ p.w = NewTables
  OBVIOUS
<1> HIDE DEF p, h
<1>6. QED
  <2>1. \A i \in 0..0 : i = 0
    OBVIOUS
  <2>2. 1..0 = {}
    OBVIOUS
  <2>3. Traced(h, d, << >>, << WriteValItem(d) >>, NewTables)
    BY <1>1, <1>2, <1>3, <1>4, <1>5, <2>1, <2>2 DEF Traced
  <2>4. QED
    BY <2>3

\* There is a history of ts2 that begins with the one, h, of the first n tokens.
TracedAfter(h, n, d, ts2, td2, tb2) ==
    \E g : Traced(g, d, ts2, td2, tb2) /\ \A i \in 0..n : g[i] = h[i]

\* One more token.  What the writer went through before stays as it was.
LEMMA TracedOn ==
    ASSUME NEW h, NEW d, NEW ts, NEW td, NEW tb, Traced(h, d, ts, td, tb),
           NEW ts2, NEW td2, NEW tb2, NEW token, ts2 = Append(ts, token),
           NEW p, p = [todo |-> td, w |-> tb],
           NEW q, q = [todo |-> td2, w |-> tb2], Wrote(p, q, token)
    PROVE  TracedAfter(h, Len(ts), d, ts2, td2, tb2)
<1>1. PICK n \in Nat : n = Len(ts)
  BY LenProperties DEF Traced
<1>2. /\ ts2 \in Seq(Range(ts2)) /\ Len(ts2) = n + 1
      /\ \A i \in 1..n : ts2[i] = ts[i]
      /\ ts2[n + 1] = token
  BY <1>1, Appended DEF Traced, Longer
<1>3. p.todo = h[n].todo /\ p.w = h[n].w /\ Point(h[n])
  BY <1>1 DEF Traced
<1>4. Point(p)
  BY <1>3 DEF Point
<1>5. Point(q) /\ TablesKept(p.w, q.w)
  BY <1>4, PointAfter DEF Wrote
<1>6. Wrote(h[n], q, token)
  BY <1>3 DEF Wrote
<1>7. q.todo = td2 /\ q.w = tb2
  OBVIOUS
<1> DEFINE g == [i \in 0..n + 1 |-> IF i = n + 1 THEN q ELSE h[i]]
<1>8. g[n + 1] = q /\ \A i \in 0..n : g[i] = h[i]
  OBVIOUS
<1> HIDE DEF g
<1>9. \A i \in 0..n : Point(h[i])
  BY <1>1 DEF Traced
<1>10. \A i \in 0..n + 1 : Point(g[i])
  BY <1>5, <1>8, <1>9
<1>11. \A i \in 1..n + 1 : Wrote(g[i - 1], g[i], ts2[i])
  <2>1. \A i \in 1..n : Wrote(h[i - 1], h[i], ts[i])
    BY <1>1 DEF Traced
  <2>2. ASSUME NEW i \in 1..n + 1
        PROVE  Wrote(g[i - 1], g[i], ts2[i])
    <3>1. CASE i = n + 1
      <4>1. g[i - 1] = h[n] /\ g[i] = q /\ ts2[i] = token
        BY <1>2, <1>8, <3>1
      <4>2. QED
        BY <1>6, <4>1
    <3>2. CASE i # n + 1
      <4>1. i \in 1..n /\ g[i - 1] = h[i - 1] /\ g[i] = h[i] /\ ts2[i] = ts[i]
        BY <1>2, <1>8, <3>2
      <4>2. QED
        BY <2>1, <4>1
    <3>3. QED
      BY <3>1, <3>2
  <2>3. QED
    BY <2>2
<1>12. \A i, j \in 0..n + 1 : i <= j => TablesKept(g[i].w, g[j].w)
  <2>1. \A i, j \in 0..n : i <= j => TablesKept(h[i].w, h[j].w)
    BY <1>1 DEF Traced
  <2>2. \A t, u, x : TablesKept(t, u) /\ TablesKept(u, x) => TablesKept(t, x)
    BY KeptByAll DEF TablesKept
  <2>3. TablesKept(h[n].w, q.w) /\ TablesKept(q.w, q.w)
    <3>1. TablesKept(q.w, q.w)
      BY <1>5, KeptItself DEF Point, TablesKept, Tables
    <3>2. QED
      BY <1>3, <1>5, <3>1
  <2>4. ASSUME NEW i \in 0..n + 1, NEW j \in 0..n + 1, i <= j
        PROVE  TablesKept(g[i].w, g[j].w)
    <3>1. CASE j # n + 1
      <4>1. i \in 0..n /\ j \in 0..n
        BY <2>4, <3>1
      <4>2. QED
        BY <1>8, <2>1, <2>4, <4>1
    <3>2. CASE j = n + 1 /\ i = n + 1
      BY <1>8, <2>3, <3>2
    <3>3. CASE j = n + 1 /\ i # n + 1
      <4>1. i \in 0..n /\ n \in 0..n /\ i <= n
        BY <3>3
      <4>2. TablesKept(h[i].w, h[n].w)
        BY <2>1, <4>1
      <4>3. QED
        BY <1>8, <2>2, <2>3, <3>3, <4>1, <4>2
    <3>4. QED
      BY <3>1, <3>2, <3>3
  <2>5. QED
    BY <2>4
<1>13. /\ g[0].todo = << WriteValItem(d) >> /\ g[0].w = NewTables
       /\ g[n + 1].todo = td2 /\ g[n + 1].w = tb2
  BY <1>1, <1>7, <1>8 DEF Traced
<1>14. Traced(g, d, ts2, td2, tb2)
  BY <1>2, <1>10, <1>11, <1>12, <1>13 DEF Traced
<1>15. QED
  BY <1>1, <1>8, <1>14 DEF TracedAfter

\* A step of the writer writes one token.
LEMMA WriterStep ==
    ASSUME NEW h, Traced(h, doc, tokens, todo, w),
           \/ encode_v2_key \/ encode_v2_scalar \/ encode_v2_string
           \/ encode_v2_map \/ encode_v2_array
    PROVE  /\ \E g : /\ Traced(g, doc', tokens', todo', w')
                     /\ \A i \in 0..Len(tokens) : g[i] = h[i]
           /\ Len(tokens') = Len(tokens) + 1
           /\ UNCHANGED << doc, pos, r, frames, res >>
<1>1. todo \in Seq(Items) /\ Len(tokens) \in Nat /\ tokens \in Seq(Range(tokens))
  BY LenProperties DEF Traced, Point
<1>2. /\ todo # << >>
      /\ Emit(TokenFor(Head(todo), w), TablesFor(Head(todo), w), RestFor(Head(todo)))
  BY <1>1, WriterEmits
<1>3. PICK token : token = [tag |-> TokenFor(Head(todo), w),
                            keys |-> Len(TablesFor(Head(todo), w).keys),
                            strings |-> Len(TablesFor(Head(todo), w).strings)]
  OBVIOUS
<1>4. /\ tokens' = Append(tokens, token) /\ w' = TablesFor(Head(todo), w)
      /\ todo' = RestFor(Head(todo)) \o Tail(todo)
      /\ UNCHANGED << doc, pos, r, frames, res >>
  BY <1>2, <1>3 DEF Emit
<1>5. PICK td2, tb2, ts2 : td2 = todo' /\ tb2 = w' /\ ts2 = tokens'
  OBVIOUS
<1>6. TracedAfter(h, Len(tokens), doc, ts2, td2, tb2)
  <2>1. PICK p, q : p = [todo |-> todo, w |-> w] /\ q = [todo |-> td2, w |-> tb2]
    OBVIOUS
  <2>2. p.todo = todo /\ p.w = w /\ q.todo = td2 /\ q.w = tb2
    BY <2>1
  <2>3. Wrote(p, q, token)
    BY <1>2, <1>3, <1>4, <1>5, <2>2 DEF Wrote
  <2>4. ts2 = Append(tokens, token)
    BY <1>4, <1>5
  <2>5. QED
    BY <2>1, <2>3, <2>4, TracedOn
<1>7. Len(tokens') = Len(tokens) + 1
  BY <1>1, <1>4, Appended DEF Longer
<1>8. TracedAfter(h, Len(tokens), doc', tokens', todo', w')
  BY <1>4, <1>5, <1>6
<1>9. QED
  BY <1>4, <1>7, <1>8 DEF TracedAfter

\* What a table has stays in it.
LEMMA StillThere ==
    ASSUME NEW S, NEW s \in Seq(S), NEW t \in Seq(S), Kept(s, t), NEW v, HasValue(s, v)
    PROVE  HasValue(t, v)
<1>1. PICK i \in 1..Len(s) : s[i] = v
  BY LenProperties DEF HasValue
<1>2. i \in DOMAIN t /\ t[i] = v
  BY <1>1, LenProperties DEF Kept
<1>3. QED
  BY <1>2 DEF HasValue

\* The sizes that travel with a token are those of the tables after it.
LEMMA SizesTraced ==
    ASSUME NEW h, Traced(h, doc, tokens, todo, w)
    PROVE  \A i \in 0..Len(tokens) : /\ SizeOf(i).keys = Len(h[i].w.keys)
                                     /\ SizeOf(i).strings = Len(h[i].w.strings)
<1>1. Len(tokens) \in Nat
  BY LenProperties DEF Traced
<1>2. ASSUME NEW i \in 0..Len(tokens)
      PROVE  SizeOf(i).keys = Len(h[i].w.keys) /\ SizeOf(i).strings = Len(h[i].w.strings)
  <2>1. CASE i = 0
    <3>1. h[0].w.keys = << >> /\ h[0].w.strings = << >>
      BY DEF Traced, NewTables, clear
    <3>2. Len(<< >>) = 0
      BY EmptySeq
    <3>3. QED
      BY <2>1, <3>1, <3>2 DEF SizeOf
  <2>2. CASE i # 0
    <3>1. i \in 1..Len(tokens)
      BY <1>1, <2>2
    <3>2. Wrote(h[i - 1], h[i], tokens[i])
      BY <3>1 DEF Traced
    <3>3. QED
      BY <2>2, <3>2 DEF Wrote, SizeOf
  <2>3. QED
    BY <2>1, <2>2
<1>3. QED
  BY <1>2

\* A token that spells a key or a string out enters it into the table.
LEMMA LiteralEnters ==
    ASSUME NEW h, Traced(h, doc, tokens, todo, w), NEW i \in 1..Len(tokens),
           NEW s, s = tokens[i].tag.str
    PROVE  /\ Grew(i, "keys") => /\ ~HasValue(h[i - 1].w.keys, s)
                                 /\ HasValue(h[i].w.keys, s)
           /\ Grew(i, "strings") => /\ ~HasValue(h[i - 1].w.strings, s)
                                    /\ HasValue(h[i].w.strings, s)
<1>1. PICK n \in Nat : n = Len(tokens) /\ i - 1 \in 0..n /\ i \in 0..n
  BY LenProperties DEF Traced
<1>2. PICK p, q, token : /\ p = h[i - 1] /\ q = h[i] /\ token = tokens[i]
                         /\ Point(p) /\ Point(q) /\ Wrote(p, q, token)
                         /\ SizeOf(i - 1).keys = Len(p.w.keys)
  BY <1>1, SizesTraced DEF Traced
<1>3. PICK item \in Items : item = Head(p.todo)
  BY <1>2, HeadTailProperties DEF Wrote, Point
<1>4. /\ token.tag = TokenFor(item, p.w) /\ q.w = TablesFor(item, p.w)
      /\ token.keys = Len(q.w.keys)
  BY <1>2, <1>3 DEF Wrote
<1>5. /\ p.w = [keys |-> p.w.keys, strings |-> p.w.strings, shapes |-> p.w.shapes]
      /\ p.w.keys \in Seq(STRING) /\ p.w.strings \in Seq(STRING) /\ Len(p.w.keys) \in Nat
  BY <1>2, LenProperties DEF Point, Tables
<1>6. CASE item.key = TRUE /\ item.str \in STRING
  <2>1. /\ token.tag = key_token(p.w, item.str)
        /\ q.w.keys = register_value(p.w.keys, item.str)
    BY <1>4, <1>5, <1>6 DEF TokenFor, TablesFor
  <2>2. CASE HasValue(p.w.keys, item.str)
    <3>1. token.tag.tag = "KeyRef"
      BY <2>1, <2>2 DEF key_token, Tag
    <3>2. QED
      BY <1>2, <3>1 DEF Grew
  <2>3. CASE ~HasValue(p.w.keys, item.str)
    <3>1. token.tag.str = item.str
      BY <2>1, <2>3 DEF key_token, Tag
    <3>2. HasValue(q.w.keys, item.str) /\ Len(q.w.keys) = Len(p.w.keys) + 1
      <4>1. PICK table \in Seq(STRING), k \in STRING : table = p.w.keys /\ k = item.str
        BY <1>5, <1>6
      <4> DEFINE t == register_value(table, k)
      <4>2. HasValue(t, k) /\ (~HasValue(table, k) => Len(t) = Len(table) + 1)
        BY Registered
      <4>3. QED
        BY <2>1, <2>3, <4>1, <4>2
    <3>3. token.keys # SizeOf(i - 1).keys
      BY <1>2, <1>4, <1>5, <3>2
    <3>4. QED
      BY <1>2, <2>3, <3>1, <3>2, <3>3 DEF Grew
  <2>4. QED
    BY <2>2, <2>3
<1>7. CASE item.key = FALSE /\ item.val \in Values
  <2>1. PICK v \in Values : v = item.val
    BY <1>7
  <2>2. q.w.keys = p.w.keys
    BY <1>4, <1>5, <1>7 DEF TablesFor
  <2>3. ~Grew(i, "keys")
    BY <1>2, <1>4, <2>2 DEF Grew
  <2>4. CASE v \in Scalars /\ v.kind \in {"Null", "I64", "U64"}
    <3>1. token.tag = ScalarTag(v)
      BY <1>4, <1>7, <2>1, <2>4 DEF TokenFor
    <3>2. token.tag.tag \in IntTags \cup {"Null"}
      BY <2>4, <3>1, ScalarRoundtrip
    <3>3. QED
      BY <1>2, <2>3, <3>2 DEF Grew, IntTags
  <2>5. CASE v.kind \in {"Map", "Array"}
    <3>1. token.tag.tag \in {"Map", "ShapeArray", "Array"}
      BY <1>4, <1>7, <2>1, <2>5 DEF TokenFor, Tag
    <3>2. QED
      BY <1>2, <2>3, <3>1 DEF Grew
  <2>6. CASE v.kind = "String" /\ v.str \in STRING
    <3>1. /\ token.tag = string_token(p.w, v.str)
          /\ q.w.strings = register_value(p.w.strings, v.str)
      BY <1>4, <1>5, <1>7, <2>1, <2>6 DEF TokenFor, TablesFor
    <3>2. CASE HasValue(p.w.strings, v.str)
      <4>1. token.tag.tag = "StrRef"
        BY <3>1, <3>2 DEF string_token, Tag
      <4>2. QED
        BY <1>2, <2>3, <4>1 DEF Grew
    <3>3. CASE ~HasValue(p.w.strings, v.str)
      <4>1. token.tag.str = v.str
        BY <3>1, <3>3 DEF string_token, Tag
      <4>2. HasValue(q.w.strings, v.str)
        BY <1>5, <2>6, <3>1, Registered
      <4>3. QED
        BY <1>2, <2>3, <3>3, <4>1, <4>2
    <3>4. QED
      BY <3>2, <3>3
  <2>7. QED
    BY <2>4, <2>5, <2>6, KindCases
<1>8. QED
  BY <1>6, <1>7, ItemCases

\* No key and no string is spelled out twice, whatever the writer went through.
LEMMA TracedOnce ==
    ASSUME NEW h, Traced(h, doc, tokens, todo, w)
    PROVE  LiteralOnce
<1>1. PICK n \in Nat : n = Len(tokens) /\ DOMAIN tokens = 1..n
  BY LenProperties DEF Traced
<1>2. \A i \in 0..n : Point(h[i])
  BY <1>1 DEF Traced
<1>3. ASSUME NEW i \in 1..n, NEW j \in 1..n, i < j
      PROVE  /\ Kept(h[i].w.keys, h[j - 1].w.keys)
             /\ Kept(h[i].w.strings, h[j - 1].w.strings)
             /\ h[i].w \in Tables /\ h[j - 1].w \in Tables
  <2>1. i \in 0..n /\ j - 1 \in 0..n /\ i <= j - 1
    BY <1>3
  <2>2. TablesKept(h[i].w, h[j - 1].w)
    BY <1>1, <2>1 DEF Traced
  <2>3. QED
    BY <1>2, <2>1, <2>2 DEF TablesKept, Point
<1>4. ASSUME NEW i \in 1..n, NEW j \in 1..n, NEW table \in {"keys", "strings"},
             Grew(i, table), Grew(j, table), tokens[i].tag.str = tokens[j].tag.str, i < j
      PROVE  FALSE
  <2>1. PICK s : s = tokens[i].tag.str /\ s = tokens[j].tag.str
    BY <1>4
  <2>2. CASE table = "keys"
    <3>1. HasValue(h[i].w.keys, s) /\ ~HasValue(h[j - 1].w.keys, s)
      BY <1>1, <1>4, <2>1, <2>2, LiteralEnters
    <3>2. h[i].w.keys \in Seq(STRING) /\ h[j - 1].w.keys \in Seq(STRING)
      BY <1>3, <1>4 DEF Tables
    <3>3. QED
      BY <1>3, <1>4, <3>1, <3>2, StillThere
  <2>3. CASE table = "strings"
    <3>1. HasValue(h[i].w.strings, s) /\ ~HasValue(h[j - 1].w.strings, s)
      BY <1>1, <1>4, <2>1, <2>3, LiteralEnters
    <3>2. h[i].w.strings \in Seq(STRING) /\ h[j - 1].w.strings \in Seq(STRING)
      BY <1>3, <1>4 DEF Tables
    <3>3. QED
      BY <1>3, <1>4, <3>1, <3>2, StillThere
  <2>4. QED
    BY <2>2, <2>3
<1>5. \A i, j \in 1..n : i < j \/ j < i \/ i = j
  OBVIOUS
<1>6. QED
  BY <1>1, <1>4, <1>5 DEF LiteralOnce

-----------------------------------------------------------------------------
(* The reader: its frames are on the way of the writer. *)

\* No document has a key of more than 31 bytes.
KeysAreShort == LongKeys = {}

Numbered(shapes, id, keys) ==
    id \in Nat /\ id < Len(shapes) /\ shapes[id + 1] = keys

\* The keys and values read for the map or array v: they are its own, unless
\* strings were mistaken.
Got(v, keys, vals) ==
    /\ keys \in Seq(STRING) /\ vals \in Seq(Range(vals))
    /\ Progress(v, Len(keys), Len(vals))
    /\ \A i \in 1..Len(keys) : keys[i] = Rest(v)[KeyAt(v, i)].str
    /\ KeysAreShort =>
          \A j \in 1..Len(vals) : vals[j] = Normal[Rest(v)[ValAt(v, j)].val]

\* Frame f reads v.
Reads(f, v, shapes) ==
    /\ f = [what |-> What(v), n |-> Count(v), k |-> Width(v), shape |-> f.shape,
            keys |-> f.keys, vals |-> f.vals]
    /\ Got(v, f.keys, f.vals)
    /\ Shaped(v) => Numbered(shapes, f.shape, ShapeKeys(v))

\* The items of its value that a frame has read.
Together(keys, vals) == Len(keys) + Len(vals)
Taken(f) == Together(f.keys, f.vals)

\* What is left after the first c items of a value, if sl is left after it.
Onto(v, c, sl) == Left(Rest(v), c) \o sl

\* The key item after those read.
KeyNow(v, keys) == Rest(v)[KeyAt(v, Len(keys) + 1)]

\* Value u is being read for frame f of v: after it, sh remains to be written;
\* after v, only sl.
Within(f, v, u, sl, sh) ==
    /\ ~AtKey(v, Len(f.keys), Len(f.vals)) /\ Len(f.vals) # Size(v)
    /\ u \in Values /\ Rest(v)[Taken(f) + 1] = WriteValItem(u)
    /\ sh \in Seq(Items) /\ sh = Onto(v, Taken(f) + 1, sl)

\* The n frames fs read the values g, each within the one below it; with the
\* last value what the writer has left begins, td.
Stack(fs, n, g, rest, td, shapes) ==
    /\ fs \in Seq(Range(fs)) /\ n \in Nat /\ n # 0 /\ Len(fs) = n /\ rest[0] = << >>
    /\ \A i \in 1..n : g[i] \in Containers(Values) /\ Reads(fs[i], g[i], shapes)
    /\ \A i \in 1..n - 1 : Within(fs[i], g[i], g[i + 1], rest[i - 1], rest[i])
    /\ td = Onto(g[n], Taken(fs[n]), rest[n - 1])

\* A frame with one key or one value more.
WithKey(f, k) == [f EXCEPT !.keys = Append(@, k)]
WithVal(f, x) == [f EXCEPT !.vals = Append(@, x)]

\* Numbered shapes keep their numbers.
LEMMA ReadsKept ==
    ASSUME NEW s, NEW t, Kept(s, t), NEW f, NEW v, Reads(f, v, s)
    PROVE  Reads(f, v, t)
<1>1. \A id, keys : Numbered(s, id, keys) => Numbered(t, id, keys)
  BY DEF Kept, Numbered
<1>2. QED
  BY <1>1 DEF Reads

\* A frame wants a key, a value or nothing as its value has one next.
LEMMA Wants ==
    ASSUME NEW s, NEW v \in Containers(Values), NEW f, Reads(f, v, s)
    PROVE  /\ WantsKey(f) <=> AtKey(v, Len(f.keys), Len(f.vals))
           /\ f.n * f.k = Size(v)
           /\ Complete(f) <=> /\ ~AtKey(v, Len(f.keys), Len(f.vals))
                              /\ Len(f.vals) = Size(v)
<1>1. f.what = What(v) /\ f.n = Count(v) /\ f.k = Width(v)
  BY DEF Reads
<1>2. f.n * f.k = Size(v)
  BY <1>1 DEF Size
<1>3. WantsKey(f) <=> AtKey(v, Len(f.keys), Len(f.vals))
  <2>1. CASE v.kind = "Map"
    <3>1. ~Shaped(v) /\ Width(v) = 1 /\ Count(v) \in Nat
      BY <2>1, RestShape DEF Shaped, Width
    <3>2. Size(v) = Count(v)
      BY <3>1 DEF Size
    <3>3. QED
      BY <1>1, <2>1, <3>2 DEF WantsKey, AtKey, What
  <2>2. CASE v.kind # "Map" /\ ~Shaped(v)
    <3>1. Keys(v) = 0 /\ What(v) = "array"
      BY <2>2 DEF Keys, What
    <3>2. Len(f.keys) \in Nat
      BY LenProperties DEF Reads, Got
    <3>3. QED
      BY <1>1, <2>2, <3>1, <3>2 DEF WantsKey, AtKey
  <2>3. CASE Shaped(v)
    <3>1. v.kind # "Map"
      BY <2>3 DEF Shaped
    <3>2. Keys(v) = Width(v) /\ What(v) = "rows"
      BY <2>3, <3>1 DEF Keys, What
    <3>3. QED
      BY <1>1, <3>1, <3>2 DEF WantsKey, AtKey
  <2>4. QED
    BY <2>1, <2>2, <2>3
<1>4. QED
  BY <1>2, <1>3 DEF Complete

\* What is left of v begins with the key, or the value, that frame f is about
\* to read, or it is all read.
OffersKey(v, f, sl) ==
    LET td == Onto(v, Taken(f), sl)
    IN  /\ td # << >> /\ Tail(td) = Onto(v, Taken(f) + 1, sl)
        /\ \E k \in STRING : Head(td) = WriteKeyItem(k)
        /\ Head(td) = KeyNow(v, f.keys)

OffersVal(v, f, sl) ==
    LET td == Onto(v, Taken(f), sl)
    IN  /\ td # << >> /\ Tail(td) = Onto(v, Taken(f) + 1, sl)
        /\ \E u \in Values : Head(td) = WriteValItem(u)
        /\ Head(td) = Rest(v)[Taken(f) + 1]

OffersNone(v, f, sl) ==
    /\ Onto(v, Taken(f), sl) = sl
    /\ Len(f.keys) = Keys(v) /\ Len(f.vals) = Size(v)

\* The next thing the writer writes is what the innermost frame wants.
LEMMA NextWritten ==
    ASSUME NEW s, NEW v \in Containers(Values), NEW f, Reads(f, v, s),
           NEW sl \in Seq(Items)
    PROVE  /\ Onto(v, Taken(f), sl) \in Seq(Items)
           /\ WantsKey(f) => OffersKey(v, f, sl)
           /\ ~WantsKey(f) /\ ~Complete(f) => OffersVal(v, f, sl)
           /\ Complete(f) => OffersNone(v, f, sl)
<1>0. PICK td : td = Onto(v, Taken(f), sl)
  OBVIOUS
<1>1. PICK a, b, c : a = Len(f.keys) /\ b = Len(f.vals) /\ c = Taken(f)
  OBVIOUS
<1>2. a \in Nat /\ b \in Nat /\ c = a + b /\ Progress(v, a, b)
  BY <1>1, LenProperties DEF Reads, Got, Taken, Together
<1>3. PICK rs \in Seq(Items) :
         /\ rs = Rest(v) /\ Len(rs) = Keys(v) + Size(v) /\ Keys(v) \in Nat /\ Size(v) \in Nat
         /\ \A i \in 1..Keys(v) : \E k \in STRING : rs[KeyAt(v, i)] = WriteKeyItem(k)
         /\ \A j \in 1..Size(v) : \E u \in Values : rs[ValAt(v, j)] = WriteValItem(u)
  BY RestShape
<1>4. c \in 0..Len(rs)
  BY <1>2, <1>3 DEF Progress
<1>5. /\ WantsKey(f) <=> AtKey(v, a, b)
      /\ Complete(f) <=> ~AtKey(v, a, b) /\ b = Size(v)
  BY <1>1, Wants
<1>6. /\ td \in Seq(Items)
      /\ c # Len(rs) => /\ td # << >> /\ Head(td) = rs[c + 1]
                        /\ Tail(td) = Onto(v, c + 1, sl)
      /\ c = Len(rs) => td = sl
  <2>1. td = Left(rs, c) \o sl
    BY <1>0, <1>1, <1>3 DEF Onto
  <2>2. Left(rs, c) \o sl \in Seq(Items)
    BY <1>4, TakeItem
  <2>3. ~AllTaken(rs, c) =>
           Left(rs, c) \o sl # << >> /\ Head(Left(rs, c) \o sl) = rs[c + 1]
    BY <1>4, TakeItem
  <2>4. ~AllTaken(rs, c) => Tail(Left(rs, c) \o sl) = Left(rs, c + 1) \o sl
    BY <1>4, TakeItem
  <2>5. AllTaken(rs, c) => Left(rs, c) \o sl = sl
    BY <1>4, TakeItem
  <2>6. AllTaken(rs, c) <=> c = Len(rs)
    BY DEF AllTaken
  <2>7. Left(rs, c + 1) \o sl = Onto(v, c + 1, sl)
    BY <1>3 DEF Onto
  <2>8. QED
    BY <2>1, <2>2, <2>3, <2>4, <2>5, <2>6, <2>7
<1>7. /\ AtKey(v, a, b) => /\ c + 1 \in 1..Len(rs) /\ a + 1 \in 1..Keys(v)
                           /\ KeyAt(v, a + 1) = c + 1
      /\ ~AtKey(v, a, b) /\ b # Size(v) =>
            /\ c + 1 \in 1..Len(rs) /\ b + 1 \in 1..Size(v) /\ ValAt(v, b + 1) = c + 1
      /\ ~AtKey(v, a, b) /\ b = Size(v) => a = Keys(v)
  BY <1>2, <1>3, NextItem
<1>12. rs[KeyAt(v, a + 1)] = KeyNow(v, f.keys)
  <2>1. PICK keys : keys = f.keys /\ Len(keys) = a
    BY <1>1
  <2>2. KeyNow(v, keys) = rs[KeyAt(v, a + 1)]
    BY <1>3, <2>1 DEF KeyNow
  <2>3. QED
    BY <2>1, <2>2
<1> HIDE DEF WriteKeyItem, WriteValItem
<1>8. CASE AtKey(v, a, b)
  <2>1. c # Len(rs) /\ \E k \in STRING : rs[c + 1] = WriteKeyItem(k)
    <3>1. c + 1 \in 1..Len(rs) /\ a + 1 \in 1..Keys(v) /\ KeyAt(v, a + 1) = c + 1
      BY <1>7, <1>8
    <3>2. \E k \in STRING : rs[KeyAt(v, a + 1)] = WriteKeyItem(k)
      BY <1>3, <3>1
    <3>3. c # Len(rs)
      BY <1>2, <1>3, <3>1
    <3>4. QED
      BY <3>1, <3>2, <3>3
  <2>2. QED
    BY <1>0, <1>1, <1>3, <1>5, <1>6, <1>7, <1>8, <1>12, <2>1 DEF OffersKey
<1>9. CASE ~AtKey(v, a, b) /\ b # Size(v)
  <2>1. c # Len(rs) /\ \E u \in Values : rs[c + 1] = WriteValItem(u)
    BY <1>3, <1>4, <1>7, <1>9
  <2>2. QED
    BY <1>0, <1>1, <1>3, <1>5, <1>6, <1>9, <2>1 DEF OffersVal
<1>10. CASE ~AtKey(v, a, b) /\ b = Size(v)
  <2>1. c = Len(rs)
    BY <1>2, <1>3, <1>7, <1>10
  <2>2. QED
    BY <1>0, <1>1, <1>5, <1>6, <1>7, <1>10, <2>1 DEF OffersNone
<1>11. QED
  BY <1>8, <1>9, <1>10

\* The key that was wanted next is added.
LEMMA GotKey ==
    ASSUME NEW v \in Containers(Values), NEW keys, NEW vals, Got(v, keys, vals),
           AtKey(v, Len(keys), Len(vals)),
           NEW k \in STRING, k = KeyNow(v, keys).str
    PROVE  Got(v, Append(keys, k), vals) /\ Len(Append(keys, k)) = Len(keys) + 1
<1>1. PICK a \in Nat, b \in Nat :
         /\ a = Len(keys) /\ b = Len(vals) /\ Progress(v, a, b) /\ AtKey(v, a, b)
  BY LenProperties DEF Got
<1>2. Progress(v, a + 1, b)
  BY <1>1, NextItem
<1>3. PICK keys2 : keys2 = Append(keys, k)
  OBVIOUS
<1>4. /\ keys2 \in Seq(STRING) /\ Len(keys2) = a + 1
      /\ \A i \in 1..a : keys2[i] = keys[i]
      /\ keys2[a + 1] = k
  BY <1>1, <1>3, AppendProperties DEF Got
<1>5. \A i \in 1..a + 1 : keys2[i] = Rest(v)[KeyAt(v, i)].str
  <2>1. \A i \in 1..a : keys[i] = Rest(v)[KeyAt(v, i)].str
    BY <1>1 DEF Got
  <2>2. \A i \in 1..a + 1 : i \in 1..a \/ i = a + 1
    BY <1>1
  <2>3. QED
    BY <1>1, <1>4, <2>1, <2>2 DEF KeyNow
<1>6. Got(v, keys2, vals)
  BY <1>1, <1>2, <1>4, <1>5 DEF Got
<1>7. QED
  BY <1>1, <1>3, <1>4, <1>6

\* The value that was wanted next is added.
LEMMA GotVal ==
    ASSUME NEW v \in Containers(Values), NEW keys, NEW vals, Got(v, keys, vals),
           ~AtKey(v, Len(keys), Len(vals)), Len(vals) # Size(v),
           NEW u, Rest(v)[Together(keys, vals) + 1] = WriteValItem(u),
           NEW x, KeysAreShort => x = Normal[u]
    PROVE  Got(v, keys, Append(vals, x)) /\ Len(Append(vals, x)) = Len(vals) + 1
<1>1. PICK a \in Nat, b \in Nat :
         /\ a = Len(keys) /\ b = Len(vals) /\ Progress(v, a, b)
         /\ ~AtKey(v, a, b) /\ b # Size(v)
  BY LenProperties DEF Got
<1>2. Progress(v, a, b + 1) /\ ValAt(v, b + 1) = a + b + 1
  BY <1>1, NextItem
<1>3. PICK vals2 : vals2 = Append(vals, x)
  OBVIOUS
<1>4. /\ vals2 \in Seq(Range(vals2)) /\ Len(vals2) = b + 1
      /\ \A i \in 1..b : vals2[i] = vals[i]
      /\ vals2[b + 1] = x
  BY <1>1, <1>3, Appended DEF Got, Longer
<1>5. ASSUME KeysAreShort
      PROVE  \A j \in 1..b + 1 : vals2[j] = Normal[Rest(v)[ValAt(v, j)].val]
  <2>1. \A j \in 1..b : vals[j] = Normal[Rest(v)[ValAt(v, j)].val]
    BY <1>1, <1>5 DEF Got
  <2>2. \A j \in 1..b + 1 : j \in 1..b \/ j = b + 1
    BY <1>1
  <2>3. Rest(v)[ValAt(v, b + 1)].val = u
    <3>1. Rest(v)[ValAt(v, b + 1)] = WriteValItem(u)
      BY <1>1, <1>2 DEF Together
    <3>2. QED
      BY <3>1 DEF WriteValItem
  <2>4. QED
    BY <1>4, <1>5, <2>1, <2>2, <2>3
<1>6. Got(v, keys, vals2)
  BY <1>1, <1>2, <1>4, <1>5 DEF Got
<1>7. QED
  BY <1>1, <1>3, <1>4, <1>6

\* A frame that wanted a key and got the one that was next.
LEMMA KeyAdded ==
    ASSUME NEW s, NEW v \in Containers(Values), NEW f, Reads(f, v, s), WantsKey(f),
           NEW k \in STRING, k = KeyNow(v, f.keys).str,
           NEW f2, f2 = WithKey(f, k)
    PROVE  Reads(f2, v, s) /\ Taken(f2) = Taken(f) + 1
<1>1. PICK keys, vals : keys = f.keys /\ vals = f.vals
  OBVIOUS
<1>2. /\ Got(v, keys, vals) /\ AtKey(v, Len(keys), Len(vals))
      /\ k = KeyNow(v, keys).str
  BY <1>1, Wants DEF Reads
<1>3. PICK keys2 : keys2 = Append(keys, k)
  OBVIOUS
<1>4. Got(v, keys2, vals) /\ Len(keys2) = Len(keys) + 1
  BY <1>2, <1>3, GotKey
<1>5. Together(keys2, vals) = Together(keys, vals) + 1
  BY <1>2, <1>4, LenProperties DEF Got, Together
<1>6. /\ f2.shape = f.shape /\ f2.keys = keys2 /\ f2.vals = vals
      /\ f2 = [what |-> What(v), n |-> Count(v), k |-> Width(v), shape |-> f2.shape,
               keys |-> f2.keys, vals |-> f2.vals]
  <2>1. PICK sh : f = [what |-> What(v), n |-> Count(v), k |-> Width(v), shape |-> sh,
                       keys |-> keys, vals |-> vals]
                  /\ sh = f.shape
    BY <1>1 DEF Reads
  <2>2. f2 = [what |-> What(v), n |-> Count(v), k |-> Width(v), shape |-> sh,
              keys |-> keys2, vals |-> vals]
    BY <1>3, <2>1 DEF WithKey
  <2>3. QED
    BY <2>1, <2>2
<1>7. Taken(f2) = Taken(f) + 1
  BY <1>1, <1>5, <1>6 DEF Taken
<1>8. Reads(f2, v, s)
  BY <1>4, <1>6 DEF Reads
<1>9. QED
  BY <1>7, <1>8

\* A frame that wanted a value and got the one that was next.
LEMMA ValAdded ==
    ASSUME NEW s, NEW v \in Containers(Values), NEW f, Reads(f, v, s),
           ~AtKey(v, Len(f.keys), Len(f.vals)), Len(f.vals) # Size(v),
           NEW u, Rest(v)[Taken(f) + 1] = WriteValItem(u),
           NEW x, KeysAreShort => x = Normal[u],
           NEW f2, f2 = WithVal(f, x)
    PROVE  Reads(f2, v, s) /\ Taken(f2) = Taken(f) + 1
<1>1. PICK keys, vals : keys = f.keys /\ vals = f.vals
  OBVIOUS
<1>2. /\ Got(v, keys, vals) /\ ~AtKey(v, Len(keys), Len(vals)) /\ Len(vals) # Size(v)
      /\ Rest(v)[Together(keys, vals) + 1] = WriteValItem(u)
  BY <1>1 DEF Reads, Taken
<1>3. PICK vals2 : vals2 = Append(vals, x)
  OBVIOUS
<1>4. Got(v, keys, vals2) /\ Len(vals2) = Len(vals) + 1
  BY <1>2, <1>3, GotVal
<1>5. Together(keys, vals2) = Together(keys, vals) + 1
  BY <1>2, <1>4, LenProperties DEF Got, Together
<1>6. /\ f2.shape = f.shape /\ f2.keys = keys /\ f2.vals = vals2
      /\ f2 = [what |-> What(v), n |-> Count(v), k |-> Width(v), shape |-> f2.shape,
               keys |-> f2.keys, vals |-> f2.vals]
  <2>1. PICK sh : f = [what |-> What(v), n |-> Count(v), k |-> Width(v), shape |-> sh,
                       keys |-> keys, vals |-> vals]
                  /\ sh = f.shape
    BY <1>1 DEF Reads
  <2>2. f2 = [what |-> What(v), n |-> Count(v), k |-> Width(v), shape |-> sh,
              keys |-> keys, vals |-> vals2]
    BY <1>3, <2>1 DEF WithVal
  <2>3. QED
    BY <2>1, <2>2
<1>7. Taken(f2) = Taken(f) + 1
  BY <1>1, <1>5, <1>6 DEF Taken
<1>8. Reads(f2, v, s)
  BY <1>4, <1>6 DEF Reads
<1>9. QED
  BY <1>7, <1>8

\* The innermost frame, its value and what the writer has left.
LEMMA Innermost ==
    ASSUME NEW fs, NEW n, NEW g, NEW rest, NEW td, NEW s, Stack(fs, n, g, rest, td, s)
    PROVE  /\ n \in Nat /\ n # 0 /\ g[n] \in Containers(Values) /\ Reads(fs[n], g[n], s)
           /\ rest[n - 1] \in Seq(Items) /\ td = Onto(g[n], Taken(fs[n]), rest[n - 1])
           /\ \A i \in 1..n - 1 : /\ i + 1 \in 1..n
                                  /\ Within(fs[i], g[i], g[i + 1], rest[i - 1], rest[i])
<1>1. n \in Nat /\ n # 0
  BY DEF Stack
<1>2. \A i \in 1..n - 1 : Within(fs[i], g[i], g[i + 1], rest[i - 1], rest[i])
  BY DEF Stack
<1>3. rest[n - 1] \in Seq(Items)
  <2>1. CASE n = 1
    <3>1. rest[n - 1] = << >>
      BY <2>1 DEF Stack
    <3>2. QED
      BY <3>1, EmptySeq
  <2>2. CASE n # 1
    <3>1. n - 1 \in 1..n - 1
      BY <1>1, <2>2
    <3>2. QED
      BY <1>2, <3>1 DEF Within
  <2>3. QED
    BY <2>1, <2>2
<1>4. n \in 1..n
  BY <1>1
<1>5. g[n] \in Containers(Values) /\ Reads(fs[n], g[n], s)
  BY <1>4 DEF Stack
<1>6. td = Onto(g[n], Taken(fs[n]), rest[n - 1])
  BY DEF Stack
<1>7. \A i \in 1..n - 1 : i + 1 \in 1..n
  BY <1>1
<1>8. QED
  BY <1>1, <1>2, <1>3, <1>5, <1>6, <1>7

\* The innermost frame read on.
LEMMA TopChanged ==
    ASSUME NEW fs, NEW n, NEW g, NEW rest, NEW td, NEW s, Stack(fs, n, g, rest, td, s),
           NEW t, Kept(s, t), NEW f2, Reads(f2, g[n], t)
    PROVE  Stack(Exchanged(fs, n, f2), n, g, rest, Onto(g[n], Taken(f2), rest[n - 1]), t)
<1>1. n \in Nat /\ n # 0 /\ n \in 1..n /\ fs \in Seq(Range(fs)) /\ Len(fs) = n
  BY DEF Stack
<1>2. PICK fs2 :
         /\ fs2 = Exchanged(fs, n, f2) /\ fs2 \in Seq(Range(fs2)) /\ Len(fs2) = n
         /\ \A i \in 1..n - 1 : fs2[i] = fs[i]
         /\ fs2[n] = f2
  BY <1>1, TopExchanged
<1>3. \A i \in 1..n : g[i] \in Containers(Values) /\ Reads(fs[i], g[i], t)
  BY ReadsKept DEF Stack
<1>4. \A i \in 1..n : g[i] \in Containers(Values) /\ Reads(fs2[i], g[i], t)
  <2>1. \A i \in 1..n : i \in 1..n - 1 \/ i = n
    BY <1>1
  <2>2. QED
    BY <1>2, <1>3, <2>1
<1>5. \A i \in 1..n - 1 : Within(fs2[i], g[i], g[i + 1], rest[i - 1], rest[i])
  BY <1>2, Innermost
<1>6. rest[0] = << >>
  BY DEF Stack
<1>7. Stack(fs2, n, g, rest, Onto(g[n], Taken(f2), rest[n - 1]), t)
  BY <1>1, <1>2, <1>4, <1>5, <1>6 DEF Stack
<1>8. QED
  BY <1>2, <1>7

\* Nothing taken, all is left.
LEMMA NothingTaken ==
    ASSUME NEW v \in Containers(Values), NEW sl \in Seq(Items)
    PROVE  Onto(v, 0, sl) = Rest(v) \o sl
<1>1. PICK rs \in Seq(Items) : rs = Rest(v)
  BY RestShape
<1>2. 0 \in 0..Len(rs)
  BY LenProperties
<1>3. PICK c \in 0..Len(rs) : c = 0
  BY <1>2
<1>4. c = 0 => Left(rs, c) = rs
  BY TakeItem
<1>5. QED
  BY <1>1, <1>3, <1>4 DEF Onto

\* The stack goes on, with the same value at the bottom.
StackOn(g, fs2, n2, td2, t) ==
    \E g2, rest2 : g2[1] = g[1] /\ Stack(fs2, n2, g2, rest2, td2, t)

\* A new frame, for the value that was next.
LEMMA Opened ==
    ASSUME NEW fs, NEW n, NEW g, NEW rest, NEW td, NEW s, Stack(fs, n, g, rest, td, s),
           NEW t, Kept(s, t), ~WantsKey(fs[n]), ~Complete(fs[n]),
           NEW u \in Values, u \in Containers(Values),
           Rest(g[n])[Taken(fs[n]) + 1] = WriteValItem(u),
           NEW f2, Reads(f2, u, t), Taken(f2) = 0
    PROVE  StackOn(g, Append(fs, f2), n + 1,
                   Rest(u) \o Onto(g[n], Taken(fs[n]) + 1, rest[n - 1]), t)
<1> HIDE DEF WriteValItem
<1>1. n \in Nat /\ n # 0 /\ fs \in Seq(Range(fs)) /\ Len(fs) = n
  BY DEF Stack
<1>2. PICK fs2 :
         /\ fs2 = Append(fs, f2) /\ fs2 \in Seq(Range(fs2)) /\ Len(fs2) = n + 1
         /\ \A i \in 1..n : fs2[i] = fs[i]
         /\ fs2[n + 1] = f2
  <2>1. Longer(fs, Append(fs, f2), f2)
    BY <1>1, Appended
  <2>2. PICK fs2 : fs2 = Append(fs, f2) /\ Longer(fs, fs2, f2)
    BY <2>1
  <2>3. QED
    BY <1>1, <2>2 DEF Longer
<1>3. PICK v, sl, f :
         /\ v = g[n] /\ sl = rest[n - 1] /\ f = fs[n] /\ Reads(f, v, s)
         /\ v \in Containers(Values) /\ sl \in Seq(Items)
  BY Innermost
<1>4. PICK sh \in Seq(Items) : sh = Onto(v, Taken(f) + 1, sl) /\ Within(f, v, u, sl, sh)
  <2>1. ~WantsKey(f) /\ ~Complete(f)
    BY <1>3
  <2>2. /\ Onto(v, Taken(f), sl) \in Seq(Items) /\ Onto(v, Taken(f), sl) # << >>
        /\ Tail(Onto(v, Taken(f), sl)) = Onto(v, Taken(f) + 1, sl)
    <3>1. Onto(v, Taken(f), sl) \in Seq(Items) /\ OffersVal(v, f, sl)
      BY <1>3, <2>1, NextWritten
    <3>2. QED
      BY <3>1 DEF OffersVal
  <2>3. Onto(v, Taken(f) + 1, sl) \in Seq(Items)
    BY <2>2, HeadTailProperties
  <2>4. ~AtKey(v, Len(f.keys), Len(f.vals)) /\ Len(f.vals) # Size(v)
    BY <1>3, <2>1, Wants
  <2>5. QED
    BY <1>3, <2>3, <2>4 DEF Within
<1> DEFINE g2 == [i \in 1..n + 1 |-> IF i = n + 1 THEN u ELSE g[i]]
           rest2 == [i \in 0..n |-> IF i = n THEN sh ELSE rest[i]]
<1>5. /\ g2[n + 1] = u /\ \A i \in 1..n : g2[i] = g[i]
      /\ rest2[n] = sh /\ \A i \in 0..n - 1 : rest2[i] = rest[i]
  BY <1>1
<1> HIDE DEF g2, rest2
<1>6. \A i \in 1..n : g[i] \in Containers(Values) /\ Reads(fs[i], g[i], t)
  BY ReadsKept DEF Stack
<1>7. ASSUME NEW i \in 1..n + 1
      PROVE  g2[i] \in Containers(Values) /\ Reads(fs2[i], g2[i], t)
  <2>1. CASE i = n + 1
    BY <1>2, <1>5, <2>1
  <2>2. CASE i # n + 1
    <3>1. i \in 1..n
      BY <1>1, <2>2
    <3>2. fs2[i] = fs[i] /\ g2[i] = g[i]
      BY <1>2, <1>5, <3>1
    <3>3. QED
      BY <1>6, <3>1, <3>2
  <2>3. QED
    BY <2>1, <2>2
<1>8. ASSUME NEW i \in 1..n
      PROVE  Within(fs2[i], g2[i], g2[i + 1], rest2[i - 1], rest2[i])
  <2>1. fs2[i] = fs[i] /\ g2[i] = g[i]
    BY <1>2, <1>5
  <2>2. CASE i = n
    <3>1. g2[i + 1] = u /\ rest2[i] = sh
      BY <1>5, <2>2
    <3>2. rest2[i - 1] = rest[n - 1]
      <4>1. n - 1 \in 0..n - 1
        BY <1>1
      <4>2. QED
        BY <1>5, <2>2, <4>1
    <3>3. QED
      BY <1>3, <1>4, <2>1, <2>2, <3>1, <3>2
  <2>3. CASE i # n
    <3>1. i \in 1..n - 1 /\ i + 1 \in 1..n /\ i - 1 \in 0..n - 1 /\ i \in 0..n - 1
      BY <1>1, <2>3
    <3>2. g2[i + 1] = g[i + 1] /\ rest2[i - 1] = rest[i - 1] /\ rest2[i] = rest[i]
      BY <1>5, <3>1
    <3>3. Within(fs[i], g[i], g[i + 1], rest[i - 1], rest[i])
      BY <3>1, Innermost
    <3>4. QED
      BY <2>1, <3>2, <3>3
  <2>4. QED
    BY <2>2, <2>3
<1>9. rest2[0] = << >> /\ g2[1] = g[1]
  <2>1. 0 \in 0..n - 1 /\ 1 \in 1..n
    BY <1>1
  <2>2. QED
    BY <1>5, <2>1 DEF Stack
<1>10. Rest(u) \o sh = Onto(g2[n + 1], Taken(fs2[n + 1]), rest2[n])
  BY <1>2, <1>5, NothingTaken
<1>11. /\ \A i \in 1..(n + 1) - 1 : Within(fs2[i], g2[i], g2[i + 1], rest2[i - 1], rest2[i])
       /\ (n + 1) - 1 = n /\ n + 1 \in Nat /\ n + 1 # 0
  BY <1>1, <1>8
<1>12. Stack(fs2, n + 1, g2, rest2, Rest(u) \o sh, t)
  BY <1>2, <1>7, <1>9, <1>10, <1>11 DEF Stack
<1>13. QED
  BY <1>2, <1>3, <1>4, <1>9, <1>12 DEF StackOn

\* A complete frame gave its value to the one below it.
LEMMA Returned ==
    ASSUME NEW fs, NEW n, NEW g, NEW rest, NEW td, NEW s, Stack(fs, n, g, rest, td, s),
           n # 1, Complete(fs[n])
    PROVE  Stack(Exchanged(fs, n - 1, WithVal(fs[n - 1], FrameValue(fs[n]))), n - 1,
                 g, rest, td, s)
<1>1. PICK m \in Nat : m = n - 1 /\ m # 0 /\ m \in 1..n /\ m \in 1..n - 1 /\ m + 1 = n /\ n \in 1..n
  BY DEF Stack
<1>2. PICK v, f, e : /\ v = g[m] /\ f = fs[m] /\ e = fs[n] /\ Reads(f, v, s)
                     /\ v \in Containers(Values)
  BY <1>1 DEF Stack
<1>3. PICK u, sl, sh : /\ u = g[n] /\ sl = rest[m - 1] /\ sh = rest[m]
                       /\ u \in Values /\ Within(f, v, u, sl, sh)
  <2>1. Within(fs[m], g[m], g[m + 1], rest[m - 1], rest[m])
    BY <1>1, Innermost
  <2>2. g[m + 1] \in Values
    BY <2>1 DEF Within
  <2>3. QED
    BY <1>1, <1>2, <2>1, <2>2
<1>4. /\ u \in Containers(Values) /\ Reads(e, u, s) /\ sh \in Seq(Items)
      /\ td = Onto(u, Taken(e), sh) /\ Complete(e)
  BY <1>1, <1>2, <1>3, Innermost
<1>5. td = sh /\ Len(e.keys) = Keys(u) /\ Len(e.vals) = Size(u)
  <2>1. OffersNone(u, e, sh)
    BY <1>4, NextWritten
  <2>2. QED
    BY <1>4, <2>1 DEF OffersNone
<1>6. PICK x : x = FrameValue(e)
  OBVIOUS
<1>7. ASSUME KeysAreShort
      PROVE  x = Normal[u]
  <2>1. e.what = What(u) /\ e.n = Count(u) /\ e.k = Width(u)
    BY <1>4 DEF Reads
  <2>2. DOMAIN e.vals = 1..Size(u)
    BY <1>4, <1>5, LenProperties DEF Reads, Got
  <2>3. \A i \in 1..Keys(u) : e.keys[i] = Rest(u)[KeyAt(u, i)].str
    BY <1>4, <1>5 DEF Reads, Got
  <2>4. \A j \in 1..Size(u) : e.vals[j] = Normal[Rest(u)[ValAt(u, j)].val]
    BY <1>4, <1>5, <1>7 DEF Reads, Got
  <2>5. FrameValue(e) = Normal[u]
    BY <1>3, <1>4, <2>1, <2>2, <2>3, <2>4, FrameMakes
  <2>6. QED
    BY <1>6, <2>5
<1>8. PICK f2 : f2 = WithVal(f, x) /\ Reads(f2, v, s) /\ Taken(f2) = Taken(f) + 1
  <2>1. /\ ~AtKey(v, Len(f.keys), Len(f.vals)) /\ Len(f.vals) # Size(v)
        /\ Rest(v)[Taken(f) + 1] = WriteValItem(u)
    BY <1>3 DEF Within
  <2> HIDE DEF WriteValItem
  <2>2. Reads(WithVal(f, x), v, s) /\ Taken(WithVal(f, x)) = Taken(f) + 1
    BY <1>2, <1>7, <2>1, ValAdded
  <2>3. QED
    BY <2>2
<1>9. PICK fs2 :
         /\ fs2 = Exchanged(fs, m, f2) /\ fs2 \in Seq(Range(fs2)) /\ Len(fs2) = m
         /\ \A i \in 1..m - 1 : fs2[i] = fs[i]
         /\ fs2[m] = f2
  <2>1. fs \in Seq(Range(fs)) /\ m \in 1..Len(fs)
    BY <1>1 DEF Stack
  <2>2. QED
    BY <2>1, TopExchanged
<1>10. \A i \in 1..m : g[i] \in Containers(Values) /\ Reads(fs2[i], g[i], s)
  <2>1. \A i \in 1..m : i \in 1..n /\ (i \in 1..m - 1 \/ i = m)
    BY <1>1
  <2>2. \A i \in 1..n : g[i] \in Containers(Values) /\ Reads(fs[i], g[i], s)
    BY DEF Stack
  <2>3. QED
    BY <1>2, <1>8, <1>9, <2>1, <2>2
<1>11. \A i \in 1..m - 1 : Within(fs2[i], g[i], g[i + 1], rest[i - 1], rest[i])
  <2>1. \A i \in 1..m - 1 : i \in 1..n - 1
    BY <1>1
  <2>2. \A i \in 1..n - 1 : Within(fs[i], g[i], g[i + 1], rest[i - 1], rest[i])
    BY DEF Stack
  <2>3. QED
    BY <1>9, <2>1, <2>2
<1>12. td = Onto(g[m], Taken(fs2[m]), rest[m - 1])
  BY <1>2, <1>3, <1>5, <1>8, <1>9 DEF Within
<1>13. rest[0] = << >>
  BY DEF Stack
<1>14. Stack(fs2, m, g, rest, td, s)
  BY <1>1, <1>9, <1>10, <1>11, <1>12, <1>13 DEF Stack
<1>15. QED
  BY <1>1, <1>2, <1>6, <1>8, <1>9, <1>14

-----------------------------------------------------------------------------
(* One token read. *)

\* The tables of the reader against those of the writer when it wrote the
\* token read last: the same, but for strings that only the reader numbered.
StringsFit(read, written) ==
    /\ read \in Seq(STRING) /\ Len(written) <= Len(read)
    /\ KeysAreShort => read = written

ShapesFit(read, written) == \A id \in DOMAIN read : Numbered(written, id, read[id])

ReaderTables(rd, t) ==
    /\ rd = [keys |-> rd.keys, strings |-> rd.strings, shapes |-> rd.shapes]
    /\ rd.keys = t.keys
    /\ StringsFit(rd.strings, t.strings)
    /\ ShapesFit(rd.shapes, t.shapes)

\* The reader, with its frames and tables, is where the writer of document d
\* was at point p.
Matched(p, d, g, rest, fs, n, rd) ==
    /\ g[1] = ArrayOf(<< d >>)
    /\ Stack(fs, n, g, rest, p.todo, p.w.shapes)
    /\ ReaderTables(rd, p.w)

MatchedOn(p, d, fs, rd) == \E g, rest, n : Matched(p, d, g, rest, fs, n, rd)

\* The key a frame waits for is the one that was written.
WroteKey(p, q, token, k, after) ==
    /\ k \in STRING /\ token.tag = key_token(p.w, k)
    /\ q.w.keys = register_value(p.w.keys, k)
    /\ q.w.strings = p.w.strings /\ q.w.shapes = p.w.shapes
    /\ q.todo = after

\* The key item was written.
LEMMA KeyWritten ==
    ASSUME NEW p, NEW q, NEW token, Point(p), Wrote(p, q, token),
           NEW v, NEW f, NEW sl, p.todo = Onto(v, Taken(f), sl), OffersKey(v, f, sl)
    PROVE  WroteKey(p, q, token, KeyNow(v, f.keys).str, Onto(v, Taken(f) + 1, sl))
<1>1. PICK k \in STRING : Head(p.todo) = WriteKeyItem(k)
  BY DEF OffersKey
<1>2. PICK item, after : item = Head(p.todo) /\ after = Tail(p.todo)
  OBVIOUS
<1>3. /\ after = Onto(v, Taken(f) + 1, sl) /\ after \in Seq(Items)
      /\ KeyNow(v, f.keys) = item
  <2>1. p.todo # << >> /\ p.todo \in Seq(Items)
    BY DEF Wrote, Point
  <2>2. Tail(p.todo) = Onto(v, Taken(f) + 1, sl) /\ Head(p.todo) = KeyNow(v, f.keys)
    BY DEF OffersKey
  <2>3. QED
    BY <1>2, <2>1, <2>2, HeadTailProperties
<1>4. item.key = TRUE /\ item.str = k
  BY <1>1, <1>2 DEF WriteKeyItem
<1>5. /\ token.tag = key_token(p.w, k)
      /\ q.w = [p.w EXCEPT !.keys = register_value(@, k)]
      /\ q.todo = << >> \o after
  BY <1>2, <1>4 DEF Wrote, TokenFor, TablesFor, RestFor
<1>6. p.w = [keys |-> p.w.keys, strings |-> p.w.strings, shapes |-> p.w.shapes]
  BY DEF Point, Tables
<1>7. /\ q.w.keys = register_value(p.w.keys, k)
      /\ q.w.strings = p.w.strings /\ q.w.shapes = p.w.shapes
  BY <1>5, <1>6
<1>8. q.todo = after
  BY <1>3, <1>5, ConcatEmptySeq
<1>9. QED
  BY <1>3, <1>4, <1>5, <1>7, <1>8 DEF WroteKey

\* The value a frame waits for is the one that was written: a number, a string,
\* a map or an array.
WroteScalar(p, q, token, u, after) ==
    /\ u \in Scalars /\ u.kind \in {"Null", "I64", "U64"} /\ token.tag = ScalarTag(u)
    /\ token.tag.tag \in IntTags \cup {"Null"}
    /\ q.w = p.w /\ q.todo = after

WroteString(p, q, token, u, after) ==
    /\ u = Str(u.str) /\ u \in Scalars /\ u.str \in STRING
    /\ token.tag = string_token(p.w, u.str) /\ token.tag.tag \in {"StrRef", "StrShort"}
    /\ q.w.strings = register_value(p.w.strings, u.str)
    /\ q.w.keys = p.w.keys /\ q.w.shapes = p.w.shapes
    /\ q.todo = after

WroteContainer(p, q, token, u, after) ==
    /\ u \in Containers(Values) /\ token.tag.num = Count(u)
    /\ token.tag.tag = (IF u.kind = "Map" THEN "Map"
                        ELSE IF Shaped(u) THEN "ShapeArray" ELSE "Array")
    /\ Shaped(u) => /\ token.tag.key_count = Width(u)
                    /\ Numbered(q.w.shapes, token.tag.shape, ShapeKeys(u))
    /\ Kept(p.w.shapes, q.w.shapes)
    /\ q.w.keys = p.w.keys /\ q.w.strings = p.w.strings
    /\ q.todo = Rest(u) \o after

\* The value item was written, in one of the three ways.
LEMMA ValWritten ==
    ASSUME NEW p, NEW q, NEW token, Point(p), Wrote(p, q, token),
           NEW v, NEW f, NEW sl, p.todo = Onto(v, Taken(f), sl), OffersVal(v, f, sl)
    PROVE  \E u \in Values :
              /\ Rest(v)[Taken(f) + 1] = WriteValItem(u)
              /\ \/ WroteScalar(p, q, token, u, Onto(v, Taken(f) + 1, sl))
                 \/ WroteString(p, q, token, u, Onto(v, Taken(f) + 1, sl))
                 \/ WroteContainer(p, q, token, u, Onto(v, Taken(f) + 1, sl))
<1>1. PICK u \in Values : Head(p.todo) = WriteValItem(u)
  BY DEF OffersVal
<1>2. PICK item, after : item = Head(p.todo) /\ after = Tail(p.todo)
  OBVIOUS
<1>3. /\ after = Onto(v, Taken(f) + 1, sl) /\ after \in Seq(Items)
      /\ Rest(v)[Taken(f) + 1] = WriteValItem(u)
  <2>1. p.todo # << >> /\ p.todo \in Seq(Items)
    BY DEF Wrote, Point
  <2>2. Tail(p.todo) = Onto(v, Taken(f) + 1, sl) /\ Head(p.todo) = Rest(v)[Taken(f) + 1]
    BY DEF OffersVal
  <2> HIDE DEF WriteValItem
  <2>3. QED
    BY <1>1, <1>2, <2>1, <2>2, HeadTailProperties
<1>4. item.key = FALSE /\ item.val = u
  BY <1>1, <1>2 DEF WriteValItem
<1>5. /\ token.tag = TokenFor(item, p.w) /\ q.w = TablesFor(item, p.w)
      /\ q.todo = RestFor(item) \o after
  BY <1>2 DEF Wrote
<1>6. PICK keys \in Seq(STRING), strings \in Seq(STRING), shapes \in Seq(Seq(STRING)) :
         p.w = [keys |-> keys, strings |-> strings, shapes |-> shapes]
  BY DEF Point, Tables
<1>7. << >> \o after = after
  BY <1>3, ConcatEmptySeq
<1>8. CASE u \in Scalars /\ u.kind \in {"Null", "I64", "U64"} /\ ~Shaped(u)
  <2>1. token.tag = ScalarTag(u) /\ q.w = p.w /\ RestFor(item) = << >>
    BY <1>4, <1>5, <1>8 DEF TokenFor, TablesFor, RestFor
  <2>2. token.tag.tag \in IntTags \cup {"Null"}
    BY <1>8, <2>1, ScalarRoundtrip
  <2>3. WroteScalar(p, q, token, u, after)
    BY <1>5, <1>7, <1>8, <2>1, <2>2 DEF WroteScalar
  <2> HIDE DEF WriteValItem
  <2>4. QED
    BY <1>3, <2>3
<1>9. CASE u \in Scalars /\ u.kind = "String" /\ u = Str(u.str) /\ u.str \in STRING /\ ~Shaped(u)
  <2>1. /\ token.tag = string_token(p.w, u.str)
        /\ q.w = [p.w EXCEPT !.strings = register_value(@, u.str)]
        /\ RestFor(item) = << >>
    BY <1>4, <1>5, <1>9 DEF TokenFor, TablesFor, RestFor
  <2>2. /\ q.w.strings = register_value(p.w.strings, u.str)
        /\ q.w.keys = p.w.keys /\ q.w.shapes = p.w.shapes
    BY <1>6, <2>1
  <2>3. token.tag.tag \in {"StrRef", "StrShort"}
    BY <2>1 DEF string_token, Tag
  <2>4. WroteString(p, q, token, u, after)
    BY <1>5, <1>7, <1>9, <2>1, <2>2, <2>3 DEF WroteString
  <2> HIDE DEF WriteValItem
  <2>5. QED
    BY <1>3, <2>4
<1>10. CASE u \in Containers(Values) /\ u.kind \in {"Map", "Array"}
  <2>1. RestFor(item) = Rest(u)
    BY <1>4, <1>10 DEF RestFor
  <2>2. CASE Shaped(u)
    <3>1. u.kind = "Array"
      BY <2>2 DEF Shaped
    <3>2. PICK t : t = register_value(shapes, ShapeKeys(u))
      OBVIOUS
    <3>3. token.tag = [tag |-> "ShapeArray", num |-> Count(u),
                       shape |-> get_id(t, ShapeKeys(u)), key_count |-> Width(u)]
      BY <1>4, <1>5, <1>6, <2>2, <3>1, <3>2 DEF TokenFor
    <3>4. q.w = [keys |-> keys, strings |-> strings, shapes |-> t]
      BY <1>4, <1>5, <1>6, <2>2, <3>1, <3>2 DEF TablesFor
    <3>5. Kept(shapes, t) /\ Numbered(t, get_id(t, ShapeKeys(u)), ShapeKeys(u))
      <4>1. PICK k \in Seq(STRING) : k = ShapeKeys(u)
        BY <1>10, <2>2, Rows
      <4>2. /\ Kept(shapes, t) /\ t \in Seq(Seq(STRING))
            /\ get_id(t, k) \in 0..Len(t) - 1 /\ get_value(t, get_id(t, k)) = k
        BY <3>2, <4>1, Registered
      <4>3. Numbered(t, get_id(t, k), k)
        BY <4>2, LenProperties DEF Numbered, get_value
      <4>4. QED
        BY <4>1, <4>2, <4>3
    <3>6. WroteContainer(p, q, token, u, after)
      BY <1>5, <1>6, <1>10, <2>1, <2>2, <3>1, <3>3, <3>4, <3>5 DEF WroteContainer
    <3> HIDE DEF WriteValItem
    <3>7. QED
      BY <1>3, <3>6
  <2>3. CASE ~Shaped(u)
    <3>1. /\ token.tag = Tag(IF u.kind = "Map" THEN "Map" ELSE "Array", Count(u), NoText)
          /\ q.w = p.w
      BY <1>4, <1>5, <1>10, <2>3 DEF TokenFor, TablesFor
    <3>2. /\ token.tag.tag = (IF u.kind = "Map" THEN "Map" ELSE "Array")
          /\ token.tag.num = Count(u)
      BY <3>1 DEF Tag
    <3>3. Kept(shapes, shapes)
      BY KeptItself
    <3>4. WroteContainer(p, q, token, u, after)
      BY <1>5, <1>6, <1>10, <2>1, <2>3, <3>1, <3>2, <3>3 DEF WroteContainer
    <3> HIDE DEF WriteValItem
    <3>5. QED
      BY <1>3, <3>4
  <2>4. QED
    BY <2>2, <2>3
<1>11. QED
  BY <1>8, <1>9, <1>10, KindCases

\* The keys of a shape, once they are all read, are its keys.
LEMMA AllKeys ==
    ASSUME NEW v \in Containers(Values), Shaped(v), NEW keys, NEW vals,
           Got(v, keys, vals), Len(keys) = Width(v)
    PROVE  keys = ShapeKeys(v)
<1>1. PICK n \in Nat, sk \in Seq(STRING) : n = Width(v) /\ sk = ShapeKeys(v) /\ Len(sk) = n
  BY Rows
<1>2. keys \in Seq(STRING) /\ Len(keys) = n
  BY <1>1 DEF Got
<1>3. \A i \in 1..n : keys[i] = sk[i]
  <2>1. \A i \in 1..n : Rest(v)[i] = WriteKeyItem(sk[i])
    BY <1>1, RestOfRows
  <2>2. \A i \in 1..n : KeyAt(v, i) = i
    BY DEF KeyAt, Shaped
  <2>3. \A i \in 1..n : keys[i] = Rest(v)[KeyAt(v, i)].str
    BY <1>2 DEF Got
  <2>4. QED
    <3>1. \A i \in 1..n : WriteKeyItem(sk[i]).str = sk[i]
      BY DEF WriteKeyItem
    <3> HIDE DEF WriteKeyItem
    <3>2. QED
      BY <2>1, <2>2, <2>3, <3>1
<1>4. keys = sk
  BY <1>1, <1>2, <1>3, SeqEqual
<1>5. QED
  BY <1>1, <1>4

\* A key read: the reader enters a literal like the writer, and finds what the
\* writer refers to.
LEMMA KeyTaken ==
    ASSUME NEW p, NEW q, NEW token, Point(p), NEW k, NEW after,
           WroteKey(p, q, token, k, after), ReaderTables(r, p.w),
           token = tokens[pos + 1], decode_v2_key
    PROVE  \E t : AddKey(t, k) /\ ReaderTables(t, q.w)
<1>1. PICK keys \in Seq(STRING), strings \in Seq(STRING), shapes \in Seq(Seq(STRING)) :
         /\ p.w.keys = keys /\ p.w.strings = strings /\ p.w.shapes = shapes
         /\ k \in STRING /\ q.w.keys = register_value(keys, k)
         /\ q.w.strings = strings /\ q.w.shapes = shapes
         /\ token.tag = key_token(p.w, k)
  BY DEF Point, Tables, WroteKey
<1>2. PICK rs, rh :
         /\ rs \in Seq(STRING)
         /\ r = [keys |-> keys, strings |-> rs, shapes |-> rh]
         /\ StringsFit(rs, strings) /\ ShapesFit(rh, shapes)
  BY <1>1 DEF ReaderTables, StringsFit
<1>3. Read = token.tag
  BY DEF Read
<1>4. CASE HasValue(keys, k)
  <2>1. Read = Tag("KeyRef", get_id(keys, k), NoText)
    BY <1>1, <1>3, <1>4 DEF key_token
  <2>2. /\ register_value(keys, k) = keys /\ get_id(keys, k) \in 0..Len(keys) - 1
        /\ get_value(keys, get_id(keys, k)) = k
    BY <1>1, <1>4, Registered, SMTT(30)
  <2>3. Read.tag = "KeyRef" /\ HasId(r.keys, Read.num) /\ get_value(r.keys, Read.num) = k
    BY <1>2, <2>1, <2>2, LenProperties DEF Tag, HasId
  <2>4. AddKey(r, k)
    BY <2>3 DEF decode_v2_key
  <2>5. ReaderTables(r, q.w)
    BY <1>1, <1>2, <2>2 DEF ReaderTables
  <2>6. QED
    BY <2>4, <2>5
<1>5. CASE ~HasValue(keys, k) /\ k \notin LongKeys
  <2>1. Read.tag = "StrShort" /\ Read.str = k
    BY <1>1, <1>3, <1>5 DEF key_token, Tag
  <2>2. PICK t : t = [r EXCEPT !.keys = Append(@, k)]
    OBVIOUS
  <2>3. AddKey(t, k)
    BY <2>1, <2>2 DEF decode_v2_key
  <2>4. t = [keys |-> Append(keys, k), strings |-> rs, shapes |-> rh]
    BY <1>2, <2>2
  <2>5. q.w.keys = Append(keys, k)
    BY <1>1, <1>5 DEF register_value
  <2>6. ReaderTables(t, q.w)
    BY <1>1, <1>2, <2>4, <2>5 DEF ReaderTables
  <2>7. QED
    BY <2>3, <2>6
<1>6. CASE ~HasValue(keys, k) /\ k \in LongKeys
  <2>1. Read.tag = "StrLong" /\ Read.str = k
    BY <1>1, <1>3, <1>6 DEF key_token, Tag
  <2>2. PICK t : t = [r EXCEPT !.keys = Append(@, k), !.strings = Append(@, k)]
    OBVIOUS
  <2>3. AddKey(t, k)
    BY <2>1, <2>2 DEF decode_v2_key
  <2>4. t = [keys |-> Append(keys, k), strings |-> Append(rs, k), shapes |-> rh]
    BY <1>2, <2>2
  <2>5. q.w.keys = Append(keys, k)
    BY <1>1, <1>6 DEF register_value
  <2>6. StringsFit(Append(rs, k), strings)
    <3>1. ~KeysAreShort
      BY <1>6 DEF KeysAreShort
    <3>2. Len(strings) \in Nat /\ Len(rs) \in Nat /\ Len(strings) <= Len(rs)
      BY <1>2, LenProperties DEF StringsFit
    <3>3. Append(rs, k) \in Seq(STRING) /\ Len(Append(rs, k)) = Len(rs) + 1
      BY <1>1, <1>2, AppendProperties
    <3>4. QED
      BY <3>1, <3>2, <3>3 DEF StringsFit
  <2>7. ReaderTables(t, q.w)
    BY <1>1, <1>2, <2>4, <2>5, <2>6 DEF ReaderTables
  <2>8. QED
    BY <2>3, <2>7
<1>7. QED
  BY <1>4, <1>5, <1>6

\* The innermost frame of the reader: what it reads and what comes next.
Reading1(p, f, v, sl) ==
    /\ v \in Containers(Values) /\ Reads(f, v, p.w.shapes) /\ sl \in Seq(Items)
    /\ p.todo = Onto(v, Taken(f), sl)

\* A matched reader is reading its innermost frame.
LEMMA TopOf ==
    ASSUME NEW p, NEW d, NEW g, NEW rest, NEW n, Matched(p, d, g, rest, frames, n, r)
    PROVE  /\ n \in Nat /\ n # 0 /\ n = Len(frames) /\ Top = frames[n]
           /\ Reading1(p, frames[n], g[n], rest[n - 1])
           /\ ReaderTables(r, p.w)
           /\ Stack(frames, n, g, rest, p.todo, p.w.shapes)
<1>1. Stack(frames, n, g, rest, p.todo, p.w.shapes) /\ ReaderTables(r, p.w)
  BY DEF Matched
<1>2. n \in Nat /\ n # 0 /\ n = Len(frames)
  BY <1>1 DEF Stack
<1>3. Reading1(p, frames[n], g[n], rest[n - 1])
  BY <1>1, Innermost DEF Reading1
<1>4. QED
  BY <1>1, <1>2, <1>3 DEF Top

\* The reader read a key.
LEMMA KeyRead ==
    ASSUME NEW p, NEW q, NEW token, Point(p), Wrote(p, q, token),
           MatchedOn(p, doc, frames, r), token = tokens[pos + 1], decode_v2_key
    PROVE  MatchedOn(q, doc, frames', r') /\ res' = res
<1>1. PICK g, rest, n : Matched(p, doc, g, rest, frames, n, r)
  BY DEF MatchedOn
<1>2. PICK f, v, sl : /\ f = frames[n] /\ v = g[n] /\ sl = rest[n - 1] /\ Top = f
                      /\ Reading1(p, f, v, sl) /\ n = Len(frames)
  BY <1>1, TopOf
<1>3. ReaderTables(r, p.w) /\ Stack(frames, n, g, rest, p.todo, p.w.shapes)
  BY <1>1, TopOf
<1>4. WantsKey(f)
  BY <1>2 DEF decode_v2_key
<1>5. OffersKey(v, f, sl)
  BY <1>2, <1>4, NextWritten DEF Reading1
<1>6. PICK k, after : /\ k = KeyNow(v, f.keys).str /\ after = Onto(v, Taken(f) + 1, sl)
                      /\ WroteKey(p, q, token, k, after)
  BY <1>2, <1>5, KeyWritten DEF Reading1
<1>7. /\ k \in STRING /\ q.todo = after /\ q.w.shapes = p.w.shapes
  BY <1>6 DEF WroteKey
<1>8. PICK t : AddKey(t, k) /\ ReaderTables(t, q.w)
  BY <1>3, <1>6, KeyTaken
<1>9. PICK f2 : f2 = WithKey(f, k)
  OBVIOUS
<1>10. Reads(f2, v, p.w.shapes) /\ Taken(f2) = Taken(f) + 1
  <2>1. v \in Containers(Values) /\ Reads(f, v, p.w.shapes) /\ k = KeyNow(v, f.keys).str
    BY <1>2, <1>6 DEF Reading1
  <2>2. k \in STRING
    BY <1>7
  <2>3. QED
    BY <1>4, <1>9, <2>1, <2>2, KeyAdded
<1>11. /\ frames' = Exchanged(frames, n, f2) /\ res' = res
       /\ r' = IF f2.what = "rows" /\ Len(f2.keys) = f2.k
               THEN [t EXCEPT !.shapes =
                        [id \in DOMAIN @ \cup {f2.shape} |->
                            IF id = f2.shape THEN f2.keys ELSE @[id]]]
               ELSE t
  BY <1>2, <1>8, <1>9 DEF AddKey, WithKey, Exchanged, Below
<1>12. Stack(frames', n, g, rest, q.todo, q.w.shapes)
  <2>1. p.w.shapes \in Seq(Seq(STRING))
    BY DEF Point, Tables
  <2>2. Kept(p.w.shapes, p.w.shapes)
    BY <2>1, KeptItself
  <2>3. Stack(Exchanged(frames, n, f2), n, g, rest, Onto(g[n], Taken(f2), rest[n - 1]),
              p.w.shapes)
    BY <1>2, <1>3, <1>10, <2>2, TopChanged
  <2>4. QED
    BY <1>2, <1>6, <1>7, <1>10, <1>11, <2>3
<1>13. ReaderTables(r', q.w)
  <2>1. CASE f2.what = "rows" /\ Len(f2.keys) = f2.k
    <3>1. Numbered(q.w.shapes, f2.shape, f2.keys)
      <4>1. /\ f2.what = What(v) /\ f2.k = Width(v) /\ Got(v, f2.keys, f2.vals)
            /\ Shaped(v) => Numbered(q.w.shapes, f2.shape, ShapeKeys(v))
        BY <1>7, <1>10 DEF Reads
      <4>2. Shaped(v)
        BY <2>1, <4>1 DEF What
      <4>3. v \in Containers(Values)
        BY <1>2 DEF Reading1
      <4>4. f2.keys = ShapeKeys(v)
        BY <2>1, <4>1, <4>2, <4>3, AllKeys
      <4>5. QED
        BY <4>1, <4>2, <4>4
    <3>2. PICK keys, strings, sh :
             /\ t = [keys |-> keys, strings |-> strings, shapes |-> sh]
             /\ keys = q.w.keys /\ StringsFit(strings, q.w.strings)
             /\ ShapesFit(sh, q.w.shapes)
      BY <1>8 DEF ReaderTables
    <3>3. PICK sh2 : sh2 = [id \in DOMAIN sh \cup {f2.shape} |->
                               IF id = f2.shape THEN f2.keys ELSE sh[id]]
      OBVIOUS
    <3>4. ShapesFit(sh2, q.w.shapes)
      BY <3>1, <3>2, <3>3 DEF ShapesFit
    <3>5. r' = [keys |-> keys, strings |-> strings, shapes |-> sh2]
      BY <1>11, <2>1, <3>2, <3>3
    <3>6. QED
      BY <3>2, <3>4, <3>5 DEF ReaderTables
  <2>2. CASE ~(f2.what = "rows" /\ Len(f2.keys) = f2.k)
    BY <1>8, <1>11, <2>2
  <2>3. QED
    BY <2>1, <2>2
<1>14. g[1] = ArrayOf(<< doc >>)
  BY <1>1 DEF Matched
<1>15. Matched(q, doc, g, rest, frames', n, r')
  BY <1>12, <1>13, <1>14 DEF Matched
<1>16. QED
  BY <1>11, <1>15 DEF MatchedOn

\* The innermost frame waits for a value: the token was written for it.
WroteFor(p, q, token, u, v, f, sl) ==
    /\ u \in Values /\ Rest(v)[Taken(f) + 1] = WriteValItem(u)
    /\ \/ WroteScalar(p, q, token, u, Onto(v, Taken(f) + 1, sl))
       \/ WroteString(p, q, token, u, Onto(v, Taken(f) + 1, sl))
       \/ WroteContainer(p, q, token, u, Onto(v, Taken(f) + 1, sl))

\* A frame that waits for a value is about to get it.
LEMMA ValueNext ==
    ASSUME NEW p, NEW q, NEW token, Point(p), Wrote(p, q, token),
           NEW f, NEW v, NEW sl, Reading1(p, f, v, sl), ~WantsKey(f), ~Complete(f)
    PROVE  \E u : WroteFor(p, q, token, u, v, f, sl)
<1>1. /\ v \in Containers(Values) /\ Reads(f, v, p.w.shapes) /\ sl \in Seq(Items)
      /\ p.todo = Onto(v, Taken(f), sl)
  BY DEF Reading1
<1>2. OffersVal(v, f, sl)
  BY <1>1, NextWritten
<1> HIDE DEF WriteValItem
<1>3. QED
  BY <1>1, <1>2, ValWritten DEF WroteFor

\* A number or a string was read into the innermost frame.
LEMMA ValueTaken ==
    ASSUME NEW p, Point(p), NEW q, q.w.shapes = p.w.shapes,
           NEW g, NEW rest, NEW n, Matched(p, doc, g, rest, frames, n, r),
           WantsValue, NEW u, Rest(g[n])[Taken(frames[n]) + 1] = WriteValItem(u),
           q.todo = Onto(g[n], Taken(frames[n]) + 1, rest[n - 1]),
           NEW x, KeysAreShort => x = Normal[u],
           NEW t, ReaderTables(t, q.w), AddVal(t, x)
    PROVE  MatchedOn(q, doc, frames', r') /\ res' = res
<1> HIDE DEF WriteValItem
<1>1. PICK f, v, sl : /\ f = frames[n] /\ v = g[n] /\ sl = rest[n - 1] /\ Top = f
                      /\ Reading1(p, f, v, sl) /\ n = Len(frames)
  BY TopOf
<1>2. Stack(frames, n, g, rest, p.todo, p.w.shapes)
  BY TopOf
<1>3. /\ v \in Containers(Values) /\ Reads(f, v, p.w.shapes)
      /\ Rest(v)[Taken(f) + 1] = WriteValItem(u)
  BY <1>1 DEF Reading1
<1>4. ~AtKey(v, Len(f.keys), Len(f.vals)) /\ Len(f.vals) # Size(v)
  <2>1. ~WantsKey(f) /\ ~Complete(f)
    BY <1>1 DEF WantsValue
  <2>2. QED
    BY <1>3, <2>1, Wants
<1>5. PICK f2 : f2 = WithVal(f, x)
  OBVIOUS
<1>6. Reads(f2, v, p.w.shapes) /\ Taken(f2) = Taken(f) + 1
  BY <1>3, <1>4, <1>5, ValAdded
<1>7. frames' = Exchanged(frames, n, f2) /\ r' = t /\ res' = res
  BY <1>1, <1>5 DEF AddVal, WithVal, Exchanged, Below
<1>8. Stack(frames', n, g, rest, q.todo, q.w.shapes)
  <2>1. p.w.shapes \in Seq(Seq(STRING))
    BY DEF Point, Tables
  <2>2. Kept(p.w.shapes, p.w.shapes)
    BY <2>1, KeptItself
  <2>3. Stack(Exchanged(frames, n, f2), n, g, rest, Onto(g[n], Taken(f2), rest[n - 1]),
              p.w.shapes)
    BY <1>1, <1>2, <1>6, <2>2, TopChanged
  <2>4. QED
    BY <1>1, <1>6, <1>7, <2>3
<1>9. g[1] = ArrayOf(<< doc >>)
  BY DEF Matched
<1>10. Matched(q, doc, g, rest, frames', n, r')
  BY <1>7, <1>8, <1>9 DEF Matched
<1>11. QED
  BY <1>7, <1>10 DEF MatchedOn

\* The reader read a number.
LEMMA ScalarRead ==
    ASSUME NEW p, NEW q, NEW token, Point(p), Wrote(p, q, token),
           MatchedOn(p, doc, frames, r), token = tokens[pos + 1], decode_v2_scalar
    PROVE  MatchedOn(q, doc, frames', r') /\ res' = res
<1> HIDE DEF WriteValItem
<1>1. PICK g, rest, n : Matched(p, doc, g, rest, frames, n, r)
  BY DEF MatchedOn
<1>2. PICK f, v, sl : /\ f = frames[n] /\ v = g[n] /\ sl = rest[n - 1] /\ Top = f
                      /\ Reading1(p, f, v, sl) /\ ReaderTables(r, p.w)
  BY <1>1, TopOf
<1>3. WantsValue /\ ~WantsKey(f) /\ ~Complete(f)
  BY <1>2 DEF decode_v2_scalar, WantsValue
<1>4. PICK u : WroteFor(p, q, token, u, v, f, sl)
  BY <1>2, <1>3, ValueNext
<1>5. Read = token.tag /\ Read.tag \in IntTags \cup {"Null"}
  BY DEF decode_v2_scalar, NextTag, Read
<1>6. WroteScalar(p, q, token, u, Onto(v, Taken(f) + 1, sl))
  BY <1>4, <1>5 DEF WroteFor, WroteString, WroteContainer, IntTags
<1>7. /\ u \in Scalars /\ u.kind \in {"Null", "I64", "U64"} /\ Read = ScalarTag(u)
      /\ q.w = p.w /\ q.todo = Onto(v, Taken(f) + 1, sl)
  BY <1>5, <1>6 DEF WroteScalar
<1>8. PICK x : /\ x = IF Read.tag = "Null" THEN Null ELSE decode_v2_int(Read)
               /\ x = Normal[u] /\ x \in Values
  <2>1. PICK tag : tag = ScalarTag(u) /\ tag = Read
    BY <1>7
  <2>2. /\ (IF tag.tag = "Null" THEN Null ELSE decode_v2_int(tag)) = Normal[u]
        /\ Normal[u] \in Scalars
    BY <1>7, <2>1, ScalarRoundtrip
  <2>3. QED
    BY <2>1, <2>2, ScalarsAreValues
<1>9. x # InvalidData
  BY <1>8, ResultsAssumption
<1>10. AddVal(r, x)
  BY <1>8, <1>9 DEF decode_v2_scalar
<1>11. /\ Rest(g[n])[Taken(frames[n]) + 1] = WriteValItem(u)
       /\ q.todo = Onto(g[n], Taken(frames[n]) + 1, rest[n - 1])
       /\ ReaderTables(r, q.w) /\ q.w.shapes = p.w.shapes
  BY <1>2, <1>4, <1>7 DEF WroteFor
<1>12. QED
  BY <1>1, <1>3, <1>8, <1>10, <1>11, ValueTaken

\* A string read: the reader enters a literal like the writer, and, if no key
\* took the way of a string, finds what the writer refers to.
LEMMA StringTaken ==
    ASSUME NEW p, NEW q, NEW token, Point(p), NEW u, NEW after,
           WroteString(p, q, token, u, after), ReaderTables(r, p.w),
           token = tokens[pos + 1], decode_v2_string
    PROVE  \E t, x : /\ AddVal(t, x) /\ ReaderTables(t, q.w)
                     /\ KeysAreShort => x = u
<1>1. PICK s \in STRING : s = u.str /\ u = Str(s)
  BY DEF WroteString
<1>2. PICK keys \in Seq(STRING), strings \in Seq(STRING), shapes \in Seq(Seq(STRING)) :
         /\ p.w.keys = keys /\ p.w.strings = strings /\ p.w.shapes = shapes
         /\ q.w.strings = register_value(strings, s)
         /\ q.w.keys = keys /\ q.w.shapes = shapes
         /\ token.tag = string_token(p.w, s)
  BY <1>1 DEF Point, Tables, WroteString
<1>3. PICK rs, rh :
         /\ rs \in Seq(STRING)
         /\ r = [keys |-> keys, strings |-> rs, shapes |-> rh]
         /\ StringsFit(rs, strings) /\ ShapesFit(rh, shapes)
  BY <1>2 DEF ReaderTables, StringsFit
<1>4. Read = token.tag
  BY DEF Read
<1>5. Len(strings) \in Nat /\ Len(rs) \in Nat /\ Len(strings) <= Len(rs)
  BY <1>3, LenProperties DEF StringsFit
<1>6. CASE HasValue(strings, s)
  <2>1. Read = Tag("StrRef", get_id(strings, s), NoText)
    BY <1>2, <1>4, <1>6 DEF string_token
  <2>2. PICK id : /\ id = get_id(strings, s) /\ register_value(strings, s) = strings
                  /\ id \in 0..Len(strings) - 1 /\ get_value(strings, id) = s
    <3>1. PICK t : t = register_value(strings, s)
      OBVIOUS
    <3>2. t = strings /\ get_id(t, s) \in 0..Len(t) - 1 /\ get_value(t, get_id(t, s)) = s
      BY <1>6, <3>1, Registered
    <3>3. QED
      BY <3>1, <3>2
  <2>3. Read.tag = "StrRef" /\ Read.num = id /\ HasId(r.strings, id)
    BY <1>3, <1>5, <2>1, <2>2 DEF Tag, HasId
  <2>4. AddVal(r, Str(get_value(rs, id)))
    BY <1>3, <2>3 DEF decode_v2_string
  <2>5. KeysAreShort => Str(get_value(rs, id)) = u
    BY <1>1, <1>3, <2>2 DEF StringsFit
  <2>6. ReaderTables(r, q.w)
    BY <1>2, <1>3, <2>2 DEF ReaderTables
  <2>7. QED
    BY <2>4, <2>5, <2>6
<1>7. CASE ~HasValue(strings, s)
  <2>1. Read.tag = "StrShort" /\ Read.str = s
    BY <1>2, <1>4, <1>7 DEF string_token, Tag
  <2>2. PICK t : t = [r EXCEPT !.strings = Append(@, s)]
    OBVIOUS
  <2>3. AddVal(t, Str(s))
    BY <2>1, <2>2 DEF decode_v2_string
  <2>4. t = [keys |-> keys, strings |-> Append(rs, s), shapes |-> rh]
    BY <1>3, <2>2
  <2>5. q.w.strings = Append(strings, s)
    BY <1>2, <1>7 DEF register_value
  <2>6. StringsFit(Append(rs, s), Append(strings, s))
    <3>1. /\ Append(rs, s) \in Seq(STRING) /\ Len(Append(rs, s)) = Len(rs) + 1
          /\ Len(Append(strings, s)) = Len(strings) + 1
      BY <1>1, <1>3, AppendProperties
    <3>2. Len(Append(strings, s)) <= Len(Append(rs, s))
      BY <1>5, <3>1
    <3>3. QED
      BY <1>3, <3>1, <3>2 DEF StringsFit
  <2>7. ReaderTables(t, q.w)
    BY <1>2, <1>3, <2>4, <2>5, <2>6 DEF ReaderTables
  <2>8. QED
    BY <1>1, <2>3, <2>7
<1>8. QED
  BY <1>6, <1>7

\* The reader read a string.
LEMMA StringRead ==
    ASSUME NEW p, NEW q, NEW token, Point(p), Wrote(p, q, token),
           MatchedOn(p, doc, frames, r), token = tokens[pos + 1], decode_v2_string
    PROVE  MatchedOn(q, doc, frames', r') /\ res' = res
<1> HIDE DEF WriteValItem
<1>1. PICK g, rest, n : Matched(p, doc, g, rest, frames, n, r)
  BY DEF MatchedOn
<1>2. PICK f, v, sl : /\ f = frames[n] /\ v = g[n] /\ sl = rest[n - 1] /\ Top = f
                      /\ Reading1(p, f, v, sl) /\ ReaderTables(r, p.w)
  BY <1>1, TopOf
<1>3. WantsValue /\ ~WantsKey(f) /\ ~Complete(f)
  BY <1>2 DEF decode_v2_string, WantsValue
<1>4. PICK u : WroteFor(p, q, token, u, v, f, sl)
  BY <1>2, <1>3, ValueNext
<1>5. Read = token.tag /\ Read.tag \in {"StrRef", "StrShort", "StrLong"}
  BY DEF decode_v2_string, NextTag, Read
<1>6. PICK after : after = Onto(v, Taken(f) + 1, sl) /\ WroteString(p, q, token, u, after)
  BY <1>4, <1>5 DEF WroteFor, WroteScalar, WroteContainer, IntTags
<1>7. PICK t, x : AddVal(t, x) /\ ReaderTables(t, q.w) /\ (KeysAreShort => x = u)
  BY <1>2, <1>6, StringTaken
<1>8. Normal[u] = u
  <2>1. u \in Scalars /\ u = Str(u.str)
    BY <1>6 DEF WroteString
  <2>2. u.kind = "String"
    BY <2>1 DEF Str, Value
  <2>3. QED
    BY <2>1, <2>2, NormalScalar DEF Unsigned
<1>9. /\ Rest(g[n])[Taken(frames[n]) + 1] = WriteValItem(u)
      /\ q.todo = Onto(g[n], Taken(frames[n]) + 1, rest[n - 1])
      /\ q.w.shapes = p.w.shapes
  BY <1>2, <1>4, <1>6 DEF WroteFor, WroteString
<1>10. KeysAreShort => x = Normal[u]
  BY <1>7, <1>8
<1>11. QED
  BY <1>1, <1>3, <1>7, <1>9, <1>10, ValueTaken

\* A new frame has read nothing of its value.
LEMMA NewFrame ==
    ASSUME NEW u \in Containers(Values), NEW f2, NEW s,
           f2 = [what |-> What(u), n |-> Count(u), k |-> Width(u), shape |-> f2.shape,
                 keys |-> << >>, vals |-> << >>],
           Shaped(u) => Numbered(s, f2.shape, ShapeKeys(u))
    PROVE  Reads(f2, u, s) /\ Taken(f2) = 0
<1>1. PICK e : e = << >> /\ e \in Seq(STRING) /\ e \in Seq(Range(e)) /\ Len(e) = 0
  BY EmptySeq
<1>2. f2 = [what |-> What(u), n |-> Count(u), k |-> Width(u), shape |-> f2.shape,
            keys |-> e, vals |-> e]
  BY <1>1
<1>3. f2.keys = e /\ f2.vals = e
  BY <1>2
<1>4. Progress(u, 0, 0)
  BY RestShape DEF Progress
<1>5. Got(u, e, e)
  BY <1>1, <1>4 DEF Got
<1>6. Reads(f2, u, s)
  BY <1>2, <1>3, <1>5 DEF Reads
<1>7. Together(e, e) = 0
  BY <1>1 DEF Together
<1>8. QED
  BY <1>3, <1>6, <1>7 DEF Taken

\* A shape read keeps its number when the writer numbers another one.
LEMMA ShapesKept ==
    ASSUME NEW read, NEW s, NEW t, Kept(s, t), ShapesFit(read, s)
    PROVE  ShapesFit(read, t)
<1>1. \A id, keys : Numbered(s, id, keys) => Numbered(t, id, keys)
  BY DEF Kept, Numbered
<1>2. QED
  BY <1>1 DEF ShapesFit

\* The reader met a map or an array.
LEMMA ContainerRead ==
    ASSUME NEW p, NEW q, NEW token, Point(p), Wrote(p, q, token),
           MatchedOn(p, doc, frames, r), token = tokens[pos + 1],
           decode_v2_map_body \/ decode_v2_array_body
    PROVE  MatchedOn(q, doc, frames', r') /\ res' = res
<1> HIDE DEF WriteValItem
<1>1. PICK g, rest, n : Matched(p, doc, g, rest, frames, n, r)
  BY DEF MatchedOn
<1>2. PICK f, v, sl : /\ f = frames[n] /\ v = g[n] /\ sl = rest[n - 1] /\ Top = f
                      /\ Reading1(p, f, v, sl) /\ ReaderTables(r, p.w)
                      /\ n \in Nat /\ n # 0 /\ n = Len(frames)
                      /\ Stack(frames, n, g, rest, p.todo, p.w.shapes)
  BY <1>1, TopOf
<1>3. ~WantsKey(f) /\ ~Complete(f)
  BY <1>2 DEF decode_v2_map_body, decode_v2_array_body, WantsValue
<1>4. PICK u : WroteFor(p, q, token, u, v, f, sl)
  BY <1>2, <1>3, ValueNext
<1>5. Read = token.tag /\ Read.tag \in {"Map", "Array", "ShapeArray"}
  BY DEF decode_v2_map_body, decode_v2_array_body, NextTag, Read
<1>6. PICK after : after = Onto(v, Taken(f) + 1, sl) /\ WroteContainer(p, q, token, u, after)
  BY <1>4, <1>5 DEF WroteFor, WroteScalar, WroteString, IntTags
<1>7. /\ u \in Containers(Values) /\ Read.num = Count(u)
      /\ Read.tag = (IF u.kind = "Map" THEN "Map"
                     ELSE IF Shaped(u) THEN "ShapeArray" ELSE "Array")
      /\ Shaped(u) => /\ Read.key_count = Width(u)
                      /\ Numbered(q.w.shapes, Read.shape, ShapeKeys(u))
      /\ Kept(p.w.shapes, q.w.shapes)
      /\ q.w.keys = p.w.keys /\ q.w.strings = p.w.strings
      /\ q.todo = Rest(u) \o after
  BY <1>5, <1>6 DEF WroteContainer
<1>8. PICK f2 : /\ Open(f2)
                /\ f2 = [what |-> What(u), n |-> Count(u), k |-> Width(u),
                         shape |-> f2.shape, keys |-> << >>, vals |-> << >>]
                /\ Shaped(u) => f2.shape = Read.shape
  <2>1. CASE u.kind = "Map"
    <3>1. ~Shaped(u)
      BY <2>1 DEF Shaped
    <3>2. Open(Frame("map", Count(u), 1))
      BY <1>7, <2>1 DEF decode_v2_map_body, decode_v2_array_body, NextTag, Read
    <3>3. What(u) = "map" /\ Width(u) = 1
      BY <2>1, <3>1 DEF What, Width
    <3>4. QED
      BY <3>1, <3>2, <3>3 DEF Frame
  <2>2. CASE u.kind # "Map" /\ Shaped(u)
    <3>1. Open([Frame("rows", Count(u), Width(u)) EXCEPT !.shape = Read.shape])
      BY <1>7, <2>2 DEF decode_v2_map_body, decode_v2_array_body, NextTag, Read
    <3>2. What(u) = "rows"
      BY <2>2 DEF What
    <3>3. QED
      BY <2>2, <3>1, <3>2 DEF Frame
  <2>3. CASE u.kind # "Map" /\ ~Shaped(u)
    <3>1. Open(Frame("array", Count(u), 1))
      BY <1>7, <2>3 DEF decode_v2_map_body, decode_v2_array_body, NextTag, Read
    <3>2. What(u) = "array" /\ Width(u) = 1
      BY <2>3 DEF What, Width
    <3>3. QED
      BY <2>3, <3>1, <3>2 DEF Frame
  <2>4. QED
    BY <2>1, <2>2, <2>3
<1>9. Reads(f2, u, q.w.shapes) /\ Taken(f2) = 0
  <2>1. Shaped(u) => Numbered(q.w.shapes, f2.shape, ShapeKeys(u))
    BY <1>7, <1>8
  <2>2. QED
    BY <1>7, <1>8, <2>1, NewFrame
<1>10. frames' = Append(frames, f2) /\ r' = r /\ res' = res
  BY <1>8 DEF Open
<1>11. /\ u \in Values /\ Rest(g[n])[Taken(frames[n]) + 1] = WriteValItem(u)
       /\ q.todo = Rest(u) \o Onto(g[n], Taken(frames[n]) + 1, rest[n - 1])
  BY <1>2, <1>4, <1>6, <1>7 DEF WroteFor
<1>12. StackOn(g, Append(frames, f2), n + 1,
               Rest(u) \o Onto(g[n], Taken(frames[n]) + 1, rest[n - 1]), q.w.shapes)
  <2>1. ~WantsKey(frames[n]) /\ ~Complete(frames[n]) /\ Kept(p.w.shapes, q.w.shapes)
    BY <1>2, <1>3, <1>7
  <2>2. QED
    BY <1>2, <1>7, <1>9, <1>11, <2>1, Opened
<1>13. StackOn(g, frames', n + 1, q.todo, q.w.shapes)
  BY <1>10, <1>11, <1>12
<1>14. PICK g2, rest2 : g2[1] = g[1] /\ Stack(frames', n + 1, g2, rest2, q.todo, q.w.shapes)
  BY <1>13 DEF StackOn
<1>15. ReaderTables(r', q.w)
  <2>1. ShapesFit(r.shapes, q.w.shapes)
    BY <1>2, <1>7, ShapesKept DEF ReaderTables
  <2>2. QED
    BY <1>2, <1>7, <1>10, <2>1 DEF ReaderTables
<1>16. g2[1] = ArrayOf(<< doc >>)
  BY <1>1, <1>14 DEF Matched
<1>17. Matched(q, doc, g2, rest2, frames', n + 1, r')
  BY <1>14, <1>15, <1>16 DEF Matched
<1>18. QED
  BY <1>10, <1>17 DEF MatchedOn

\* A value returned to the frame below.
LEMMA ReturnRead ==
    ASSUME NEW p, MatchedOn(p, doc, frames, r), Return
    PROVE  MatchedOn(p, doc, frames', r') /\ UNCHANGED << pos, res >>
<1>1. PICK g, rest, n : Matched(p, doc, g, rest, frames, n, r)
  BY DEF MatchedOn
<1>2. /\ n \in Nat /\ n # 0 /\ n = Len(frames) /\ Top = frames[n]
      /\ Stack(frames, n, g, rest, p.todo, p.w.shapes)
  BY <1>1, TopOf
<1>3. n # 1 /\ Complete(frames[n])
  BY <1>2 DEF Return
<1>4. /\ frames' = Append(SubSeq(frames, 1, n - 2),
                          WithVal(frames[n - 1], FrameValue(frames[n])))
      /\ UNCHANGED << r, pos, res >>
  BY <1>2 DEF Return, WithVal
<1>5. (n - 1) - 1 = n - 2
  BY <1>2
<1>6. frames' = Exchanged(frames, n - 1, WithVal(frames[n - 1], FrameValue(frames[n])))
  BY <1>4, <1>5 DEF Exchanged
<1>7. Stack(frames', n - 1, g, rest, p.todo, p.w.shapes)
  BY <1>2, <1>3, <1>6, Returned
<1>8. Matched(p, doc, g, rest, frames', n - 1, r')
  BY <1>1, <1>4, <1>7 DEF Matched
<1>9. QED
  BY <1>4, <1>8 DEF MatchedOn

\* The document is the one element of an array that is not written.
LEMMA Whole ==
    ASSUME NEW d \in Values, NEW v, v = ArrayOf(<< d >>)
    PROVE  /\ v \in Containers(Values) /\ v.kind # "Map" /\ ~Shaped(v)
           /\ Count(v) = 1 /\ Width(v) = 1 /\ Size(v) = 1 /\ ValAt(v, 1) = 1
           /\ Rest(v) = << WriteValItem(d) >>
<1>1. v.kind = "Array" /\ v.fields = << Entry(NoText, d) >>
      /\ v = [kind |-> "Array", num |-> 0, str |-> NoText, fields |-> v.fields]
  <2>1. [i \in DOMAIN << d >> |-> Entry(NoText, << d >>[i])] = << Entry(NoText, d) >>
    OBVIOUS
  <2>2. QED
    BY <2>1 DEF ArrayOf, Value
<1>2. v \in Containers(Values)
  <2>1. v.fields \in Seq([key : {NoText}, val : Values])
    <3>1. PICK e : e = Entry(NoText, d)
      OBVIOUS
    <3>2. e \in [key : {NoText}, val : Values]
      BY <3>1 DEF Entry
    <3>3. PICK S : S = [key : {NoText}, val : Values]
      OBVIOUS
    <3>4. << e >> \in Seq(S)
      BY <3>2, <3>3
    <3>5. QED
      BY <1>1, <3>1, <3>3, <3>4
  <2>2. QED
    BY <1>1, <2>1 DEF Containers, ValuesOf
<1>3. Count(v) = 1
  BY <1>1 DEF Count
<1>4. ValsOf(v) = << d >>
  BY <1>1 DEF ValsOf, Entry
<1>5. ~Shaped(v)
  <2>1. PICK rows : rows = << d >> /\ Len(rows) = 1
    OBVIOUS
  <2>2. ~HasShape(rows)
    BY <2>1 DEF HasShape
  <2>3. QED
    BY <1>4, <2>1, <2>2 DEF Shaped
<1>6. Width(v) = 1 /\ ValAt(v, 1) = 1
  BY <1>1, <1>5 DEF Width, ValAt
<1>7. Size(v) = 1
  BY <1>3, <1>6 DEF Size
<1>8. Rest(v) = << WriteValItem(d) >>
  <2>1. Rest(v) = ValItems(<< d >>)
    BY <1>1, <1>4, <1>5 DEF Rest
  <2> HIDE DEF WriteValItem
  <2>2. QED
    BY <2>1 DEF ValItems
<1>9. QED
  BY <1>1, <1>2, <1>3, <1>5, <1>6, <1>7, <1>8

\* Before the first token.
LEMMA MatchedNew ==
    ASSUME NEW d \in Values, NEW p, p.todo = << WriteValItem(d) >>, p.w = NewTables
    PROVE  MatchedOn(p, d, << Frame("array", 1, 1) >>, NewTables)
<1> HIDE DEF WriteValItem
<1>1. PICK v : /\ v = ArrayOf(<< d >>) /\ v \in Containers(Values) /\ v.kind # "Map" /\ ~Shaped(v)
               /\ Count(v) = 1 /\ Width(v) = 1 /\ Rest(v) = << WriteValItem(d) >>
  BY Whole
<1>2. PICK f : f = Frame("array", 1, 1)
  OBVIOUS
<1>3. Reads(f, v, << >>) /\ Taken(f) = 0
  <2>1. What(v) = "array"
    BY <1>1 DEF What
  <2>2. f = [what |-> What(v), n |-> Count(v), k |-> Width(v), shape |-> f.shape,
             keys |-> << >>, vals |-> << >>]
    BY <1>1, <1>2, <2>1 DEF Frame
  <2>3. QED
    BY <1>1, <2>2, NewFrame
<1>4. Onto(v, 0, << >>) = p.todo
  <2>1. << >> \in Seq(Items) /\ Rest(v) \in Seq(Items)
    BY <1>1, EmptySeq, RestShape
  <2>2. Rest(v) \o << >> = Rest(v)
    BY <2>1, ConcatEmptySeq
  <2>3. QED
    BY <1>1, <2>1, <2>2, NothingTaken
<1>5. PICK g, rest : g = [i \in {1} |-> v] /\ rest = [i \in {0} |-> << >>]
  OBVIOUS
<1>6. p.w.shapes = << >>
  BY DEF NewTables, clear
<1>7. Stack(<< f >>, 1, g, rest, p.todo, p.w.shapes)
  <2>1. << f >> \in Seq(Range(<< f >>)) /\ Len(<< f >>) = 1 /\ << f >>[1] = f
    BY DEF Range
  <2>2. g[1] = v /\ rest[0] = << >>
    BY <1>5
  <2>3. \A i \in 1..1 : i = 1
    OBVIOUS
  <2>4. 1 \in Nat /\ 1 # 0 /\ 1 - 1 = 0 /\ 1..1 - 1 = {}
    OBVIOUS
  <2>5. QED
    BY <1>1, <1>3, <1>4, <1>6, <2>1, <2>2, <2>3, <2>4 DEF Stack
<1>8. ReaderTables(NewTables, p.w)
  <2>1. << >> \in Seq(STRING) /\ Len(<< >>) = 0 /\ DOMAIN << >> = {}
    BY EmptySeq
  <2>2. NewTables = [keys |-> << >>, strings |-> << >>, shapes |-> << >>]
    BY DEF NewTables, clear
  <2>3. StringsFit(<< >>, << >>) /\ ShapesFit(<< >>, << >>)
    BY <2>1 DEF StringsFit, ShapesFit
  <2>4. QED
    BY <2>2, <2>3 DEF ReaderTables
<1>9. g[1] = ArrayOf(<< d >>)
  BY <1>1, <1>5
<1>10. Matched(p, d, g, rest, << f >>, 1, NewTables)
  BY <1>7, <1>8, <1>9 DEF Matched
<1>11. QED
  BY <1>2, <1>10 DEF MatchedOn

\* The reader is somewhere on the way h that the writer went.
Followed(h) ==
    /\ Traced(h, doc, tokens, todo, w)
    /\ pos \in 0..Len(tokens)
    /\ MatchedOn(h[pos], doc, frames, r)

\* What decode_v2 returns.
LEMMA Finished ==
    ASSUME NEW h, Followed(h), doc \in Values, Finish, KeysAreShort
    PROVE  res' = Normal[doc]
<1>1. PICK p : p = h[pos] /\ MatchedOn(p, doc, frames, r)
  BY DEF Followed
<1>2. PICK g, rest, n : Matched(p, doc, g, rest, frames, n, r)
  BY <1>1 DEF MatchedOn
<1>3. PICK f, v, sl : /\ f = frames[n] /\ v = g[n] /\ sl = rest[n - 1] /\ Top = f
                      /\ Reading1(p, f, v, sl) /\ n = Len(frames)
                      /\ Stack(frames, n, g, rest, p.todo, p.w.shapes)
  BY <1>2, TopOf
<1>4. n = 1 /\ Complete(f)
  BY <1>3 DEF Finish
<1>5. v = ArrayOf(<< doc >>) /\ sl = << >>
  BY <1>2, <1>3, <1>4 DEF Matched, Stack
<1>6. /\ v \in Containers(Values) /\ Size(v) = 1 /\ ValAt(v, 1) = 1
      /\ Rest(v) = << WriteValItem(doc) >>
  BY <1>5, Whole
<1>7. /\ Reads(f, v, p.w.shapes) /\ sl \in Seq(Items) /\ p.todo = Onto(v, Taken(f), sl)
  BY <1>3 DEF Reading1
<1>8. OffersNone(v, f, sl)
  BY <1>4, <1>6, <1>7, NextWritten
<1>9. p.todo = << >> /\ Len(f.vals) = 1
  BY <1>5, <1>6, <1>7, <1>8 DEF OffersNone
<1>10. pos = Len(tokens)
  <2>1. SUFFICES ASSUME pos # Len(tokens) PROVE FALSE
    OBVIOUS
  <2>2. Len(tokens) \in Nat
    BY LenProperties DEF Followed, Traced
  <2>3. pos \in 0..Len(tokens)
    BY DEF Followed
  <2>4. pos + 1 \in 1..Len(tokens) /\ (pos + 1) - 1 = pos
    BY <2>1, <2>2, <2>3
  <2>5. Wrote(h[(pos + 1) - 1], h[pos + 1], tokens[pos + 1])
    BY <2>4 DEF Followed, Traced
  <2>6. QED
    BY <1>1, <1>9, <2>4, <2>5 DEF Wrote
<1>11. f.vals[1] = Normal[doc]
  <2>1. Got(v, f.keys, f.vals)
    BY <1>7 DEF Reads
  <2>2. f.vals[1] = Normal[Rest(v)[ValAt(v, 1)].val]
    BY <1>9, <2>1 DEF Got
  <2>3. Rest(v)[ValAt(v, 1)].val = doc
    BY <1>6 DEF WriteValItem
  <2>4. QED
    BY <2>2, <2>3
<1>12. QED
  BY <1>3, <1>10, <1>11 DEF Finish

-----------------------------------------------------------------------------
(* The invariant. *)

Inv ==
    /\ doc \in Values
    /\ \E h : Followed(h)
    /\ res # None /\ KeysAreShort => res = Normal[doc]

\* The first call, and every other one, begins with a whole document.
LEMMA Begins ==
    ASSUME NEW d \in Values
    PROVE  \E h : /\ Traced(h, d, << >>, << WriteValItem(d) >>, NewTables)
                  /\ MatchedOn(h[0], d, << Frame("array", 1, 1) >>, NewTables)
<1>1. PICK h : Traced(h, d, << >>, << WriteValItem(d) >>, NewTables)
  BY TracedNew
<1>2. PICK p : p = h[0] /\ p.todo = << WriteValItem(d) >> /\ p.w = NewTables
  BY <1>1 DEF Traced
<1>3. MatchedOn(p, d, << Frame("array", 1, 1) >>, NewTables)
  BY <1>2, MatchedNew
<1>4. QED
  BY <1>1, <1>2, <1>3

\* What the writer does the reader will follow.
LEMMA FollowsWriter ==
    ASSUME NEW h, Followed(h),
           \/ encode_v2_key \/ encode_v2_scalar \/ encode_v2_string
           \/ encode_v2_map \/ encode_v2_array
    PROVE  (\E g : Followed(g)') /\ UNCHANGED << doc, res >>
<1>1. Traced(h, doc, tokens, todo, w)
  BY DEF Followed
<1>2. PICK g : /\ Traced(g, doc', tokens', todo', w')
               /\ \A i \in 0..Len(tokens) : g[i] = h[i]
  BY <1>1, WriterStep
<1>3. Len(tokens') = Len(tokens) + 1 /\ UNCHANGED << doc, pos, r, frames, res >>
  BY <1>1, WriterStep
<1>4. Len(tokens) \in Nat
  BY <1>1, LenProperties DEF Traced
<1>5. pos' \in 0..Len(tokens') /\ g[pos'] = h[pos]
  BY <1>2, <1>3, <1>4 DEF Followed
<1>6. MatchedOn(g[pos'], doc', frames', r')
  BY <1>3, <1>5 DEF Followed
<1>7. Followed(g)'
  BY <1>2, <1>5, <1>6 DEF Followed
<1>8. QED
  BY <1>3, <1>7

\* The reader follows the writer, token by token.
LEMMA FollowsReader ==
    ASSUME NEW h, Followed(h),
           \/ decode_v2_key \/ decode_v2_scalar \/ decode_v2_string
           \/ decode_v2_map_body \/ decode_v2_array_body
    PROVE  Followed(h)' /\ UNCHANGED << doc, res >>
<1>1. Traced(h, doc, tokens, todo, w) /\ pos \in 0..Len(tokens)
  BY DEF Followed
<1>2. Len(tokens) \in Nat
  BY <1>1, LenProperties DEF Traced
<1>3. pos < Len(tokens) /\ Consume
  BY DEF decode_v2_key, decode_v2_scalar, decode_v2_string, decode_v2_map_body,
         decode_v2_array_body, Open, NextTag
<1>4. pos' = pos + 1 /\ UNCHANGED << doc, todo, w, tokens >>
  BY <1>3 DEF Consume
<1>5. pos + 1 \in 1..Len(tokens) /\ (pos + 1) - 1 = pos /\ pos' \in 0..Len(tokens)
  BY <1>1, <1>2, <1>3, <1>4
<1>6. PICK p, q, token :
         /\ p = h[pos] /\ q = h[pos + 1] /\ token = tokens[pos + 1]
         /\ Wrote(p, q, token) /\ Point(p) /\ MatchedOn(p, doc, frames, r)
  <2>1. Wrote(h[(pos + 1) - 1], h[pos + 1], tokens[pos + 1])
    BY <1>1, <1>5 DEF Traced
  <2>2. Point(h[pos])
    BY <1>1 DEF Traced
  <2>3. QED
    BY <1>5, <2>1, <2>2 DEF Followed
<1>7. MatchedOn(q, doc, frames', r') /\ res' = res
  <2>1. CASE decode_v2_key
    BY <1>6, <2>1, KeyRead
  <2>2. CASE decode_v2_scalar
    BY <1>6, <2>2, ScalarRead
  <2>3. CASE decode_v2_string
    BY <1>6, <2>3, StringRead
  <2>4. CASE decode_v2_map_body \/ decode_v2_array_body
    BY <1>6, <2>4, ContainerRead
  <2>5. QED
    BY <2>1, <2>2, <2>3, <2>4
<1>8. MatchedOn(h[pos'], doc', frames', r')
  BY <1>4, <1>6, <1>7
<1>9. Followed(h)'
  BY <1>1, <1>4, <1>5, <1>8 DEF Followed
<1>10. QED
  BY <1>4, <1>7, <1>9

\* It holds at first.
LEMMA InitInv == Init => Inv
<1> SUFFICES ASSUME Init PROVE Inv
  OBVIOUS
<1>1. doc \in Values
  BY DocsAreValues DEF Init
<1>2. /\ todo = << WriteValItem(doc) >> /\ w = NewTables /\ tokens = << >>
      /\ pos = 0 /\ r = NewTables /\ frames = << Frame("array", 1, 1) >> /\ res = None
  BY DEF Init
<1> HIDE DEF WriteValItem
<1>3. PICK h : /\ Traced(h, doc, << >>, << WriteValItem(doc) >>, NewTables)
               /\ MatchedOn(h[0], doc, << Frame("array", 1, 1) >>, NewTables)
  BY <1>1, Begins
<1>4. pos \in 0..Len(tokens)
  BY <1>2, EmptySeq
<1>5. Followed(h)
  BY <1>2, <1>3, <1>4 DEF Followed
<1>6. QED
  BY <1>1, <1>2, <1>5 DEF Inv

\* No step breaks it.
LEMMA NextInv == Inv /\ [Next]_vars => Inv'
<1> SUFFICES ASSUME Inv, [Next]_vars PROVE Inv'
  OBVIOUS
<1> HIDE DEF WriteValItem
<1>1. doc \in Values
  BY DEF Inv
<1>2. PICK h : Followed(h)
  BY DEF Inv
<1>3. CASE \/ encode_v2_key \/ encode_v2_scalar \/ encode_v2_string
           \/ encode_v2_map \/ encode_v2_array
  <2>1. (\E g : Followed(g)') /\ UNCHANGED << doc, res >>
    BY <1>2, <1>3, FollowsWriter
  <2>2. QED
    BY <2>1 DEF Inv
<1>4. CASE \/ decode_v2_key \/ decode_v2_scalar \/ decode_v2_string
           \/ decode_v2_map_body \/ decode_v2_array_body
  <2>1. Followed(h)' /\ UNCHANGED << doc, res >>
    BY <1>2, <1>4, FollowsReader
  <2>2. QED
    BY <2>1 DEF Inv
<1>5. CASE Return
  <2>1. PICK p : p = h[pos] /\ MatchedOn(p, doc, frames, r)
    BY <1>2 DEF Followed
  <2>2. MatchedOn(p, doc, frames', r') /\ UNCHANGED << pos, res >>
    BY <1>5, <2>1, ReturnRead
  <2>3. UNCHANGED << doc, todo, w, tokens >>
    BY <1>5 DEF Return
  <2>4. Followed(h)'
    BY <1>2, <2>1, <2>2, <2>3 DEF Followed
  <2>5. QED
    BY <2>2, <2>3, <2>4 DEF Inv
<1>6. CASE Finish
  <2>1. UNCHANGED << doc, todo, w, tokens, pos, r, frames >>
    BY <1>6 DEF Finish
  <2>2. Followed(h)'
    BY <1>2, <2>1 DEF Followed
  <2>3. KeysAreShort => res' = Normal[doc]
    BY <1>1, <1>2, <1>6, Finished
  <2>4. QED
    BY <1>1, <2>1, <2>2, <2>3 DEF Inv
<1>7. CASE NextDocument
  <2>1. /\ todo' = << WriteValItem(doc') >> /\ w' = NewTables /\ tokens' = << >>
        /\ pos' = 0 /\ r' = NewTables /\ frames' = << Frame("array", 1, 1) >>
        /\ res' = None /\ doc' \in Values
    BY <1>7, DocsAreValues DEF NextDocument
  <2>2. PICK g : /\ Traced(g, doc', << >>, << WriteValItem(doc') >>, NewTables)
                 /\ MatchedOn(g[0], doc', << Frame("array", 1, 1) >>, NewTables)
    BY <2>1, Begins
  <2>3. pos' \in 0..Len(tokens')
    BY <2>1, EmptySeq
  <2>4. Followed(g)'
    BY <2>1, <2>2, <2>3 DEF Followed
  <2>5. QED
    BY <2>1, <2>4 DEF Inv
<1>8. CASE UNCHANGED vars
  BY <1>8 DEF vars, Inv, Followed
<1>9. QED
  BY <1>3, <1>4, <1>5, <1>6, <1>7, <1>8 DEF Next, Step

\* The inductive invariant: whatever the reader has read, its frames and tables
\* are where the writer was when it had written as much.
THEOREM ReaderFollows == Spec => []Inv
BY InitInv, NextInv, PTL DEF Spec

\* A reader that follows has asked for what it holds.
LEMMA FramesTyped ==
    ASSUME NEW h, Followed(h)
    PROVE  TypeOK
<1>1. PICK p : p = h[pos] /\ MatchedOn(p, doc, frames, r) /\ pos \in 0..Len(tokens)
  BY DEF Followed
<1>2. PICK g, rest, n : Matched(p, doc, g, rest, frames, n, r)
  BY <1>1 DEF MatchedOn
<1>3. Stack(frames, n, g, rest, p.todo, p.w.shapes)
  BY <1>2 DEF Matched
<1>4. n \in Nat /\ n # 0 /\ n = Len(frames) /\ frames # << >> /\ DOMAIN frames = 1..n
  BY <1>3, EmptySeq, LenProperties DEF Stack
<1>5. ASSUME NEW i \in 1..n, NEW f, f = frames[i]
      PROVE  /\ Len(f.vals) <= f.n * f.k
             /\ f.what = "map"  => Len(f.keys) - Len(f.vals) \in {0, 1}
             /\ f.what = "rows" => Len(f.keys) <= f.k
             /\ Complete(f)     => i = Len(frames)
  <2>1. PICK v : v = g[i] /\ v \in Containers(Values) /\ Reads(f, v, p.w.shapes)
    BY <1>3, <1>5 DEF Stack
  <2>2. PICK a, b : a = Len(f.keys) /\ b = Len(f.vals)
    OBVIOUS
  <2>3. Progress(v, a, b) /\ f.what = What(v) /\ f.k = Width(v)
    BY <2>1, <2>2 DEF Reads, Got
  <2>4. /\ f.n * f.k = Size(v)
        /\ Complete(f) => b = Size(v)
    BY <2>1, <2>2, Wants
  <2>5. Keys(v) \in Nat /\ Size(v) \in Nat
    BY <2>1, RestShape
  <2>6. b <= Size(v)
    BY <2>3, <2>5 DEF Progress
  <2>7. f.what = "map" => a - b \in {0, 1}
    BY <2>3 DEF Progress, What
  <2>8. f.what = "rows" => a <= f.k
    <3>1. f.what = "rows" => v.kind # "Map" /\ Shaped(v)
      BY <2>3 DEF What
    <3>2. v.kind # "Map" /\ Shaped(v) => Keys(v) = Width(v)
      BY DEF Keys
    <3>3. a <= Keys(v)
      BY <2>3, <2>5 DEF Progress
    <3>4. QED
      BY <2>3, <3>1, <3>2, <3>3
  <2>9. Complete(f) => i = n
    <3>1. SUFFICES ASSUME Complete(f), i # n PROVE FALSE
      OBVIOUS
    <3>2. i \in 1..n - 1
      BY <1>4, <3>1
    <3>3. Within(frames[i], g[i], g[i + 1], rest[i - 1], rest[i])
      BY <1>3, <3>2 DEF Stack
    <3>4. QED
      BY <1>5, <2>1, <2>2, <2>4, <3>1, <3>3 DEF Within
  <2>10. QED
    BY <1>4, <2>2, <2>4, <2>6, <2>7, <2>8, <2>9
<1>6. QED
  BY <1>1, <1>4, <1>5 DEF TypeOK

\* A table of which another one has the first entries.
LEMMA FirstOnes ==
    ASSUME NEW S, NEW s \in Seq(S), NEW t \in Seq(S), Kept(s, t)
    PROVE  s = SubSeq(t, 1, Len(s))
<1>1. PICK n \in Nat : n = Len(s) /\ n <= Len(t) /\ Len(t) \in Nat
  BY DEF Kept
<1>2. PICK u : u = SubSeq(t, 1, n)
  OBVIOUS
<1>3. \A i \in 1..n : t[i] \in S
  BY <1>1, ElementOfSeq
<1>4. u \in Seq(S) /\ Len(u) = n /\ \A i \in 1..n : u[i] = t[i]
  <2>1. /\ u \in Seq(S)
        /\ Len(u) = IF 1 <= n THEN n - 1 + 1 ELSE 0
        /\ \A i \in 1..n - 1 + 1 : u[i] = t[1 + i - 1]
    BY <1>1, <1>2, <1>3, SubSeqProperties
  <2>2. QED
    BY <1>1, <2>1
<1>5. \A i \in 1..n : u[i] = s[i]
  BY <1>1, <1>4 DEF Kept
<1>6. u = s
  BY <1>1, <1>4, <1>5, SeqEqual
<1>7. QED
  BY <1>1, <1>2, <1>6

\* The tables of a reader that follows.
LEMMA TablesFollow ==
    ASSUME NEW h, Followed(h), KeysAreShort
    PROVE  TablesInSync
<1>1. Traced(h, doc, tokens, todo, w) /\ pos \in 0..Len(tokens)
  BY DEF Followed
<1>2. PICK p : p = h[pos] /\ MatchedOn(p, doc, frames, r)
  BY DEF Followed
<1>3. ReaderTables(r, p.w)
  BY <1>2 DEF MatchedOn, Matched
<1>4. Len(tokens) \in Nat
  BY <1>1, LenProperties DEF Traced
<1>5. TablesKept(p.w, w) /\ Point(p) /\ w \in Tables
  <2>1. /\ pos \in 0..Len(tokens) /\ Len(tokens) \in 0..Len(tokens) /\ pos <= Len(tokens)
    BY <1>1, <1>4
  <2>2. TablesKept(h[pos].w, h[Len(tokens)].w) /\ Point(h[pos]) /\ Point(h[Len(tokens)])
    BY <1>1, <2>1 DEF Traced
  <2>3. h[Len(tokens)].w = w
    BY <1>1 DEF Traced
  <2>4. QED
    BY <1>2, <2>2, <2>3 DEF Point
<1>6. PICK keys \in Seq(STRING), strings \in Seq(STRING) :
         /\ keys = p.w.keys /\ strings = p.w.strings /\ r.keys = keys /\ r.strings = strings
         /\ Kept(keys, w.keys) /\ Kept(strings, w.strings)
  BY <1>3, <1>5 DEF Point, Tables, ReaderTables, StringsFit, TablesKept
<1>7. w.keys \in Seq(STRING) /\ w.strings \in Seq(STRING)
  BY <1>5 DEF Tables
<1>8. keys = SubSeq(w.keys, 1, Len(keys)) /\ strings = SubSeq(w.strings, 1, Len(strings))
  BY <1>6, <1>7, FirstOnes
<1>9. SizeOf(pos).keys = Len(p.w.keys) /\ SizeOf(pos).strings = Len(p.w.strings)
  BY <1>1, <1>2, SizesTraced
<1>10. \A id \in DOMAIN r.shapes : r.shapes[id] = get_value(w.shapes, id)
  <2>1. ShapesFit(r.shapes, p.w.shapes) /\ Kept(p.w.shapes, w.shapes)
    BY <1>3, <1>5 DEF ReaderTables, TablesKept
  <2>2. ShapesFit(r.shapes, w.shapes)
    BY <2>1, ShapesKept
  <2>3. QED
    BY <2>2 DEF ShapesFit, Numbered, get_value
<1>11. QED
  BY <1>6, <1>8, <1>9, <1>10 DEF TablesInSync

\* A frame never holds more than it asked for, a map has read a key at most
\* before its value, and only the innermost value can be complete: for all
\* documents, whatever their keys.
THEOREM FramesBounded == Spec => []TypeOK
<1>1. Inv => TypeOK
  BY FramesTyped DEF Inv
<1>2. QED
  BY <1>1, ReaderFollows, PTL

\* Within a document every key and every string travels as a literal once.
THEOREM LiteralsOnce == Spec => []LiteralOnce
<1>1. Inv => LiteralOnce
  BY TracedOnce DEF Inv, Followed
<1>2. QED
  BY <1>1, ReaderFollows, PTL

\* If no key is longer than a short string, the reader's tables are the
\* writer's when it wrote the tag read last.
THEOREM TablesStaySynced ==
    ASSUME KeysAreShort
    PROVE  Spec => []TablesInSync
<1>1. Inv => TablesInSync
  BY TablesFollow DEF Inv
<1>2. QED
  BY <1>1, ReaderFollows, PTL

\* If no key is longer than a short string, decode_v2 returns every document
\* as encode_v2 was given it, but for the sign of small integers.
THEOREM DocumentsReturn ==
    ASSUME KeysAreShort
    PROVE  Spec => []Roundtrip
<1>1. Inv => Roundtrip
  BY DEF Inv, Roundtrip
<1>2. QED
  BY <1>1, ReaderFollows, PTL
=============================================================================
