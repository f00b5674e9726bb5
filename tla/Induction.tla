------------------------------ MODULE Induction ------------------------------
(***************************************************************************)
(* Induction over numbers and the existence of functions defined by        *)
(* recursion over them, stated without an operator parameter so that the   *)
(* proofs of the other modules can cite them: the property to be shown is  *)
(* a set of numbers, the step of a recursion a function.                   *)
(***************************************************************************)
EXTENDS SequencesExt, FiniteSetTheorems, SequenceTheorems, TLAPS

\* A set of numbers that is not empty has a smallest one: the intervals that
\* end in its elements are finite sets, and inclusion of those is well founded.
THEOREM Smallest ==
    ASSUME NEW T \in SUBSET Nat, T # {}
    PROVE  \E m \in T : \A k \in T : m <= k
<1> DEFINE W == {0..m : m \in T}
<1>1. W \subseteq FiniteSubsetsOf(Nat)
  <2>1. \A m \in T : IsFiniteSet(0..m)
    BY FS_Interval
  <2>2. QED
    BY <2>1 DEF FiniteSubsetsOf
<1>2. W # {}
  OBVIOUS
<1>3. IsWellFoundedOn(StrictSubsetOrdering(Nat), FiniteSubsetsOf(Nat))
  BY FS_StrictSubsetOrderingWellFounded
<1>4. PICK s \in W : \A r \in W : << r, s >> \notin StrictSubsetOrdering(Nat)
  BY <1>1, <1>2, <1>3, WFMin
<1>5. PICK m \in T : s = 0..m
  OBVIOUS
<1>6. ASSUME NEW k \in T, k < m
      PROVE  FALSE
  <2>1. 0..k \in W /\ 0..k \subseteq 0..m /\ 0..k # 0..m
    BY <1>6
  <2>2. << 0..k, 0..m >> \in StrictSubsetOrdering(Nat)
    BY <2>1, <1>6 DEF StrictSubsetOrdering
  <2>3. QED
    BY <2>1, <2>2, <1>4, <1>5
<1>7. QED
  BY <1>6

\* A set that contains 0 and, with every number below n, the next one,
\* contains all numbers up to n.
THEOREM UpTo ==
    ASSUME NEW n \in Nat, NEW T, 0 \in T,
           \A i \in 1..n : i - 1 \in T => i \in T
    PROVE  0..n \subseteq T
<1> DEFINE Left == {i \in 0..n : i \notin T}
<1>1. SUFFICES ASSUME Left # {}
               PROVE  FALSE
  OBVIOUS
<1>2. Left \in SUBSET Nat
  OBVIOUS
<1>3. PICK m \in Left : \A k \in Left : m <= k
  <2> HIDE DEF Left
  <2>1. QED
    BY <1>1, <1>2, Smallest
<1>4. m \in 1..n /\ m - 1 \in 0..n
  OBVIOUS
<1>5. m - 1 \in T
  BY <1>3, <1>4
<1>6. QED
  BY <1>4, <1>5

\* The values of a recursion stay in a set that holds the first one and that
\* no step leaves.
THEOREM StaysIn ==
    ASSUME NEW n \in Nat, NEW A, NEW f, f[0] \in A,
           \A i \in 1..n : f[i - 1] \in A => f[i] \in A
    PROVE  \A i \in 0..n : f[i] \in A
<1> DEFINE T == {i \in 0..n : f[i] \in A}
<1>1. 0 \in T
  OBVIOUS
<1>2. \A i \in 1..n : i - 1 \in T => i \in T
  OBVIOUS
<1>3. 0..n \subseteq T
  <2> HIDE DEF T
  <2>1. QED
    BY <1>1, <1>2, UpTo
<1>4. QED
  BY <1>3

\* The functions on 0..n that start at base and follow the step F.
Follows(f, n, base, F) ==
    f[0] = base /\ \A i \in 1..n : f[i] = F[<< f[i - 1], i >>]

\* A recursion over 0..n defines a function.
THEOREM Iteration ==
    ASSUME NEW n \in Nat, NEW A, NEW base \in A, NEW F \in [A \X (1..n) -> A]
    PROVE  \E f \in [0..n -> A] : Follows(f, n, base, F)
<1> DEFINE T == {m \in 0..n : \E f \in [0..m -> A] : Follows(f, m, base, F)}
<1>1. 0 \in T
  <2>1. [i \in 0..0 |-> base] \in [0..0 -> A]
    OBVIOUS
  <2>2. Follows([i \in 0..0 |-> base], 0, base, F)
    BY DEF Follows
  <2>3. QED
    BY <2>1, <2>2
<1>2. ASSUME NEW m \in 1..n, m - 1 \in T
      PROVE  m \in T
  <2>1. PICK f \in [0..(m - 1) -> A] : Follows(f, m - 1, base, F)
    BY <1>2
  <2> DEFINE g == [i \in 0..m |-> IF i = m THEN F[<< f[m - 1], m >>] ELSE f[i]]
  <2>2. f[m - 1] \in A
    OBVIOUS
  <2>3. g \in [0..m -> A]
    BY <2>2
  <2>4. Follows(g, m, base, F)
    <3>1. g[0] = base
      BY <2>1 DEF Follows
    <3>2. ASSUME NEW i \in 1..m
          PROVE  g[i] = F[<< g[i - 1], i >>]
      <4>1. g[i - 1] = f[i - 1]
        OBVIOUS
      <4>2. CASE i = m
        <5>1. g[i] = F[<< f[m - 1], m >>]
          BY <4>2
        <5>2. QED
          BY <5>1, <4>1, <4>2
      <4>3. CASE i # m
        BY <4>1, <4>3, <2>1 DEF Follows
      <4>4. QED
        BY <4>2, <4>3
    <3>3. QED
      BY <3>1, <3>2 DEF Follows
  <2>5. QED
    BY <2>3, <2>4
<1>3. 0..n \subseteq T
  <2> HIDE DEF T
  <2>1. QED
    BY <1>1, <1>2, UpTo
<1>4. QED
  BY <1>3

\* FlattenSeq, seen as a recursion that starts at the empty sequence.
Flattening(f, S, seqs) ==
    /\ f \in [0..Len(seqs) -> Seq(S)]
    /\ f[0] = << >>
    /\ \A i \in 1..Len(seqs) : f[i] = f[i - 1] \o seqs[i]

\* FlattenSeq is the last of the sequences that append one part at a time.
LEMMA FlattenSteps ==
    ASSUME NEW S, NEW seqs \in Seq(Seq(S))
    PROVE  \E f : Flattening(f, S, seqs) /\ FlattenSeq(seqs) = f[Len(seqs)]
<1>1. PICK n \in Nat : n = Len(seqs) /\ \A i \in 1..n : seqs[i] \in Seq(S)
  BY LenProperties, ElementOfSeq
<1> DEFINE F == [x \in Seq(S) \X (1..n) |-> x[1] \o seqs[x[2]]]
<1>2. PICK h \in [0..n -> Seq(S)] : Follows(h, n, << >>, F)
  <2>1. F \in [Seq(S) \X (1..n) -> Seq(S)]
    BY <1>1, ConcatProperties
  <2>2. << >> \in Seq(S)
    BY EmptySeq
  <2> HIDE DEF F
  <2>3. QED
    BY <2>1, <2>2, Iteration
<1>3. h[0] = << >>
  BY <1>2 DEF Follows
<1>4. ASSUME NEW i \in 1..n
      PROVE  h[i] = h[i - 1] \o seqs[i]
  <2>1. i - 1 \in 0..n
    OBVIOUS
  <2>2. << h[i - 1], i >> \in Seq(S) \X (1..n)
    BY <2>1
  <2>3. h[i] = F[<< h[i - 1], i >>]
    BY <1>2 DEF Follows
  <2>4. QED
    BY <2>2, <2>3
<1> HIDE DEF F
<1>5. CASE n = 0
  <2>1. seqs = << >>
    BY <1>1, <1>5, EmptySeq
  <2>2. FlattenSeq(seqs) = << >>
    BY <2>1 DEF FlattenSeq
  <2>3. QED
    BY <1>1, <1>2, <1>3, <1>4, <1>5, <2>2 DEF Flattening
<1>6. CASE n # 0
  <2> DEFINE Step(f) == [i \in 1..n |-> IF i = 1 THEN seqs[i] ELSE f[i - 1] \o seqs[i]]
             g == CHOOSE f : f = Step(f)
             k == [i \in 1..n |-> h[i]]
  <2>1. h[1] = seqs[1]
    <3>1. 1 \in 1..n /\ 1 - 1 = 0
      BY <1>6
    <3>2. h[1] = << >> \o seqs[1]
      BY <1>3, <1>4, <3>1
    <3>3. << >> \o seqs[1] = seqs[1]
      BY <1>1, <3>1, ConcatEmptySeq
    <3>4. QED
      BY <3>2, <3>3
  <2>2. ASSUME NEW i \in 1..n
        PROVE  k[i] = IF i = 1 THEN seqs[i] ELSE k[i - 1] \o seqs[i]
    <3>1. i # 1 => k[i - 1] = h[i - 1]
      OBVIOUS
    <3>2. QED
      BY <1>4, <2>1, <3>1
  <2>3. k = Step(k)
    <3>1. k = [i \in 1..n |-> k[i]]
      OBVIOUS
    <3> HIDE DEF k
    <3>2. QED
      BY <2>2, <3>1
  <2>4. g = Step(g)
    <3> HIDE DEF Step, k
    <3>1. QED
      BY <2>3
  <2> HIDE DEF g, k
  <2>5. \A i \in 1..n : g[i] = IF i = 1 THEN seqs[i] ELSE g[i - 1] \o seqs[i]
    BY <2>4
  <2> HIDE DEF Step
  <2> DEFINE T == {i \in 0..n : i # 0 => g[i] = h[i]}
  <2>6. 0 \in T
    OBVIOUS
  <2>7. ASSUME NEW i \in 1..n, i - 1 \in T
        PROVE  i \in T
    <3>1. CASE i = 1
      BY <2>1, <2>5, <3>1
    <3>2. CASE i # 1
      <4>1. g[i - 1] = h[i - 1]
        BY <2>7, <3>2
      <4>2. g[i] = g[i - 1] \o seqs[i] /\ h[i] = h[i - 1] \o seqs[i]
        BY <1>4, <2>5, <3>2
      <4>3. g[i] = h[i]
        BY <4>1, <4>2
      <4>4. QED
        BY <4>3
    <3>3. QED
      BY <3>1, <3>2
  <2>8. 0..n \subseteq T
    <3> HIDE DEF T
    <3>1. QED
      BY <2>6, <2>7, UpTo
  <2>9. g[n] = h[n]
    BY <1>6, <2>8
  <2>10. FlattenSeq(seqs) = g[n]
    BY <1>1, <1>6 DEF FlattenSeq, g, Step
  <2>11. QED
    BY <1>1, <1>2, <1>3, <1>4, <2>9, <2>10 DEF Flattening
<1>7. QED
  BY <1>5, <1>6

\* The concatenation of sequences over S is a sequence over S.
LEMMA FlattenSeqs ==
    ASSUME NEW S, NEW seqs \in Seq(Seq(S))
    PROVE  FlattenSeq(seqs) \in Seq(S)
<1>1. PICK f : Flattening(f, S, seqs) /\ FlattenSeq(seqs) = f[Len(seqs)]
  BY FlattenSteps
<1>2. Len(seqs) \in 0..Len(seqs)
  BY LenProperties
<1>3. QED
  BY <1>1, <1>2 DEF Flattening

\* What all elements of the concatenation are, those of its parts are.
LEMMA ConcatParts ==
    ASSUME NEW S, NEW T, NEW a \in Seq(S), NEW b \in Seq(S), a \o b \in Seq(T)
    PROVE  a \in Seq(T) /\ b \in Seq(T)
<1>1. PICK m \in Nat, n \in Nat :
         /\ m = Len(a) /\ n = Len(b) /\ a \in [1..m -> S] /\ b \in [1..n -> S]
  BY LenProperties
<1>2. PICK c \in Seq(T) : c = a \o b
  OBVIOUS
<1>3. /\ Len(c) = m + n
      /\ \A i \in 1..m : c[i] = a[i]
      /\ \A i \in 1..n : c[m + i] = b[i]
  <2>1. /\ Len(a \o b) = Len(a) + Len(b)
        /\ \A i \in 1..Len(a) + Len(b) :
              (a \o b)[i] = IF i <= Len(a) THEN a[i] ELSE b[i - Len(a)]
    BY ConcatProperties
  <2>2. \A i \in 1..m + n : c[i] = IF i <= m THEN a[i] ELSE b[i - m]
    BY <1>1, <1>2, <2>1
  <2>3. \A i \in 1..n : m + i \in 1..m + n /\ ~(m + i <= m) /\ (m + i) - m = i
    OBVIOUS
  <2>4. \A i \in 1..n : c[m + i] = b[i]
    BY <2>2, <2>3
  <2>5. \A i \in 1..m : c[i] = a[i]
    BY <2>2
  <2>6. QED
    BY <1>1, <1>2, <2>1, <2>4, <2>5
<1>4. \A i \in 1..m + n : c[i] \in T
  BY <1>3, ElementOfSeq
<1>5. \A i \in 1..m : a[i] \in T
  <2>1. \A i \in 1..m : i \in 1..m + n
    OBVIOUS
  <2>2. QED
    BY <1>3, <1>4, <2>1
<1>6. \A i \in 1..n : b[i] \in T
  <2>1. \A i \in 1..n : m + i \in 1..m + n
    OBVIOUS
  <2>2. QED
    BY <1>3, <1>4, <2>1
<1>7. a \in [1..m -> T] /\ b \in [1..n -> T]
  BY <1>1, <1>5, <1>6
<1>8. QED
  BY <1>7

\* What the whole is a sequence of, every part is a sequence of.
LEMMA FlattenParts ==
    ASSUME NEW S, NEW T, NEW seqs \in Seq(Seq(S)), FlattenSeq(seqs) \in Seq(T)
    PROVE  \A i \in 1..Len(seqs) : seqs[i] \in Seq(T)
<1>1. PICK f : Flattening(f, S, seqs) /\ FlattenSeq(seqs) = f[Len(seqs)]
  BY FlattenSteps
<1>2. PICK n \in Nat : n = Len(seqs) /\ \A i \in 1..n : seqs[i] \in Seq(S)
  BY LenProperties, ElementOfSeq
<1>3. /\ \A i \in 0..n : f[i] \in Seq(S)
      /\ \A i \in 1..n : f[i] = f[i - 1] \o seqs[i]
  BY <1>1, <1>2 DEF Flattening
<1>4. ASSUME NEW i \in 1..n, f[i] \in Seq(T)
      PROVE  f[i - 1] \in Seq(T) /\ seqs[i] \in Seq(T)
  <2>1. i - 1 \in 0..n
    OBVIOUS
  <2>2. f[i - 1] \in Seq(S) /\ seqs[i] \in Seq(S)
    BY <1>2, <1>3, <2>1
  <2>3. f[i - 1] \o seqs[i] \in Seq(T)
    BY <1>3, <1>4
  <2>4. QED
    BY <2>2, <2>3, ConcatParts
<1> DEFINE U == {j \in 0..n : f[n - j] \in Seq(T)}
<1>5. 0 \in U
  BY <1>1, <1>2
<1>6. ASSUME NEW j \in 1..n, j - 1 \in U
      PROVE  j \in U
  <2>1. PICK i \in 1..n : i = n - (j - 1)
    OBVIOUS
  <2>2. f[i] \in Seq(T) /\ i - 1 = n - j
    BY <1>6, <2>1
  <2>3. f[i - 1] \in Seq(T)
    BY <1>4, <2>2
  <2>4. QED
    BY <2>2, <2>3
<1>7. 0..n \subseteq U
  <2> HIDE DEF U
  <2>1. QED
    BY <1>5, <1>6, UpTo
<1>8. ASSUME NEW i \in 1..n
      PROVE  seqs[i] \in Seq(T)
  <2>1. PICK j \in 0..n : j = n - i
    OBVIOUS
  <2>2. n - j = i
    BY <2>1
  <2>3. f[i] \in Seq(T)
    BY <1>7, <2>2
  <2>4. QED
    BY <1>4, <2>3
<1>9. QED
  BY <1>2, <1>8

\* A sequence with one more element.
Longer(old, new, entry) ==
    /\ new \in Seq(Range(new))
    /\ Len(new) = Len(old) + 1
    /\ \A i \in 1..Len(old) : new[i] = old[i]
    /\ new[Len(new)] = entry

\* Appending to a sequence makes it one longer and keeps the rest.
LEMMA Appended ==
    ASSUME NEW s, s \in Seq(Range(s)), NEW e
    PROVE  Longer(s, Append(s, e), e)
<1> DEFINE S == Range(s) \cup {e}
<1>1. s \in Seq(S)
  BY SeqMonotonic
<1>2. e \in S
  OBVIOUS
<1> HIDE DEF S
<1>3. /\ Append(s, e) \in Seq(S)
      /\ Len(Append(s, e)) = Len(s) + 1
      /\ \A i \in 1..Len(s) : Append(s, e)[i] = s[i]
      /\ Append(s, e)[Len(s) + 1] = e
  BY <1>1, <1>2, AppendProperties
<1>4. Append(s, e) \in Seq(Range(Append(s, e)))
  BY <1>3, SeqOfRange
<1>5. QED
  BY <1>3, <1>4 DEF Longer

Lesser(a, b) == IF a <= b THEN a ELSE b

\* The smaller and the larger of two numbers.
LEMMA LesserAndGreater ==
    ASSUME NEW a \in Int, NEW b \in Int
    PROVE  /\ Min({a, b}) = Lesser(a, b)
           /\ Max({a, b}) = IF a <= b THEN b ELSE a
<1>1. \E m \in {a, b} : \A k \in {a, b} : m <= k
  OBVIOUS
<1>2. \E m \in {a, b} : \A k \in {a, b} : m >= k
  OBVIOUS
<1>3. Min({a, b}) \in {a, b} /\ \A k \in {a, b} : Min({a, b}) <= k
  BY <1>1 DEF Min
<1>4. Max({a, b}) \in {a, b} /\ \A k \in {a, b} : Max({a, b}) >= k
  BY <1>2 DEF Max
<1>5. QED
  BY <1>3, <1>4 DEF Lesser
==============================================================================
