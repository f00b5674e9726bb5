------------------------- MODULE PatchSessionProofs -------------------------
(***************************************************************************)
(* What a patch makes of its base, and what PatchSession keeps.            *)
(***************************************************************************)
EXTENDS PatchSession, MapCodecProofs

-----------------------------------------------------------------------------
(* The loop of apply_state_patch. *)

\* What the loop has in its hands.
States(V) == [fields : Seq(V), failed : BOOLEAN]

OpOK(op, V) == /\ op.opcode \in {"Keep", "ReplaceScalar", "InsertField", "DeleteField"}
               /\ op.field_id \in Nat /\ op.val \in V

\* A field taken out.
LEMMA Removed ==
    ASSUME NEW V, NEW s \in Seq(V), NEW k \in Nat, k < Len(s)
    PROVE  /\ RemoveAt(s, k + 1) \in Seq(V)
           /\ Len(RemoveAt(s, k + 1)) = Len(s) - 1
           /\ \A j \in 1..k : RemoveAt(s, k + 1)[j] = s[j]
<1>1. PICK n \in Nat : n = Len(s) /\ k < n
  BY LenProperties
<1>2. \A i \in 1..n : s[i] \in V
  BY <1>1, ElementOfSeq
<1>3. PICK i \in Nat : i = k + 1
  OBVIOUS
<1>4. PICK a : a = SubSeq(s, 1, i - 1)
  OBVIOUS
<1>5. a \in Seq(V) /\ Len(a) = k /\ \A j \in 1..k : a[j] = s[j]
  <2>1. a = SubSeq(s, 1, k)
    <3>1. i - 1 = k
      BY <1>3
    <3>2. QED
      BY <1>4, <3>1
  <2>2. QED
    BY <1>1, <1>2, <2>1, SubSeqProperties
<1>6. PICK b : b = SubSeq(s, i + 1, n)
  OBVIOUS
<1>7. b \in Seq(V) /\ Len(b) = n - k - 1
  <2>1. \A j \in i + 1..n : s[j] \in V
    BY <1>2
  <2>2. b \in Seq(V) /\ Len(b) = IF i + 1 <= n THEN n - (i + 1) + 1 ELSE 0
    BY <1>6, <2>1, SubSeqProperties
  <2>3. QED
    BY <1>1, <1>3, <2>2
<1>8. RemoveAt(s, i) = a \o b
  BY <1>1, <1>4, <1>6 DEF RemoveAt
<1>9. PICK c : c = a \o b
  OBVIOUS
<1>10. /\ c \in Seq(V) /\ Len(c) = Len(a) + Len(b)
       /\ \A j \in 1..Len(a) : c[j] = a[j]
  <2>1. PICK la \in Nat, lb \in Nat : la = Len(a) /\ lb = Len(b)
    BY <1>5, <1>7, LenProperties
  <2>2. /\ a \o b \in Seq(V) /\ Len(a \o b) = la + lb
        /\ \A j \in 1..la + lb : (a \o b)[j] = IF j <= la THEN a[j] ELSE b[j - la]
    BY <1>5, <1>7, <2>1, ConcatProperties
  <2>3. QED
    BY <1>9, <2>1, <2>2
<1>11. Len(c) = n - 1 /\ \A j \in 1..k : c[j] = s[j]
  BY <1>1, <1>5, <1>7, <1>10
<1>12. QED
  BY <1>1, <1>3, <1>8, <1>9, <1>10, <1>11

\* An operation turns any state of a patch into a state of a patch, failed or
\* not.
LEMMA OpApplied ==
    ASSUME NEW V, NEW acc \in States(V), NEW op, OpOK(op, V)
    PROVE  apply_op(acc, op) \in States(V)
<1>1. acc = [fields |-> acc.fields, failed |-> acc.failed]
      /\ acc.fields \in Seq(V) /\ acc.failed \in BOOLEAN
  BY DEF States
<1>2. PICK s \in Seq(V) : s = acc.fields
  BY <1>1
<1>3. PICK k \in Nat : k = op.field_id
  BY DEF OpOK
<1>4. PICK n \in Nat : n = Len(s)
  BY LenProperties
<1>5. CASE op.opcode = "Keep" \/ acc.failed
  BY <1>5 DEF apply_op
<1>6. CASE ~(op.opcode = "Keep" \/ acc.failed) /\ HasOpValue(op)
  <2>1. CASE k < n
    <3>1. apply_op(acc, op) = [acc EXCEPT !.fields[k + 1] = op.val]
      BY <1>2, <1>3, <1>4, <1>6, <2>1 DEF apply_op
    <3>2. [s EXCEPT ![k + 1] = op.val] \in Seq(V)
      <4>1. PICK v \in V : v = op.val
        BY DEF OpOK
      <4>2. PICK i \in 1..Len(s) : i = k + 1
        BY <1>4, <2>1
      <4>3. [s EXCEPT ![i] = v] \in Seq(V)
        BY ExceptSeq
      <4>4. QED
        BY <4>1, <4>2, <4>3
    <3>3. QED
      BY <1>1, <1>2, <3>1, <3>2 DEF States
  <2>2. CASE k = n
    <3>1. apply_op(acc, op) = [acc EXCEPT !.fields = Append(@, op.val)]
      BY <1>2, <1>3, <1>4, <1>6, <2>2 DEF apply_op
    <3>2. Append(s, op.val) \in Seq(V)
      BY AppendProperties DEF OpOK
    <3>3. QED
      BY <1>1, <1>2, <3>1, <3>2 DEF States
  <2>3. CASE k > n
    <3>1. apply_op(acc, op) = [acc EXCEPT !.failed = TRUE]
      BY <1>2, <1>3, <1>4, <1>6, <2>3 DEF apply_op
    <3>2. QED
      BY <1>1, <1>2, <3>1 DEF States
  <2>4. QED
    BY <2>1, <2>2, <2>3
<1>7. CASE ~(op.opcode = "Keep" \/ acc.failed) /\ ~HasOpValue(op)
  <2>1. CASE k < n
    <3>1. apply_op(acc, op) = [acc EXCEPT !.fields = RemoveAt(@, k + 1)]
      BY <1>2, <1>3, <1>4, <1>7, <2>1 DEF apply_op
    <3>2. RemoveAt(s, k + 1) \in Seq(V)
      BY <1>4, <2>1, Removed
    <3>3. QED
      BY <1>1, <1>2, <3>1, <3>2 DEF States
  <2>2. CASE ~(k < n)
    BY <1>1, <1>2, <1>3, <1>4, <1>7, <2>2 DEF apply_op, States
  <2>3. QED
    BY <2>1, <2>2
<1>8. QED
  BY <1>5, <1>6, <1>7

\* The operations one after the other.
Applies(acc, V, fields, ops) ==
    /\ acc \in [0..Len(ops) -> States(V)]
    /\ acc[0] = [fields |-> fields, failed |-> FALSE]
    /\ \A i \in 1..Len(ops) : acc[i] = apply_op(acc[i - 1], ops[i])

OpsOK(ops, V) == /\ ops \in Seq(Range(ops))
                 /\ \A i \in 1..Len(ops) : OpOK(ops[i], V)

\* apply_ops is the last of the states that apply one operation at a time.
LEMMA ApplyTurns ==
    ASSUME NEW V, NEW fields \in Seq(V), NEW ops, OpsOK(ops, V)
    PROVE  \E acc : /\ Applies(acc, V, fields, ops)
                    /\ apply_ops(fields, ops) = acc[Len(ops)]
<1>1. PICK n \in Nat : n = Len(ops)
  BY LenProperties DEF OpsOK
<1>2. \A i \in 1..n : OpOK(ops[i], V)
  BY <1>1 DEF OpsOK
<1> DEFINE A == States(V)
           base == [fields |-> fields, failed |-> FALSE]
           Step(f) == [i \in 0..n |-> IF i = 0 THEN base ELSE apply_op(f[i - 1], ops[i])]
           acc == CHOOSE f : f = Step(f)
           F == [x \in A \X (1..n) |-> apply_op(x[1], ops[x[2]])]
<1>3. apply_ops(fields, ops) = acc[n]
  BY <1>1 DEF apply_ops
<1>4. base \in A
  BY DEF States
<1>5. \A a \in A, i \in 1..n : apply_op(a, ops[i]) \in A
  BY <1>2, OpApplied
<1>6. F \in [A \X (1..n) -> A]
  <2> HIDE DEF A
  <2>1. QED
    BY <1>5
<1>7. PICK f \in [0..n -> A] : Follows(f, n, base, F)
  <2> HIDE DEF F, A, base
  <2>1. QED
    BY <1>4, <1>6, Iteration
<1> HIDE DEF A, base
<1>8. ASSUME NEW i \in 1..n
      PROVE  f[i] = apply_op(f[i - 1], ops[i])
  <2>1. i - 1 \in 0..n
    OBVIOUS
  <2>2. << f[i - 1], i >> \in A \X (1..n)
    BY <2>1
  <2>3. f[i] = F[<< f[i - 1], i >>]
    BY <1>7 DEF Follows
  <2>4. QED
    BY <2>2, <2>3
<1>9. f[0] = base
  BY <1>7 DEF Follows
<1> HIDE DEF F
<1>10. f = Step(f)
  BY <1>8, <1>9
<1>11. acc = Step(acc)
  <2> HIDE DEF Step
  <2>1. QED
    BY <1>10
<1> HIDE DEF acc
<1>12. \A i \in 1..n : acc[i] = apply_op(acc[i - 1], ops[i])
  BY <1>11
<1>13. \A i \in 1..n : acc[i - 1] \in A => acc[i] \in A
  BY <1>5, <1>12
<1>14. acc[0] = base
  BY <1>11
<1>15. \A i \in 0..n : acc[i] \in A
  BY <1>4, <1>13, <1>14, StaysIn
<1>16. acc \in [0..n -> A]
  <2>1. acc = [i \in 0..n |-> acc[i]]
    BY <1>11
  <2>2. QED
    BY <2>1, <1>15
<1>17. QED
  BY <1>1, <1>3, <1>12, <1>14, <1>16 DEF Applies, A, base

-----------------------------------------------------------------------------
(* What diff_message says, and what it makes of its base. *)

Going(fields) == [fields |-> fields, failed |-> FALSE]

\* A value put where there is a field, or just after the last.
LEMMA Written ==
    ASSUME NEW V, NEW f \in Seq(V), NEW v \in V, NEW k \in Nat, k <= Len(f),
           NEW op, op.field_id = k, op.val = v, HasOpValue(op)
    PROVE  \E g \in Seq(V) :
              /\ apply_op(Going(f), op) = Going(g)
              /\ Len(g) = IF k < Len(f) THEN Len(f) ELSE k + 1
              /\ g[k + 1] = v
              /\ \A j \in 1..Len(f) : j # k + 1 => g[j] = f[j]
<1>1. PICK n \in Nat : n = Len(f) /\ k <= n
  BY LenProperties
<1>2. PICK i \in Nat : i = k + 1
  OBVIOUS
<1>3. op.opcode # "Keep" /\ ~Going(f).failed /\ Going(f).fields = f
  BY DEF HasOpValue, Going
<1>4. CASE k < n
  <2>1. PICK g : g = [f EXCEPT ![i] = v]
    OBVIOUS
  <2>2. i \in 1..Len(f)
    BY <1>1, <1>2, <1>4
  <2>3. g \in Seq(V) /\ Len(g) = n /\ g[i] = v /\ \A j \in 1..Len(f) : j # i => g[j] = f[j]
    BY <1>1, <2>1, <2>2, ExceptSeq
  <2>4. apply_op(Going(f), op) = [Going(f) EXCEPT !.fields[i] = v]
    BY <1>1, <1>2, <1>3, <1>4 DEF apply_op
  <2>5. apply_op(Going(f), op) = Going(g)
    BY <2>1, <2>4 DEF Going
  <2>6. QED
    BY <1>1, <1>2, <1>4, <2>3, <2>5
<1>5. CASE k = n
  <2>1. PICK g : g = Append(f, v)
    OBVIOUS
  <2>2. /\ g \in Seq(V) /\ Len(g) = n + 1 /\ g[n + 1] = v
        /\ \A j \in 1..n : g[j] = f[j]
    BY <1>1, <2>1, AppendProperties
  <2>3. apply_op(Going(f), op) = [Going(f) EXCEPT !.fields = Append(@, v)]
    BY <1>1, <1>3, <1>5 DEF apply_op
  <2>4. apply_op(Going(f), op) = Going(g)
    BY <2>1, <2>3 DEF Going
  <2>5. QED
    BY <1>1, <1>5, <2>2, <2>4
<1>6. QED
  BY <1>1, <1>4, <1>5

\* A field deleted, or not there to be deleted.
LEMMA Deleted ==
    ASSUME NEW V, NEW f \in Seq(V), NEW k \in Nat
    PROVE  /\ k >= Len(f) => apply_op(Going(f), Delete(k)).failed
           /\ k < Len(f) =>
                \E g \in Seq(V) : /\ apply_op(Going(f), Delete(k)) = Going(g)
                                  /\ Len(g) = Len(f) - 1
                                  /\ \A j \in 1..k : g[j] = f[j]
<1>1. PICK n \in Nat : n = Len(f)
  BY LenProperties
<1>2. PICK op : op = Delete(k)
  OBVIOUS
<1>3. op.opcode = "DeleteField" /\ op.field_id = k /\ ~HasOpValue(op)
  BY <1>2 DEF Delete, HasOpValue
<1>4. ~Going(f).failed /\ Going(f).fields = f
  BY DEF Going
<1>5. CASE k < n
  <2>1. PICK g : g = RemoveAt(f, k + 1)
    OBVIOUS
  <2>2. g \in Seq(V) /\ Len(g) = n - 1 /\ \A j \in 1..k : g[j] = f[j]
    BY <1>1, <1>5, <2>1, Removed
  <2>3. apply_op(Going(f), op) = [Going(f) EXCEPT !.fields = RemoveAt(@, k + 1)]
    BY <1>1, <1>3, <1>4, <1>5 DEF apply_op
  <2>4. apply_op(Going(f), op) = Going(g)
    BY <2>1, <2>3 DEF Going
  <2>5. QED
    BY <1>1, <1>2, <1>5, <2>2, <2>4
<1>6. CASE ~(k < n)
  <2>1. apply_op(Going(f), op) = [Going(f) EXCEPT !.failed = TRUE]
    BY <1>1, <1>3, <1>4, <1>6 DEF apply_op
  <2>2. QED
    BY <1>1, <1>2, <1>6, <2>1 DEF Going
<1>7. QED
  BY <1>5, <1>6

\* A loop that failed stays so.
LEMMA FailedStays ==
    ASSUME NEW acc, acc.failed, NEW op
    PROVE  apply_op(acc, op) = acc
BY DEF apply_op

\* The operations that diff_message writes.
DiffMade(ops, V, a, b, n, m) ==
    /\ OpsOK(ops, V) /\ Len(ops) = IF n <= m THEN m ELSE n
    /\ \A i \in 1..Len(ops) :
          /\ i <= n /\ i <= m =>
                ops[i] = IF a[i] = b[i] THEN Keep(i - 1) ELSE Replace(i - 1, b[i])
          /\ i > n => ops[i] = Insert(i - 1, b[i])
          /\ i > m => ops[i] = Delete(i - 1)

\* The operations of a diff are one for each place of the longer sequence.
LEMMA DiffOps ==
    ASSUME NEW V, Null \in V, NEW a \in Seq(V), NEW b \in Seq(V),
           NEW n \in Nat, n = Len(a), NEW m \in Nat, m = Len(b),
           NEW ops, ops = diff_fields(a, b)
    PROVE  DiffMade(ops, V, a, b, n, m)
<1>1. PICK t \in Nat : t = IF n <= m THEN m ELSE n
  OBVIOUS
<1>2. Max({n, m}) = t
  <2>1. n \in Int /\ m \in Int
    OBVIOUS
  <2>2. Max({n, m}) = IF n <= m THEN m ELSE n
    BY <2>1, LesserAndGreater, Zenon
  <2>3. QED
    BY <1>1, <2>2
<1>3. ops = [i \in 1..t |->
               IF i <= n /\ i <= m
               THEN IF a[i] = b[i] THEN Keep(i - 1) ELSE Replace(i - 1, b[i])
               ELSE IF i <= m THEN Insert(i - 1, b[i]) ELSE Delete(i - 1)]
  BY <1>2 DEF diff_fields
<1>4. ops \in Seq(Range(ops)) /\ Len(ops) = t
  BY <1>3, SeqOfRange, IsASeq, LenProperties, SMTT(30) DEF Range
<1>5. \A i \in 1..t : /\ i <= n /\ i <= m =>
                            ops[i] = IF a[i] = b[i] THEN Keep(i - 1) ELSE Replace(i - 1, b[i])
                      /\ i > n => ops[i] = Insert(i - 1, b[i])
                      /\ i > m => ops[i] = Delete(i - 1)
  BY <1>1, <1>3
<1>6. \A i \in 1..t : OpOK(ops[i], V)
  <2> SUFFICES ASSUME NEW i \in 1..t PROVE OpOK(ops[i], V)
    OBVIOUS
  <2>1. PICK k \in Nat, op \in {ops[i]} : k = i - 1
    OBVIOUS
  <2>2. \A v \in V : OpOK(Keep(k), V) /\ OpOK(Replace(k, v), V)
                     /\ OpOK(Insert(k, v), V) /\ OpOK(Delete(k), V)
    BY DEF OpOK, Keep, Replace, Insert, Delete
  <2>3. i \in 1..m => b[i] \in V
    BY ElementOfSeq
  <2>4. \/ op = Keep(k) \/ op = Delete(k)
        \/ i \in 1..m /\ op \in {Replace(k, b[i]), Insert(k, b[i])}
    BY <1>1, <1>5, <2>1
  <2>5. QED
    BY <2>1, <2>2, <2>3, <2>4
<1>7. QED
  BY <1>1, <1>4, <1>5, <1>6 DEF OpsOK, DiffMade

\* How far the loop got: after i operations the first i fields are the new
\* ones, up to the last of them, and the others still the old ones.
Halfway(acc, V, a, b, n, m, i) ==
    \/ acc.failed /\ n > m + 1
    \/ \E f \in Seq(V) :
          /\ acc = Going(f)
          /\ i > m => i + i <= n + m + 1
          /\ Len(f) = IF i > m THEN n - (i - m) ELSE IF i > n THEN i ELSE n
          /\ \A j \in 1..m : f[j] = IF j <= i THEN b[j] ELSE IF j <= n THEN a[j] ELSE f[j]

\* One operation of the diff moves a patch that is halfway one place on.
LEMMA DiffTurn ==
    ASSUME NEW V, Null \in V, NEW a \in Seq(V), NEW b \in Seq(V),
           NEW n \in Nat, n = Len(a), NEW m \in Nat, m = Len(b),
           NEW k \in Nat, k < n \/ k < m, NEW acc, Halfway(acc, V, a, b, n, m, k),
           NEW op,
           k < n /\ k < m => op = IF a[k + 1] = b[k + 1] THEN Keep(k) ELSE Replace(k, b[k + 1]),
           k >= n => op = Insert(k, b[k + 1]),
           k >= m => op = Delete(k)
    PROVE  Halfway(apply_op(acc, op), V, a, b, n, m, k + 1)
<1>1. CASE acc.failed /\ n > m + 1
  BY <1>1, FailedStays DEF Halfway
<1>2. ASSUME NEW f \in Seq(V), acc = Going(f),
             Len(f) = IF k > m THEN n - (k - m) ELSE IF k > n THEN k ELSE n,
             \A j \in 1..m : f[j] = IF j <= k THEN b[j] ELSE IF j <= n THEN a[j] ELSE f[j]
      PROVE  Halfway(apply_op(acc, op), V, a, b, n, m, k + 1)
  <2>1. CASE k < n /\ k < m /\ op = Keep(k)
    <3>1. apply_op(acc, op) = acc
      BY <2>1 DEF apply_op, Keep
    <3>2. k + 1 \in 1..m /\ k + 1 \in 1..n /\ a[k + 1] = b[k + 1]
      BY <2>1 DEF Keep, Replace
    <3>3. \A j \in 1..m : f[j] = IF j <= k + 1 THEN b[j] ELSE IF j <= n THEN a[j] ELSE f[j]
      BY <1>2, <3>2
    <3>4. Len(f) = IF k + 1 > m THEN n - (k + 1 - m) ELSE IF k + 1 > n THEN k + 1 ELSE n
      BY <1>2, <2>1
    <3>5. QED
      BY <1>2, <2>1, <3>1, <3>3, <3>4 DEF Halfway
  <2>2. CASE k < m /\ op \in {Replace(k, b[k + 1]), Insert(k, b[k + 1])}
    <3>1. PICK v \in V : v = b[k + 1]
      <4>1. k + 1 \in 1..m
        BY <2>2
      <4>2. QED
        BY <4>1, ElementOfSeq
    <3>2. op.field_id = k /\ op.val = v /\ HasOpValue(op)
      BY <2>2, <3>1 DEF Replace, Insert, HasOpValue
    <3>3. k <= Len(f)
      BY <1>2, <2>2
    <3>4. PICK g \in Seq(V) :
             /\ apply_op(Going(f), op) = Going(g)
             /\ Len(g) = IF k < Len(f) THEN Len(f) ELSE k + 1
             /\ g[k + 1] = v
             /\ \A j \in 1..Len(f) : j # k + 1 => g[j] = f[j]
      BY <3>2, <3>3, Written
    <3>5. Len(g) = IF k + 1 > m THEN n - (k + 1 - m) ELSE IF k + 1 > n THEN k + 1 ELSE n
      BY <1>2, <2>2, <3>4
    <3>6. \A j \in 1..m : g[j] = IF j <= k + 1 THEN b[j] ELSE IF j <= n THEN a[j] ELSE g[j]
      <4> SUFFICES ASSUME NEW j \in 1..m
                   PROVE  g[j] = IF j <= k + 1 THEN b[j] ELSE IF j <= n THEN a[j] ELSE g[j]
        OBVIOUS
      <4>1. CASE j = k + 1
        BY <3>1, <3>4, <4>1
      <4>2. CASE j # k + 1
        <5>1. j \in 1..Len(f) \/ (j > k + 1 /\ j > n)
          BY <1>2, <2>2, <4>2
        <5>2. QED
          BY <1>2, <3>4, <4>2, <5>1
      <4>3. QED
        BY <4>1, <4>2
    <3>7. QED
      BY <1>2, <2>2, <3>4, <3>5, <3>6 DEF Halfway
  <2>3. CASE k >= m /\ op = Delete(k)
    <3>1. k < n /\ Len(f) = n - (k - m)
      BY <1>2, <2>3
    <3>2. CASE k >= Len(f)
      <4>1. apply_op(acc, op).failed
        BY <1>2, <2>3, <3>2, Deleted
      <4>2. n > m + 1
        BY <2>3, <3>1, <3>2
      <4>3. QED
        BY <4>1, <4>2 DEF Halfway
    <3>3. CASE k < Len(f)
      <4>1. PICK g \in Seq(V) : /\ apply_op(Going(f), op) = Going(g)
                                /\ Len(g) = Len(f) - 1
                                /\ \A j \in 1..k : g[j] = f[j]
        BY <2>3, <3>3, Deleted
      <4>2. Len(g) = IF k + 1 > m THEN n - (k + 1 - m) ELSE IF k + 1 > n THEN k + 1 ELSE n
        BY <2>3, <3>1, <4>1
      <4>3. \A j \in 1..m : g[j] = IF j <= k + 1 THEN b[j] ELSE IF j <= n THEN a[j] ELSE g[j]
        BY <1>2, <2>3, <4>1
      <4>4. k + 1 + (k + 1) <= n + m + 1
        BY <2>3, <3>1, <3>3
      <4>5. QED
        BY <1>2, <4>1, <4>2, <4>3, <4>4 DEF Halfway
    <3>4. QED
      BY <3>1, <3>2, <3>3
  <2>4. QED
    BY <2>1, <2>2, <2>3
<1>3. QED
  BY <1>1, <1>2 DEF Halfway

\* A patch made by diff_message turns its base into the message it was made
\* for, unless two fields or more are to go: then it cannot be applied.
THEOREM DiffApplied ==
    ASSUME NEW V, Null \in V, NEW a \in Seq(V), NEW b \in Seq(V)
    PROVE  /\ Len(a) <= Len(b) + 1 => apply_ops(a, diff_fields(a, b)) = Going(b)
           /\ Len(a) > Len(b) + 1 => apply_ops(a, diff_fields(a, b)).failed
<1>1. PICK n \in Nat, m \in Nat : n = Len(a) /\ m = Len(b)
  BY LenProperties
<1>2. PICK ops : ops = diff_fields(a, b)
  OBVIOUS
<1>3. PICK t \in Nat : t = IF n <= m THEN m ELSE n
  OBVIOUS
<1>4. /\ OpsOK(ops, V) /\ Len(ops) = t
      /\ \A i \in 1..t :
            /\ i <= n /\ i <= m =>
                  ops[i] = IF a[i] = b[i] THEN Keep(i - 1) ELSE Replace(i - 1, b[i])
            /\ i > n => ops[i] = Insert(i - 1, b[i])
            /\ i > m => ops[i] = Delete(i - 1)
  <2>1. DiffMade(ops, V, a, b, n, m)
    BY <1>1, <1>2, DiffOps
  <2>2. QED
    BY <1>3, <2>1 DEF DiffMade
<1>5. PICK acc : Applies(acc, V, a, ops) /\ apply_ops(a, ops) = acc[t]
  BY <1>4, ApplyTurns
<1> DEFINE Good(i) == Halfway(acc[i], V, a, b, n, m, i)
           T == {i \in 0..t : Good(i)}
<1>6. 0 \in T
  <2>1. acc[0] = Going(a)
    BY <1>5 DEF Applies, Going
  <2>2. Good(0)
    BY <1>1, <2>1 DEF Halfway
  <2>3. QED
    BY <1>3, <2>2
<1>7. ASSUME NEW i \in 1..t, i - 1 \in T
      PROVE  i \in T
  <2>1. PICK k \in Nat : k = i - 1
    OBVIOUS
  <2>2. i = k + 1 /\ (k < n \/ k < m)
    BY <1>3, <2>1
  <2>3. acc[i] = apply_op(acc[k], ops[i])
    BY <1>4, <1>5, <2>1 DEF Applies
  <2>4. Halfway(acc[k], V, a, b, n, m, k)
    BY <1>7, <2>1
  <2>5. /\ k < n /\ k < m =>
              ops[i] = IF a[k + 1] = b[k + 1] THEN Keep(k) ELSE Replace(k, b[k + 1])
        /\ k >= n => ops[i] = Insert(k, b[k + 1])
        /\ k >= m => ops[i] = Delete(k)
    BY <1>4, <2>1, <2>2, SMTT(30)
  <2>6. Halfway(apply_op(acc[k], ops[i]), V, a, b, n, m, k + 1)
    BY <1>1, <2>2, <2>4, <2>5, DiffTurn
  <2>7. QED
    BY <2>2, <2>3, <2>6
<1>8. t \in T
  <2>1. 0..t \subseteq T
    <3> HIDE DEF T
    <3>1. QED
      BY <1>6, <1>7, UpTo
  <2>2. QED
    BY <2>1
<1>9. Halfway(acc[t], V, a, b, n, m, t)
  BY <1>8
<1>10. CASE acc[t].failed /\ n > m + 1
  BY <1>1, <1>2, <1>5, <1>10
<1>11. ASSUME NEW f \in Seq(V), acc[t] = Going(f), t > m => t + t <= n + m + 1,
              Len(f) = IF t > m THEN n - (t - m) ELSE IF t > n THEN t ELSE n,
              \A j \in 1..m : f[j] = IF j <= t THEN b[j] ELSE IF j <= n THEN a[j] ELSE f[j]
       PROVE  n <= m + 1 /\ acc[t] = Going(b)
  <2>1. Len(f) = m
    BY <1>3, <1>11
  <2>2. \A j \in 1..m : f[j] = b[j]
    BY <1>3, <1>11
  <2>3. f = b
    BY <1>1, <2>1, <2>2, SeqEqual
  <2>4. QED
    BY <1>3, <1>11, <2>3
<1>12. QED
  BY <1>1, <1>2, <1>5, <1>9, <1>10, <1>11 DEF Halfway

\* The same operations on the message they were made for: nothing changes or
\* they cannot be applied.
LEMMA AgainTurn ==
    ASSUME NEW V, Null \in V, NEW b \in Seq(V), NEW m \in Nat, m = Len(b), NEW k \in Nat,
           NEW acc, IF k <= m THEN acc = Going(b) ELSE acc.failed, NEW op,
           k < m => op = Keep(k) \/ op = Replace(k, b[k + 1]) \/ op = Insert(k, b[k + 1]),
           k >= m => op = Delete(k)
    PROVE  IF k + 1 <= m THEN apply_op(acc, op) = Going(b) ELSE apply_op(acc, op).failed
<1>1. CASE k < m /\ op = Keep(k)
  <2>1. apply_op(acc, op) = acc
    BY <1>1 DEF apply_op, Keep
  <2>2. QED
    BY <1>1, <2>1
<1>2. CASE k < m /\ op \in {Replace(k, b[k + 1]), Insert(k, b[k + 1])}
  <2>1. PICK v \in V : v = b[k + 1]
    <3>1. k + 1 \in 1..m
      BY <1>2
    <3>2. QED
      BY <3>1, ElementOfSeq
  <2>2. op.field_id = k /\ op.val = v /\ HasOpValue(op)
    BY <1>2, <2>1 DEF Replace, Insert, HasOpValue
  <2>3. PICK g \in Seq(V) :
           /\ apply_op(Going(b), op) = Going(g)
           /\ Len(g) = IF k < Len(b) THEN Len(b) ELSE k + 1
           /\ g[k + 1] = v
           /\ \A j \in 1..Len(b) : j # k + 1 => g[j] = b[j]
    BY <1>2, <2>2, Written
  <2>4. Len(g) = m /\ \A j \in 1..m : g[j] = b[j]
    BY <1>2, <2>1, <2>3
  <2>5. g = b
    BY <2>4, SeqEqual
  <2>6. QED
    BY <1>2, <2>3, <2>5
<1>3. CASE k >= m
  <2>1. CASE k = m
    <3>1. apply_op(Going(b), op).failed
      BY <2>1, Deleted
    <3>2. QED
      BY <2>1, <3>1
  <2>2. CASE k > m
    <3>1. apply_op(acc, op) = acc /\ acc.failed
      BY <2>2, FailedStays
    <3>2. QED
      BY <2>2, <3>1
  <2>3. QED
    BY <1>3, <2>1, <2>2
<1>4. QED
  BY <1>1, <1>2, <1>3

\* The diff of two sequences, applied to its own target, gives the target
\* again when it deletes nothing and fails when it deletes.
LEMMA DiffAgain ==
    ASSUME NEW V, Null \in V, NEW a \in Seq(V), NEW b \in Seq(V)
    PROVE  IF Len(a) <= Len(b) THEN apply_ops(b, diff_fields(a, b)) = Going(b)
                               ELSE apply_ops(b, diff_fields(a, b)).failed
<1>1. PICK n \in Nat, m \in Nat : n = Len(a) /\ m = Len(b)
  BY LenProperties
<1>2. PICK ops : ops = diff_fields(a, b)
  OBVIOUS
<1>3. PICK t \in Nat : t = IF n <= m THEN m ELSE n
  OBVIOUS
<1>4. /\ OpsOK(ops, V) /\ Len(ops) = t
      /\ \A i \in 1..t :
            /\ i <= n /\ i <= m =>
                  ops[i] = IF a[i] = b[i] THEN Keep(i - 1) ELSE Replace(i - 1, b[i])
            /\ i > n => ops[i] = Insert(i - 1, b[i])
            /\ i > m => ops[i] = Delete(i - 1)
  <2>1. DiffMade(ops, V, a, b, n, m)
    BY <1>1, <1>2, DiffOps
  <2>2. QED
    BY <1>3, <2>1 DEF DiffMade
<1>5. PICK acc : Applies(acc, V, b, ops) /\ apply_ops(b, ops) = acc[t]
  BY <1>4, ApplyTurns
<1> DEFINE Good(i) == IF i <= m THEN acc[i] = Going(b) ELSE acc[i].failed
           T == {i \in 0..t : Good(i)}
<1>6. 0 \in T
  BY <1>5 DEF Applies, Going
<1>7. ASSUME NEW i \in 1..t, i - 1 \in T
      PROVE  i \in T
  <2>1. PICK k \in Nat : k = i - 1
    OBVIOUS
  <2>2. i = k + 1
    BY <2>1
  <2>3. acc[i] = apply_op(acc[k], ops[i])
    BY <1>4, <1>5, <2>1 DEF Applies
  <2>4. IF k <= m THEN acc[k] = Going(b) ELSE acc[k].failed
    BY <1>7, <2>1
  <2>5. /\ k < m => \/ ops[i] = Keep(k) \/ ops[i] = Replace(k, b[k + 1])
                    \/ ops[i] = Insert(k, b[k + 1])
        /\ k >= m => ops[i] = Delete(k)
    BY <1>4, <2>1, <2>2, SMTT(30)
  <2>6. IF k + 1 <= m THEN apply_op(acc[k], ops[i]) = Going(b)
                      ELSE apply_op(acc[k], ops[i]).failed
    BY <1>1, <2>4, <2>5, AgainTurn, ZenonT(60)
  <2>7. QED
    BY <2>2, <2>3, <2>6
<1>8. 0..t \subseteq T
  <2> HIDE DEF T
  <2>1. QED
    BY <1>6, <1>7, UpTo
<1>9. Good(t)
  BY <1>8
<1>10. QED
  BY <1>1, <1>2, <1>3, <1>5, <1>9

\* How many fields a patch deletes.
LEMMA DiffDeletions ==
    ASSUME NEW V, Null \in V, NEW a \in Seq(V), NEW b \in Seq(V), NEW ref
    PROVE  Cardinality(Deletions(StatePatch(ref, diff_fields(a, b)))) >= 2
              <=> Len(a) > Len(b) + 1
<1>1. PICK n \in Nat, m \in Nat : n = Len(a) /\ m = Len(b)
  BY LenProperties
<1>2. PICK ops : ops = diff_fields(a, b)
  OBVIOUS
<1>3. PICK t \in Nat : t = IF n <= m THEN m ELSE n
  OBVIOUS
<1>4. /\ OpsOK(ops, V) /\ Len(ops) = t
      /\ \A i \in 1..t :
            /\ i <= n /\ i <= m =>
                  ops[i] = IF a[i] = b[i] THEN Keep(i - 1) ELSE Replace(i - 1, b[i])
            /\ i > n => ops[i] = Insert(i - 1, b[i])
            /\ i > m => ops[i] = Delete(i - 1)
  <2>1. DiffMade(ops, V, a, b, n, m)
    BY <1>1, <1>2, DiffOps
  <2>2. QED
    BY <1>3, <2>1 DEF DiffMade
<1>5. DOMAIN ops = 1..t
  BY <1>4, LenProperties DEF OpsOK
<1>6. Deletions(StatePatch(ref, ops)) = {i \in 1..t : ops[i].opcode = "DeleteField"}
  BY <1>5 DEF Deletions, StatePatch
<1>7. \A i \in 1..t : ops[i].opcode = "DeleteField" <=> i > m
  <2> SUFFICES ASSUME NEW i \in 1..t
               PROVE  ops[i].opcode = "DeleteField" <=> i > m
    OBVIOUS
  <2>1. PICK k \in Nat : k = i - 1
    OBVIOUS
  <2>2. /\ Delete(k).opcode = "DeleteField" /\ Keep(k).opcode = "Keep"
        /\ Replace(k, b[i]).opcode = "ReplaceScalar" /\ Insert(k, b[i]).opcode = "InsertField"
    BY DEF Keep, Replace, Insert, Delete
  <2>3. IF i > m THEN ops[i] = Delete(k)
        ELSE ops[i] \in {Keep(k), Replace(k, b[i]), Insert(k, b[i])}
    BY <1>3, <1>4, <2>1
  <2>4. QED
    BY <2>2, <2>3
<1>8. Deletions(StatePatch(ref, ops)) = m + 1..t
  BY <1>3, <1>6, <1>7
<1>9. Cardinality(m + 1..t) = IF m + 1 > t THEN 0 ELSE t - (m + 1) + 1
  BY FS_Interval
<1>10. QED
  BY <1>1, <1>2, <1>3, <1>8, <1>9

-----------------------------------------------------------------------------
(* Sizes. *)

\* A sum of numbers none of which is less than three.
LEMMA TotalAtLeast ==
    ASSUME NEW sizes \in Seq(Nat), \A i \in 1..Len(sizes) : 3 <= sizes[i]
    PROVE  Total(sizes) \in Nat /\ Len(sizes) + Len(sizes) + Len(sizes) <= Total(sizes)
<1>1. PICK n \in Nat : n = Len(sizes)
  BY LenProperties
<1>2. \A i \in 1..n : sizes[i] \in Nat
  BY <1>1, ElementOfSeq
<1> DEFINE Step(f) == [i \in 0..n |-> IF i = 0 THEN 0 ELSE f[i - 1] + sizes[i]]
           sum == CHOOSE f : f = Step(f)
           F == [x \in Nat \X (1..n) |-> x[1] + sizes[x[2]]]
<1>3. Total(sizes) = sum[n]
  BY <1>1 DEF Total
<1>4. F \in [Nat \X (1..n) -> Nat]
  BY <1>2
<1>5. PICK f \in [0..n -> Nat] : Follows(f, n, 0, F)
  <2> HIDE DEF F
  <2>1. QED
    BY <1>4, Iteration
<1>6. ASSUME NEW i \in 1..n
      PROVE  f[i] = f[i - 1] + sizes[i]
  <2>1. i - 1 \in 0..n
    OBVIOUS
  <2>2. << f[i - 1], i >> \in Nat \X (1..n)
    BY <2>1
  <2>3. f[i] = F[<< f[i - 1], i >>]
    BY <1>5 DEF Follows
  <2>4. QED
    BY <2>2, <2>3
<1>7. f[0] = 0
  BY <1>5 DEF Follows
<1> HIDE DEF F
<1>8. f = Step(f)
  BY <1>6, <1>7
<1>9. sum = Step(sum)
  <2> HIDE DEF Step
  <2>1. QED
    BY <1>8
<1> HIDE DEF sum
<1> DEFINE T == {i \in 0..n : sum[i] \in Nat /\ i + i + i <= sum[i]}
<1>10. 0 \in T
  <2>1. sum[0] = 0
    BY <1>9
  <2>2. QED
    BY <2>1
<1>11. ASSUME NEW i \in 1..n, i - 1 \in T
       PROVE  i \in T
  <2>1. sum[i] = sum[i - 1] + sizes[i]
    BY <1>9
  <2>2. PICK x \in Nat : x = sum[i - 1]
    BY <1>11
  <2>3. PICK k \in Nat : k = i - 1
    OBVIOUS
  <2>4. k + k + k <= x
    BY <1>11, <2>2, <2>3
  <2>5. PICK y \in Nat : y = sizes[i]
    BY <1>2
  <2>6. 3 <= y
    BY <1>1, <2>5
  <2>7. x + y \in Nat /\ i = k + 1
    BY <2>3
  <2>8. i + i + i <= x + y
    BY <2>4, <2>6, <2>7
  <2>9. sum[i] = x + y
    BY <2>1, <2>2, <2>5
  <2>10. QED
    BY <2>7, <2>8, <2>9
<1>12. n \in T
  <2>1. 0..n \subseteq T
    <3> HIDE DEF T
    <3>1. QED
      BY <1>10, <1>11, UpTo
  <2>2. QED
    BY <2>1
<1>13. QED
  BY <1>1, <1>3, <1>12

\* An operation takes at least three bytes, and a patch four more.
LEMMA PatchSize ==
    ASSUME NEW ops, OpsOK(ops, Atoms)
    PROVE  patch_size(ops) \in Nat /\ 4 + Len(ops) + Len(ops) + Len(ops) <= patch_size(ops)
<1>1. PICK n \in Nat : n = Len(ops) /\ DOMAIN ops = 1..n
  BY LenProperties DEF OpsOK
<1>2. ASSUME NEW i \in 1..n
      PROVE  OpSize(ops[i]) \in Nat /\ 3 <= OpSize(ops[i])
  <2>1. ops[i].val \in Atoms
    BY <1>1 DEF OpsOK, OpOK
  <2>2. Size[ops[i].val.atom] \in Nat
    BY <2>1, AtomsSized DEF Atoms
  <2>3. QED
    BY <2>2 DEF OpSize
<1>3. PICK sizes : sizes = [i \in 1..n |-> OpSize(ops[i])]
  OBVIOUS
<1>4. sizes \in Seq(Nat) /\ Len(sizes) = n /\ \A i \in 1..n : 3 <= sizes[i]
  BY <1>2, <1>3, IsASeq, LenProperties
<1>5. Total(sizes) \in Nat /\ n + n + n <= Total(sizes)
  BY <1>4, TotalAtLeast
<1>6. patch_size(ops) = 4 + Total(sizes)
  BY <1>1, <1>3 DEF patch_size
<1>7. QED
  BY <1>1, <1>5, <1>6

-----------------------------------------------------------------------------
(* Base snapshots. *)

\* The ids registered after the k-th snapshot.
After(s, k) == {s[j].id : j \in k + 1..Len(s)}

IdsApart(s) == \A j, k \in 1..Len(s) : s[j].id = s[k].id => j = k

Snapshots(E) == {s \in Seq(E) : Len(s) <= MaxBaseSnapshots /\ IdsApart(s)}

\* There are as many ids after a snapshot as snapshots.
LEMMA AfterCount ==
    ASSUME NEW E, NEW s \in Seq(E), IdsApart(s), NEW k \in 0..Len(s)
    PROVE  /\ IsFiniteSet(After(s, k)) /\ Cardinality(After(s, k)) = Len(s) - k
<1>1. PICK n \in Nat : n = Len(s)
  BY LenProperties
<1>2. PICK f : f = [j \in k + 1..n |-> s[j].id]
  OBVIOUS
<1>3. f \in Bijection(k + 1..n, After(s, k))
  <2>1. f \in [k + 1..n -> After(s, k)]
    BY <1>1, <1>2 DEF After
  <2>2. \A i, j \in k + 1..n : f[i] = f[j] => i = j
    BY <1>1, <1>2 DEF IdsApart
  <2>3. \A x \in After(s, k) : \E j \in k + 1..n : f[j] = x
    BY <1>1, <1>2 DEF After
  <2>4. QED
    BY <2>1, <2>2, <2>3 DEF Bijection, Injection, Surjection, IsInjective
<1>4. /\ IsFiniteSet(k + 1..n)
      /\ Cardinality(k + 1..n) = IF k + 1 > n THEN 0 ELSE n - (k + 1) + 1
  BY FS_Interval
<1>5. Cardinality(k + 1..n) = n - k
  BY <1>1, <1>4
<1>6. ExistsBijection(k + 1..n, After(s, k))
  BY <1>3 DEF ExistsBijection
<1>7. QED
  BY <1>1, <1>4, <1>5, <1>6, FS_Bijection

\* Every entry of t is one of s, with the same ids after it but id; and t
\* has the entries of s with other ids.
Filters(t, E, s, n, id) ==
    /\ t \in Seq(E)
    /\ \A p \in 1..Len(t) : \E k \in 1..n :
          /\ t[p] = s[k] /\ s[k].id # id
          /\ After(t, p) = {s[j].id : j \in k + 1..n} \ {id}
    /\ \A k \in 1..n : s[k].id # id => \E p \in 1..Len(t) :
          /\ t[p] = s[k]
          /\ After(t, p) = {s[j].id : j \in k + 1..n} \ {id}

\* One turn of the loop that drops a snapshot of the same number.
LEMMA FilterTurn ==
    ASSUME NEW E, NEW s \in Seq(E), NEW n \in Nat, n + 1 <= Len(s), NEW id,
           NEW t, Filters(t, E, s, n, id)
    PROVE  Filters(IF s[n + 1].id = id THEN t ELSE Append(t, s[n + 1]), E, s, n + 1, id)
<1> DEFINE L(k) == {s[j].id : j \in k + 1..n}
           M(k) == {s[j].id : j \in k + 1..n + 1}
           new == s[n + 1]
<1>1. t \in Seq(E) /\ new \in E
  <2>1. n + 1 \in 1..Len(s)
    BY LenProperties
  <2>2. QED
    BY <2>1, ElementOfSeq DEF Filters
<1>2. \A k \in 1..n : M(k) = L(k) \cup {new.id}
  <2> SUFFICES ASSUME NEW k \in 1..n PROVE M(k) = L(k) \cup {new.id}
    OBVIOUS
  <2>1. k + 1..n + 1 = k + 1..n \cup {n + 1}
    OBVIOUS
  <2>2. QED
    BY <2>1
<1>3. CASE new.id = id
  <2>1. \A k \in 1..n : M(k) \ {id} = L(k) \ {id}
    BY <1>2, <1>3
  <2>2. \A p \in 1..Len(t) : \E k \in 1..n + 1 :
           t[p] = s[k] /\ s[k].id # id /\ After(t, p) = M(k) \ {id}
    <3> SUFFICES ASSUME NEW p \in 1..Len(t)
                 PROVE  \E k \in 1..n + 1 :
                           t[p] = s[k] /\ s[k].id # id /\ After(t, p) = M(k) \ {id}
      OBVIOUS
    <3>1. PICK k \in 1..n : t[p] = s[k] /\ s[k].id # id /\ After(t, p) = L(k) \ {id}
      BY DEF Filters
    <3>2. k \in 1..n + 1
      OBVIOUS
    <3>3. QED
      BY <2>1, <3>1, <3>2
  <2>3. \A k \in 1..n + 1 : s[k].id # id => \E p \in 1..Len(t) :
           t[p] = s[k] /\ After(t, p) = M(k) \ {id}
    <3> SUFFICES ASSUME NEW k \in 1..n + 1, s[k].id # id
                 PROVE  \E p \in 1..Len(t) : t[p] = s[k] /\ After(t, p) = M(k) \ {id}
      OBVIOUS
    <3>1. k \in 1..n
      BY <1>3
    <3>2. PICK p \in 1..Len(t) : t[p] = s[k] /\ After(t, p) = L(k) \ {id}
      BY <3>1 DEF Filters
    <3>3. QED
      BY <2>1, <3>1, <3>2
  <2>4. QED
    BY <1>1, <1>3, <2>2, <2>3 DEF Filters
<1>4. CASE new.id # id
  <2>1. PICK u : u = Append(t, new)
    OBVIOUS
  <2>2. PICK m \in Nat : m = Len(t)
    BY <1>1, LenProperties
  <2>3. u \in Seq(E) /\ Len(u) = m + 1 /\ u[m + 1] = new /\ \A p \in 1..m : u[p] = t[p]
    BY <1>1, <2>1, <2>2, AppendProperties
  <2>4. ASSUME NEW p \in 1..m
        PROVE  After(u, p) = After(t, p) \cup {new.id}
    <3>1. p + 1..m + 1 = p + 1..m \cup {m + 1}
      OBVIOUS
    <3>2. \A j \in p + 1..m : u[j] = t[j]
      BY <2>3
    <3>3. After(u, p) = {u[j].id : j \in p + 1..m} \cup {u[m + 1].id}
      BY <2>3, <3>1 DEF After
    <3>4. {u[j].id : j \in p + 1..m} = After(t, p)
      BY <2>2, <3>2 DEF After
    <3>5. QED
      BY <2>3, <3>3, <3>4
  <2>5. After(u, m + 1) = {} /\ M(n + 1) = {}
    BY <2>3 DEF After
  <2>6. \A k \in 1..n : M(k) \ {id} = (L(k) \ {id}) \cup {new.id}
    BY <1>2, <1>4
  <2>7. ASSUME NEW p \in 1..Len(u)
        PROVE  \E k \in 1..n + 1 :
                  u[p] = s[k] /\ s[k].id # id /\ After(u, p) = M(k) \ {id}
    <3>1. CASE p \in 1..m
      <4>1. PICK k \in 1..n : t[p] = s[k] /\ s[k].id # id /\ After(t, p) = L(k) \ {id}
        BY <2>2, <3>1 DEF Filters
      <4>2. k \in 1..n + 1
        OBVIOUS
      <4>3. QED
        BY <2>3, <2>4, <2>6, <3>1, <4>1, <4>2
    <3>2. CASE p = m + 1
      <4>1. n + 1 \in 1..n + 1
        OBVIOUS
      <4>2. QED
        BY <1>4, <2>3, <2>5, <3>2, <4>1
    <3>3. QED
      BY <2>3, <3>1, <3>2
  <2>8. ASSUME NEW k \in 1..n + 1, s[k].id # id
        PROVE  \E p \in 1..Len(u) : u[p] = s[k] /\ After(u, p) = M(k) \ {id}
    <3>1. CASE k \in 1..n
      <4>1. PICK p \in 1..m : t[p] = s[k] /\ After(t, p) = L(k) \ {id}
        BY <2>2, <2>8, <3>1 DEF Filters
      <4>2. p \in 1..Len(u)
        BY <2>3
      <4>3. QED
        BY <2>3, <2>4, <2>6, <3>1, <4>1, <4>2
    <3>2. CASE k = n + 1
      <4>1. m + 1 \in 1..Len(u)
        BY <2>3
      <4>2. QED
        BY <2>3, <2>5, <3>2, <4>1
    <3>3. QED
      BY <3>1, <3>2
  <2>9. QED
    BY <1>4, <2>1, <2>3, <2>7, <2>8 DEF Filters
<1>5. QED
  BY <1>3, <1>4

\* The loop of register_base_snapshot that leaves out an id.
LEMMA Filtered ==
    ASSUME NEW E, NEW s \in Seq(E), NEW id
    PROVE  Filters(OtherSnapshots(s, id), E, s, Len(s), id)
<1>1. PICK n \in Nat : n = Len(s) /\ \A i \in 1..n : s[i] \in E
  BY LenProperties, ElementOfSeq
<1> DEFINE A == Seq(E)
           Turn(t, i) == IF s[i].id = id THEN t ELSE Append(t, s[i])
           Step(f) == [i \in 0..n |-> IF i = 0 THEN << >> ELSE Turn(f[i - 1], i)]
           kept == CHOOSE f : f = Step(f)
           F == [x \in A \X (1..n) |-> Turn(x[1], x[2])]
<1>2. OtherSnapshots(s, id) = kept[n]
  BY <1>1 DEF OtherSnapshots
<1>3. << >> \in A
  OBVIOUS
<1>4. \A t \in A, i \in 1..n : Turn(t, i) \in A
  BY <1>1
<1>5. F \in [A \X (1..n) -> A]
  <2> HIDE DEF A, Turn
  <2>1. QED
    BY <1>4
<1>6. PICK f \in [0..n -> A] : Follows(f, n, << >>, F)
  <2> HIDE DEF F, A
  <2>1. QED
    BY <1>3, <1>5, Iteration
<1> HIDE DEF A, Turn
<1>7. ASSUME NEW i \in 1..n
      PROVE  f[i] = Turn(f[i - 1], i)
  <2>1. i - 1 \in 0..n
    OBVIOUS
  <2>2. << f[i - 1], i >> \in A \X (1..n)
    BY <2>1
  <2>3. f[i] = F[<< f[i - 1], i >>]
    BY <1>6 DEF Follows
  <2>4. QED
    BY <2>2, <2>3
<1>8. f[0] = << >>
  BY <1>6 DEF Follows
<1> HIDE DEF F
<1>9. f = Step(f)
  BY <1>7, <1>8
<1>10. kept = Step(kept)
  <2> HIDE DEF Step
  <2>1. QED
    BY <1>9
<1> HIDE DEF kept
<1> DEFINE T == {i \in 0..n : Filters(kept[i], E, s, i, id)}
<1>11. 0 \in T
  <2>1. kept[0] = << >>
    BY <1>10
  <2>2. << >> \in Seq(E) /\ Len(<< >>) = 0 /\ \A k \in 1..0 : FALSE
    OBVIOUS
  <2>3. Filters(<< >>, E, s, 0, id)
    BY <2>2 DEF Filters
  <2>4. QED
    BY <2>1, <2>3
<1>12. ASSUME NEW i \in 1..n, i - 1 \in T
       PROVE  i \in T
  <2>1. PICK k \in Nat : k = i - 1
    OBVIOUS
  <2>2. i = k + 1 /\ k + 1 <= Len(s)
    BY <1>1, <2>1
  <2>3. kept[i] = Turn(kept[k], i)
    BY <1>10, <2>1
  <2>4. Filters(kept[k], E, s, k, id)
    BY <1>12, <2>1
  <2>5. Filters(IF s[k + 1].id = id THEN kept[k] ELSE Append(kept[k], s[k + 1]),
                E, s, k + 1, id)
    BY <2>2, <2>4, FilterTurn
  <2>6. Filters(kept[i], E, s, i, id)
    BY <2>2, <2>3, <2>5 DEF Turn
  <2>7. QED
    BY <2>6
<1>13. n \in T
  <2>1. 0..n \subseteq T
    <3> HIDE DEF T
    <3>1. QED
      BY <1>11, <1>12, UpTo
  <2>2. QED
    BY <2>1
<1>14. QED
  BY <1>1, <1>2, <1>13

\* What becomes of snapshots when one more is registered: those registered
\* before stay as long as the limit allows, in their order.
Registered(s, r, E, e) ==
    /\ r \in Snapshots(E)
    /\ MaxBaseSnapshots > 0 =>
          \E p \in 1..Len(r) : r[p] = e /\ After(r, p) = {}
    /\ \A k \in 1..Len(s) :
          s[k].id # e.id /\ Cardinality(After(s, k) \cup {e.id}) < MaxBaseSnapshots
             => \E p \in 1..Len(r) : r[p] = s[k] /\ After(r, p) = After(s, k) \cup {e.id}
    /\ \A p \in 1..Len(r) :
          \/ r[p] = e /\ After(r, p) = {}
          \/ \E k \in 1..Len(s) : /\ r[p] = s[k] /\ s[k].id # e.id
                                  /\ After(r, p) = After(s, k) \cup {e.id}

\* Registering a base snapshot drops the one of its number, and the oldest
\* when the table is full, and puts it last.
LEMMA SnapshotRegistered ==
    ASSUME NEW E, NEW s \in Snapshots(E), NEW id, NEW msg, SnapshotEntry(id, msg) \in E
    PROVE  Registered(s, register_base_snapshot(s, id, msg), E, SnapshotEntry(id, msg))
<1>1. PICK e \in E : e = SnapshotEntry(id, msg)
  OBVIOUS
<1>2. e.id = id
  BY <1>1 DEF SnapshotEntry
<1>3. PICK t : t = OtherSnapshots(s, id)
  OBVIOUS
<1>4. s \in Seq(E) /\ IdsApart(s) /\ Len(s) \in Nat
  BY LenProperties DEF Snapshots
<1>5. /\ t \in Seq(E)
      /\ \A p \in 1..Len(t) : \E k \in 1..Len(s) :
            t[p] = s[k] /\ s[k].id # id /\ After(t, p) = After(s, k) \ {id}
      /\ \A k \in 1..Len(s) : s[k].id # id => \E p \in 1..Len(t) :
            t[p] = s[k] /\ After(t, p) = After(s, k) \ {id}
  <2>1. Filters(t, E, s, Len(s), id)
    BY <1>3, <1>4, Filtered
  <2>2. \A k : After(s, k) = {s[j].id : j \in k + 1..Len(s)}
    BY DEF After
  <2>3. \A p \in 1..Len(t) : \E k \in 1..Len(s) :
           t[p] = s[k] /\ s[k].id # id /\ After(t, p) = After(s, k) \ {id}
    <3> SUFFICES ASSUME NEW p \in 1..Len(t)
                 PROVE  \E k \in 1..Len(s) :
                           t[p] = s[k] /\ s[k].id # id /\ After(t, p) = After(s, k) \ {id}
      OBVIOUS
    <3>1. PICK k \in 1..Len(s) : /\ t[p] = s[k] /\ s[k].id # id
                                 /\ After(t, p) = {s[j].id : j \in k + 1..Len(s)} \ {id}
      BY <2>1 DEF Filters
    <3>2. QED
      BY <2>2, <3>1
  <2>4. \A k \in 1..Len(s) : s[k].id # id => \E p \in 1..Len(t) :
           t[p] = s[k] /\ After(t, p) = After(s, k) \ {id}
    <3> SUFFICES ASSUME NEW k \in 1..Len(s), s[k].id # id
                 PROVE  \E p \in 1..Len(t) : t[p] = s[k] /\ After(t, p) = After(s, k) \ {id}
      OBVIOUS
    <3>1. PICK p \in 1..Len(t) : /\ t[p] = s[k]
                                 /\ After(t, p) = {s[j].id : j \in k + 1..Len(s)} \ {id}
      BY <2>1 DEF Filters
    <3>2. QED
      BY <2>2, <3>1
  <2>5. QED
    BY <2>1, <2>3, <2>4 DEF Filters
<1>6. PICK n \in Nat : n = Len(t)
  BY <1>5, LenProperties
<1>7. PICK all : all = Append(t, e)
  OBVIOUS
<1>8. /\ all \in Seq(E) /\ Len(all) = n + 1 /\ all[n + 1] = e
      /\ \A p \in 1..n : all[p] = t[p]
  BY <1>5, <1>6, <1>7, AppendProperties
<1>9. ASSUME NEW p \in 1..n
      PROVE  After(all, p) = After(t, p) \cup {id}
  <2>1. p + 1..n + 1 = p + 1..n \cup {n + 1}
    OBVIOUS
  <2>2. \A j \in p + 1..n : all[j] = t[j]
    BY <1>8
  <2>3. After(all, p) = {all[j].id : j \in p + 1..n} \cup {all[n + 1].id}
    BY <1>8, <2>1 DEF After
  <2>4. {all[j].id : j \in p + 1..n} = After(t, p)
    BY <1>6, <2>2 DEF After
  <2>5. QED
    BY <1>2, <1>8, <2>3, <2>4
<1>10. After(all, n + 1) = {}
  BY <1>8 DEF After
<1>11. IdsApart(all)
  <2>1. IdsApart(t)
    <3> SUFFICES ASSUME NEW p \in 1..n, NEW q \in 1..n, p < q, t[p].id = t[q].id
                 PROVE  FALSE
      BY <1>6 DEF IdsApart
    <3>1. PICK k \in 1..Len(s) : t[p] = s[k] /\ After(t, p) = After(s, k) \ {id}
      BY <1>5, <1>6
    <3>2. t[q].id \in After(t, p)
      BY <1>6 DEF After
    <3>3. PICK j \in k + 1..Len(s) : t[q].id = s[j].id
      BY <3>1, <3>2 DEF After
    <3>4. j \in 1..Len(s) /\ j # k
      BY <1>4
    <3>5. QED
      BY <1>4, <3>1, <3>3, <3>4 DEF IdsApart
  <2>2. \A p \in 1..n : t[p].id # id
    BY <1>5, <1>6
  <2>3. QED
    BY <1>2, <1>6, <1>8, <2>1, <2>2 DEF IdsApart
<1>12. PICK off \in Nat : off = IF n + 1 <= MaxBaseSnapshots THEN 0
                               ELSE n + 1 - MaxBaseSnapshots
  <2>1. MaxBaseSnapshots \in Nat
    BY SnapshotsBounded
  <2>2. CASE n + 1 <= MaxBaseSnapshots
    BY <2>2
  <2>3. CASE n + 1 > MaxBaseSnapshots
    <3>1. n + 1 - MaxBaseSnapshots \in Nat
      BY <2>1, <2>3
    <3>2. QED
      BY <2>1, <2>3, <3>1
  <2>4. QED
    BY <2>1, <2>2, <2>3
<1>13. PICK r : r = register_base_snapshot(s, id, msg)
  OBVIOUS
<1>14. r = SubSeq(all, off + 1, n + 1)
  <2>1. PICK low \in Int : low = n + 1 - MaxBaseSnapshots + 1
    BY SnapshotsBounded
  <2>2. Max({1, low}) = IF 1 <= low THEN low ELSE 1
    <3>1. 1 \in Int
      OBVIOUS
    <3>2. QED
      BY <3>1, LesserAndGreater, Zenon
  <2>3. (IF 1 <= low THEN low ELSE 1) = off + 1
    BY <1>12, <2>1, SnapshotsBounded
  <2>4. r = SubSeq(all, Max({1, Len(all) - MaxBaseSnapshots + 1}), Len(all))
    BY <1>1, <1>3, <1>7, <1>13 DEF register_base_snapshot
  <2>5. QED
    <3>1. Len(all) - MaxBaseSnapshots + 1 = low
      BY <1>8, <2>1, SnapshotsBounded
    <3>2. r = SubSeq(all, Max({1, low}), n + 1)
      BY <1>8, <2>4, <3>1
    <3>3. QED
      BY <2>2, <2>3, <3>2
<1>15. PICK m \in Nat : m = n + 1 - off /\ m <= MaxBaseSnapshots
                        /\ (off > 0 => m = MaxBaseSnapshots)
                        /\ (MaxBaseSnapshots > 0 => m > 0)
  <2>1. MaxBaseSnapshots \in Nat
    BY SnapshotsBounded
  <2>2. n + 1 - off \in Nat
    BY <1>12, <2>1
  <2>3. QED
    BY <1>12, <2>1, <2>2
<1>16. r \in Seq(E) /\ Len(r) = m /\ \A p \in 1..m : r[p] = all[p + off]
  <2>1. \A i \in off + 1..n + 1 : all[i] \in E
    BY <1>8, ElementOfSeq
  <2>2. /\ r \in Seq(E)
        /\ Len(r) = IF off + 1 <= n + 1 THEN n + 1 - (off + 1) + 1 ELSE 0
        /\ \A p \in 1..n + 1 - (off + 1) + 1 : r[p] = all[off + 1 + p - 1]
    BY <1>14, <2>1, SubSeqProperties
  <2>3. m = n + 1 - (off + 1) + 1 /\ Len(r) = m
    BY <1>15, <2>2
  <2>4. \A p \in 1..m : off + 1 + p - 1 = p + off
    OBVIOUS
  <2>5. QED
    BY <2>2, <2>3, <2>4
<1>17. ASSUME NEW p \in 1..m
       PROVE  p + off \in 1..n + 1 /\ After(r, p) = After(all, p + off)
  <2>1. \A j \in p + 1..m : j + off \in p + off + 1..n + 1 /\ r[j] = all[j + off]
    BY <1>15, <1>16
  <2>2. \A i \in p + off + 1..n + 1 : i - off \in p + 1..m /\ r[i - off] = all[i]
    BY <1>15, <1>16
  <2>3. After(r, p) \subseteq After(all, p + off)
    BY <1>8, <1>16, <2>1 DEF After
  <2>4. After(all, p + off) \subseteq After(r, p)
    BY <1>8, <1>16, <2>2 DEF After
  <2>5. p + off \in 1..n + 1
    BY <1>15
  <2>6. QED
    BY <2>3, <2>4, <2>5
<1>18. r \in Snapshots(E)
  <2>1. IdsApart(r)
    BY <1>8, <1>11, <1>16, <1>17 DEF IdsApart
  <2>2. QED
    BY <1>15, <1>16, <2>1 DEF Snapshots
<1>19. MaxBaseSnapshots > 0 => \E p \in 1..Len(r) : r[p] = e /\ After(r, p) = {}
  <2> SUFFICES ASSUME MaxBaseSnapshots > 0
               PROVE  \E p \in 1..Len(r) : r[p] = e /\ After(r, p) = {}
    OBVIOUS
  <2>1. m \in 1..m /\ m + off = n + 1
    BY <1>15
  <2>2. r[m] = e /\ After(r, m) = {}
    BY <1>8, <1>10, <1>16, <1>17, <2>1
  <2>3. QED
    BY <1>16, <2>1, <2>2
<1>20. ASSUME NEW k \in 1..Len(s), s[k].id # id,
              Cardinality(After(s, k) \cup {id}) < MaxBaseSnapshots
       PROVE  \E p \in 1..Len(r) : r[p] = s[k] /\ After(r, p) = After(s, k) \cup {id}
  <2>1. PICK q \in 1..n : t[q] = s[k] /\ After(t, q) = After(s, k) \ {id}
    BY <1>5, <1>6, <1>20
  <2>2. all[q] = s[k] /\ After(all, q) = After(s, k) \cup {id}
    BY <1>8, <1>9, <2>1
  <2>3. q \in 1..Len(all)
    BY <1>8
  <2>4. Cardinality(After(all, q)) = n + 1 - q
    BY <1>8, <1>11, <2>3, AfterCount
  <2>5. n + 1 - q < MaxBaseSnapshots
    BY <1>20, <2>2, <2>4
  <2>6. q > off
    BY <1>12, <2>5, SnapshotsBounded
  <2>7. q - off \in 1..m /\ q - off + off = q
    BY <1>15, <2>6
  <2>8. r[q - off] = all[q] /\ After(r, q - off) = After(all, q)
    BY <1>16, <1>17, <2>7
  <2>9. QED
    BY <1>16, <2>2, <2>7, <2>8
<1>21. ASSUME NEW p \in 1..Len(r)
       PROVE  \/ r[p] = e /\ After(r, p) = {}
              \/ \E k \in 1..Len(s) : /\ r[p] = s[k] /\ s[k].id # id
                                      /\ After(r, p) = After(s, k) \cup {id}
  <2>1. PICK q \in 1..n + 1 : q = p + off
    BY <1>16, <1>17
  <2>2. r[p] = all[q] /\ After(r, p) = After(all, q)
    BY <1>16, <1>17, <2>1
  <2>3. CASE q = n + 1
    BY <1>8, <1>10, <2>2, <2>3
  <2>4. CASE q \in 1..n
    <3>1. PICK k \in 1..Len(s) :
             t[q] = s[k] /\ s[k].id # id /\ After(t, q) = After(s, k) \ {id}
      BY <1>5, <1>6, <2>4
    <3>2. After(all, q) = After(s, k) \cup {id}
      BY <1>9, <2>4, <3>1
    <3>3. QED
      BY <1>8, <2>2, <2>4, <3>1, <3>2
  <2>5. QED
    BY <2>3, <2>4
<1>22. QED
  BY <1>1, <1>2, <1>13, <1>18, <1>19, <1>20, <1>21 DEF Registered

\* The receiver has the snapshots of the sender that have one of these ids and
\* that a patch can be applied to; and of what was registered later it has no
\* more than the sender.
Held(s, r, ids) ==
    \A k \in 1..Len(s) : s[k].msg.kind \in Patchable /\ s[k].id \in ids =>
        \E l \in 1..Len(r) : r[l] = s[k] /\ After(r, l) \subseteq After(s, k)

\* Fewer snapshots than the table holds come after any one of them.
LEMMA AfterSmall ==
    ASSUME NEW E, NEW s \in Snapshots(E), NEW k \in 1..Len(s),
           NEW T \in SUBSET After(s, k)
    PROVE  Cardinality(T) < MaxBaseSnapshots
<1>1. Len(s) \in Nat /\ Len(s) <= MaxBaseSnapshots /\ MaxBaseSnapshots \in Nat
  BY LenProperties, SnapshotsBounded DEF Snapshots
<1>2. IsFiniteSet(After(s, k)) /\ Cardinality(After(s, k)) = Len(s) - k
  BY AfterCount DEF Snapshots
<1>3. IsFiniteSet(T) /\ Cardinality(T) <= Cardinality(After(s, k))
  BY <1>2, FS_Subset
<1>4. Cardinality(T) \in Nat
  BY <1>3, FS_CardinalityType
<1>5. QED
  BY <1>1, <1>2, <1>3, <1>4

\* Both register the same.
LEMMA HeldByBoth ==
    ASSUME NEW E, NEW s \in Snapshots(E), NEW r \in Snapshots(E), NEW e,
           NEW s2, Registered(s, s2, E, e), NEW r2, Registered(r, r2, E, e),
           NEW ids, Held(s, r, ids), NEW ids2, ids2 \subseteq ids \cup {e.id}
    PROVE  Held(s2, r2, ids2)
<1> SUFFICES ASSUME NEW p \in 1..Len(s2), s2[p].msg.kind \in Patchable, s2[p].id \in ids2
             PROVE  \E l \in 1..Len(r2) : r2[l] = s2[p] /\ After(r2, l) \subseteq After(s2, p)
  BY DEF Held
<1>1. s2 \in Snapshots(E) /\ r2 \in Snapshots(E)
  BY DEF Registered
<1>2. CASE s2[p] = e /\ After(s2, p) = {}
  <2>1. MaxBaseSnapshots > 0
    <3>1. Len(s2) \in Nat /\ Len(s2) <= MaxBaseSnapshots
      BY <1>1, LenProperties DEF Snapshots
    <3>2. QED
      BY <3>1, SnapshotsBounded
  <2>2. PICK l \in 1..Len(r2) : r2[l] = e /\ After(r2, l) = {}
    BY <2>1 DEF Registered
  <2>3. QED
    BY <1>2, <2>2
<1>3. ASSUME NEW k \in 1..Len(s), s2[p] = s[k], s[k].id # e.id,
             After(s2, p) = After(s, k) \cup {e.id}
      PROVE  \E l \in 1..Len(r2) : r2[l] = s2[p] /\ After(r2, l) \subseteq After(s2, p)
  <2>1. PICK l \in 1..Len(r) : r[l] = s[k] /\ After(r, l) \subseteq After(s, k)
    BY <1>3 DEF Held
  <2>2. After(r, l) \cup {e.id} \in SUBSET After(s2, p)
    BY <1>3, <2>1
  <2>3. Cardinality(After(r, l) \cup {e.id}) < MaxBaseSnapshots
    BY <1>1, <2>2, AfterSmall
  <2>4. r[l].id # e.id
    BY <1>3, <2>1
  <2>5. PICK q \in 1..Len(r2) : r2[q] = r[l] /\ After(r2, q) = After(r, l) \cup {e.id}
    BY <2>3, <2>4 DEF Registered
  <2>6. QED
    BY <1>3, <2>1, <2>2, <2>5
<1>4. QED
  BY <1>2, <1>3 DEF Registered

\* The sender alone registers one that the receiver need not have, or has.
LEMMA HeldBySender ==
    ASSUME NEW E, NEW s \in Snapshots(E), NEW r \in Snapshots(E), NEW e,
           NEW s2, Registered(s, s2, E, e),
           NEW ids, Held(s, r, ids), NEW ids2, ids2 \subseteq ids \cup {e.id},
           \/ e.id \notin ids2
           \/ e.msg.kind \notin Patchable
           \/ \E l \in 1..Len(r) : r[l] = e /\ After(r, l) = {}
    PROVE  Held(s2, r, ids2)
<1> SUFFICES ASSUME NEW p \in 1..Len(s2), s2[p].msg.kind \in Patchable, s2[p].id \in ids2
             PROVE  \E l \in 1..Len(r) : r[l] = s2[p] /\ After(r, l) \subseteq After(s2, p)
  BY DEF Held
<1>1. CASE s2[p] = e /\ After(s2, p) = {}
  BY <1>1
<1>2. ASSUME NEW k \in 1..Len(s), s2[p] = s[k], s[k].id # e.id,
             After(s2, p) = After(s, k) \cup {e.id}
      PROVE  \E l \in 1..Len(r) : r[l] = s2[p] /\ After(r, l) \subseteq After(s2, p)
  <2>1. PICK l \in 1..Len(r) : r[l] = s[k] /\ After(r, l) \subseteq After(s, k)
    BY <1>2 DEF Held
  <2>2. QED
    BY <1>2, <2>1
<1>3. QED
  BY <1>1, <1>2 DEF Registered

\* The snapshot registered last.
Newest(s, e) ==
    /\ MaxBaseSnapshots > 0 => \E p \in 1..Len(s) : s[p] = e /\ After(s, p) = {}
    /\ \A p \in 1..Len(s) : s[p] = e \/ (s[p].id # e.id /\ e.id \in After(s, p))

\* The snapshot registered last is the one found under its number.
LEMMA RegisteredNewest ==
    ASSUME NEW E, NEW s, NEW r, NEW e, Registered(s, r, E, e)
    PROVE  Newest(r, e)
BY DEF Registered, Newest

\* The receiver alone registers it again.
LEMMA HeldAgain ==
    ASSUME NEW E, NEW s \in Snapshots(E), NEW r \in Snapshots(E), NEW e, Newest(s, e),
           NEW r2, Registered(r, r2, E, e), NEW ids, Held(s, r, ids)
    PROVE  Held(s, r2, ids)
<1> SUFFICES ASSUME NEW p \in 1..Len(s), s[p].msg.kind \in Patchable, s[p].id \in ids
             PROVE  \E l \in 1..Len(r2) : r2[l] = s[p] /\ After(r2, l) \subseteq After(s, p)
  BY DEF Held
<1>1. CASE s[p] = e
  <2>1. MaxBaseSnapshots > 0
    <3>1. Len(s) \in Nat /\ Len(s) <= MaxBaseSnapshots
      BY LenProperties DEF Snapshots
    <3>2. QED
      BY <3>1, SnapshotsBounded
  <2>2. PICK l \in 1..Len(r2) : r2[l] = e /\ After(r2, l) = {}
    BY <2>1 DEF Registered
  <2>3. QED
    BY <1>1, <2>2
<1>2. CASE s[p].id # e.id /\ e.id \in After(s, p)
  <2>1. PICK l \in 1..Len(r) : r[l] = s[p] /\ After(r, l) \subseteq After(s, p)
    BY DEF Held
  <2>2. After(r, l) \cup {e.id} \in SUBSET After(s, p)
    BY <1>2, <2>1
  <2>3. Cardinality(After(r, l) \cup {e.id}) < MaxBaseSnapshots
    BY <2>2, AfterSmall
  <2>4. PICK q \in 1..Len(r2) : r2[q] = r[l] /\ After(r2, q) = After(r, l) \cup {e.id}
    BY <1>2, <2>1, <2>3 DEF Registered
  <2>5. QED
    BY <2>1, <2>2, <2>4
<1>3. QED
  BY <1>1, <1>2 DEF Newest

\* The snapshot found under an id is the one that has it.
LEMMA SnapshotFound ==
    ASSUME NEW E, NEW s \in Snapshots(E), NEW k \in 1..Len(s)
    PROVE  s[k].id \in IdsOf(s) /\ get_base_snapshot(s, s[k].id) = s[k].msg
<1>1. DOMAIN s = 1..Len(s) /\ Len(s) \in Nat
  BY LenProperties DEF Snapshots
<1>2. {i \in DOMAIN s : s[i].id = s[k].id} = {k}
  BY <1>1 DEF Snapshots, IdsApart
<1>3. Min({k}) = k
  <2>1. {k} = {k, k} /\ k \in Int
    OBVIOUS
  <2>2. Min({k, k}) = Lesser(k, k)
    BY <2>1, LesserAndGreater, Zenon
  <2>3. QED
    BY <2>1, <2>2 DEF Lesser
<1>4. QED
  BY <1>1, <1>2, <1>3 DEF get_base_snapshot, IdsOf

-----------------------------------------------------------------------------
(* Messages. *)

\* What each kind of message leaves out, and that a typed vector is of its
\* type.
WellMade ==
    {m \in Messages :
        /\ m.kind = "Map" => Len(m.keys) = Len(m.fields)
        /\ m.kind # "Map" => m.keys = << >>
        /\ m.kind \in {"Array", "TypedVector", "Map"} => m.shape = 0
        /\ IF m.kind = "TypedVector"
           THEN \A i \in 1..Len(m.fields) : Type[m.fields[i].atom] = m.type
           ELSE m.type = ""}

\* The sequence has atoms throughout, and they have a type and a size.
LEMMA AtomsTyped ==
    /\ Null \in Atoms /\ Entries = Fields(Key, Atoms) /\ ValuesOK(Key, Atoms)
    /\ \A a \in Atoms : /\ a.atom \in DOMAIN Type /\ Size[a.atom] \in Nat
                        /\ NestedKeys(a) = << >>
<1>1. \A a \in Atoms : NestedKeys(a) = << >>
  BY DEF Atoms, NestedKeys, KeysOf
<1>2. Null \in Atoms
  BY AtomsSized DEF Null, Atom, Atoms
<1>3. Entries = Fields(Key, Atoms)
  BY DEF Entries, Fields
<1>4. \A a \in Atoms : a.atom \in DOMAIN Type /\ Size[a.atom] \in Nat
  BY AtomsSized DEF Atoms
<1>5. << >> \in Seq(Key)
  OBVIOUS
<1>6. QED
  BY <1>1, <1>2, <1>3, <1>4, <1>5 DEF ValuesOK

\* The keys and the values of a map, one of each for each entry.
LEMMA EntriesTyped ==
    ASSUME NEW map \in Seq(Entries)
    PROVE  /\ KeysOf(map) \in Seq(Key) /\ Len(KeysOf(map)) = Len(map)
           /\ ValsOf(map) \in Seq(Atoms) /\ Len(ValsOf(map)) = Len(map)
           /\ \A i \in 1..Len(map) : ValsOf(map)[i] = map[i].val
<1>1. map \in Seq(Fields(Key, Atoms))
  BY AtomsTyped
<1>2. KeysOf(map) \in Seq(Key) /\ Len(KeysOf(map)) = Len(map) /\ DOMAIN map = 1..Len(map)
  BY <1>1, KeysTyped
<1>3. \A i \in 1..Len(map) : map[i].val \in Atoms
  <2>1. \A e \in Entries : e.val \in Atoms
    BY DEF Entries
  <2>2. QED
    BY <2>1, ElementOfSeq
<1>4. PICK n \in Nat : n = Len(map)
  BY LenProperties
<1>5. ValsOf(map) = [i \in 1..n |-> map[i].val]
  BY <1>2, <1>4 DEF ValsOf
<1>6. ValsOf(map) \in Seq(Atoms) /\ Len(ValsOf(map)) = n
  BY <1>3, <1>4, <1>5, IsASeq, LenProperties
<1>7. QED
  BY <1>2, <1>4, <1>5, <1>6

\* The empty sequence is a sequence of keys and of values.
LEMMA Nothing == << >> \in Seq(Key) /\ << >> \in Seq(Atoms) /\ Len(<< >>) = 0
OBVIOUS

\* The message of a Map, and of a shaped object.
LEMMA MapKept ==
    ASSUME NEW keys \in Seq(Key), NEW fields \in Seq(Atoms), Len(keys) = Len(fields)
    PROVE  Full("Map", keys, 0, "", fields) \in WellMade
BY DEF Full, Messages, WellMade

\* A shaped message is kept as a shaped object with its values.
LEMMA ShapedKept ==
    ASSUME NEW shape \in Nat, NEW fields \in Seq(Atoms)
    PROVE  Full("ShapedObject", << >>, shape, "", fields) \in WellMade
BY Nothing DEF Full, Messages, WellMade

\* An array message is kept as it is.
LEMMA ArrayKept ==
    ASSUME NEW fields \in Seq(Atoms), NEW m, m = Full("Array", << >>, 0, "", fields)
    PROVE  m \in WellMade /\ m.kind = "Array" /\ m.fields = fields
BY Nothing DEF Full, Messages, WellMade

\* A typed vector, all its elements of one type, is kept as it is.
LEMMA VectorKept ==
    ASSUME NEW fields \in Seq(Atoms), NEW type \in {Type[a] : a \in DOMAIN Type},
           \A i \in 1..Len(fields) : Type[fields[i].atom] = type,
           NEW m, m = Full("TypedVector", << >>, 0, type, fields)
    PROVE  m \in WellMade /\ m.kind = "TypedVector" /\ m.fields = fields
BY Nothing DEF Full, Messages, WellMade

\* A schema message is kept as it is.
LEMMA SchemaKept ==
    ASSUME NEW fields \in Seq(Atoms), NEW id \in DOMAIN Schemas,
           NEW m, m = Full("SchemaObject", << >>, id, "", fields)
    PROVE  m \in WellMade /\ m.kind = "SchemaObject"
BY Nothing DEF Full, Messages, WellMade

\* A batch is kept as a batch.
LEMMA BatchMade ==
    ASSUME NEW kind \in {"RowBatch", "ColumnBatch"}
    PROVE  Batch(kind) \in WellMade /\ Batch(kind).kind = kind
BY Nothing DEF Batch, Full, Messages, WellMade

\* An array becomes a message of one of two kinds.
LEMMA ArrayMade ==
    ASSUME NEW c, NEW items \in Seq(Atoms), NEW m, m = array_message(c, items)
    PROVE  /\ m.codec = c /\ m.msg \in WellMade /\ m.msg.fields = items
           /\ m.msg.kind \in {"Array", "TypedVector"}
           /\ m.msg.kind = "TypedVector" => Len(items) >= 4
<1>1. PICK n \in Nat : n = Len(items) /\ DOMAIN items = 1..n
  BY LenProperties
<1>2. CASE IsTypedVector(items)
  <2>1. n >= 4 /\ 1 \in 1..n
    BY <1>1, <1>2 DEF IsTypedVector
  <2>2. \A i \in 1..n : items[i].atom \in DOMAIN Type
    BY <1>1, AtomsTyped, ElementOfSeq
  <2>3. PICK type \in {Type[a] : a \in DOMAIN Type} : type = Type[items[1].atom]
    BY <2>1, <2>2
  <2>4. \A i \in 1..n : Type[items[i].atom] = type
    BY <1>1, <1>2, <2>1, <2>3 DEF IsTypedVector
  <2>5. m.codec = c /\ m.msg = Full("TypedVector", << >>, 0, type, items)
    BY <1>2, <2>3 DEF array_message
  <2>6. QED
    BY <1>1, <2>1, <2>4, <2>5, VectorKept
<1>3. CASE ~IsTypedVector(items)
  <2>1. m.codec = c /\ m.msg = Full("Array", << >>, 0, "", items)
    BY <1>3 DEF array_message
  <2>2. QED
    BY <2>1, ArrayKept
<1>4. QED
  BY <1>2, <1>3

\* A schema object.
LEMMA SchemaMade ==
    ASSUME NEW id \in DOMAIN Schemas, NEW map \in Seq(Entries),
           NEW m, m = SchemaObject(id, map)
    PROVE  m \in WellMade /\ m.kind = "SchemaObject"
<1>1. PICK keys \in Seq(Key) : keys = Schemas[id]
  BY SchemasNameKeys
<1>2. PICK n \in Nat : n = Len(keys) /\ DOMAIN keys = 1..n
  BY LenProperties
<1>3. \A k : SchemaField(map, k) \in Atoms
  <2> SUFFICES ASSUME NEW k PROVE SchemaField(map, k) \in Atoms
    OBVIOUS
  <2> DEFINE at == {i \in DOMAIN map : map[i].key = k}
  <2>1. CASE at = {}
    BY <2>1, AtomsTyped DEF SchemaField
  <2>2. CASE at # {}
    <3>1. at \in SUBSET Nat
      BY LenProperties
    <3>2. PICK i \in at : \A j \in at : i <= j
      BY <2>2, <3>1, Smallest
    <3>3. Min(at) \in at
      BY <3>2 DEF Min
    <3>4. Min(at) \in 1..Len(map) /\ \A e \in Entries : e.val \in Atoms
      BY <3>3, LenProperties DEF Entries
    <3>5. map[Min(at)].val \in Atoms
      BY <3>4, ElementOfSeq
    <3>6. QED
      BY <2>2, <3>5 DEF SchemaField
  <2>3. QED
    BY <2>1, <2>2
<1>4. PICK fields : fields = [i \in 1..n |-> SchemaField(map, keys[i])]
  OBVIOUS
<1>5. fields \in Seq(Atoms)
  BY <1>3, <1>4, IsASeq
<1>6. m = Full("SchemaObject", << >>, id, "", fields)
  BY <1>1, <1>2, <1>4 DEF SchemaObject
<1>7. QED
  BY <1>5, <1>6, SchemaKept

\* The head of the base with other fields is a message again.
LEMMA Rebuilt ==
    ASSUME NEW base \in WellMade, NEW fields \in Seq(Atoms),
           NEW m, m = rebuild_message_like(base, fields)
    PROVE  m = InvalidData \/ m \in WellMade
<1> SUFFICES ASSUME m # InvalidData PROVE m \in WellMade
  OBVIOUS
<1>1. /\ base.kind = "Map" => Len(fields) <= Len(base.keys)
      /\ base.kind = "TypedVector" =>
            \A i \in DOMAIN fields : Type[fields[i].atom] = base.type
  <2>1. PICK n \in Nat, k \in Nat : n = Len(fields) /\ k = Len(base.keys)
    BY LenProperties DEF WellMade, Messages
  <2>2. QED
    BY <2>1 DEF rebuild_message_like
<1>2. PICK keys : keys = IF base.kind = "Map" THEN SubSeq(base.keys, 1, Len(fields)) ELSE base.keys
  OBVIOUS
<1>3. keys \in Seq(Key) /\ (base.kind = "Map" => Len(keys) = Len(fields))
      /\ (base.kind # "Map" => keys = << >>)
  <2>1. PICK n \in Nat, k \in Nat : n = Len(fields) /\ k = Len(base.keys)
    BY LenProperties DEF WellMade, Messages
  <2>2. base.keys \in Seq(Key)
    BY DEF WellMade, Messages
  <2>3. CASE base.kind = "Map"
    <3>1. n <= k /\ keys = SubSeq(base.keys, 1, n)
      BY <1>1, <1>2, <2>1, <2>3
    <3>2. keys \in Seq(Key) /\ Len(keys) = n
      BY <2>1, <2>2, <3>1
    <3>3. QED
      BY <2>1, <2>3, <3>2
  <2>4. CASE base.kind # "Map"
    BY <1>2, <2>2, <2>4 DEF WellMade
  <2>5. QED
    BY <2>3, <2>4
<1>4. m = [base EXCEPT !.fields = fields, !.keys = keys]
  BY <1>2 DEF rebuild_message_like
<1>5. m \in Messages /\ m.kind = base.kind /\ m.keys = keys /\ m.shape = base.shape
      /\ m.type = base.type /\ m.fields = fields
  BY <1>3, <1>4 DEF WellMade, Messages
<1>6. DOMAIN fields = 1..Len(fields)
  BY LenProperties
<1>7. QED
  BY <1>1, <1>3, <1>5, <1>6 DEF WellMade

-----------------------------------------------------------------------------
(* Sessions. *)

Snapshot == [id : SnapshotIds \cup Nat, msg : WellMade]

\* What previous_message may be: patches reach the messages alone.
PreviousOK(m) == m = None \/ m \in WellMade \/ m.kind \notin Patchable

SessionOK(s, L) ==
    /\ s = [codec |-> s.codec, previous |-> s.previous,
            base_snapshots |-> s.base_snapshots, next_base_id |-> s.next_base_id]
    /\ CodecOK(s.codec, Key, L)
    /\ PreviousOK(s.previous)
    /\ s.base_snapshots \in Snapshots(Snapshot)
    /\ s.next_base_id \in Nat

\* The buffers of the log.
PatchOK(msg) == /\ msg = StatePatch(msg.base_ref, msg.ops) /\ OpsOK(msg.ops, Atoms)
                /\ msg.base_ref = PreviousRef \/ \E id : msg.base_ref = IdRefTo(id)

ShapedOK(msg) == /\ msg.kind = "ShapedObject" /\ msg.shape \in Nat /\ msg.vals \in Seq(Atoms)

MsgOK(msg) ==
    \/ ReadableMap(msg, Key, Atoms)
    \/ ShapedOK(msg)
    \/ msg \in WellMade /\ msg.kind \notin {"Map", "ShapedObject"}
    \/ PatchOK(msg)
    \/ \E n : msg = TemplateBatch(n)
    \/ \E id \in SnapshotIds, m \in WellMade : msg = BaseSnapshot(id, m)

\* What a state patch is made of.
LEMMA PatchParts ==
    ASSUME NEW msg, PatchOK(msg)
    PROVE  /\ msg.kind = "StatePatch" /\ msg.base_ref.previous \in BOOLEAN
           /\ Len(msg.ops) \in Nat /\ DOMAIN msg.ops = 1..Len(msg.ops)
<1>1. msg.kind = "StatePatch"
  <2>1. \A ref, ops : StatePatch(ref, ops).kind = "StatePatch"
    BY DEF StatePatch
  <2>2. QED
    BY <2>1 DEF PatchOK
<1>2. msg.base_ref.previous \in BOOLEAN
  <2>1. PreviousRef.previous = TRUE /\ \A id : IdRefTo(id).previous = FALSE
    BY DEF PreviousRef, IdRefTo
  <2>2. QED
    BY <2>1 DEF PatchOK
<1>3. PICK ops \in Seq(Range(msg.ops)) : ops = msg.ops
  BY DEF PatchOK, OpsOK
<1>4. QED
  BY <1>1, <1>2, <1>3, LenProperties

\* Writing or reading atoms registers nothing.
LEMMA NoneNestedInAtoms ==
    ASSUME NEW t \in Table(Key), NEW vals \in Seq(Atoms)
    PROVE  AllNestedKeys(t, vals) = t
<1>1. PICK n \in Nat : n = Len(vals) /\ DOMAIN vals = 1..n
  BY LenProperties
<1>2. PICK parts : parts = [i \in 1..n |-> NestedKeys(vals[i])]
  OBVIOUS
<1>3. \A i \in 1..n : NestedKeys(vals[i]) = << >>
  BY <1>1, AtomsTyped, ElementOfSeq
<1>4. << >> \in Seq(Seq(Key)) /\ << >> \in Seq(Key) /\ << >> \in Seq(Among(Key, t))
  OBVIOUS
<1>5. parts \in Seq(Seq(Key)) /\ Len(parts) = n
  <2>1. PICK S : S = Seq(Key)
    OBVIOUS
  <2>2. \A i \in 1..n : NestedKeys(vals[i]) \in S
    BY <1>3, <1>4, <2>1
  <2>3. parts \in Seq(S) /\ Len(parts) = n
    BY <1>2, <2>2
  <2>4. QED
    BY <2>1, <2>3
<1>6. \A i \in 1..Len(parts) : parts[i] \in Seq(Among(Key, t))
  BY <1>2, <1>3, <1>4, <1>5
<1>7. RegisterAll(t, FlattenSeq(parts)) = t
  BY <1>5, <1>6, WrittenParts
<1>8. QED
  BY <1>1, <1>2, <1>7 DEF AllNestedKeys

\* A message that is no map leaves the key and shape tables alone as it is
\* written.
LEMMA TablesStay ==
    ASSUME NEW L, NEW c, CodecOK(c, Key, L), NEW msg,
           \/ msg \in WellMade /\ msg.kind \notin {"Map", "ShapedObject"}
           \/ PatchOK(msg)
           \/ msg.kind \in {"TemplateBatch", "BaseSnapshot"}
    PROVE  write_tables(c, msg) = c
<1>1. PICK t \in Table(Key) : t = c.key_table
  BY DEF CodecOK
<1>2. [c EXCEPT !.key_table = t] = c
  BY <1>1 DEF CodecOK
<1>3. CASE msg \in WellMade /\ msg.kind \notin {"Map", "ShapedObject"}
  <2>1. PICK fields \in Seq(Atoms) : fields = msg.fields
    BY <1>3 DEF WellMade, Messages
  <2>2. AllNestedKeys(t, fields) = t
    BY NoneNestedInAtoms
  <2>3. msg.kind # "StatePatch"
    BY <1>3 DEF WellMade, Messages
  <2>4. QED
    BY <1>1, <1>2, <1>3, <2>1, <2>2, <2>3 DEF write_tables
<1>4. CASE PatchOK(msg)
  <2>1. msg.kind = "StatePatch"
    BY <1>4, PatchParts
  <2>2. PICK ops : ops = msg.ops /\ Len(ops) \in Nat /\ DOMAIN ops = 1..Len(ops)
    BY <1>4, PatchParts
  <2> DEFINE n == Len(ops)
  <2>3. PICK vals : vals = [i \in 1..n |-> ops[i].val]
    OBVIOUS
  <2>4. \A i \in 1..n : ops[i].val \in Atoms
    BY <1>4, <2>2 DEF PatchOK, OpsOK, OpOK
  <2>5. vals \in Seq(Atoms)
    BY <2>3, <2>4, IsASeq
  <2>6. AllNestedKeys(t, vals) = t
    BY <2>5, NoneNestedInAtoms
  <2>7. QED
    BY <1>1, <1>2, <2>1, <2>2, <2>3, <2>6 DEF write_tables
<1>5. CASE msg.kind \in {"TemplateBatch", "BaseSnapshot"}
  BY <1>5 DEF write_tables
<1>6. QED
  BY <1>3, <1>4, <1>5

\* Only a base snapshot changes anything else.
LEMMA WrittenRest ==
    ASSUME NEW L, NEW s, SessionOK(s, L), NEW msg,
           \/ msg \in WellMade /\ msg.kind \notin {"Map", "ShapedObject"}
           \/ PatchOK(msg)
    PROVE  write_message(s, msg) = s
<1>1. write_tables(s.codec, msg) = s.codec
  BY TablesStay DEF SessionOK
<1>2. msg.kind # "BaseSnapshot"
  BY PatchParts DEF WellMade, Messages
<1>3. QED
  BY <1>1, <1>2 DEF write_message, SessionOK

\* Writing a base snapshot registers it and does nothing else.
LEMMA SnapshotWritten ==
    ASSUME NEW L, NEW s, SessionOK(s, L), NEW id, NEW m, NEW r,
           r = register_base_snapshot(s.base_snapshots, id, m)
    PROVE  write_message(s, BaseSnapshot(id, m)) = [s EXCEPT !.base_snapshots = r]
<1>1. PICK msg : msg = BaseSnapshot(id, m)
  OBVIOUS
<1>2. msg.kind = "BaseSnapshot" /\ msg.base_id = id /\ msg.payload = m
  BY <1>1 DEF BaseSnapshot
<1>3. write_tables(s.codec, msg) = s.codec
  BY <1>2 DEF write_tables
<1>4. QED
  BY <1>1, <1>2, <1>3 DEF write_message, SessionOK

\* What is kept of the message of a value.
LEMMA KeptAs ==
    ASSUME NEW msg, NEW value
    PROVE  /\ msg.kind = "Map" => Kept(msg, value) =
                  Full("Map", KeysOf(value.entries), 0, "", ValsOf(value.entries))
           /\ msg.kind = "ShapedObject" => Kept(msg, value) =
                  Full("ShapedObject", << >>, msg.shape, "", msg.vals)
           /\ msg.kind \notin {"Map", "ShapedObject"} => Kept(msg, value) = msg
BY DEF Kept

\* What reading a Map does to a codec.
ReadInto(c, msg, L) ==
    msg.kind = "Map" =>
        LET d == read_map(c, msg)
        IN  /\ CodecOK(d.codec, Key, L) /\ Grown(c, d.codec)
            /\ d.res = UnknownReference \/ d.res \in Seq(Entries)

\* Nothing else is read into the tables.
LEMMA ShapedReadOK ==
    ASSUME NEW L, NEW c, CodecOK(c, Key, L), NEW msg, ShapedOK(msg)
    PROVE  read_shaped(c, msg) = c
<1>1. PICK t \in Table(Key) : t = c.key_table
  BY DEF CodecOK
<1>2. [c EXCEPT !.key_table = t] = c
  BY <1>1 DEF CodecOK
<1>3. AllNestedKeys(t, msg.vals) = t
  BY NoneNestedInAtoms DEF ShapedOK
<1>4. QED
  BY <1>1, <1>2, <1>3 DEF read_shaped

\* The base a session knows.
LEMMA BaseKnown ==
    ASSUME NEW L, NEW s, SessionOK(s, L), NEW ref, KnowsBase(s, ref)
    PROVE  BaseOf(s, ref) \in WellMade \/ BaseOf(s, ref).kind \notin Patchable
<1>1. CASE ref.previous
  BY <1>1 DEF KnowsBase, BaseOf, SessionOK, PreviousOK
<1>2. CASE ~ref.previous
  <2>1. PICK k \in DOMAIN s.base_snapshots : s.base_snapshots[k].id = ref.id
    BY <1>2 DEF KnowsBase, IdsOf
  <2>2. k \in 1..Len(s.base_snapshots) /\ s.base_snapshots[k] \in Snapshot
    BY LenProperties, ElementOfSeq DEF SessionOK, Snapshots
  <2>3. BaseOf(s, ref) = s.base_snapshots[k].msg
    BY <1>2, <2>1, <2>2, SnapshotFound DEF BaseOf, SessionOK
  <2>4. QED
    BY <2>2, <2>3 DEF Snapshot
<1>3. QED
  BY <1>1, <1>2

\* Applying a patch to anything.
LEMMA PatchedOK ==
    ASSUME NEW base, base \in WellMade \/ base.kind \notin Patchable,
           NEW ops, OpsOK(ops, Atoms), NEW m, m = apply_state_patch(base, ops), m # InvalidData
    PROVE  m \in WellMade
<1>1. PICK acc : acc = apply_ops(base.fields, ops)
  OBVIOUS
<1>2. ~acc.failed /\ m = rebuild_message_like(base, acc.fields)
  BY <1>1 DEF apply_state_patch
<1>3. base \in WellMade
  BY <1>2 DEF rebuild_message_like
<1>4. base.fields \in Seq(Atoms)
  BY <1>3 DEF WellMade, Messages
<1>5. acc \in States(Atoms)
  <2>1. Len(ops) \in 0..Len(ops)
    BY LenProperties DEF OpsOK
  <2>2. PICK turns : Applies(turns, Atoms, base.fields, ops) /\ acc = turns[Len(ops)]
    BY <1>1, <1>4, ApplyTurns
  <2>3. QED
    BY <2>1, <2>2 DEF Applies
<1>6. acc.fields \in Seq(Atoms)
  BY <1>5 DEF States
<1>7. QED
  BY <1>2, <1>3, <1>6, Rebuilt

\* What a decode leaves of a session.
Results == {"ok", "ignored", InvalidData, UnknownReference}

DecodedOK(s, d, msg, L) ==
    /\ SessionOK(d.session, L) /\ d.res \in Results
    /\ Grown(s.codec, d.session.codec)
    /\ msg.kind # "Map" => d.session.codec = s.codec
    /\ d.session.next_base_id = s.next_base_id
    /\ d.session.base_snapshots =
          IF msg.kind = "BaseSnapshot"
          THEN register_base_snapshot(s.base_snapshots, msg.base_id, msg.payload)
          ELSE s.base_snapshots

\* A codec has grown from itself.
LEMMA CodecSame ==
    ASSUME NEW L, NEW c, CodecOK(c, Key, L)
    PROVE  Grown(c, c)
BY ExtendsItself DEF Grown, ShapesKept, CodecOK, Table

\* A decode that only sets the previous message keeps the session well
\* formed.
LEMMA PreviousSet ==
    ASSUME NEW L, NEW s, SessionOK(s, L), NEW m, PreviousOK(m), NEW msg, NEW result \in Results,
           msg.kind \notin {"Map", "BaseSnapshot"}
    PROVE  DecodedOK(s, Decoded([s EXCEPT !.previous = m], result), msg, L)
<1>1. PICK u : u = [s EXCEPT !.previous = m]
  OBVIOUS
<1>2. /\ u = [codec |-> s.codec, previous |-> m,
              base_snapshots |-> s.base_snapshots, next_base_id |-> s.next_base_id]
      /\ SessionOK(u, L)
  BY <1>1 DEF SessionOK
<1>3. Grown(s.codec, s.codec)
  BY CodecSame DEF SessionOK
<1>4. QED
  BY <1>1, <1>2, <1>3 DEF DecodedOK, Decoded

\* A decode that changes nothing keeps the session well formed.
LEMMA SessionLeft ==
    ASSUME NEW L, NEW s, SessionOK(s, L), NEW msg, NEW result \in Results,
           msg.kind \notin {"Map", "BaseSnapshot"}
    PROVE  DecodedOK(s, Decoded(s, result), msg, L)
<1>1. Grown(s.codec, s.codec)
  BY CodecSame DEF SessionOK
<1>2. QED
  BY <1>1 DEF DecodedOK, Decoded

\* A state patch is decoded.
LEMMA PatchDecoded ==
    ASSUME NEW L, NEW s, SessionOK(s, L), NEW msg, PatchOK(msg)
    PROVE  DecodedOK(s, decode_patch(s, msg), msg, L)
<1>1. write_message(s, msg) = s
  BY WrittenRest
<1>2. PICK new : new = apply_state_patch(BaseOf(s, msg.base_ref), msg.ops)
  OBVIOUS
<1>3. msg.kind = "StatePatch"
  BY PatchParts
<1>4. CASE ~KnowsBase(s, msg.base_ref)
  <2>1. decode_patch(s, msg) = Decoded(s, "ignored")
    BY <1>1, <1>4 DEF decode_patch
  <2>2. QED
    BY <1>3, <2>1, SessionLeft DEF Results
<1>5. CASE KnowsBase(s, msg.base_ref) /\ new = InvalidData
  <2>1. decode_patch(s, msg) = Decoded(s, InvalidData)
    BY <1>1, <1>2, <1>5 DEF decode_patch
  <2>2. QED
    BY <1>3, <2>1, SessionLeft DEF Results
<1>6. CASE KnowsBase(s, msg.base_ref) /\ new # InvalidData
  <2>1. decode_patch(s, msg) = Decoded([s EXCEPT !.previous = new], "ok")
    BY <1>1, <1>2, <1>6 DEF decode_patch
  <2>2. PICK base : base = BaseOf(s, msg.base_ref)
    OBVIOUS
  <2>3. base \in WellMade \/ base.kind \notin Patchable
    BY <1>6, <2>2, BaseKnown
  <2>4. new \in WellMade
    BY <1>2, <1>6, <2>2, <2>3, PatchedOK DEF PatchOK
  <2>5. QED
    BY <1>3, <2>1, <2>4, PreviousSet DEF Results, PreviousOK
<1>7. QED
  BY <1>4, <1>5, <1>6

\* The other messages, one by one.
LEMMA TemplateDecoded ==
    ASSUME NEW L, NEW s, SessionOK(s, L), NEW n
    PROVE  DecodedOK(s, Decoded(decode_template(s, TemplateBatch(n)), "ok"), TemplateBatch(n), L)
<1>1. PICK msg : msg = TemplateBatch(n)
  OBVIOUS
<1> msg.kind = "TemplateBatch"
  BY <1>1 DEF TemplateBatch
<1>2. PICK m : m = IF msg.count >= 16 THEN Batch("ColumnBatch")
                   ELSE IF s.previous = None THEN msg ELSE s.previous
  OBVIOUS
<1>3. PreviousOK(m)
  <2>1. PreviousOK(msg)
    BY <1>1 DEF PreviousOK, Patchable
  <2>2. PreviousOK(Batch("ColumnBatch"))
    BY BatchMade DEF PreviousOK
  <2>3. QED
    BY <1>2, <2>1, <2>2 DEF SessionOK
<1>4. decode_template(s, msg) = [s EXCEPT !.previous = m]
  BY <1>2 DEF decode_template
<1>5. QED
  BY <1>1, <1>3, <1>4, PreviousSet DEF Results

\* Decoding a base snapshot keeps the session well formed.
LEMMA SnapshotDecoded ==
    ASSUME NEW L, NEW s, SessionOK(s, L), NEW id \in SnapshotIds, NEW m \in WellMade,
           NEW msg, msg = BaseSnapshot(id, m)
    PROVE  DecodedOK(s, Decoded(decode_snapshot(s, msg), "ok"), msg, L)
<1>1. msg.kind = "BaseSnapshot" /\ msg.base_id = id /\ msg.payload = m
  BY DEF BaseSnapshot
<1>2. PICK r : r = register_base_snapshot(s.base_snapshots, id, m)
  OBVIOUS
<1>3. r \in Snapshots(Snapshot)
  <2>1. SnapshotEntry(id, m) \in Snapshot
    BY DEF SnapshotEntry, Snapshot
  <2>2. QED
    BY <1>2, <2>1, SnapshotRegistered DEF SessionOK, Registered
<1>4. PICK u : u = decode_snapshot(s, msg)
  OBVIOUS
<1>5. /\ u = [codec |-> s.codec, previous |-> msg,
              base_snapshots |-> r, next_base_id |-> s.next_base_id]
      /\ PreviousOK(msg)
  BY <1>1, <1>2, <1>4 DEF decode_snapshot, SessionOK, PreviousOK, Patchable
<1>6. SessionOK(u, L)
  BY <1>3, <1>5 DEF SessionOK
<1>7. Grown(s.codec, s.codec)
  BY CodecSame DEF SessionOK
<1>8. QED
  BY <1>1, <1>2, <1>4, <1>5, <1>6, <1>7 DEF DecodedOK, Decoded, Results

\* A full message other than a map becomes the previous message and changes
\* nothing else.
LEMMA FullDecoded ==
    ASSUME NEW L, NEW s, SessionOK(s, L),
           NEW msg \in WellMade, msg.kind \notin {"Map", "ShapedObject"}
    PROVE  /\ decode_full(s, msg) = Decoded([s EXCEPT !.previous = msg], "ok")
           /\ DecodedOK(s, decode_full(s, msg), msg, L)
<1>1. decode_full(s, msg) = Decoded([s EXCEPT !.previous = msg], "ok")
  <2>1. write_message(s, msg) = s
    BY WrittenRest
  <2>2. QED
    BY <2>1 DEF decode_full
<1>2. msg.kind \notin {"Map", "BaseSnapshot"}
  BY DEF WellMade, Messages
<1>3. QED
  BY <1>1, <1>2, PreviousSet DEF Results, PreviousOK

\* A shaped message becomes the previous message as a shaped object.
LEMMA ShapedDecoded ==
    ASSUME NEW L, NEW s, SessionOK(s, L), NEW msg, ShapedOK(msg),
           NEW m, m = Full("ShapedObject", << >>, msg.shape, "", msg.vals)
    PROVE  /\ m \in WellMade
           /\ decode_full(s, msg) = Decoded([s EXCEPT !.previous = m], "ok")
           /\ DecodedOK(s, decode_full(s, msg), msg, L)
<1>1. m \in WellMade
  <2>1. PICK shape \in Nat, vals \in Seq(Atoms) : shape = msg.shape /\ vals = msg.vals
    BY DEF ShapedOK
  <2>2. m = Full("ShapedObject", << >>, shape, "", vals)
    BY <2>1
  <2>3. QED
    BY <2>2, ShapedKept
<1>2. read_shaped(s.codec, msg) = s.codec
  BY ShapedReadOK DEF SessionOK
<1>3. Kept(msg, None) = m
  BY KeptAs DEF ShapedOK
<1>4. decode_full(s, msg) = Decoded([s EXCEPT !.previous = m], "ok")
  BY <1>2, <1>3 DEF decode_full, ShapedOK, SessionOK
<1>5. QED
  BY <1>1, <1>4, PreviousSet DEF Results, PreviousOK, ShapedOK

\* A Map was read, and if no reference in it was unknown, kept.
ReadAndKept(s, d, msg, read, L) ==
    /\ DecodedOK(s, d, msg, L) /\ d.session.codec = read.codec
    /\ read.res # UnknownReference =>
          /\ d.res = "ok"
          /\ d.session.previous = Full("Map", KeysOf(read.res), 0, "", ValsOf(read.res))

\* A map message that is read becomes the previous message with the keys that
\* were read.
LEMMA MapDecoded ==
    ASSUME NEW L, NEW s, SessionOK(s, L), NEW msg, ReadableMap(msg, Key, Atoms),
           ReadInto(s.codec, msg, L), NEW d, d = decode_full(s, msg),
           NEW read, read = read_map(s.codec, msg)
    PROVE  ReadAndKept(s, d, msg, read, L)
<1>1. /\ msg.kind = "Map" /\ CodecOK(read.codec, Key, L) /\ Grown(s.codec, read.codec)
      /\ read.res = UnknownReference \/ read.res \in Seq(Entries)
  BY DEF ReadableMap, ReadInto
<1>2. CASE read.res = UnknownReference
  <2>1. PICK u : u = [s EXCEPT !.codec = read.codec]
    OBVIOUS
  <2>2. d.session = u /\ d.res = UnknownReference
    BY <1>1, <1>2, <2>1 DEF decode_full, Decoded
  <2>3. u = [codec |-> read.codec, previous |-> s.previous,
             base_snapshots |-> s.base_snapshots, next_base_id |-> s.next_base_id]
    BY <2>1 DEF SessionOK
  <2>4. SessionOK(u, L)
    BY <1>1, <2>3 DEF SessionOK
  <2>5. QED
    BY <1>1, <1>2, <2>2, <2>3, <2>4 DEF DecodedOK, Results, ReadAndKept
<1>3. CASE read.res # UnknownReference
  <2>1. PICK map \in Seq(Entries) : map = read.res
    BY <1>1, <1>3
  <2>2. PICK m : m = Full("Map", KeysOf(map), 0, "", ValsOf(map))
    OBVIOUS
  <2>4. m \in WellMade
    <3>1. PICK keys \in Seq(Key) : keys = KeysOf(map) /\ Len(keys) = Len(map)
      BY EntriesTyped
    <3>2. PICK vals \in Seq(Atoms) : vals = ValsOf(map) /\ Len(vals) = Len(map)
      BY EntriesTyped
    <3>3. m = Full("Map", keys, 0, "", vals) /\ Len(keys) = Len(vals)
      BY <2>2, <3>1, <3>2
    <3>4. QED
      BY <3>3, MapKept
  <2>5. PICK u : u = [s EXCEPT !.codec = read.codec, !.previous = m]
    OBVIOUS
  <2>6. d.session = u /\ d.res = "ok"
    <3>1. Kept(msg, MapOf(map)) = m
      <4>1. MapOf(map).entries = map
        BY DEF MapOf
      <4>2. QED
        BY <1>1, <2>2, <4>1, KeptAs
    <3>2. QED
      BY <1>1, <1>3, <2>1, <2>5, <3>1 DEF decode_full, Decoded
  <2>7. u = [codec |-> read.codec, previous |-> m,
             base_snapshots |-> s.base_snapshots, next_base_id |-> s.next_base_id]
    BY <2>5 DEF SessionOK
  <2>8. SessionOK(u, L)
    BY <1>1, <2>4, <2>7 DEF SessionOK, PreviousOK
  <2>9. /\ u.codec = read.codec /\ u.previous = m
        /\ u.base_snapshots = s.base_snapshots /\ u.next_base_id = s.next_base_id
    BY <2>7
  <2>10. DecodedOK(s, d, msg, L)
    BY <1>1, <2>6, <2>8, <2>9 DEF DecodedOK, Results
  <2>11. QED
    BY <2>1, <2>2, <2>6, <2>9, <2>10 DEF ReadAndKept
<1>4. QED
  BY <1>2, <1>3

\* Whatever is decoded, the session stays in order.
LEMMA MessageDecoded ==
    ASSUME NEW L, NEW s, SessionOK(s, L), NEW msg, MsgOK(msg), ReadInto(s.codec, msg, L)
    PROVE  DecodedOK(s, decode_message(s, msg), msg, L)
<1>1. CASE ReadableMap(msg, Key, Atoms)
  <2>1. decode_message(s, msg) = decode_full(s, msg)
    BY <1>1 DEF ReadableMap, decode_message
  <2>2. QED
    BY <1>1, <2>1, MapDecoded DEF ReadAndKept
<1>2. CASE ShapedOK(msg)
  <2>1. decode_message(s, msg) = decode_full(s, msg)
    BY <1>2 DEF ShapedOK, decode_message
  <2>2. PICK m : m = Full("ShapedObject", << >>, msg.shape, "", msg.vals)
    OBVIOUS
  <2>3. DecodedOK(s, decode_full(s, msg), msg, L)
    BY <1>2, <2>2, ShapedDecoded
  <2>4. QED
    BY <2>1, <2>3
<1>3. CASE msg \in WellMade /\ msg.kind \notin {"Map", "ShapedObject"}
  <2>1. decode_message(s, msg) = decode_full(s, msg)
    BY <1>3 DEF decode_message, WellMade, Messages
  <2>2. QED
    BY <1>3, <2>1, FullDecoded
<1>4. CASE PatchOK(msg)
  <2>1. decode_message(s, msg) = decode_patch(s, msg)
    BY <1>4, PatchParts DEF decode_message
  <2>2. QED
    BY <1>4, <2>1, PatchDecoded
<1>5. ASSUME NEW n, msg = TemplateBatch(n)
      PROVE  DecodedOK(s, decode_message(s, msg), msg, L)
  <2>1. decode_message(s, msg) = Decoded(decode_template(s, msg), "ok")
    BY <1>5 DEF TemplateBatch, decode_message
  <2>2. QED
    BY <1>5, <2>1, TemplateDecoded
<1>6. ASSUME NEW id \in SnapshotIds, NEW m \in WellMade, msg = BaseSnapshot(id, m)
      PROVE  DecodedOK(s, decode_message(s, msg), msg, L)
  <2>1. decode_message(s, msg) = Decoded(decode_snapshot(s, msg), "ok")
    BY <1>6 DEF BaseSnapshot, decode_message
  <2>2. QED
    BY <1>6, <2>1, SnapshotDecoded
<1>7. QED
  BY <1>1, <1>2, <1>3, <1>4, <1>5, <1>6 DEF MsgOK

-----------------------------------------------------------------------------
(* Values. *)

KeyLists == {KeysOf(value.entries) : value \in {v \in Values : v.kind = "map"}}

\* The values a program sends, and the key lists of the maps among them.
LEMMA ValuesTyped ==
    /\ KeyLists \in SUBSET Seq(Key)
    /\ \A value \in Values : /\ value.entries \in Seq(Entries)
                             /\ value.kind \in {"array", "map"}
                             /\ value.kind = "map" => KeysOf(value.entries) \in KeyLists
<1>1. \A value \in Values : value.entries \in Seq(Entries) /\ value.kind \in {"array", "map"}
  BY ValuesAreFlat
<1>2. \A value \in Values : KeysOf(value.entries) \in Seq(Key)
  BY <1>1, EntriesTyped
<1>3. QED
  BY <1>1, <1>2 DEF KeyLists

\* Any codec reads any Map.
LEMMA AnyRead ==
    ASSUME NEW c, CodecOK(c, Key, Seq(Key)), NEW msg, ReadableMap(msg, Key, Atoms)
    PROVE  ReadInto(c, msg, Seq(Key))
<1>1. PICK t \in Table(Key) : t = c.key_table
  BY DEF CodecOK
<1>2. PICK entries : entries = msg.entries
  OBVIOUS
<1>3. PICK read : read = read_entries(t, entries)
  OBVIOUS
<1>4. read \in Accs(Key, Atoms, t)
  BY <1>2, <1>3, EntriesRead DEF ReadableMap
<1>5. read.map \in Seq(Fields(Key, Atoms)) /\ read.ok \in BOOLEAN
  BY <1>4 DEF Accs
<1>6. KeysOf(read.map) \in Seq(Key) /\ read.map \in Seq(Entries)
  BY <1>5, AtomsTyped, KeysTyped
<1>7. PICK d : d = read_map(c, msg)
  OBVIOUS
<1>8. /\ CodecOK(d.codec, Key, Seq(Key)) /\ Grown(c, d.codec)
      /\ read.ok => d.res = read.map
  BY <1>1, <1>2, <1>3, <1>6, <1>7, MapRead
<1>9. ~read.ok => d.res = UnknownReference
  BY <1>1, <1>2, <1>3, <1>7 DEF read_map
<1>10. QED
  BY <1>5, <1>6, <1>7, <1>8, <1>9 DEF ReadInto

\* The codec that has the keys of a Map reads the map.
LEMMA KnownRead ==
    ASSUME NEW L, NEW c, CodecOK(c, Key, L), NEW map \in Seq(Entries), KeysOf(map) \in L,
           NEW msg, ReadableMap(msg, Key, Atoms), SaysMap(Key, msg, map, c.key_table),
           NEW d, d = read_map(c, msg)
    PROVE  ReadInto(c, msg, L) /\ d.res = map /\ d.codec.key_table = c.key_table
<1>1. msg.kind = "Map"
  BY DEF ReadableMap
<1>2. PICK e : e = decode_map(c, msg)
  OBVIOUS
<1>3. e = d
  BY <1>1, <1>2 DEF decode_map
<1>4. map \in Seq(Fields(Key, Atoms))
  BY AtomsTyped
<1>5. /\ CodecOK(e.codec, Key, L) /\ Grown(c, e.codec)
      /\ e.codec.key_table = c.key_table /\ e.res = map
  BY <1>2, <1>4, KnownDecoded
<1>6. QED
  BY <1>3, <1>5 DEF ReadInto

\* What a message brings to a reader whose key table is t: the message kept
\* of it, and u as the key table.
Carries(msg, kept, t, u) ==
    \/ /\ msg \in WellMade /\ msg.kind \notin {"Map", "ShapedObject"}
       /\ kept = msg /\ u = t
    \/ /\ ShapedOK(msg)
       /\ kept = Full("ShapedObject", << >>, msg.shape, "", msg.vals) /\ u = t
    \/ \E map \in Seq(Entries) :
          /\ KeysOf(map) \in KeyLists /\ ReadableMap(msg, Key, Atoms)
          /\ kept = Full("Map", KeysOf(map), 0, "", ValsOf(map))
          /\ u = RegisterAll(t, KeysOf(map))
          /\ Renews(msg, map, t, u) /\ SaysMap(Key, msg, map, u)

\* What a message of the sender is, given the tables of its codec.
Sendable(m, c) ==
    /\ m \in WellMade
    /\ m.kind = "Map" => m.keys \in KeyLists
    /\ m.kind = "ShapedObject" =>
          /\ m.shape \in DOMAIN c.shape_table.by_id
          /\ Len(m.fields) = Len(c.shape_table.by_id[m.shape])

\* A value becomes a message m: a reader of it ends with the key table of the
\* writer, d, and keeps what the writer would keep.
Composed(c, m, d, kept) ==
    /\ CodecOK(m.codec, Key, KeyLists) /\ Grown(c, m.codec)
    /\ CodecOK(d, Key, KeyLists) /\ Grown(c, d)
    /\ Carries(m.msg, kept, c.key_table, d.key_table)
    /\ Sendable(kept, m.codec) /\ Sendable(kept, d)
    /\ kept.kind = m.msg.kind /\ kept.fields = message_fields(m.msg)
    /\ kept.kind \in {"Array", "TypedVector", "Map", "ShapedObject"}
    /\ IF kept.kind = "Map" THEN m.codec.key_table = RegisterAll(c.key_table, kept.keys)
                            ELSE m.codec.key_table = c.key_table
    /\ kept.kind = "TypedVector" => m.msg = kept /\ Len(kept.fields) >= 4

\* An array is sent as an array or a typed vector that carries it.
LEMMA ArrayComposed ==
    ASSUME NEW c, CodecOK(c, Key, KeyLists), NEW value \in Values, value.kind = "array",
           NEW m, m = message_for_value(c, value)
    PROVE  Composed(c, m, write_tables(m.codec, m.msg), Kept(m.msg, value))
<1>1. PICK items \in Seq(Atoms) : items = ValsOf(value.entries)
  BY ValuesTyped, EntriesTyped
<1>2. m = array_message(c, items)
  BY <1>1 DEF message_for_value
<1>3. /\ m.codec = c /\ m.msg \in WellMade /\ m.msg.fields = items
      /\ m.msg.kind \in {"Array", "TypedVector"}
      /\ m.msg.kind = "TypedVector" => Len(items) >= 4
  BY <1>2, ArrayMade
<1>4. PICK msg \in WellMade : msg = m.msg
  BY <1>3
<1>5. Kept(msg, value) = msg /\ message_fields(msg) = msg.fields
  BY <1>3, <1>4, KeptAs DEF message_fields
<1>6. write_tables(c, msg) = c
  BY <1>3, <1>4, TablesStay
<1>7. Grown(c, c)
  BY CodecSame
<1>8. Carries(msg, msg, c.key_table, c.key_table)
  BY <1>3, <1>4 DEF Carries
<1>9. Sendable(msg, c)
  BY <1>3, <1>4 DEF Sendable
<1>10. QED
  BY <1>3, <1>4, <1>5, <1>6, <1>7, <1>8, <1>9 DEF Composed

\* A map sent as a map message is carried by it.
LEMMA MapComposed ==
    ASSUME NEW c, CodecOK(c, Key, KeyLists), NEW value \in Values, value.kind = "map",
           NEW m, m = message_for_value(c, value), m.msg.kind = "Map",
           CodecOK(m.codec, Key, KeyLists), Grown(c, m.codec),
           MadeMap(m, c, value.entries)
    PROVE  Composed(c, m, write_tables(m.codec, m.msg), Kept(m.msg, value))
<1>1. PICK map \in Seq(Entries) : map = value.entries
  BY ValuesTyped
<1>2. map \in Seq(Fields(Key, Atoms)) /\ KeysOf(map) \in KeyLists
  BY <1>1, AtomsTyped, ValuesTyped
<1>3. MadeMap(m, c, map)
  BY <1>1
<1>4. PICK d : d = write_map_message(m.codec, m.msg)
  OBVIOUS
<1>5. /\ CodecOK(d, Key, KeyLists) /\ Grown(m.codec, d)
      /\ SaysMap(Key, m.msg, map, d.key_table)
      /\ NoneNested(m.msg, map) => d.key_table = m.codec.key_table
  BY <1>2, <1>3, <1>4, AtomsTyped, MapWritten
<1>6. Grown(c, d)
  BY <1>5, GrownTwice
<1>7. \A i \in 1..Len(map) : NestedKeys(map[i].val) = << >>
  <2>1. \A e \in Entries : e.val \in Atoms
    BY DEF Entries
  <2>2. QED
    BY <2>1, AtomsTyped, ElementOfSeq
<1>8. NoneNested(m.msg, map)
  BY <1>7 DEF NoneNested
<1>9. PICK e : e = encode_map(c, map)
  OBVIOUS
<1>10. e.codec = d /\ e.msg = m.msg
  BY <1>1, <1>4, <1>9 DEF encode_map, message_for_value
<1>11. Renews(m.msg, map, c.key_table, d.key_table)
  BY <1>2, <1>8, <1>9, <1>10, AtomsTyped, ValuesTyped, FlatEncoded
<1>12. ReadableMap(m.msg, Key, Atoms)
  <2>1. Says(Key, m.msg, map, d)
    BY <1>5 DEF Says
  <2>2. ReadableMessage(m.msg, Key, Atoms)
    BY <1>2, <1>5, <2>1, AtomsTyped, ValuesTyped, SaysReadable
  <2>3. QED
    BY <2>2 DEF ReadableMessage, ReadableShaped
<1>13. d.key_table = RegisterAll(c.key_table, KeysOf(map)) /\ d.key_table = m.codec.key_table
  BY <1>3, <1>5, <1>8 DEF MadeMap
<1>14. PICK kept : kept = Full("Map", KeysOf(map), 0, "", ValsOf(map))
  OBVIOUS
<1>15. Kept(m.msg, value) = kept
  BY <1>1, <1>14, KeptAs
<1>16. Carries(m.msg, kept, c.key_table, d.key_table)
  BY <1>2, <1>5, <1>11, <1>12, <1>13, <1>14 DEF Carries
<1>17. PICK keys \in Seq(Key), vals \in Seq(Atoms) :
          keys = KeysOf(map) /\ vals = ValsOf(map) /\ Len(keys) = Len(vals)
  BY EntriesTyped
<1>18. kept \in WellMade /\ kept.kind = "Map" /\ kept.keys = keys /\ kept.fields = vals
  <2>1. kept = Full("Map", keys, 0, "", vals)
    BY <1>14, <1>17
  <2>2. kept.kind = "Map" /\ kept.keys = keys /\ kept.fields = vals
    BY <2>1 DEF Full
  <2>3. QED
    BY <1>17, <2>1, <2>2, MapKept
<1>19. message_fields(m.msg) = vals
  <2>1. m.msg.entries = [i \in DOMAIN map |->
                            [ref |-> KeyRefAt(c.key_table, KeysOf(map), i),
                             val |-> map[i].val]]
    BY <1>3 DEF MadeMap
  <2>2. ValsOf(m.msg.entries) = [i \in DOMAIN map |-> map[i].val]
    BY <2>1 DEF ValsOf
  <2>3. ValsOf(m.msg.entries) = ValsOf(map)
    BY <2>2 DEF ValsOf
  <2>4. QED
    BY <1>17, <2>3 DEF message_fields
<1>20. Sendable(kept, d) /\ Sendable(kept, m.codec)
  BY <1>2, <1>17, <1>18 DEF Sendable
<1>21. write_tables(m.codec, m.msg) = d
  BY <1>4 DEF write_tables
<1>22. QED
  BY <1>5, <1>6, <1>13, <1>15, <1>16, <1>17, <1>18, <1>19, <1>20, <1>21 DEF Composed

\* A map sent as a shaped message is carried by it.
LEMMA ShapedComposed ==
    ASSUME NEW c, CodecOK(c, Key, KeyLists), NEW value \in Values, value.kind = "map",
           NEW m, m = message_for_value(c, value), m.msg.kind = "ShapedObject",
           CodecOK(m.codec, Key, KeyLists), Grown(c, m.codec),
           MadeShaped(m, c, value.entries)
    PROVE  Composed(c, m, write_tables(m.codec, m.msg), Kept(m.msg, value))
<1>1. PICK map \in Seq(Entries) : map = value.entries
  BY ValuesTyped
<1>2. map \in Seq(Fields(Key, Atoms))
  BY AtomsTyped
<1>3. PICK by_id : by_id = m.codec.shape_table.by_id
  OBVIOUS
<1>4. PICK id : id = m.msg.shape
  BY Zenon
<1>5. /\ id \in DOMAIN by_id /\ m.codec.key_table = c.key_table
      /\ m.msg.vals = [i \in DOMAIN by_id[id] |-> FieldOf(map, by_id[id][i])]
  BY <1>1, <1>3, <1>4 DEF MadeShaped
<1>6. id \in Nat /\ by_id[id] \in Seq(Key)
  <2>1. PICK next \in Nat : by_id \in [0..next - 1 -> KeyLists]
    BY <1>3 DEF CodecOK, ShapesOK
  <2>2. QED
    BY <1>5, <2>1, ValuesTyped
<1>7. PICK keys \in Seq(Key) : keys = by_id[id]
  BY <1>6
<1>8. PICK n \in Nat : n = Len(keys) /\ DOMAIN keys = 1..n
  BY LenProperties
<1>9. \A k : FieldOf(map, k) \in Atoms
  <2> SUFFICES ASSUME NEW k PROVE FieldOf(map, k) \in Atoms
    OBVIOUS
  <2>1. \A e \in Entries : e.val \in Atoms
    BY DEF Entries
  <2>2. \A i \in 1..Len(map) : map[i].val \in Atoms
    BY <2>1, ElementOfSeq
  <2>3. QED
    BY <1>2, <2>2, FieldIs, AtomsTyped
<1>10. PICK vals : vals = [i \in 1..n |-> FieldOf(map, keys[i])]
  OBVIOUS
<1>11. vals \in Seq(Atoms) /\ Len(vals) = n /\ m.msg.vals = vals
  BY <1>5, <1>7, <1>8, <1>9, <1>10, IsASeq, LenProperties
<1>12. ShapedOK(m.msg)
  BY <1>4, <1>6, <1>11 DEF ShapedOK
<1>13. write_tables(m.codec, m.msg) = m.codec
  <2>1. write_tables(m.codec, m.msg) = read_shaped(m.codec, m.msg)
    BY DEF write_tables, write_map_message, read_shaped
  <2>2. QED
    BY <1>12, <2>1, ShapedReadOK
<1>14. PICK kept : kept = Full("ShapedObject", << >>, id, "", vals)
  OBVIOUS
<1>15. Kept(m.msg, value) = kept
  BY <1>4, <1>11, <1>14, KeptAs
<1>16. /\ kept \in WellMade /\ kept.kind = "ShapedObject" /\ kept.shape = id
       /\ kept.fields = vals
  <2>1. kept.kind = "ShapedObject" /\ kept.shape = id /\ kept.fields = vals
    BY <1>14 DEF Full
  <2>2. QED
    BY <1>6, <1>11, <1>14, <2>1, ShapedKept
<1>17. Sendable(kept, m.codec)
  BY <1>3, <1>5, <1>7, <1>8, <1>11, <1>16 DEF Sendable
<1>18. Carries(m.msg, kept, c.key_table, m.codec.key_table)
  BY <1>4, <1>5, <1>11, <1>12, <1>14 DEF Carries
<1>19. message_fields(m.msg) = vals
  BY <1>11 DEF message_fields
<1>20. QED
  BY <1>5, <1>13, <1>15, <1>16, <1>17, <1>18, <1>19 DEF Composed

\* Any value.
LEMMA ValueComposed ==
    ASSUME NEW c, CodecOK(c, Key, KeyLists), NEW value \in Values,
           NEW m, m = message_for_value(c, value)
    PROVE  Composed(c, m, write_tables(m.codec, m.msg), Kept(m.msg, value))
<1>1. CASE value.kind = "array"
  BY <1>1, ArrayComposed
<1>2. CASE value.kind = "map"
  <2>1. PICK map \in Seq(Entries) : map = value.entries /\ KeysOf(map) \in KeyLists
    BY <1>2, ValuesTyped
  <2>2. map \in Seq(Fields(Key, Atoms))
    BY AtomsTyped
  <2>3. m = message_for_map(c, map)
    BY <1>2, <2>1 DEF message_for_value
  <2>4. /\ CodecOK(m.codec, Key, KeyLists) /\ Grown(c, m.codec)
        /\ MadeMap(m, c, map) \/ MadeShaped(m, c, map)
    BY <2>1, <2>2, <2>3, MessageMade
  <2>5. CASE MadeMap(m, c, map)
    <3>1. m.msg.kind = "Map"
      BY <2>5 DEF MadeMap
    <3>2. QED
      BY <1>2, <2>1, <2>4, <2>5, <3>1, MapComposed
  <2>6. CASE MadeShaped(m, c, map)
    <3>1. m.msg.kind = "ShapedObject"
      BY <2>6 DEF MadeShaped
    <3>2. QED
      BY <1>2, <2>1, <2>4, <2>6, <3>1, ShapedComposed, SMTT(30)
  <2>7. QED
    BY <2>4, <2>5, <2>6
<1>3. QED
  BY <1>1, <1>2, ValuesTyped

-----------------------------------------------------------------------------
(* Reading what a message carries. *)

\* A message that carries a value is well formed, and so is what is kept of
\* it.
LEMMA CarriesOK ==
    ASSUME NEW msg, NEW kept, NEW t, NEW u, Carries(msg, kept, t, u)
    PROVE  MsgOK(msg) /\ kept \in WellMade
<1>1. CASE msg \in WellMade /\ msg.kind \notin {"Map", "ShapedObject"} /\ kept = msg
  BY <1>1 DEF MsgOK
<1>2. CASE ShapedOK(msg) /\ kept = Full("ShapedObject", << >>, msg.shape, "", msg.vals)
  <2>1. PICK shape \in Nat, vals \in Seq(Atoms) : shape = msg.shape /\ vals = msg.vals
    BY <1>2 DEF ShapedOK
  <2>2. kept = Full("ShapedObject", << >>, shape, "", vals)
    BY <1>2, <2>1
  <2>3. QED
    BY <1>2, <2>2, ShapedKept DEF MsgOK
<1>3. ASSUME NEW map \in Seq(Entries), ReadableMap(msg, Key, Atoms),
             kept = Full("Map", KeysOf(map), 0, "", ValsOf(map))
      PROVE  MsgOK(msg) /\ kept \in WellMade
  <2>1. PICK keys \in Seq(Key), vals \in Seq(Atoms) :
           keys = KeysOf(map) /\ vals = ValsOf(map) /\ Len(keys) = Len(vals)
    BY EntriesTyped
  <2>2. kept = Full("Map", keys, 0, "", vals)
    BY <1>3, <2>1
  <2>3. QED
    BY <1>3, <2>1, <2>2, MapKept DEF MsgOK
<1>4. QED
  BY <1>1, <1>2, <1>3 DEF Carries

\* A session that decodes to this: that message is kept, this the key table.
KeepsIt(s, d, msg, kept, u, L) ==
    /\ DecodedOK(s, d, msg, L) /\ d.res = "ok"
    /\ d.session.previous = kept /\ d.session.codec.key_table = u

\* A receiver keeps of a full message, not a map, what the sender meant.
LEMMA OthersKept ==
    ASSUME NEW L, NEW s, SessionOK(s, L), NEW msg, NEW kept, NEW u, s.codec.key_table = u,
           \/ msg \in WellMade /\ msg.kind \notin {"Map", "ShapedObject"} /\ kept = msg
           \/ ShapedOK(msg) /\ kept = Full("ShapedObject", << >>, msg.shape, "", msg.vals)
    PROVE  KeepsIt(s, decode_message(s, msg), msg, kept, u, L)
<1>1. PICK d : d = decode_message(s, msg)
  OBVIOUS
<1>2. /\ d = Decoded([s EXCEPT !.previous = kept], "ok")
      /\ DecodedOK(s, d, msg, L)
  <2>1. CASE msg \in WellMade /\ msg.kind \notin {"Map", "ShapedObject"} /\ kept = msg
    <3>1. decode_message(s, msg) = decode_full(s, msg)
      BY <2>1 DEF decode_message, WellMade, Messages
    <3>2. QED
      BY <1>1, <2>1, <3>1, FullDecoded
  <2>2. CASE ShapedOK(msg) /\ kept = Full("ShapedObject", << >>, msg.shape, "", msg.vals)
    <3>1. decode_message(s, msg) = decode_full(s, msg)
      BY <2>2 DEF ShapedOK, decode_message
    <3>2. QED
      <4>1. decode_full(s, msg) = Decoded([s EXCEPT !.previous = kept], "ok")
        BY <2>2, ShapedDecoded, ZenonT(60)
      <4>2. DecodedOK(s, decode_full(s, msg), msg, L)
        BY <2>2, ShapedDecoded
      <4>3. QED
        BY <1>1, <3>1, <4>1, <4>2
  <2>3. QED
    BY <2>1, <2>2
<1>3. d.session = [s EXCEPT !.previous = kept] /\ d.res = "ok"
  BY <1>2 DEF Decoded
<1>4. d.session.previous = kept /\ d.session.codec = s.codec
  BY <1>3 DEF SessionOK
<1>5. QED
  BY <1>1, <1>2, <1>3, <1>4 DEF KeepsIt

\* A receiver that reads the sender's map keeps what the sender meant.
LEMMA MapReadAs ==
    ASSUME NEW L, NEW s, SessionOK(s, L), NEW msg, ReadableMap(msg, Key, Atoms),
           ReadInto(s.codec, msg, L), NEW map \in Seq(Entries), NEW u,
           read_map(s.codec, msg).res = map, read_map(s.codec, msg).codec.key_table = u,
           NEW kept, kept = Full("Map", KeysOf(map), 0, "", ValsOf(map))
    PROVE  KeepsIt(s, decode_message(s, msg), msg, kept, u, L)
<1>1. PICK d : d = decode_message(s, msg)
  OBVIOUS
<1>2. d = decode_full(s, msg)
  BY <1>1 DEF ReadableMap, decode_message
<1>3. PICK read : read = read_map(s.codec, msg)
  OBVIOUS
<1>4. read.res # UnknownReference
  BY <1>3, ResultsTellApart
<1>5. /\ DecodedOK(s, d, msg, L) /\ d.session.codec = read.codec /\ d.res = "ok"
      /\ d.session.previous = Full("Map", KeysOf(read.res), 0, "", ValsOf(read.res))
  <2>1. ReadableMap(msg, Key, Atoms) /\ ReadInto(s.codec, msg, L) /\ SessionOK(s, L)
    OBVIOUS
  <2>2. ReadAndKept(s, d, msg, read, L)
    BY <1>2, <1>3, <2>1, MapDecoded
  <2>3. QED
    BY <1>4, <2>2 DEF ReadAndKept
<1>6. QED
  BY <1>1, <1>3, <1>5 DEF KeepsIt

\* Read with the key table the writer had before it.
LEMMA CarriedFirst ==
    ASSUME NEW s, SessionOK(s, Seq(Key)),
           NEW msg, NEW kept, NEW u, Carries(msg, kept, s.codec.key_table, u)
    PROVE  KeepsIt(s, decode_message(s, msg), msg, kept, u, Seq(Key))
<1>1. ASSUME NEW map \in Seq(Entries), KeysOf(map) \in KeyLists, ReadableMap(msg, Key, Atoms),
             kept = Full("Map", KeysOf(map), 0, "", ValsOf(map)),
             Renews(msg, map, s.codec.key_table, u)
      PROVE  KeepsIt(s, decode_message(s, msg), msg, kept, u, Seq(Key))
  <2>1. PICK c : c = s.codec /\ CodecOK(c, Key, Seq(Key))
    BY DEF SessionOK
  <2>2. PICK d : d = decode_map(c, msg)
    OBVIOUS
  <2>3. map \in Seq(Fields(Key, Atoms)) /\ KeysOf(map) \in Seq(Key)
    BY AtomsTyped, EntriesTyped
  <2>4. ReadableMessage(msg, Key, Atoms) /\ Renews(msg, map, c.key_table, u)
    BY <1>1, <2>1 DEF ReadableMessage
  <2>5. Renewed(d, msg, map, u)
    BY <2>1, <2>2, <2>3, <2>4, FreshDecoded
  <2>6. msg.kind = "Map" /\ d = read_map(c, msg)
    BY <1>1, <2>2 DEF ReadableMap, decode_map
  <2>7. d.res = map /\ d.codec.key_table = u
    BY <2>5, <2>6 DEF Renewed
  <2>8. ReadInto(s.codec, msg, Seq(Key))
    BY <1>1, <2>1, AnyRead
  <2>9. QED
    BY <1>1, <2>1, <2>6, <2>7, <2>8, MapReadAs
<1>2. QED
  BY <1>1, OthersKept DEF Carries

\* Read with the key table the writer had after it, by the receiver when it is
\* delivered again and by the sender.
LEMMA CarriedAgain ==
    ASSUME NEW L, KeyLists \subseteq L, NEW s, SessionOK(s, L),
           NEW msg, NEW kept, NEW t, Carries(msg, kept, t, s.codec.key_table)
    PROVE  KeepsIt(s, decode_message(s, msg), msg, kept, s.codec.key_table, L)
<1>1. ASSUME NEW map \in Seq(Entries), KeysOf(map) \in KeyLists, ReadableMap(msg, Key, Atoms),
             kept = Full("Map", KeysOf(map), 0, "", ValsOf(map)),
             SaysMap(Key, msg, map, s.codec.key_table)
      PROVE  KeepsIt(s, decode_message(s, msg), msg, kept, s.codec.key_table, L)
  <2>1. PICK c : c = s.codec /\ CodecOK(c, Key, L)
    BY DEF SessionOK
  <2>2. PICK d : d = read_map(c, msg)
    OBVIOUS
  <2>3. SaysMap(Key, msg, map, c.key_table) /\ KeysOf(map) \in L
    BY <1>1, <2>1
  <2>4. ReadInto(c, msg, L) /\ d.res = map /\ d.codec.key_table = c.key_table
    <3>1. CodecOK(c, Key, L) /\ KeysOf(map) \in L /\ ReadableMap(msg, Key, Atoms)
          /\ SaysMap(Key, msg, map, c.key_table)
      BY <1>1, <2>1, <2>3
    <3>2. QED
      BY <2>2, <3>1, KnownRead
  <2>5. QED
    BY <1>1, <2>1, <2>2, <2>4, MapReadAs
<1>2. QED
  BY <1>1, OthersKept DEF Carries

-----------------------------------------------------------------------------
(* What the sender sends. *)

\* A message that a patch can turn into the other.
Alike(base, kept) ==
    /\ base \in WellMade /\ kept \in WellMade /\ base.kind = kept.kind
    /\ kept.kind \in {"Array", "TypedVector", "Map", "ShapedObject"}
    /\ kept.kind = "TypedVector" => base.type = kept.type

SendsFull(session, msg, kept) ==
    \E m : /\ Carries(msg, m, snd.codec.key_table, session.codec.key_table)
           /\ Sendable(m, session.codec)
           /\ kept \in {m, None}
           /\ session.previous \in {snd.previous, m}
           /\ \/ session.base_snapshots = snd.base_snapshots
              \/ /\ m.kind \notin Patchable
                 /\ \E id \in Nat : session.base_snapshots =
                       register_base_snapshot(snd.base_snapshots, id, m)

SendsPatch(session, msg, kept) ==
    /\ PatchOK(msg) /\ Sendable(kept, session.codec)
    /\ \E base : /\ KnowsBase(snd, msg.base_ref) /\ base = BaseOf(snd, msg.base_ref)
                 /\ Alike(base, kept)
                 /\ msg.ops = diff_fields(base.fields, kept.fields)
    /\ session.previous = snd.previous /\ session.base_snapshots = snd.base_snapshots
    /\ session.codec.key_table = IF kept.kind = "Map"
                                 THEN RegisterAll(snd.codec.key_table, kept.keys)
                                 ELSE snd.codec.key_table
    /\ IF msg.base_ref.previous THEN kept.kind # "TypedVector"
                                ELSE kept.kind \in {"Array", "TypedVector"}

SendsTemplate(session, msg, kept) ==
    /\ session = snd /\ kept = None
    /\ \E n : msg = TemplateBatch(n)

SendsSnapshot(session, msg, kept) ==
    \E id \in SnapshotIds, m \in WellMade :
        /\ msg = BaseSnapshot(id, m) /\ kept = None
        /\ session = [snd EXCEPT !.base_snapshots =
                          register_base_snapshot(snd.base_snapshots, id, m)]

Sends(session, msg, kept) ==
    /\ SessionOK(session, KeyLists) /\ Grown(snd.codec, session.codec)
    /\ \/ SendsFull(session, msg, kept)
       \/ SendsPatch(session, msg, kept)
       \/ SendsTemplate(session, msg, kept)
       \/ SendsSnapshot(session, msg, kept)

\* A session with another codec and other contents.
LEMMA SessionMade ==
    ASSUME NEW L, NEW c, CodecOK(c, Key, L), NEW p, PreviousOK(p),
           NEW b \in Snapshots(Snapshot), NEW n \in Nat,
           NEW s, s = [codec |-> c, previous |-> p, base_snapshots |-> b, next_base_id |-> n]
    PROVE  SessionOK(s, L) /\ s.codec = c /\ s.previous = p /\ s.base_snapshots = b
BY DEF SessionOK

\* encode_value and the writing of a full message.
LEMMA FullWritten ==
    ASSUME SessionOK(snd, KeyLists), NEW m, NEW kept, NEW d,
           d = write_tables(m.codec, m.msg), Composed(snd.codec, m, d, kept),
           NEW p \in {snd.previous, kept}, NEW w,
           w = write_message([snd EXCEPT !.codec = m.codec], m.msg),
           NEW session, session = [w EXCEPT !.previous = p]
    PROVE  Sends(session, m.msg, kept)
<1>1. m.msg.kind # "BaseSnapshot"
  BY DEF Composed
<1>2. w = [snd EXCEPT !.codec = d]
  BY <1>1 DEF write_message, SessionOK
<1>3. session = [codec |-> d, previous |-> p, base_snapshots |-> snd.base_snapshots,
                 next_base_id |-> snd.next_base_id]
  BY <1>2 DEF SessionOK
<1>4. /\ CodecOK(d, Key, KeyLists) /\ Grown(snd.codec, d)
      /\ Carries(m.msg, kept, snd.codec.key_table, d.key_table) /\ Sendable(kept, d)
  BY DEF Composed
<1>5. PreviousOK(p) /\ snd.base_snapshots \in Snapshots(Snapshot) /\ snd.next_base_id \in Nat
  BY <1>4 DEF SessionOK, PreviousOK, Sendable
<1>6. /\ SessionOK(session, KeyLists) /\ session.codec = d /\ session.previous = p
      /\ session.base_snapshots = snd.base_snapshots
  BY <1>3, <1>4, <1>5, SessionMade
<1>7. SendsFull(session, m.msg, kept)
  BY <1>4, <1>6 DEF SendsFull
<1>8. QED
  BY <1>4, <1>6, <1>7 DEF Sends

\* Encoding a value sends a message that carries it.
LEMMA EncodeValueSends ==
    ASSUME SessionOK(snd, KeyLists), NEW value \in Values, encode_value(value)
    PROVE  \E session, msg, kept : Sends(session, msg, kept) /\ Sent(session, msg, kept)
<1>1. PICK m : m = message_for_value(snd.codec, value)
  OBVIOUS
<1>2. PICK d, kept : d = write_tables(m.codec, m.msg) /\ kept = Kept(m.msg, value)
  OBVIOUS
<1>3. Composed(snd.codec, m, d, kept)
  BY <1>1, <1>2, ValueComposed DEF SessionOK
<1>4. PICK w : w = write_message([snd EXCEPT !.codec = m.codec], m.msg)
  OBVIOUS
<1>5. PICK session : session = [w EXCEPT !.previous = kept]
  OBVIOUS
<1>6. Sends(session, m.msg, kept)
  BY <1>2, <1>3, <1>4, <1>5, FullWritten
<1>7. Sent(session, m.msg, kept)
  BY <1>1, <1>2, <1>4, <1>5 DEF encode_value
<1>8. QED
  BY <1>6, <1>7

\* A patch is at least as large as the sixteen bytes of a typed vector.
LEMMA VectorPatchLarge ==
    ASSUME NEW a \in Seq(Atoms), NEW m \in WellMade, m.kind = "TypedVector",
           Len(m.fields) >= 4, NEW ops, ops = diff_fields(a, m.fields)
    PROVE  ~patch_is_smaller(ops, m)
<1>1. PICK b \in Seq(Atoms) : b = m.fields /\ Len(b) >= 4
  BY DEF WellMade, Messages
<1>2. PICK n \in Nat, k \in Nat : n = Len(a) /\ k = Len(b)
  BY LenProperties
<1>3. OpsOK(ops, Atoms) /\ Len(ops) = IF n <= k THEN k ELSE n
  <2>1. DiffMade(ops, Atoms, a, b, n, k)
    BY <1>1, <1>2, AtomsTyped, DiffOps
  <2>2. QED
    BY <2>1 DEF DiffMade
<1>4. patch_size(ops) \in Nat /\ 4 + Len(ops) + Len(ops) + Len(ops) <= patch_size(ops)
  BY <1>3, PatchSize
<1>5. encoded_size(m) = 16
  BY DEF encoded_size
<1>6. PICK l \in Nat, p \in Nat : l = Len(ops) /\ p = patch_size(ops) /\ l >= 4
  BY <1>1, <1>2, <1>3, <1>4
<1>7. 4 + l + l + l <= p
  BY <1>4, <1>6
<1>8. ~(p < 16)
  BY <1>6, <1>7
<1>9. QED
  BY <1>5, <1>6, <1>8 DEF patch_is_smaller

\* A patch that is written.
LEMMA PatchWritten ==
    ASSUME SessionOK(snd, KeyLists), NEW c, CodecOK(c, Key, KeyLists), Grown(snd.codec, c),
           NEW kept, Sendable(kept, c), NEW ref, NEW base, Alike(base, kept),
           KnowsBase(snd, ref), base = BaseOf(snd, ref),
           ref = PreviousRef \/ \E id : ref = IdRefTo(id),
           c.key_table = IF kept.kind = "Map" THEN RegisterAll(snd.codec.key_table, kept.keys)
                                              ELSE snd.codec.key_table,
           IF ref.previous THEN kept.kind # "TypedVector"
                           ELSE kept.kind \in {"Array", "TypedVector"},
           NEW ops, ops = diff_fields(base.fields, kept.fields),
           NEW msg, msg = StatePatch(ref, ops),
           NEW session, session = write_message([snd EXCEPT !.codec = c], msg)
    PROVE  Sends(session, msg, kept)
<1>1. PICK a \in Seq(Atoms), b \in Seq(Atoms) : a = base.fields /\ b = kept.fields
  BY DEF Alike, WellMade, Messages
<1>2. PICK n \in Nat, k \in Nat : n = Len(a) /\ k = Len(b)
  BY LenProperties
<1>3. OpsOK(ops, Atoms)
  <2>1. DiffMade(ops, Atoms, a, b, n, k)
    BY <1>1, <1>2, AtomsTyped, DiffOps
  <2>2. QED
    BY <2>1 DEF DiffMade
<1>4. msg.kind = "StatePatch" /\ msg.base_ref = ref /\ msg.ops = ops
  BY DEF StatePatch
<1>5. PatchOK(msg)
  BY <1>3, <1>4 DEF PatchOK
<1>6. PICK s : s = [snd EXCEPT !.codec = c]
  OBVIOUS
<1>7. s = [codec |-> c, previous |-> snd.previous, base_snapshots |-> snd.base_snapshots,
           next_base_id |-> snd.next_base_id]
  BY <1>6 DEF SessionOK
<1>8. /\ PreviousOK(snd.previous) /\ snd.base_snapshots \in Snapshots(Snapshot)
      /\ snd.next_base_id \in Nat
  BY DEF SessionOK
<1>9. /\ SessionOK(s, KeyLists) /\ s.codec = c /\ s.previous = snd.previous
      /\ s.base_snapshots = snd.base_snapshots
  BY <1>7, <1>8, SessionMade
<1>10. session = s
  BY <1>5, <1>6, <1>9, WrittenRest
<1>11. SendsPatch(session, msg, kept)
  BY <1>4, <1>5, <1>9, <1>10 DEF SendsPatch
<1>12. QED
  BY <1>9, <1>10, <1>11 DEF Sends

\* Encoding a value as a patch sends a message or a patch that carries it.
LEMMA EncodePatchSends ==
    ASSUME SessionOK(snd, KeyLists), NEW value \in Values, encode_patch(value)
    PROVE  \E session, msg, kept : Sends(session, msg, kept) /\ Sent(session, msg, kept)
<1>1. PICK m : m = message_for_value(snd.codec, value)
  OBVIOUS
<1>2. PICK d, kept : d = write_tables(m.codec, m.msg) /\ kept = Kept(m.msg, value)
  OBVIOUS
<1>3. Composed(snd.codec, m, d, kept)
  BY <1>1, <1>2, ValueComposed DEF SessionOK
<1>4. PICK ops : ops = diff_fields(snd.previous.fields, message_fields(m.msg))
  OBVIOUS
<1>5. CASE supports_state_patch(snd.previous, m.msg) /\ patch_is_smaller(ops, m.msg)
  <2>1. PICK msg : msg = StatePatch(PreviousRef, ops)
    OBVIOUS
  <2>2. PICK session : session = write_message([snd EXCEPT !.codec = m.codec], msg)
    OBVIOUS
  <2>3. Sent(session, msg, kept)
    BY <1>1, <1>2, <1>4, <1>5, <2>1, <2>2 DEF encode_patch
  <2>4. PICK base : base = snd.previous
    OBVIOUS
  <2>5. base # None /\ base.kind = m.msg.kind /\ base.kind \in Patchable
        /\ (base.kind = "TypedVector" => base.type = m.msg.type)
    BY <1>5, <2>4 DEF supports_state_patch
  <2>6. base \in WellMade
    BY <2>4, <2>5 DEF SessionOK, PreviousOK
  <2>7. /\ CodecOK(m.codec, Key, KeyLists) /\ Grown(snd.codec, m.codec)
        /\ Sendable(kept, m.codec) /\ kept \in WellMade
        /\ kept.kind = m.msg.kind /\ kept.fields = message_fields(m.msg)
        /\ kept.kind \in {"Array", "TypedVector", "Map", "ShapedObject"}
        /\ m.codec.key_table = IF kept.kind = "Map"
                               THEN RegisterAll(snd.codec.key_table, kept.keys)
                               ELSE snd.codec.key_table
        /\ kept.kind = "TypedVector" => m.msg = kept /\ Len(kept.fields) >= 4
    BY <1>3 DEF Composed, Sendable
  <2>8. Alike(base, kept)
    BY <2>5, <2>6, <2>7 DEF Alike
  <2>9. kept.kind # "TypedVector"
    <3>1. SUFFICES ASSUME kept.kind = "TypedVector" PROVE FALSE
      OBVIOUS
    <3>2. PICK a \in Seq(Atoms) : a = base.fields
      BY <2>6 DEF WellMade, Messages
    <3>3. ops = diff_fields(a, kept.fields) /\ m.msg = kept /\ Len(kept.fields) >= 4
      BY <1>4, <2>4, <2>7, <3>1, <3>2
    <3>4. ~patch_is_smaller(ops, kept)
      BY <2>7, <3>1, <3>2, <3>3, VectorPatchLarge
    <3>5. QED
      BY <1>5, <3>3, <3>4
  <2>10. KnowsBase(snd, PreviousRef) /\ base = BaseOf(snd, PreviousRef) /\ PreviousRef.previous
    BY <2>4, <2>5 DEF KnowsBase, BaseOf, PreviousRef
  <2>11. ops = diff_fields(base.fields, kept.fields)
    BY <1>4, <2>4, <2>7
  <2>12. PICK c : c = m.codec
    OBVIOUS
  <2>13. PICK ref : ref = PreviousRef
    OBVIOUS
  <2>14. Sends(session, msg, kept)
    BY <2>1, <2>2, <2>7, <2>8, <2>9, <2>10, <2>11, <2>12, <2>13, PatchWritten
  <2>15. QED
    BY <2>3, <2>14
<1>6. CASE ~(supports_state_patch(snd.previous, m.msg) /\ patch_is_smaller(ops, m.msg))
  <2>1. PICK w : w = write_message([snd EXCEPT !.codec = m.codec], m.msg)
    OBVIOUS
  <2>2. Sent(w, m.msg, kept)
    BY <1>1, <1>2, <1>4, <1>6, <2>1 DEF encode_patch
  <2>3. PICK session : session = [w EXCEPT !.previous = snd.previous]
    OBVIOUS
  <2>4. session = w
    <3>1. w.previous = snd.previous /\ w = [w EXCEPT !.previous = w.previous]
      BY <2>1 DEF write_message, SessionOK
    <3>2. QED
      BY <2>3, <3>1
  <2>5. Sends(session, m.msg, kept)
    BY <1>2, <1>3, <2>1, <2>3, FullWritten
  <2>6. QED
    BY <2>2, <2>4, <2>5
<1>7. QED
  BY <1>5, <1>6

\* A message that stands for itself.
LEMMA MessageSends ==
    ASSUME SessionOK(snd, KeyLists), NEW msg \in WellMade,
           msg.kind \in {"SchemaObject", "RowBatch", "ColumnBatch"},
           NEW session, SessionOK(session, KeyLists), session.codec = snd.codec,
           session.previous \in {snd.previous, msg}, NEW kept \in {msg, None},
           \/ session.base_snapshots = snd.base_snapshots
           \/ /\ msg.kind \notin Patchable
              /\ \E id \in Nat : session.base_snapshots =
                    register_base_snapshot(snd.base_snapshots, id, msg)
    PROVE  Sends(session, msg, kept)
<1>1. Carries(msg, msg, snd.codec.key_table, session.codec.key_table)
  BY DEF Carries
<1>2. Sendable(msg, session.codec)
  BY DEF Sendable
<1>3. Grown(snd.codec, session.codec)
  BY CodecSame DEF SessionOK
<1>4. SendsFull(session, msg, kept)
  BY <1>1, <1>2 DEF SendsFull
<1>5. QED
  BY <1>3, <1>4 DEF Sends

\* Encoding a value under a schema sends a message that carries it.
LEMMA EncodeSchemaSends ==
    ASSUME SessionOK(snd, KeyLists), NEW value \in Values, NEW id \in DOMAIN Schemas,
           encode_with_schema(id, value)
    PROVE  \E session, msg, kept : Sends(session, msg, kept) /\ Sent(session, msg, kept)
<1>1. PICK map \in Seq(Entries) : map = value.entries
  BY ValuesTyped
<1>2. PICK msg : msg = SchemaObject(id, map)
  OBVIOUS
<1>3. msg \in WellMade /\ msg.kind = "SchemaObject"
  BY <1>2, SchemaMade
<1>4. Sent(write_message(snd, msg), msg, msg)
  BY <1>1, <1>2 DEF encode_with_schema
<1>5. write_message(snd, msg) = snd
  BY <1>3, WrittenRest
<1>6. Sends(snd, msg, msg)
  BY <1>3, MessageSends
<1>7. QED
  BY <1>4, <1>5, <1>6

\* Encoding a batch sends a message that carries it.
LEMMA EncodeBatchSends ==
    ASSUME SessionOK(snd, KeyLists), NEW kind \in Batches, encode_batch(kind)
    PROVE  \E session, msg, kept : Sends(session, msg, kept) /\ Sent(session, msg, kept)
<1>1. PICK msg \in WellMade : msg = Batch(kind) /\ msg.kind \in {"RowBatch", "ColumnBatch"}
  BY BatchesAreBatches, BatchMade
<1> PICK id \in Nat : id = snd.next_base_id
  BY DEF SessionOK
<1>2. PICK r : id = snd.next_base_id
               /\ r = register_base_snapshot(snd.base_snapshots, id, msg)
  OBVIOUS
<1>3. PreviousOK(msg) /\ msg.kind \notin Patchable
  BY <1>1 DEF PreviousOK, Patchable
<1>4. /\ CodecOK(snd.codec, Key, KeyLists) /\ snd.base_snapshots \in Snapshots(Snapshot)
      /\ snd.next_base_id \in Nat
  BY DEF SessionOK
<1>5. CASE MaxBaseSnapshots = 0
  <2>1. PICK session : session = [snd EXCEPT !.previous = msg]
    OBVIOUS
  <2>2. Sent(session, msg, None)
    BY <1>1, <1>5, <2>1 DEF encode_batch
  <2>3. session = [codec |-> snd.codec, previous |-> msg,
                   base_snapshots |-> snd.base_snapshots, next_base_id |-> snd.next_base_id]
    BY <2>1 DEF SessionOK
  <2>4. /\ SessionOK(session, KeyLists) /\ session.codec = snd.codec
        /\ session.previous = msg /\ session.base_snapshots = snd.base_snapshots
    BY <1>3, <1>4, <2>3, SessionMade
  <2>5. Sends(session, msg, None)
    BY <1>1, <2>4, MessageSends
  <2>6. QED
    BY <2>2, <2>5
<1>6. CASE MaxBaseSnapshots # 0
  <2>1. PICK session : session = [[snd EXCEPT !.previous = msg]
                                     EXCEPT !.base_snapshots = r, !.next_base_id = @ + 1]
    OBVIOUS
  <2>2. Sent(session, msg, None)
    <3>1. PICK s : s = [snd EXCEPT !.previous = msg]
      OBVIOUS
    <3>2. s.base_snapshots = snd.base_snapshots
      BY <3>1 DEF SessionOK
    <3>3. session = [s EXCEPT !.base_snapshots =
                        register_base_snapshot(@, snd.next_base_id, msg), !.next_base_id = @ + 1]
      BY <1>2, <2>1, <3>1, <3>2
    <3>4. QED
      BY <1>1, <1>6, <3>1, <3>3 DEF encode_batch
  <2>3. session = [codec |-> snd.codec, previous |-> msg,
                   base_snapshots |-> r, next_base_id |-> id + 1]
    BY <1>2, <2>1 DEF SessionOK
  <2>4. r \in Snapshots(Snapshot)
    <3>1. SnapshotEntry(id, msg) \in Snapshot
      BY DEF SnapshotEntry, Snapshot
    <3>2. QED
      BY <1>2, <1>4, <3>1, SnapshotRegistered DEF Registered
  <2>5. id + 1 \in Nat
    OBVIOUS
  <2>6. /\ SessionOK(session, KeyLists) /\ session.codec = snd.codec
        /\ session.previous = msg /\ session.base_snapshots = r
    BY <1>3, <1>4, <2>3, <2>4, <2>5, SessionMade
  <2>7. Sends(session, msg, None)
    BY <1>1, <1>2, <1>3, <2>6, MessageSends
  <2>8. QED
    BY <2>2, <2>7
<1>7. QED
  BY <1>5, <1>6

\* Encoding a micro batch sends a message that carries it.
LEMMA EncodeMicroBatchSends ==
    ASSUME SessionOK(snd, KeyLists), NEW n, encode_micro_batch(n)
    PROVE  \E session, msg, kept : Sends(session, msg, kept) /\ Sent(session, msg, kept)
<1>1. PICK msg : msg = TemplateBatch(n)
  OBVIOUS
<1>2. Sent(snd, msg, None)
  BY <1>1 DEF encode_micro_batch
<1>3. Grown(snd.codec, snd.codec)
  BY CodecSame DEF SessionOK
<1>4. Sends(snd, msg, None)
  BY <1>1, <1>3 DEF Sends, SendsTemplate
<1>5. QED
  BY <1>2, <1>4

\* Sending a base snapshot sends a message that carries it.
LEMMA EncodeSnapshotSends ==
    ASSUME SessionOK(snd, KeyLists), NEW id \in SnapshotIds, NEW value \in SnapshotValues,
           encode_snapshot(id, value)
    PROVE  \E session, msg, kept : Sends(session, msg, kept) /\ Sent(session, msg, kept)
<1>1. PICK items \in Seq(Atoms) : items = ValsOf(value.entries)
  BY SnapshotsAreArrays, EntriesTyped
<1>2. PICK made : made = array_message(snd.codec, items)
  OBVIOUS
<1>3. PICK m \in WellMade : m = made.msg
  BY <1>1, <1>2, ArrayMade
<1>4. PICK msg : msg = BaseSnapshot(id, m)
  OBVIOUS
<1>5. PICK r : r = register_base_snapshot(snd.base_snapshots, id, m)
  OBVIOUS
<1>6. PICK session : session = [snd EXCEPT !.base_snapshots = r]
  OBVIOUS
<1>7. write_message(snd, msg) = session
  BY <1>4, <1>5, <1>6, SnapshotWritten
<1>8. Sent(session, msg, None)
  BY <1>1, <1>2, <1>3, <1>4, <1>7 DEF encode_snapshot
<1>9. /\ CodecOK(snd.codec, Key, KeyLists) /\ snd.base_snapshots \in Snapshots(Snapshot)
      /\ snd.next_base_id \in Nat /\ PreviousOK(snd.previous)
  BY DEF SessionOK
<1>10. r \in Snapshots(Snapshot)
  <2>1. SnapshotEntry(id, m) \in Snapshot
    BY DEF SnapshotEntry, Snapshot
  <2>2. QED
    BY <1>5, <1>9, <2>1, SnapshotRegistered DEF Registered
<1>11. session = [codec |-> snd.codec, previous |-> snd.previous,
                  base_snapshots |-> r, next_base_id |-> snd.next_base_id]
  BY <1>6 DEF SessionOK
<1>12. SessionOK(session, KeyLists) /\ session.codec = snd.codec
  BY <1>9, <1>10, <1>11, SessionMade
<1>13. Grown(snd.codec, session.codec)
  BY <1>9, <1>12, CodecSame
<1>14. SendsSnapshot(session, msg, None)
  BY <1>4, <1>5, <1>6 DEF SendsSnapshot
<1>15. QED
  BY <1>8, <1>12, <1>13, <1>14 DEF Sends

\* Encoding a patch on a base snapshot sends a patch that carries the value.
LEMMA EncodePatchOnSends ==
    ASSUME SessionOK(snd, KeyLists), NEW id, NEW value \in SnapshotValues,
           encode_patch_on(id, value)
    PROVE  \E session, msg, kept : Sends(session, msg, kept) /\ Sent(session, msg, kept)
<1>1. PICK items \in Seq(Atoms) : items = ValsOf(value.entries)
  BY SnapshotsAreArrays, EntriesTyped
<1>2. PICK m : m = array_message(snd.codec, items)
  OBVIOUS
<1>3. /\ m.codec = snd.codec /\ m.msg.fields = items
      /\ m.msg.kind \in {"Array", "TypedVector"}
  BY <1>1, <1>2, ArrayMade
<1>4. PICK kept \in WellMade : kept = m.msg
  BY <1>1, <1>2, ArrayMade
<1>5. PICK base : base = get_base_snapshot(snd.base_snapshots, id)
  OBVIOUS
<1>6. PICK ref : ref = IdRefTo(id)
  OBVIOUS
<1>7. PICK ops : ops = diff_fields(base.fields, kept.fields)
  OBVIOUS
<1>8. PICK msg : msg = StatePatch(ref, ops)
  OBVIOUS
<1>9. PICK session : session = write_message(snd, msg)
  OBVIOUS
<1>10. message_fields(kept) = kept.fields
  BY <1>3, <1>4 DEF message_fields
<1>11. /\ id \in IdsOf(snd.base_snapshots) /\ supports_state_patch(base, kept)
       /\ Sent(session, msg, kept)
  BY <1>1, <1>2, <1>4, <1>5, <1>6, <1>7, <1>8, <1>9, <1>10 DEF encode_patch_on
<1>12. ref.previous = FALSE /\ ref.id = id
  BY <1>6 DEF IdRefTo
<1>13. KnowsBase(snd, ref) /\ base = BaseOf(snd, ref)
  BY <1>5, <1>11, <1>12 DEF KnowsBase, BaseOf
<1>14. base \in WellMade
  <2>1. base.kind \in Patchable
    BY <1>11 DEF supports_state_patch
  <2>2. BaseOf(snd, ref) \in WellMade \/ BaseOf(snd, ref).kind \notin Patchable
    BY <1>13, BaseKnown
  <2>3. QED
    BY <1>13, <2>1, <2>2
<1>15. Alike(base, kept)
  BY <1>3, <1>4, <1>11, <1>14 DEF Alike, supports_state_patch
<1>16. PICK c : c = snd.codec /\ CodecOK(c, Key, KeyLists) /\ Grown(snd.codec, c)
  BY CodecSame DEF SessionOK
<1>17. Sendable(kept, c)
  BY <1>3, <1>4 DEF Sendable
<1>18. session = write_message([snd EXCEPT !.codec = c], msg)
  <2>1. snd = [snd EXCEPT !.codec = c]
    BY <1>16 DEF SessionOK
  <2>2. QED
    BY <1>9, <2>1
<1>19. /\ c.key_table = IF kept.kind = "Map" THEN RegisterAll(snd.codec.key_table, kept.keys)
                                             ELSE snd.codec.key_table
       /\ IF ref.previous THEN kept.kind # "TypedVector"
                          ELSE kept.kind \in {"Array", "TypedVector"}
  BY <1>3, <1>4, <1>12, <1>16
<1>20. ref = PreviousRef \/ \E i : ref = IdRefTo(i)
  BY <1>6
<1>21. Sends(session, msg, kept)
  BY <1>7, <1>8, <1>13, <1>15, <1>16, <1>17, <1>18, <1>19, <1>20, PatchWritten
<1>22. QED
  BY <1>11, <1>21

\* What the application or the transport does.
Encodes ==
    \/ \E value \in Values : \/ encode_value(value)
                             \/ encode_patch(value)
                             \/ \E id \in DOMAIN Schemas : encode_with_schema(id, value)
    \/ \E kind \in Batches : encode_batch(kind)
    \/ \E n \in MicroBatches : encode_micro_batch(n)
    \/ \E id \in SnapshotIds, value \in SnapshotValues : \/ encode_snapshot(id, value)
                                                         \/ encode_patch_on(id, value)

\* Whatever is encoded, a message that carries it is sent.
LEMMA EncodesSends ==
    ASSUME SessionOK(snd, KeyLists), Encodes
    PROVE  \E session, msg, kept : Sends(session, msg, kept) /\ Sent(session, msg, kept)
BY EncodeValueSends, EncodePatchSends, EncodeSchemaSends, EncodeBatchSends,
   EncodeMicroBatchSends, EncodeSnapshotSends, EncodePatchOnSends DEF Encodes

\* Every step encodes, decodes, decodes again, loses, resets or changes
\* nothing.
LEMMA StepsAre ==
    [Next]_vars => Encodes \/ Decode \/ DecodeAgain \/ Lose \/ reset_state \/ UNCHANGED vars
BY DEF Next, Encodes
-----------------------------------------------------------------------------
(* The log. *)

\* The sender's previous message and snapshots when it had sent i buffers.
PrevAt(l, i)  == IF i = 0 THEN None ELSE l[i].previous
SnapsAt(l, i) == IF i = 0 THEN << >> ELSE l[i].snapshots

\* What sending msg does to the snapshots of the sender: it registers a base
\* snapshot, and again when it decodes it, or a batch under an id of its own.
SnapTurn(s, msg, t) ==
    \/ \E id \in SnapshotIds, m \in WellMade :
          /\ msg = BaseSnapshot(id, m)
          /\ \/ t = register_base_snapshot(s, id, m)
             \/ t = register_base_snapshot(register_base_snapshot(s, id, m), id, m)
    \/ /\ msg.kind # "BaseSnapshot"
       /\ \/ t = s
          \/ \E id \in Nat, m \in WellMade :
                m.kind \notin Patchable /\ t = register_base_snapshot(s, id, m)

\* A patch that names a snapshot turns the one that has this id into kept.
TurnsInto(base, kept, ops) == /\ Alike(base, kept) /\ ops = diff_fields(base.fields, kept.fields)

NamedTurn(s, msg, kept, t) ==
    msg.kind = "StatePatch" =>
        /\ t = s
        /\ ~msg.base_ref.previous => /\ kept.kind \in {"Array", "TypedVector"}
                                     /\ \E k \in 1..Len(s) : /\ s[k].id = msg.base_ref.id
                                                             /\ TurnsInto(s[k].msg, kept, msg.ops)

EntryIs(e) == e = [msg |-> e.msg, kept |-> e.kept, lost |-> e.lost,
                   previous |-> e.previous, snapshots |-> e.snapshots]

EntryOK(e) ==
    /\ EntryIs(e) /\ MsgOK(e.msg) /\ PreviousOK(e.previous)
    /\ e.snapshots \in Snapshots(Snapshot)
    /\ e.msg.kind = "StatePatch" /\ e.msg.base_ref.previous => e.kept.kind # "TypedVector"

LogOK(l) ==
    /\ l \in Seq(Range(l))
    /\ \A i \in 1..Len(l) : /\ EntryOK(l[i])
                            /\ SnapTurn(SnapsAt(l, i - 1), l[i].msg, l[i].snapshots)
                            /\ NamedTurn(SnapsAt(l, i - 1), l[i].msg, l[i].kept, l[i].snapshots)

TInv ==
    /\ SessionOK(snd, KeyLists) /\ SessionOK(rcv, Seq(Key))
    /\ LogOK(log)
    /\ pos \in 0..Len(log) /\ res \in Results \cup {None}
    /\ snd.previous = PrevAt(log, Len(log)) /\ snd.base_snapshots = SnapsAt(log, Len(log))

\* The sender decodes whatever it sends.
LEMMA SentDecoded ==
    ASSUME SessionOK(snd, KeyLists), NEW session, NEW msg, NEW kept, Sends(session, msg, kept)
    PROVE  MsgOK(msg) /\ DecodedOK(session, decode_message(session, msg), msg, KeyLists)
<1>1. SessionOK(session, KeyLists)
  BY DEF Sends
<1>2. CASE SendsFull(session, msg, kept)
  <2>1. PICK m : Carries(msg, m, snd.codec.key_table, session.codec.key_table)
    BY <1>2 DEF SendsFull
  <2>2. MsgOK(msg)
    BY <2>1, CarriesOK
  <2>3. KeepsIt(session, decode_message(session, msg), msg, m,
                session.codec.key_table, KeyLists)
    BY <1>1, <2>1, CarriedAgain
  <2>4. QED
    BY <2>2, <2>3 DEF KeepsIt
<1>3. CASE \/ SendsPatch(session, msg, kept)
           \/ SendsTemplate(session, msg, kept)
           \/ SendsSnapshot(session, msg, kept)
  <2>1. MsgOK(msg) /\ msg.kind # "Map"
    <3>1. CASE SendsPatch(session, msg, kept)
      BY <3>1, PatchParts DEF SendsPatch, MsgOK
    <3>2. CASE SendsTemplate(session, msg, kept)
      <4>1. \A n : TemplateBatch(n).kind = "TemplateBatch"
        BY DEF TemplateBatch
      <4>2. QED
        BY <3>2, <4>1 DEF SendsTemplate, MsgOK
    <3>3. CASE SendsSnapshot(session, msg, kept)
      <4>1. \A id, m : BaseSnapshot(id, m).kind = "BaseSnapshot"
        BY DEF BaseSnapshot
      <4>2. QED
        BY <3>3, <4>1 DEF SendsSnapshot, MsgOK
    <3>4. QED
      BY <1>3, <3>1, <3>2, <3>3
  <2>2. ReadInto(session.codec, msg, KeyLists)
    BY <2>1 DEF ReadInto
  <2>3. QED
    BY <1>1, <2>1, <2>2, MessageDecoded
<1>4. QED
  BY <1>2, <1>3 DEF Sends

\* Its snapshots, whether it decodes what it sends or not.
LEMMA SnapshotsSent ==
    ASSUME SessionOK(snd, KeyLists), NEW session, NEW msg, NEW kept, Sends(session, msg, kept),
           NEW after, after \in {session, decode_message(session, msg).session}
    PROVE  /\ SnapTurn(snd.base_snapshots, msg, after.base_snapshots)
           /\ NamedTurn(snd.base_snapshots, msg, kept, after.base_snapshots)
<1> DEFINE s == snd.base_snapshots
           t == session.base_snapshots
<1>1. /\ MsgOK(msg)
      /\ \/ after.base_snapshots = t
         \/ /\ msg.kind = "BaseSnapshot"
            /\ after.base_snapshots = register_base_snapshot(t, msg.base_id, msg.payload)
  BY SentDecoded DEF DecodedOK
<1>2. CASE SendsFull(session, msg, kept)
  <2>1. PICK m : /\ Carries(msg, m, snd.codec.key_table, session.codec.key_table)
                 /\ \/ t = s
                    \/ /\ m.kind \notin Patchable
                       /\ \E id \in Nat : t = register_base_snapshot(s, id, m)
    BY <1>2 DEF SendsFull
  <2>2. m \in WellMade
    BY <2>1, CarriesOK
  <2>3. msg.kind \notin {"BaseSnapshot", "StatePatch"}
    BY <2>1 DEF Carries, ShapedOK, ReadableMap, WellMade, Messages
  <2>4. after.base_snapshots = t
    BY <1>1, <2>3
  <2>5. QED
    BY <2>1, <2>2, <2>3, <2>4 DEF SnapTurn, NamedTurn
<1>3. CASE SendsPatch(session, msg, kept)
  <2>1. msg.kind = "StatePatch" /\ t = s
    BY <1>3, PatchParts DEF SendsPatch
  <2>2. after.base_snapshots = s
    BY <1>1, <2>1
  <2>3. SnapTurn(s, msg, s)
    BY <2>1 DEF SnapTurn
  <2>4. ASSUME ~msg.base_ref.previous
        PROVE  /\ kept.kind \in {"Array", "TypedVector"}
               /\ \E k \in 1..Len(s) : s[k].id = msg.base_ref.id /\ TurnsInto(s[k].msg, kept, msg.ops)
    <3>1. PICK base : /\ KnowsBase(snd, msg.base_ref) /\ base = BaseOf(snd, msg.base_ref)
                      /\ Alike(base, kept) /\ msg.ops = diff_fields(base.fields, kept.fields)
      BY <1>3 DEF SendsPatch
    <3>2. msg.base_ref.id \in IdsOf(s)
      BY <2>4, <3>1 DEF KnowsBase
    <3>3. PICK k \in DOMAIN s : s[k].id = msg.base_ref.id
      BY <3>2 DEF IdsOf
    <3>4. s \in Snapshots(Snapshot) /\ k \in 1..Len(s)
      BY LenProperties DEF SessionOK, Snapshots
    <3>5. base = s[k].msg
      BY <2>4, <3>1, <3>3, <3>4, SnapshotFound DEF BaseOf
    <3>6. kept.kind \in {"Array", "TypedVector"}
      BY <1>3, <2>4 DEF SendsPatch
    <3>7. QED
      BY <3>1, <3>3, <3>4, <3>5, <3>6 DEF TurnsInto
  <2>5. QED
    BY <2>1, <2>2, <2>3, <2>4 DEF NamedTurn
<1>4. CASE SendsTemplate(session, msg, kept)
  <2>1. msg.kind = "TemplateBatch" /\ t = s
    BY <1>4 DEF SendsTemplate, TemplateBatch
  <2>2. QED
    BY <1>1, <2>1 DEF SnapTurn, NamedTurn
<1>5. CASE SendsSnapshot(session, msg, kept)
  <2>1. PICK id \in SnapshotIds, m \in WellMade :
           /\ msg = BaseSnapshot(id, m)
           /\ session = [snd EXCEPT !.base_snapshots = register_base_snapshot(s, id, m)]
    BY <1>5 DEF SendsSnapshot
  <2>2. PICK r : r = register_base_snapshot(s, id, m)
    OBVIOUS
  <2>3. session.base_snapshots = r
    BY <2>1, <2>2 DEF SessionOK
  <2>4. msg.kind = "BaseSnapshot" /\ msg.base_id = id /\ msg.payload = m
    BY <2>1 DEF BaseSnapshot
  <2>5. \/ after.base_snapshots = r
        \/ after.base_snapshots = register_base_snapshot(r, id, m)
    BY <1>1, <2>3, <2>4
  <2>6. SnapTurn(s, msg, after.base_snapshots)
    BY <2>1, <2>2, <2>5 DEF SnapTurn
  <2>7. QED
    BY <2>4, <2>6 DEF NamedTurn
<1>6. QED
  BY <1>2, <1>3, <1>4, <1>5 DEF Sends

\* The log with one more buffer.
LEMMA LogLonger ==
    ASSUME NEW l, LogOK(l), NEW l2, NEW e, Longer(l, l2, e), EntryOK(e),
           SnapTurn(SnapsAt(l, Len(l)), e.msg, e.snapshots),
           NamedTurn(SnapsAt(l, Len(l)), e.msg, e.kept, e.snapshots)
    PROVE  /\ LogOK(l2) /\ PrevAt(l2, Len(l2)) = e.previous /\ SnapsAt(l2, Len(l2)) = e.snapshots
           /\ Len(l) \in Nat /\ Len(l2) = Len(l) + 1
           /\ \A i \in 0..Len(l) : PrevAt(l2, i) = PrevAt(l, i) /\ SnapsAt(l2, i) = SnapsAt(l, i)
<1>1. PICK n \in Nat : n = Len(l)
  BY LenProperties DEF LogOK
<1>2. l2 \in Seq(Range(l2)) /\ Len(l2) = n + 1 /\ l2[n + 1] = e /\ \A i \in 1..n : l2[i] = l[i]
  BY <1>1 DEF Longer
<1>3. \A i \in 0..n : PrevAt(l2, i) = PrevAt(l, i) /\ SnapsAt(l2, i) = SnapsAt(l, i)
  BY <1>2 DEF PrevAt, SnapsAt
<1>4. ASSUME NEW i \in 1..n + 1
      PROVE  /\ EntryOK(l2[i]) /\ SnapTurn(SnapsAt(l2, i - 1), l2[i].msg, l2[i].snapshots)
             /\ NamedTurn(SnapsAt(l2, i - 1), l2[i].msg, l2[i].kept, l2[i].snapshots)
  <2>1. CASE i = n + 1
    <3>1. i - 1 = n /\ n \in 0..n
      BY <2>1
    <3>2. SnapsAt(l2, i - 1) = SnapsAt(l, n) /\ l2[i] = e
      BY <1>2, <1>3, <2>1, <3>1
    <3>3. QED
      BY <1>1, <3>2
  <2>2. CASE i \in 1..n
    <3>1. i - 1 \in 0..n
      BY <2>2
    <3>2. SnapsAt(l2, i - 1) = SnapsAt(l, i - 1) /\ l2[i] = l[i]
      BY <1>2, <1>3, <2>2, <3>1
    <3>3. QED
      BY <1>1, <2>2, <3>2 DEF LogOK
  <2>3. QED
    BY <2>1, <2>2
<1>5. PrevAt(l2, n + 1) = e.previous /\ SnapsAt(l2, n + 1) = e.snapshots
  BY <1>2 DEF PrevAt, SnapsAt
<1>6. QED
  BY <1>1, <1>2, <1>3, <1>4, <1>5 DEF LogOK

\* The log with a buffer marked as lost.
SameButLost(l, l2) ==
    /\ l2 \in Seq(Range(l2)) /\ Len(l2) = Len(l)
    /\ \A i \in 1..Len(l) :
          /\ EntryIs(l2[i]) /\ l2[i].msg = l[i].msg /\ l2[i].kept = l[i].kept
          /\ l2[i].previous = l[i].previous /\ l2[i].snapshots = l[i].snapshots

\* Marking a message as lost changes no other part of the log.
LEMMA LogMarked ==
    ASSUME NEW l, LogOK(l), NEW l2, SameButLost(l, l2)
    PROVE  /\ LogOK(l2) /\ Len(l) \in Nat
           /\ \A i \in 0..Len(l) : PrevAt(l2, i) = PrevAt(l, i) /\ SnapsAt(l2, i) = SnapsAt(l, i)
<1>1. PICK n \in Nat : n = Len(l) /\ n = Len(l2)
  BY LenProperties DEF LogOK, SameButLost
<1>2. \A i \in 0..n : PrevAt(l2, i) = PrevAt(l, i) /\ SnapsAt(l2, i) = SnapsAt(l, i)
  BY <1>1 DEF PrevAt, SnapsAt, SameButLost
<1>3. ASSUME NEW i \in 1..n
      PROVE  /\ EntryOK(l2[i]) /\ SnapTurn(SnapsAt(l2, i - 1), l2[i].msg, l2[i].snapshots)
             /\ NamedTurn(SnapsAt(l2, i - 1), l2[i].msg, l2[i].kept, l2[i].snapshots)
  <2>1. /\ EntryOK(l[i]) /\ SnapTurn(SnapsAt(l, i - 1), l[i].msg, l[i].snapshots)
        /\ NamedTurn(SnapsAt(l, i - 1), l[i].msg, l[i].kept, l[i].snapshots)
    BY <1>1 DEF LogOK
  <2>2. /\ EntryIs(l2[i]) /\ l2[i].msg = l[i].msg /\ l2[i].kept = l[i].kept
        /\ l2[i].previous = l[i].previous /\ l2[i].snapshots = l[i].snapshots
    BY <1>1 DEF SameButLost
  <2>3. i - 1 \in 0..n
    OBVIOUS
  <2>4. SnapsAt(l2, i - 1) = SnapsAt(l, i - 1)
    BY <1>2, <2>3
  <2>5. EntryOK(l2[i])
    BY <2>1, <2>2 DEF EntryOK
  <2>6. QED
    BY <2>1, <2>2, <2>4, <2>5
<1>4. QED
  BY <1>1, <1>2, <1>3 DEF LogOK, SameButLost

\* A loss marks the next message and leaves both sessions alone.
LEMMA LoseMarks ==
    ASSUME LogOK(log), pos \in 0..Len(log), Lose
    PROVE  /\ SameButLost(log, log') /\ pos' = pos + 1 /\ pos + 1 \in 1..Len(log)
           /\ log'[pos + 1].lost = TRUE /\ \A i \in 1..Len(log) : i # pos + 1 => log'[i] = log[i]
           /\ res' = None /\ UNCHANGED << snd, rcv >>
<1>1. PICK n \in Nat : n = Len(log)
  BY LenProperties DEF LogOK
<1>2. PICK p \in 1..n : p = pos + 1
  BY <1>1 DEF Lose
<1>3. log' = [log EXCEPT ![p].lost = TRUE] /\ DOMAIN log = 1..n
  BY <1>1, <1>2, LenProperties DEF Lose, LogOK
<1>4. PICK l2 : l2 = [log EXCEPT ![p].lost = TRUE]
  OBVIOUS
<1>5. /\ DOMAIN l2 = 1..n /\ l2[p] = [log[p] EXCEPT !.lost = TRUE]
      /\ \A i \in 1..n : i # p => l2[i] = log[i]
  BY <1>2, <1>3, <1>4
<1>6. l2 = [i \in 1..n |-> l2[i]]
  <2>1. l2 = [i \in 1..n |-> IF i = p THEN [log[i] EXCEPT !.lost = TRUE] ELSE log[i]]
    BY <1>3, <1>4
  <2>2. QED
    BY <2>1
<1>7. l2 \in Seq(Range(l2)) /\ Len(l2) = n
  <2>1. PICK S : S = Range(l2)
    OBVIOUS
  <2>2. \A i \in 1..n : l2[i] \in S
    BY <1>5, <2>1 DEF Range
  <2>3. l2 \in Seq(S) /\ Len(l2) = n
    BY <1>6, <2>2, IsASeq, LenProperties
  <2>4. QED
    BY <2>1, <2>3
<1>8. \A i \in 1..n : EntryIs(log[i])
  BY <1>1 DEF LogOK, EntryOK
<1>9. /\ EntryIs(l2[p]) /\ l2[p].msg = log[p].msg /\ l2[p].kept = log[p].kept /\ l2[p].lost = TRUE
      /\ l2[p].previous = log[p].previous /\ l2[p].snapshots = log[p].snapshots
  BY <1>5, <1>8 DEF EntryIs
<1>10. SameButLost(log, l2)
  BY <1>1, <1>5, <1>7, <1>8, <1>9 DEF SameButLost
<1>11. log' = l2 /\ pos' = p /\ res' = None /\ UNCHANGED << snd, rcv >>
  BY <1>2, <1>3, <1>4 DEF Lose
<1>12. QED
  BY <1>1, <1>2, <1>5, <1>9, <1>10, <1>11

-----------------------------------------------------------------------------
(* The types of the sessions and of the log. *)

\* A buffer is sent: the log has it, with what the sender has then.
SentAs(e, msg, kept, after) ==
    /\ e = [msg |-> msg, kept |-> kept, lost |-> FALSE,
            previous |-> after.previous, snapshots |-> after.base_snapshots]
    /\ EntryOK(e)
    /\ SnapTurn(SnapsAt(log, Len(log)), e.msg, e.snapshots)
    /\ NamedTurn(SnapsAt(log, Len(log)), e.msg, e.kept, e.snapshots)

\* A send appends one well-formed entry and leaves the receiver alone.
LEMMA SentTyped ==
    ASSUME TInv, NEW session, NEW msg, NEW kept,
           Sends(session, msg, kept), Sent(session, msg, kept)
    PROVE  /\ \E e : SentAs(e, msg, kept, snd') /\ Longer(log, log', e)
           /\ snd' = IF LoopsBack THEN decode_message(session, msg).session ELSE session
           /\ SessionOK(snd', KeyLists) /\ UNCHANGED << rcv, pos, res >>
<1>1. PICK after : after = IF LoopsBack THEN decode_message(session, msg).session ELSE session
  OBVIOUS
<1>2. PICK e : e = [msg |-> msg, kept |-> kept, lost |-> FALSE,
                    previous |-> after.previous, snapshots |-> after.base_snapshots]
  OBVIOUS
<1>3. snd' = after /\ log' = Append(log, e) /\ UNCHANGED << rcv, pos, res >>
  BY <1>1, <1>2 DEF Sent
<1>4. Longer(log, log', e)
  BY <1>3, Appended DEF TInv, LogOK
<1>5. SessionOK(snd, KeyLists)
  BY DEF TInv
<1>6. SessionOK(session, KeyLists)
  BY DEF Sends
<1>7. MsgOK(msg) /\ SessionOK(after, KeyLists)
  BY <1>1, <1>5, <1>6, SentDecoded DEF DecodedOK
<1>8. /\ SnapTurn(snd.base_snapshots, msg, after.base_snapshots)
      /\ NamedTurn(snd.base_snapshots, msg, kept, after.base_snapshots)
  BY <1>1, <1>5, SnapshotsSent
<1>9. ASSUME msg.kind = "StatePatch", msg.base_ref.previous
      PROVE  kept.kind # "TypedVector"
  <2>1. CASE SendsFull(session, msg, kept)
    BY <1>9, <2>1 DEF SendsFull, Carries, ShapedOK, ReadableMap, WellMade, Messages
  <2>2. CASE SendsPatch(session, msg, kept)
    BY <1>9, <2>2 DEF SendsPatch
  <2>3. CASE SendsTemplate(session, msg, kept) \/ SendsSnapshot(session, msg, kept)
    BY <1>9, <2>3 DEF SendsTemplate, SendsSnapshot, TemplateBatch, BaseSnapshot
  <2>4. QED
    BY <2>1, <2>2, <2>3 DEF Sends
<1>10. EntryIs(e) /\ e.msg = msg /\ e.kept = kept /\ e.previous = after.previous
       /\ e.snapshots = after.base_snapshots
  BY <1>2 DEF EntryIs
<1>11. PreviousOK(after.previous) /\ after.base_snapshots \in Snapshots(Snapshot)
  BY <1>7 DEF SessionOK
<1>12. EntryOK(e)
  BY <1>7, <1>9, <1>10, <1>11 DEF EntryOK
<1>13. SentAs(e, msg, kept, after)
  BY <1>2, <1>8, <1>10, <1>12 DEF SentAs, TInv
<1>14. QED
  BY <1>1, <1>3, <1>4, <1>7, <1>13

\* A buffer of the log is decoded.
LEMMA Received ==
    ASSUME TInv, NEW i \in 1..Len(log), NEW d, d = decode_message(rcv, log[i].msg)
    PROVE  DecodedOK(rcv, d, log[i].msg, Seq(Key))
<1>1. MsgOK(log[i].msg) /\ SessionOK(rcv, Seq(Key))
  BY DEF TInv, LogOK, EntryOK
<1>2. ReadInto(rcv.codec, log[i].msg, Seq(Key))
  <2>1. CASE ReadableMap(log[i].msg, Key, Atoms)
    BY <1>1, <2>1, AnyRead DEF SessionOK
  <2>2. CASE log[i].msg.kind # "Map"
    BY <2>2 DEF ReadInto
  <2>3. (\A n : TemplateBatch(n).kind = "TemplateBatch")
        /\ \A id, m : BaseSnapshot(id, m).kind = "BaseSnapshot"
    BY DEF TemplateBatch, BaseSnapshot
  <2>4. QED
    BY <1>1, <2>1, <2>2, <2>3, PatchParts DEF MsgOK, ShapedOK
<1>3. QED
  BY <1>1, <1>2, MessageDecoded

\* A new session is well formed and empty.
LEMMA NewSessionOK ==
    ASSUME NEW L
    PROVE  /\ SessionOK(NewSession, L) /\ NewSession.previous = None
           /\ NewSession.base_snapshots = << >> /\ NewSession.codec = NewCodec
<1>1. CodecOK(NewCodec, Key, L)
  BY NewCodecOK
<1>2. << >> \in Snapshots(Snapshot)
  BY SnapshotsBounded DEF Snapshots, IdsApart
<1>3. QED
  BY <1>1, <1>2 DEF NewSession, SessionOK, PreviousOK

\* Nothing sent, nothing decoded.
Empty == /\ snd = NewSession /\ rcv = NewSession
         /\ log = << >> /\ pos = 0 /\ res = None

\* The initial state satisfies the type part of the invariant.
LEMMA EmptyTyped == Empty => TInv
<1> SUFFICES ASSUME Empty PROVE TInv
  OBVIOUS
<1>1. log \in Seq(Range(log)) /\ Len(log) = 0
  BY DEF Empty
<1>2. LogOK(log)
  BY <1>1 DEF LogOK
<1>3. PrevAt(log, 0) = None /\ SnapsAt(log, 0) = << >>
  BY DEF PrevAt, SnapsAt
<1>4. QED
  BY <1>1, <1>2, <1>3, NewSessionOK DEF Empty, TInv

\* Every step keeps the type part of the invariant.
LEMMA TypedInductive == TInv /\ [Next]_vars => TInv'
<1> SUFFICES ASSUME TInv, [Next]_vars PROVE TInv'
  OBVIOUS
<1>1. Len(log) \in Nat
  BY LenProperties DEF TInv, LogOK
<1>2. CASE Encodes
  <2>1. PICK session, msg, kept : Sends(session, msg, kept) /\ Sent(session, msg, kept)
    BY <1>2, EncodesSends DEF TInv
  <2>2. PICK e : SentAs(e, msg, kept, snd') /\ Longer(log, log', e)
    BY <2>1, SentTyped
  <2>3. SessionOK(snd', KeyLists) /\ UNCHANGED << rcv, pos, res >>
    BY <2>1, SentTyped
  <2>4. LogOK(log') /\ PrevAt(log', Len(log')) = e.previous
        /\ SnapsAt(log', Len(log')) = e.snapshots /\ Len(log') = Len(log) + 1
    BY <2>2, LogLonger DEF SentAs, TInv
  <2>5. e.previous = snd'.previous /\ e.snapshots = snd'.base_snapshots
    BY <2>2 DEF SentAs
  <2>6. pos' \in 0..Len(log')
    BY <1>1, <2>3, <2>4 DEF TInv
  <2>7. QED
    BY <2>3, <2>4, <2>5, <2>6 DEF TInv
<1>3. ASSUME NEW i \in 1..Len(log), ReceiverDecodes(i), UNCHANGED << snd, log >>,
             pos' \in 0..Len(log)
      PROVE  TInv'
  <2>1. PICK d : d = decode_message(rcv, log[i].msg)
    OBVIOUS
  <2>2. DecodedOK(rcv, d, log[i].msg, Seq(Key))
    BY <2>1, Received
  <2>3. rcv' = d.session /\ res' = d.res
    BY <1>3, <2>1 DEF ReceiverDecodes
  <2>4. QED
    BY <1>3, <2>2, <2>3 DEF TInv, DecodedOK
<1>4. CASE Decode
  <2>1. pos + 1 \in 1..Len(log) /\ pos + 1 \in 0..Len(log)
    BY <1>1, <1>4 DEF TInv, Decode
  <2>2. QED
    BY <1>3, <1>4, <2>1 DEF Decode
<1>5. CASE DecodeAgain
  <2>1. pos \in 1..Len(log)
    BY <1>1, <1>5 DEF TInv, DecodeAgain
  <2>2. QED
    BY <1>3, <1>5, <2>1 DEF DecodeAgain, TInv
<1>6. CASE Lose
  <2>1. /\ SameButLost(log, log') /\ pos' = pos + 1 /\ pos + 1 \in 1..Len(log)
        /\ res' = None /\ UNCHANGED << snd, rcv >>
    BY <1>6, LoseMarks DEF TInv
  <2>2. /\ LogOK(log') /\ Len(log') = Len(log)
        /\ \A i \in 0..Len(log) : PrevAt(log', i) = PrevAt(log, i) /\ SnapsAt(log', i) = SnapsAt(log, i)
    BY <2>1, LogMarked DEF TInv, SameButLost
  <2>3. Len(log) \in 0..Len(log)
    BY <1>1
  <2>4. QED
    BY <1>1, <2>1, <2>2, <2>3 DEF TInv
<1>7. CASE reset_state
  <2>1. Empty'
    BY <1>7 DEF reset_state, Empty
  <2>2. Empty' => TInv'
    BY EmptyTyped, PTL
  <2>3. QED
    BY <2>1, <2>2
<1>8. CASE UNCHANGED vars
  BY <1>8 DEF vars, TInv
<1>9. QED
  BY <1>2, <1>4, <1>5, <1>6, <1>7, <1>8, StepsAre

\* The type part of the invariant holds in every reachable state.
LEMMA TypedAlways == Spec => []TInv
<1>1. Init => TInv
  BY EmptyTyped DEF Init, Empty
<1>2. QED
  BY <1>1, TypedInductive, PTL DEF Spec

\* A typed vector is sent in full unless the application makes a patch to a
\* snapshot: no patch takes less than its sixteen bytes.
THEOREM VectorsAreFull == Spec => []VectorsSentInFull
<1>1. TInv => VectorsSentInFull
  <2> SUFFICES ASSUME TInv, NEW i \in DOMAIN log, log[i].kept # None, ~NamesBase(i),
                      log[i].kept.kind = "TypedVector", log[i].msg.kind = "StatePatch"
               PROVE  FALSE
    BY DEF VectorsSentInFull
  <2>1. i \in 1..Len(log)
    BY LenProperties DEF TInv, LogOK
  <2>2. EntryOK(log[i])
    BY <2>1 DEF TInv, LogOK
  <2>3. QED
    BY <2>2 DEF EntryOK, NamesBase
<1>2. QED
  BY <1>1, TypedAlways, PTL

-----------------------------------------------------------------------------
(* The snapshots of both sides. *)

\* With room for none there is none.
LEMMA NoneHeld ==
    ASSUME NEW E, NEW s \in Snapshots(E), MaxBaseSnapshots = 0, NEW r, NEW ids
    PROVE  Held(s, r, ids)
<1>1. Len(s) \in Nat /\ Len(s) <= 0
  BY LenProperties DEF Snapshots
<1>2. QED
  BY <1>1 DEF Held

\* What decoding msg does to the snapshots of the receiver.
SnapshotsRead(r, msg, r2) ==
    r2 = IF msg.kind = "BaseSnapshot"
         THEN register_base_snapshot(r, msg.base_id, msg.payload) ELSE r

\* A snapshot entry holds its number and its message.
LEMMA EntryMade ==
    ASSUME NEW id \in SnapshotIds \cup Nat, NEW m \in WellMade
    PROVE  \E e \in Snapshot : e = SnapshotEntry(id, m) /\ e.id = id /\ e.msg = m
<1>1. PICK e : e = SnapshotEntry(id, m)
  OBVIOUS
<1>2. e \in Snapshot /\ e.id = id /\ e.msg = m
  BY <1>1 DEF SnapshotEntry, Snapshot
<1>3. QED
  BY <1>1, <1>2

\* A buffer arrives: the snapshot in it is held, and what was held of the
\* others still is.
LEMMA HeldTurn ==
    ASSUME NEW s \in Snapshots(Snapshot), NEW r \in Snapshots(Snapshot),
           NEW msg, NEW t, SnapTurn(s, msg, t), NEW r2, SnapshotsRead(r, msg, r2),
           NEW ids, Held(s, r, ids), NEW ids2,
           ids2 \subseteq ids \cup {id \in {msg.base_id} : msg.kind = "BaseSnapshot"}
    PROVE  Held(t, r2, ids2)
<1>1. ASSUME NEW id \in SnapshotIds, NEW m \in WellMade, msg = BaseSnapshot(id, m),
             \/ t = register_base_snapshot(s, id, m)
             \/ t = register_base_snapshot(register_base_snapshot(s, id, m), id, m)
      PROVE  Held(t, r2, ids2)
  <2>1. PICK e \in Snapshot : e = SnapshotEntry(id, m) /\ e.id = id
    BY EntryMade
  <2>2. msg.kind = "BaseSnapshot" /\ msg.base_id = id /\ msg.payload = m
    BY <1>1 DEF BaseSnapshot
  <2>3. PICK t1 : t1 = register_base_snapshot(s, id, m)
    OBVIOUS
  <2>4. Registered(s, t1, Snapshot, e)
    BY <2>1, <2>3, SnapshotRegistered
  <2>5. Registered(r, r2, Snapshot, e)
    <3>1. r2 = register_base_snapshot(r, id, m)
      BY <2>2 DEF SnapshotsRead
    <3>2. QED
      BY <2>1, <3>1, SnapshotRegistered
  <2>6. ids2 \subseteq ids \cup {e.id} /\ ids2 \subseteq ids2 \cup {e.id}
    BY <2>1, <2>2
  <2>7. Held(t1, r2, ids2)
    BY <2>4, <2>5, <2>6, HeldByBoth
  <2>8. CASE t = t1
    BY <2>7, <2>8
  <2>9. CASE t = register_base_snapshot(t1, id, m)
    <3>1. t1 \in Snapshots(Snapshot) /\ r2 \in Snapshots(Snapshot)
      BY <2>4, <2>5 DEF Registered
    <3>2. Registered(t1, t, Snapshot, e)
      BY <2>1, <2>9, <3>1, SnapshotRegistered
    <3>3. CASE MaxBaseSnapshots = 0
      BY <3>2, <3>3, NoneHeld DEF Registered
    <3>4. CASE MaxBaseSnapshots # 0
      <4>1. \E l \in 1..Len(r2) : r2[l] = e /\ After(r2, l) = {}
        BY <2>5, <3>4, SnapshotsBounded DEF Registered
      <4>2. QED
        BY <2>6, <2>7, <3>1, <3>2, <4>1, HeldBySender
    <3>5. QED
      BY <3>3, <3>4
  <2>10. QED
    BY <1>1, <2>3, <2>8, <2>9
<1>2. CASE msg.kind # "BaseSnapshot"
  <2>1. r2 = r /\ ids2 \subseteq ids
    BY <1>2 DEF SnapshotsRead
  <2>2. CASE t = s
    BY <2>1, <2>2 DEF Held
  <2>3. ASSUME NEW id \in Nat, NEW m \in WellMade, m.kind \notin Patchable,
               t = register_base_snapshot(s, id, m)
        PROVE  Held(t, r2, ids2)
    <3>1. PICK e \in Snapshot : e = SnapshotEntry(id, m) /\ e.msg = m
      <4>1. PICK n \in SnapshotIds \cup Nat : n = id
        OBVIOUS
      <4>2. QED
        BY <4>1, EntryMade
    <3>2. Registered(s, t, Snapshot, e)
      BY <2>3, <3>1, SnapshotRegistered
    <3>3. ids2 \subseteq ids \cup {e.id}
      BY <2>1
    <3>4. e.msg.kind \notin Patchable
      BY <2>3, <3>1
    <3>5. QED
      BY <2>1, <3>2, <3>3, <3>4, HeldBySender
  <2>4. QED
    BY <1>2, <2>2, <2>3 DEF SnapTurn, BaseSnapshot
<1>3. QED
  BY <1>1, <1>2 DEF SnapTurn

\* A buffer is lost, and with it the snapshot of this id.
LEMMA HeldLost ==
    ASSUME NEW s \in Snapshots(Snapshot), NEW r \in Snapshots(Snapshot),
           NEW msg, NEW t, SnapTurn(s, msg, t), NEW ids, Held(s, r, ids), NEW ids2,
           ids2 \subseteq ids, msg.kind = "BaseSnapshot" => msg.base_id \notin ids2
    PROVE  Held(t, r, ids2)
<1>1. ASSUME NEW id \in SnapshotIds, NEW m \in WellMade, msg = BaseSnapshot(id, m),
             \/ t = register_base_snapshot(s, id, m)
             \/ t = register_base_snapshot(register_base_snapshot(s, id, m), id, m)
      PROVE  Held(t, r, ids2)
  <2>1. PICK e \in Snapshot : e = SnapshotEntry(id, m) /\ e.id = id
    BY EntryMade
  <2>2. e.id \notin ids2
    BY <1>1, <2>1 DEF BaseSnapshot
  <2>3. PICK t1 : t1 = register_base_snapshot(s, id, m)
    OBVIOUS
  <2>4. Registered(s, t1, Snapshot, e)
    BY <2>1, <2>3, SnapshotRegistered
  <2>5. ids2 \subseteq ids \cup {e.id} /\ ids2 \subseteq ids2 \cup {e.id}
    OBVIOUS
  <2>6. Held(t1, r, ids2)
    BY <2>2, <2>4, <2>5, HeldBySender
  <2>7. CASE t = register_base_snapshot(t1, id, m)
    <3>1. t1 \in Snapshots(Snapshot)
      BY <2>4 DEF Registered
    <3>2. Registered(t1, t, Snapshot, e)
      BY <2>1, <2>7, <3>1, SnapshotRegistered
    <3>3. QED
      BY <2>2, <2>5, <2>6, <3>1, <3>2, HeldBySender
  <2>8. QED
    BY <1>1, <2>3, <2>6, <2>7
<1>2. CASE msg.kind # "BaseSnapshot"
  <2>1. SnapshotsRead(r, msg, r)
    BY <1>2 DEF SnapshotsRead
  <2>2. QED
    BY <2>1, HeldTurn
<1>3. QED
  BY <1>1, <1>2 DEF SnapTurn

\* A buffer arrives again: its snapshot is the newest of the sender's.
LEMMA HeldRepeat ==
    ASSUME NEW s \in Snapshots(Snapshot), NEW r \in Snapshots(Snapshot),
           NEW msg, NEW t, SnapTurn(s, msg, t), NEW r2, SnapshotsRead(r, msg, r2),
           NEW ids, Held(t, r, ids)
    PROVE  Held(t, r2, ids)
<1>1. ASSUME NEW id \in SnapshotIds, NEW m \in WellMade, msg = BaseSnapshot(id, m),
             \/ t = register_base_snapshot(s, id, m)
             \/ t = register_base_snapshot(register_base_snapshot(s, id, m), id, m)
      PROVE  Held(t, r2, ids)
  <2>1. PICK e \in Snapshot : e = SnapshotEntry(id, m)
    BY EntryMade
  <2>2. PICK t1 : t1 = register_base_snapshot(s, id, m)
    OBVIOUS
  <2>3. Registered(s, t1, Snapshot, e)
    BY <2>1, <2>2, SnapshotRegistered
  <2>4. t \in Snapshots(Snapshot) /\ Newest(t, e)
    <3>1. CASE t = t1
      <4>1. t \in Snapshots(Snapshot)
        BY <2>3, <3>1 DEF Registered
      <4>2. Newest(t1, e)
        BY <2>3, RegisteredNewest
      <4>3. QED
        BY <3>1, <4>1, <4>2
    <3>2. CASE t = register_base_snapshot(t1, id, m)
      <4>1. t1 \in Snapshots(Snapshot)
        BY <2>3 DEF Registered
      <4>2. Registered(t1, t, Snapshot, e)
        BY <2>1, <3>2, <4>1, SnapshotRegistered
      <4>3. t \in Snapshots(Snapshot)
        BY <4>2 DEF Registered
      <4>4. Newest(t, e)
        BY <4>2, RegisteredNewest
      <4>5. QED
        BY <4>3, <4>4
    <3>3. QED
      BY <1>1, <2>2, <3>1, <3>2
  <2>5. Registered(r, r2, Snapshot, e)
    <3>1. r2 = register_base_snapshot(r, id, m)
      BY <1>1 DEF SnapshotsRead, BaseSnapshot
    <3>2. QED
      BY <2>1, <3>1, SnapshotRegistered
  <2>6. QED
    BY <2>4, <2>5, HeldAgain
<1>2. CASE msg.kind # "BaseSnapshot"
  BY <1>2 DEF SnapshotsRead
<1>3. QED
  BY <1>1, <1>2 DEF SnapTurn

\* Which snapshots arrived: the last one sent under the id was not lost.
Snaps(l, j, id) == l[j].msg.kind = "BaseSnapshot" /\ l[j].msg.base_id = id

LastSnap(l, i, id, j) == /\ j \in 1..i /\ Snaps(l, j, id)
                         /\ \A k \in 1..i : Snaps(l, k, id) => k <= j

ArrivedIds(l, i) == {id \in SnapshotIds : \E j \in 1..i : LastSnap(l, i, id, j) /\ ~l[j].lost}

\* One message further, the snapshots that arrived are those before and at
\* most that of the message.
LEMMA ArrivedNext ==
    ASSUME NEW l, NEW i \in Nat
    PROVE  /\ ArrivedIds(l, i + 1) \subseteq ArrivedIds(l, i) \cup
                  {id \in {l[i + 1].msg.base_id} : l[i + 1].msg.kind = "BaseSnapshot"}
           /\ l[i + 1].lost =>
                 /\ ArrivedIds(l, i + 1) \subseteq ArrivedIds(l, i)
                 /\ l[i + 1].msg.kind = "BaseSnapshot"
                       => l[i + 1].msg.base_id \notin ArrivedIds(l, i + 1)
           /\ l[i + 1].msg.kind # "BaseSnapshot" => ArrivedIds(l, i) \subseteq ArrivedIds(l, i + 1)
<1>1. ASSUME NEW id \in SnapshotIds, NEW j \in 1..i + 1, LastSnap(l, i + 1, id, j)
      PROVE  (j \in 1..i /\ LastSnap(l, i, id, j)) \/ (j = i + 1 /\ Snaps(l, i + 1, id))
  BY <1>1 DEF LastSnap
<1>2. ASSUME NEW id \in SnapshotIds, NEW j \in 1..i + 1, LastSnap(l, i + 1, id, j),
             Snaps(l, i + 1, id)
      PROVE  j = i + 1
  BY <1>2 DEF LastSnap
<1>3. ASSUME NEW id \in SnapshotIds, NEW j \in 1..i, LastSnap(l, i, id, j),
             l[i + 1].msg.kind # "BaseSnapshot"
      PROVE  j \in 1..i + 1 /\ LastSnap(l, i + 1, id, j)
  BY <1>3 DEF LastSnap, Snaps
<1>4. QED
  BY <1>1, <1>2, <1>3 DEF ArrivedIds, Snaps

\* The snapshots that arrived are read off the messages and their losses
\* alone.
LEMMA ArrivedSame ==
    ASSUME NEW l, NEW l2, NEW i \in Nat,
           \A j \in 1..i : l2[j].msg = l[j].msg /\ l2[j].lost = l[j].lost
    PROVE  ArrivedIds(l2, i) = ArrivedIds(l, i)
<1>1. \A id \in SnapshotIds, j \in 1..i : LastSnap(l2, i, id, j) <=> LastSnap(l, i, id, j)
  BY DEF LastSnap, Snaps
<1>2. QED
  BY <1>1 DEF ArrivedIds

\* The last one of several.
LEMMA Latest ==
    ASSUME NEW n \in Nat, NEW J \in SUBSET (1..n), J # {}
    PROVE  \E m \in J : \A k \in J : k <= m
<1>1. PICK T : T = {n - j : j \in J}
  OBVIOUS
<1>2. T \in SUBSET Nat /\ T # {}
  <2>1. \A j \in J : j \in 1..n
    OBVIOUS
  <2>2. \A j \in 1..n : n - j \in Nat
    OBVIOUS
  <2>3. PICK j \in J : TRUE
    OBVIOUS
  <2>4. QED
    BY <1>1, <2>1, <2>2, <2>3
<1>3. PICK t \in T : \A k \in T : t <= k
  BY <1>2, Smallest
<1>4. PICK m \in J : t = n - m
  BY <1>1
<1>5. \A k \in J : k <= m
  BY <1>1, <1>3, <1>4
<1>6. QED
  BY <1>5

\* The snapshots and the previous message a sender had after any message are
\* well formed.
LEMMA SnapsTyped ==
    ASSUME NEW l, LogOK(l), NEW i \in 0..Len(l)
    PROVE  SnapsAt(l, i) \in Snapshots(Snapshot) /\ PreviousOK(PrevAt(l, i))
<1>1. << >> \in Snapshots(Snapshot)
  BY SnapshotsBounded DEF Snapshots, IdsApart
<1>2. Len(l) \in Nat
  BY LenProperties DEF LogOK
<1>3. QED
  BY <1>1, <1>2 DEF LogOK, EntryOK, SnapsAt, PrevAt, PreviousOK

\* A snapshot that patches can be applied to was sent as such.
Origin(l, i) ==
    \A k \in 1..Len(SnapsAt(l, i)) :
        LET e == SnapsAt(l, i)[k]
        IN  e.msg.kind \in Patchable =>
               e.id \in SnapshotIds /\ \E j \in 1..i : Snaps(l, j, e.id)

\* If the snapshots a sender held come from its messages, they still do one
\* message further.
LEMMA OriginTurn ==
    ASSUME NEW l, LogOK(l), NEW i \in 1..Len(l), Origin(l, i - 1)
    PROVE  Origin(l, i)
<1>1. PICK s \in Snapshots(Snapshot) : s = SnapsAt(l, i - 1)
  <2>1. Len(l) \in Nat
    BY LenProperties DEF LogOK
  <2>2. i - 1 \in 0..Len(l)
    BY <2>1
  <2>3. QED
    BY <2>2, SnapsTyped
<1>2. PICK t : t = SnapsAt(l, i)
  OBVIOUS
<1>3. t = l[i].snapshots
  BY <1>2 DEF SnapsAt
<1> DEFINE Known(r) == \A k \in 1..Len(r) : r[k].msg.kind \in Patchable =>
                          r[k].id \in SnapshotIds /\ \E j \in 1..i : Snaps(l, j, r[k].id)
<1>4. Known(s)
  <2>1. \A j \in 1..i - 1 : j \in 1..i
    OBVIOUS
  <2>2. QED
    BY <1>1, <2>1 DEF Origin
<1>5. ASSUME NEW r \in Snapshots(Snapshot), Known(r), NEW id, NEW m \in WellMade,
             id \in SnapshotIds \cup Nat,
             m.kind \in Patchable => id \in SnapshotIds /\ Snaps(l, i, id),
             NEW u, u = register_base_snapshot(r, id, m)
      PROVE  u \in Snapshots(Snapshot) /\ Known(u)
  <2>1. PICK e \in Snapshot : e = SnapshotEntry(id, m) /\ e.id = id /\ e.msg = m
    <3>1. PICK n \in SnapshotIds \cup Nat : n = id
      BY <1>5
    <3>2. QED
      BY <3>1, EntryMade
  <2>2. Registered(r, u, Snapshot, e)
    BY <1>5, <2>1, SnapshotRegistered
  <2>3. \A p \in 1..Len(u) : u[p] = e \/ \E k \in 1..Len(r) : u[p] = r[k]
    BY <2>2 DEF Registered
  <2>4. Known(u)
    BY <1>5, <2>1, <2>3
  <2>5. QED
    BY <2>2, <2>4 DEF Registered
<1> HIDE DEF Known
<1>6. SnapTurn(s, l[i].msg, t)
  BY <1>1, <1>3 DEF LogOK
<1>7. ASSUME NEW id \in SnapshotIds, NEW m \in WellMade, l[i].msg = BaseSnapshot(id, m),
             \/ t = register_base_snapshot(s, id, m)
             \/ t = register_base_snapshot(register_base_snapshot(s, id, m), id, m)
      PROVE  Known(t)
  <2>1. Snaps(l, i, id)
    BY <1>7 DEF Snaps, BaseSnapshot
  <2>2. PICK t1 : t1 = register_base_snapshot(s, id, m)
    OBVIOUS
  <2>3. t1 \in Snapshots(Snapshot) /\ Known(t1)
    BY <1>4, <1>5, <2>1, <2>2
  <2>4. t = register_base_snapshot(t1, id, m) => Known(t)
    BY <1>5, <2>1, <2>3
  <2>5. QED
    BY <1>7, <2>2, <2>3, <2>4
<1>8. ASSUME NEW id \in Nat, NEW m \in WellMade, m.kind \notin Patchable,
             t = register_base_snapshot(s, id, m)
      PROVE  Known(t)
  BY <1>4, <1>5, <1>8
<1>9. Known(t)
  BY <1>4, <1>6, <1>7, <1>8 DEF SnapTurn
<1>10. QED
  BY <1>2, <1>9 DEF Origin, Known

\* The snapshots a sender held at any time come from its messages.
LEMMA Origins ==
    ASSUME NEW l, LogOK(l), NEW i \in 0..Len(l)
    PROVE  Origin(l, i)
<1>1. PICK n \in Nat : n = Len(l)
  BY LenProperties DEF LogOK
<1> DEFINE T == {j \in 0..n : Origin(l, j)}
<1>2. 0 \in T
  <2>1. SnapsAt(l, 0) = << >>
    BY DEF SnapsAt
  <2>2. QED
    BY <2>1 DEF Origin
<1>3. \A j \in 1..n : j - 1 \in T => j \in T
  BY <1>1, OriginTurn
<1>4. 0..n \subseteq T
  <2> HIDE DEF T
  <2>1. QED
    BY <1>2, <1>3, UpTo
<1>5. QED
  BY <1>1, <1>4

-----------------------------------------------------------------------------
(* Applying a patch. *)

\* Two messages that differ in their fields at most, and in the second of
\* which the fields suit the head.
SameHead(base, kept) == /\ Alike(base, kept) /\ kept.keys = base.keys
                        /\ kept.shape = base.shape /\ kept.type = base.type

\* Two arrays, or two vectors, that are alike differ in their elements alone.
LEMMA ArrayHeads ==
    ASSUME NEW base, NEW kept, Alike(base, kept), kept.kind \in {"Array", "TypedVector"}
    PROVE  SameHead(base, kept)
BY DEF Alike, WellMade, SameHead

\* Rebuilding a message on a base of the same head gives the message the
\* sender kept.
LEMMA RebuiltExactly ==
    ASSUME NEW base, NEW kept, SameHead(base, kept)
    PROVE  rebuild_message_like(base, kept.fields) = kept
<1>1. PICK fields \in Seq(Atoms) : fields = kept.fields
  BY DEF SameHead, Alike, WellMade, Messages
<1>2. PICK n \in Nat : n = Len(fields) /\ DOMAIN fields = 1..n
  BY LenProperties
<1>3. PICK keys \in Seq(Key) : keys = base.keys /\ keys = kept.keys
  BY DEF SameHead, Alike, WellMade, Messages
<1>4. base \in WellMade /\ kept \in WellMade /\ base.kind = kept.kind /\ base.kind \in Patchable
  BY DEF SameHead, Alike, Patchable
<1>5. base.kind = "Map" => Len(keys) = n /\ SubSeq(keys, 1, n) = keys
  <2> SUFFICES ASSUME base.kind = "Map" PROVE Len(keys) = n /\ SubSeq(keys, 1, n) = keys
    OBVIOUS
  <2>1. Len(keys) = n
    BY <1>1, <1>2, <1>3, <1>4 DEF WellMade
  <2>2. SubSeq(keys, 1, n) \in Seq(Key) /\ Len(SubSeq(keys, 1, n)) = n
        /\ \A i \in 1..n : SubSeq(keys, 1, n)[i] = keys[i]
    <3>1. \A i \in 1..n : keys[i] \in Key
      BY <2>1, ElementOfSeq
    <3>2. QED
      BY <3>1, SubSeqProperties
  <2>3. QED
    BY <2>1, <2>2, SeqEqual
<1>6. base.kind = "TypedVector" => \A i \in DOMAIN fields : Type[fields[i].atom] = base.type
  BY <1>1, <1>2, <1>4 DEF WellMade, SameHead
<1>7. rebuild_message_like(base, fields) =
         [base EXCEPT !.fields = fields, !.keys = keys]
  <2>1. ~(base.kind = "Map" /\ Len(fields) > Len(base.keys))
    BY <1>2, <1>3, <1>5
  <2>2. keys = IF base.kind = "Map" THEN SubSeq(base.keys, 1, Len(fields)) ELSE base.keys
    BY <1>2, <1>3, <1>5
  <2>3. ~(base.kind = "TypedVector" /\ \E i \in DOMAIN fields : Type[fields[i].atom] # base.type)
    BY <1>6
  <2>4. QED
    BY <1>4, <2>1, <2>2, <2>3 DEF rebuild_message_like
<1>8. /\ base = [kind |-> base.kind, keys |-> base.keys, shape |-> base.shape,
                 type |-> base.type, fields |-> base.fields]
      /\ kept = [kind |-> kept.kind, keys |-> kept.keys, shape |-> kept.shape,
                 type |-> kept.type, fields |-> kept.fields]
  BY <1>4 DEF WellMade, Messages
<1>9. [base EXCEPT !.fields = fields, !.keys = keys] = kept
  BY <1>1, <1>3, <1>4, <1>8 DEF SameHead
<1>10. QED
  BY <1>1, <1>7, <1>9

\* What comes of the patch from fields a to kept: unless the list shrinks by
\* two or more, kept, and else an error and no change.
Outcome(d, before, a, kept) ==
    IF Len(a) <= Len(kept.fields) + 1
    THEN d.res = "ok" /\ d.session.previous = kept
    ELSE d.res = InvalidData /\ d.session.previous = before

\* A patch on the base it was made for gives the sender's value when it
\* deletes at most one element, and an error otherwise.
LEMMA PatchOutcome ==
    ASSUME NEW L, NEW s, SessionOK(s, L), NEW msg, PatchOK(msg),
           KnowsBase(s, msg.base_ref), NEW base, base = BaseOf(s, msg.base_ref),
           NEW kept, TurnsInto(base, kept, msg.ops), SameHead(base, kept)
    PROVE  Outcome(decode_message(s, msg), s.previous, base.fields, kept)
<1>1. decode_message(s, msg) = decode_patch(s, msg)
  BY PatchParts DEF decode_message
<1>2. write_message(s, msg) = s
  BY WrittenRest
<1>3. PICK a \in Seq(Atoms), b \in Seq(Atoms) : a = base.fields /\ b = kept.fields
  BY DEF SameHead, Alike, WellMade, Messages
<1>4. PICK acc : acc = apply_ops(a, diff_fields(a, b))
  OBVIOUS
<1>5. /\ Len(a) <= Len(b) + 1 => acc = Going(b)
      /\ Len(a) > Len(b) + 1 => acc.failed
  BY <1>4, AtomsTyped, DiffApplied
<1>6. PICK new : new = apply_state_patch(base, msg.ops)
  OBVIOUS
<1>7. new = IF acc.failed THEN InvalidData ELSE rebuild_message_like(base, acc.fields)
  BY <1>3, <1>4, <1>6 DEF apply_state_patch, TurnsInto
<1>8. kept # InvalidData
  BY ResultsTellApart DEF SameHead, Alike, WellMade
<1>9. Len(a) \in Nat /\ Len(b) \in Nat
  BY LenProperties
<1>10. CASE Len(a) <= Len(b) + 1
  <2>1. new = kept
    BY <1>3, <1>5, <1>7, <1>10, RebuiltExactly DEF Going
  <2>2. decode_patch(s, msg) = Decoded([s EXCEPT !.previous = kept], "ok")
    BY <1>2, <1>6, <1>8, <2>1 DEF decode_patch
  <2>3. PICK d : d = decode_patch(s, msg)
    OBVIOUS
  <2>4. d.res = "ok" /\ d.session.previous = kept
    BY <2>2, <2>3 DEF Decoded, SessionOK
  <2>5. QED
    BY <1>1, <1>3, <1>10, <2>3, <2>4 DEF Outcome
<1>11. CASE Len(a) > Len(b) + 1
  <2>1. new = InvalidData
    BY <1>5, <1>7, <1>11
  <2>2. decode_patch(s, msg) = Decoded(s, InvalidData)
    BY <1>2, <1>6, <2>1 DEF decode_patch
  <2>3. PICK d : d = decode_patch(s, msg)
    OBVIOUS
  <2>4. d.res = InvalidData /\ d.session.previous = s.previous
    BY <2>2, <2>3 DEF Decoded
  <2>5. QED
    BY <1>1, <1>3, <1>9, <1>11, <2>3, <2>4 DEF Outcome
<1>12. QED
  BY <1>9, <1>10, <1>11

\* The base that a patch names, when its snapshot is held.
LEMMA NamedOutcome ==
    ASSUME NEW L, NEW s, SessionOK(s, L), NEW msg, PatchOK(msg), ~msg.base_ref.previous,
           NEW r \in Snapshots(Snapshot), NEW kept, NEW t, NamedTurn(r, msg, kept, t),
           NEW ids, Held(r, s.base_snapshots, ids), msg.base_ref.id \in ids
    PROVE  \E base : /\ TurnsInto(base, kept, msg.ops) /\ SameHead(base, kept)
                     /\ Outcome(decode_message(s, msg), s.previous, base.fields, kept)
<1>1. msg.kind = "StatePatch"
  BY PatchParts
<1>2. PICK k \in 1..Len(r) : r[k].id = msg.base_ref.id /\ TurnsInto(r[k].msg, kept, msg.ops)
  BY <1>1 DEF NamedTurn
<1>3. kept.kind \in {"Array", "TypedVector"}
  BY <1>1 DEF NamedTurn
<1>4. PICK base : base = r[k].msg
  OBVIOUS
<1>5. TurnsInto(base, kept, msg.ops) /\ SameHead(base, kept)
  BY <1>2, <1>3, <1>4, ArrayHeads DEF TurnsInto
<1>6. base.kind \in Patchable
  BY <1>3, <1>5 DEF SameHead, Alike, Patchable
<1>7. PICK l \in 1..Len(s.base_snapshots) : s.base_snapshots[l] = r[k]
  BY <1>2, <1>4, <1>6 DEF Held
<1>8. s.base_snapshots \in Snapshots(Snapshot)
  BY DEF SessionOK
<1>9. /\ msg.base_ref.id \in IdsOf(s.base_snapshots)
      /\ get_base_snapshot(s.base_snapshots, msg.base_ref.id) = base
  BY <1>2, <1>4, <1>7, <1>8, SnapshotFound
<1>10. KnowsBase(s, msg.base_ref) /\ base = BaseOf(s, msg.base_ref)
  BY <1>9 DEF KnowsBase, BaseOf
<1>11. Outcome(decode_message(s, msg), s.previous, base.fields, kept)
  BY <1>5, <1>10, PatchOutcome
<1>12. QED
  BY <1>5, <1>11

-----------------------------------------------------------------------------
(* The snapshots the receiver has, and the patches to them. *)

HInv == Held(SnapsAt(log, pos), rcv.base_snapshots, ArrivedIds(log, pos))

\* The receiver decodes a buffer for the first time, or the last one again.
LEMMA HeldDecode ==
    ASSUME TInv, HInv, NEW i \in 1..Len(log),
           \/ i = pos + 1
           \/ i = pos,
           NEW d, d = decode_message(rcv, log[i].msg)
    PROVE  Held(SnapsAt(log, i), d.session.base_snapshots, ArrivedIds(log, i))
<1>1. Len(log) \in Nat /\ LogOK(log) /\ pos \in 0..Len(log)
  BY LenProperties DEF TInv, LogOK
<1>2. PICK h \in 0..Len(log) : i = h + 1
  <2>1. i - 1 \in 0..Len(log) /\ i = i - 1 + 1
    BY <1>1
  <2>2. QED
    BY <2>1
<1>3. PICK s \in Snapshots(Snapshot) : s = SnapsAt(log, h)
  BY <1>1, <1>2, SnapsTyped
<1>4. PICK r \in Snapshots(Snapshot) : r = rcv.base_snapshots
  BY DEF TInv, SessionOK
<1>5. PICK t : t = SnapsAt(log, i) /\ t = log[i].snapshots
  BY <1>1 DEF SnapsAt
<1>6. PICK msg : msg = log[i].msg
  OBVIOUS
<1>7. SnapTurn(s, msg, t)
  <2>1. i - 1 = h
    BY <1>1, <1>2
  <2>2. QED
    BY <1>1, <1>3, <1>5, <1>6, <2>1 DEF LogOK
<1>8. PICK r2 : r2 = d.session.base_snapshots
  OBVIOUS
<1>9. SnapshotsRead(r, msg, r2)
  <2>1. DecodedOK(rcv, d, msg, Seq(Key))
    BY <1>6, Received
  <2>2. QED
    BY <1>4, <1>8, <2>1 DEF DecodedOK, SnapshotsRead
<1>10. CASE i = pos + 1
  <2>1. h = pos
    BY <1>1, <1>2, <1>10
  <2>2. Held(s, r, ArrivedIds(log, h))
    BY <1>3, <1>4, <2>1 DEF HInv
  <2>3. ArrivedIds(log, i) \subseteq ArrivedIds(log, h) \cup
              {id \in {msg.base_id} : msg.kind = "BaseSnapshot"}
    BY <1>2, <1>6, ArrivedNext
  <2>4. Held(t, r2, ArrivedIds(log, i))
    BY <1>7, <1>9, <2>2, <2>3, HeldTurn
  <2>5. QED
    BY <1>5, <1>8, <2>4
<1>11. CASE i = pos
  <2>1. Held(t, r, ArrivedIds(log, i))
    BY <1>4, <1>5, <1>11 DEF HInv
  <2>2. Held(t, r2, ArrivedIds(log, i))
    BY <1>7, <1>9, <2>1, HeldRepeat
  <2>3. QED
    BY <1>5, <1>8, <2>2
<1>12. QED
  BY <1>10, <1>11

\* A loss keeps the invariant on what the sender held.
LEMMA HeldLose == ASSUME TInv, HInv, Lose PROVE HInv'
<1>1. Len(log) \in Nat /\ LogOK(log) /\ pos \in 0..Len(log)
  BY LenProperties DEF TInv, LogOK
<1>2. /\ SameButLost(log, log') /\ pos' = pos + 1 /\ pos + 1 \in 1..Len(log)
      /\ log'[pos + 1].lost = TRUE /\ \A i \in 1..Len(log) : i # pos + 1 => log'[i] = log[i]
      /\ UNCHANGED << snd, rcv >>
  BY <1>1, LoseMarks
<1>3. PICK l2 : l2 = log'
  OBVIOUS
<1>4. PICK p \in Nat : p = pos /\ p + 1 \in 1..Len(log)
  BY <1>1, <1>2
<1>5. PICK s \in Snapshots(Snapshot) : s = SnapsAt(log, p)
  BY <1>1, <1>4, SnapsTyped
<1>6. PICK r \in Snapshots(Snapshot) : r = rcv.base_snapshots
  BY DEF TInv, SessionOK
<1>7. PICK msg : msg = log[p + 1].msg
  OBVIOUS
<1>8. PICK t : t = log[p + 1].snapshots
  OBVIOUS
<1>9. SnapTurn(s, msg, t)
  <2>1. p + 1 - 1 = p
    BY <1>4
  <2>2. QED
    BY <1>1, <1>4, <1>5, <1>7, <1>8, <2>1 DEF LogOK
<1>10. l2[p + 1].msg = msg /\ l2[p + 1].lost /\ SnapsAt(l2, p + 1) = t
  <2>1. l2[p + 1].msg = msg /\ l2[p + 1].snapshots = t
    BY <1>2, <1>3, <1>4, <1>7, <1>8 DEF SameButLost
  <2>2. l2[p + 1].lost = TRUE
    BY <1>2, <1>3, <1>4
  <2>3. p + 1 # 0
    BY <1>4
  <2>4. QED
    BY <2>1, <2>2, <2>3 DEF SnapsAt
<1>11. ArrivedIds(l2, p) = ArrivedIds(log, p)
  <2>1. \A i \in 1..p : i \in 1..Len(log) /\ i # p + 1
    BY <1>1, <1>4
  <2>2. \A i \in 1..p : l2[i].msg = log[i].msg /\ l2[i].lost = log[i].lost
    BY <1>2, <1>3, <1>4, <2>1
  <2>3. QED
    BY <2>2, ArrivedSame
<1>12. /\ ArrivedIds(l2, p + 1) \subseteq ArrivedIds(log, p)
       /\ msg.kind = "BaseSnapshot" => msg.base_id \notin ArrivedIds(l2, p + 1)
  BY <1>10, <1>11, ArrivedNext
<1>13. Held(s, r, ArrivedIds(log, p))
  BY <1>4, <1>5, <1>6 DEF HInv
<1>14. Held(t, r, ArrivedIds(l2, p + 1))
  BY <1>9, <1>12, <1>13, HeldLost
<1>15. QED
  BY <1>2, <1>3, <1>4, <1>6, <1>10, <1>14 DEF HInv

\* Every step keeps the invariant on what the sender held.
LEMMA HeldInductive == TInv /\ HInv /\ [Next]_vars => HInv'
<1> SUFFICES ASSUME TInv, HInv, [Next]_vars PROVE HInv'
  OBVIOUS
<1>1. Len(log) \in Nat /\ LogOK(log) /\ pos \in 0..Len(log)
  BY LenProperties DEF TInv, LogOK
<1>2. CASE Encodes
  <2>1. PICK session, msg, kept : Sends(session, msg, kept) /\ Sent(session, msg, kept)
    BY <1>2, EncodesSends DEF TInv
  <2>2. PICK e : SentAs(e, msg, kept, snd') /\ Longer(log, log', e)
    BY <2>1, SentTyped
  <2>3. UNCHANGED << rcv, pos >>
    BY <2>1, SentTyped
  <2>4. \A i \in 0..Len(log) : SnapsAt(log', i) = SnapsAt(log, i)
    BY <1>1, <2>2, LogLonger DEF SentAs
  <2>5. PICK p \in Nat : p = pos
    BY <1>1
  <2> PICK l2 : l2 = log'
    OBVIOUS
  <2>6. \A j \in 1..p : l2[j] = log[j]
    BY <1>1, <2>2, <2>5 DEF Longer
  <2>7. ArrivedIds(l2, p) = ArrivedIds(log, p)
    BY <2>6, ArrivedSame
  <2>8. QED
    BY <1>1, <2>3, <2>4, <2>5, <2>7 DEF HInv
<1>3. CASE Decode
  <2>1. pos + 1 \in 1..Len(log) /\ ReceiverDecodes(pos + 1)
        /\ pos' = pos + 1 /\ log' = log
    BY <1>1, <1>3 DEF Decode
  <2>2. PICK d : d = decode_message(rcv, log[pos + 1].msg) /\ rcv' = d.session
    BY <2>1 DEF ReceiverDecodes
  <2>3. Held(SnapsAt(log, pos + 1), d.session.base_snapshots, ArrivedIds(log, pos + 1))
    BY <2>1, <2>2, HeldDecode
  <2>4. QED
    BY <2>1, <2>2, <2>3 DEF HInv
<1>4. CASE DecodeAgain
  <2>1. pos \in 1..Len(log) /\ ReceiverDecodes(pos) /\ pos' = pos /\ log' = log
    BY <1>1, <1>4 DEF DecodeAgain
  <2>2. PICK d : d = decode_message(rcv, log[pos].msg) /\ rcv' = d.session
    BY <2>1 DEF ReceiverDecodes
  <2>3. Held(SnapsAt(log, pos), d.session.base_snapshots, ArrivedIds(log, pos))
    BY <2>1, <2>2, HeldDecode
  <2>4. QED
    BY <2>1, <2>2, <2>3 DEF HInv
<1>5. CASE Lose
  BY <1>5, HeldLose
<1>6. CASE reset_state
  <2>1. pos' = 0
    BY <1>6 DEF reset_state
  <2>2. SnapsAt(log', 0) = << >>
    BY DEF SnapsAt
  <2>3. QED
    BY <2>1, <2>2 DEF HInv, Held
<1>7. CASE UNCHANGED vars
  BY <1>7 DEF vars, HInv
<1>8. QED
  BY <1>2, <1>3, <1>4, <1>5, <1>6, <1>7, StepsAre

\* The invariant on what the sender held is true in every reachable state.
LEMMA HeldAlways == Spec => [](TInv /\ HInv)
<1>1. Init => HInv
  <2> SUFFICES ASSUME Init PROVE HInv
    OBVIOUS
  <2>1. pos = 0 /\ SnapsAt(log, 0) = << >>
    BY DEF Init, SnapsAt
  <2>2. QED
    BY <2>1 DEF HInv, Held
<1>2. QED
  BY <1>1, TypedAlways, HeldInductive, PTL DEF Spec

\* Without a loss every snapshot that a patch can name was received.
LEMMA AllArrived ==
    ASSUME TInv, NEW i \in 0..Len(log), \A j \in 1..i : ~log[j].lost,
           NEW k \in 1..Len(SnapsAt(log, i)), SnapsAt(log, i)[k].msg.kind \in Patchable
    PROVE  SnapsAt(log, i)[k].id \in ArrivedIds(log, i)
<1>1. Origin(log, i) /\ Len(log) \in Nat
  BY Origins, LenProperties DEF TInv, LogOK
<1>2. PICK id : id = SnapsAt(log, i)[k].id
  OBVIOUS
<1>3. id \in SnapshotIds /\ \E j \in 1..i : Snaps(log, j, id)
  BY <1>1, <1>2 DEF Origin
<1>4. PICK J \in SUBSET (1..i) : J = {j \in 1..i : Snaps(log, j, id)}
  OBVIOUS
<1>5. PICK m \in J : \A j \in J : j <= m
  <2>1. i \in Nat /\ J # {}
    BY <1>1, <1>3, <1>4
  <2>2. QED
    BY <2>1, Latest
<1>6. LastSnap(log, i, id, m) /\ ~log[m].lost
  BY <1>4, <1>5 DEF LastSnap
<1>7. QED
  BY <1>2, <1>3, <1>6 DEF ArrivedIds, LastSnap

\* Every snapshot of an application that the sender can still name is at the
\* receiver: what the sender registers alone are its batches, and these only
\* push snapshots out at the sender.
THEOREM SnapshotsAtReceiver == Spec => []SnapshotsHeld
<1>1. TInv /\ HInv => SnapshotsHeld
  <2> SUFFICES ASSUME TInv, HInv, Lost = {}, pos > 0, NEW k \in DOMAIN log[pos].snapshots,
                      log[pos].snapshots[k].msg.kind \in Patchable
               PROVE  \E j \in DOMAIN rcv.base_snapshots :
                          rcv.base_snapshots[j] = log[pos].snapshots[k]
    BY DEF SnapshotsHeld
  <2>1. Len(log) \in Nat /\ LogOK(log) /\ pos \in 1..Len(log) /\ pos \in 0..Len(log)
    BY LenProperties DEF TInv, LogOK
  <2>2. PICK s \in Snapshots(Snapshot) : s = SnapsAt(log, pos) /\ s = log[pos].snapshots
    <3>1. SnapsAt(log, pos) = log[pos].snapshots
      BY <2>1 DEF SnapsAt
    <3>2. QED
      BY <2>1, <3>1, SnapsTyped
  <2>3. k \in 1..Len(s)
    BY <2>2, LenProperties DEF Snapshots
  <2>4. \A j \in 1..pos : ~log[j].lost
    <3>1. DOMAIN log = 1..Len(log)
      BY LenProperties DEF TInv, LogOK
    <3>2. QED
      BY <2>1, <3>1 DEF Lost
  <2>5. s[k].id \in ArrivedIds(log, pos)
    BY <2>1, <2>2, <2>3, <2>4, AllArrived
  <2>6. PICK j \in 1..Len(rcv.base_snapshots) : rcv.base_snapshots[j] = s[k]
    BY <2>2, <2>3, <2>5 DEF HInv, Held
  <2>7. DOMAIN rcv.base_snapshots = 1..Len(rcv.base_snapshots)
    BY LenProperties DEF TInv, SessionOK, Snapshots
  <2>8. QED
    BY <2>2, <2>6, <2>7
<1>2. QED
  BY <1>1, HeldAlways, PTL

-----------------------------------------------------------------------------
(* Patches to a snapshot that arrived. *)

\* What comes of a patch, by the patch alone: with two deletions or more an
\* error and no change.
PatchResult(d, before, msg, kept) ==
    IF Cardinality(Deletions(msg)) >= 2
    THEN d.res = InvalidData /\ d.session.previous = before
    ELSE d.res = "ok" /\ d.session.previous = kept

\* Both ways to say so are the same.
LEMMA OutcomeByDeletions ==
    ASSUME NEW msg, PatchOK(msg), NEW base, NEW kept, TurnsInto(base, kept, msg.ops),
           NEW d, NEW before, Outcome(d, before, base.fields, kept)
    PROVE  PatchResult(d, before, msg, kept)
<1>1. PICK a \in Seq(Atoms), b \in Seq(Atoms) : a = base.fields /\ b = kept.fields
  BY DEF TurnsInto, Alike, WellMade, Messages
<1>2. PICK ref : ref = msg.base_ref
  OBVIOUS
<1>3. msg = StatePatch(ref, diff_fields(a, b))
  BY <1>1, <1>2 DEF PatchOK, TurnsInto
<1>4. Cardinality(Deletions(StatePatch(ref, diff_fields(a, b)))) >= 2 <=> Len(a) > Len(b) + 1
  BY AtomsTyped, DiffDeletions
<1>5. Len(a) \in Nat /\ Len(b) \in Nat
  BY LenProperties
<1>6. Cardinality(Deletions(msg)) >= 2 <=> ~(Len(a) <= Len(b) + 1)
  BY <1>3, <1>4, <1>5
<1>7. QED
  BY <1>1, <1>6 DEF Outcome, PatchResult

\* What is a patch by its kind is one in its parts.
LEMMA PatchAmong ==
    ASSUME NEW msg, MsgOK(msg), msg.kind = "StatePatch"
    PROVE  PatchOK(msg)
<1>1. \A n : TemplateBatch(n).kind = "TemplateBatch"
  BY DEF TemplateBatch
<1>2. \A id, m : BaseSnapshot(id, m).kind = "BaseSnapshot"
  BY DEF BaseSnapshot
<1>3. \A m \in WellMade : m.kind # "StatePatch"
  BY DEF WellMade, Messages
<1>4. ~ReadableMap(msg, Key, Atoms) /\ ~ShapedOK(msg)
  BY DEF ReadableMap, ShapedOK
<1>5. QED
  BY <1>1, <1>2, <1>3, <1>4 DEF MsgOK

\* The receiver decodes a patch to a snapshot that arrived and was not
\* replaced, for the first time or again.
LEMMA NamedDecode ==
    ASSUME TInv, HInv, NEW i \in 1..Len(log),
           \/ i = pos + 1
           \/ i = pos,
           NamesBase(i), log[i].msg.base_ref.id \in ArrivedIds(log, i),
           NEW d, d = decode_message(rcv, log[i].msg)
    PROVE  PatchResult(d, rcv.previous, log[i].msg, log[i].kept)
<1>1. Len(log) \in Nat /\ LogOK(log) /\ pos \in 0..Len(log)
  BY LenProperties DEF TInv, LogOK
<1>2. PICK h \in 0..Len(log) : i = h + 1
  <2>1. i - 1 \in 0..Len(log) /\ i = i - 1 + 1
    BY <1>1
  <2>2. QED
    BY <2>1
<1>3. PICK s \in Snapshots(Snapshot) : s = SnapsAt(log, h)
  BY <1>1, <1>2, SnapsTyped
<1>4. PICK msg, kept : msg = log[i].msg /\ kept = log[i].kept
  OBVIOUS
<1>5. msg.kind = "StatePatch" /\ ~msg.base_ref.previous
  BY <1>4 DEF NamesBase
<1>6. PICK t : t = log[i].snapshots /\ t = SnapsAt(log, i)
  BY <1>1 DEF SnapsAt
<1>7. MsgOK(msg) /\ NamedTurn(s, msg, kept, t)
  <2>1. i - 1 = h
    BY <1>1, <1>2
  <2>2. QED
    BY <1>1, <1>3, <1>4, <1>6, <2>1 DEF LogOK, EntryOK
<1>8. PatchOK(msg)
  BY <1>5, <1>7, PatchAmong
<1>9. t = s
  BY <1>5, <1>7 DEF NamedTurn
<1>10. ArrivedIds(log, i) \subseteq ArrivedIds(log, h)
  <2>1. ArrivedIds(log, h + 1) \subseteq ArrivedIds(log, h) \cup
            {id \in {log[h + 1].msg.base_id} : log[h + 1].msg.kind = "BaseSnapshot"}
    BY <1>1, ArrivedNext
  <2>2. log[h + 1].msg.kind # "BaseSnapshot"
    BY <1>2, <1>4, <1>5
  <2>3. QED
    BY <1>2, <2>1, <2>2
<1>11. PICK ids : ids = ArrivedIds(log, i)
  OBVIOUS
<1>12. Held(s, rcv.base_snapshots, ids)
  <2>1. CASE i = pos
    BY <1>6, <1>9, <1>11, <2>1 DEF HInv
  <2>2. CASE i = pos + 1
    <3>1. h = pos
      BY <1>1, <1>2, <2>2
    <3>2. Held(s, rcv.base_snapshots, ArrivedIds(log, h))
      BY <1>3, <3>1 DEF HInv
    <3>3. QED
      BY <1>10, <1>11, <3>2 DEF Held
  <2>3. QED
    BY <2>1, <2>2
<1>13. SessionOK(rcv, Seq(Key)) /\ msg.base_ref.id \in ids
  BY <1>4, <1>11 DEF TInv
<1>14. PICK base : /\ TurnsInto(base, kept, msg.ops) /\ SameHead(base, kept)
                   /\ Outcome(decode_message(rcv, msg), rcv.previous, base.fields, kept)
  BY <1>5, <1>7, <1>8, <1>12, <1>13, NamedOutcome
<1>15. PatchResult(decode_message(rcv, msg), rcv.previous, msg, kept)
  BY <1>8, <1>14, OutcomeByDeletions
<1>16. QED
  BY <1>4, <1>15

\* It leaves the receiver with the message it was made from.
BInv == /\ pos > 0 /\ res = "ok" /\ NamesBase(pos)
        /\ log[pos].msg.base_ref.id \in ArrivedIds(log, pos)
        => rcv.previous = log[pos].kept

\* Every step keeps what a patch to an arrived snapshot left at the receiver.
LEMMA NamedInductive == TInv /\ HInv /\ BInv /\ [Next]_vars => BInv'
<1> SUFFICES ASSUME TInv, HInv, BInv, [Next]_vars PROVE BInv'
  OBVIOUS
<1>1. Len(log) \in Nat /\ LogOK(log) /\ pos \in 0..Len(log)
  BY LenProperties DEF TInv, LogOK
<1>2. CASE Encodes
  <2>1. PICK session, msg, kept : Sends(session, msg, kept) /\ Sent(session, msg, kept)
    BY <1>2, EncodesSends DEF TInv
  <2>2. PICK e : SentAs(e, msg, kept, snd') /\ Longer(log, log', e)
    BY <2>1, SentTyped
  <2>3. UNCHANGED << rcv, pos, res >>
    BY <2>1, SentTyped
  <2>4. PICK p \in Nat : p = pos
    BY <1>1
  <2>5. PICK l2 : l2 = log'
    OBVIOUS
  <2>6. \A j \in 1..p : l2[j] = log[j]
    BY <1>1, <2>2, <2>4, <2>5 DEF Longer
  <2>7. ArrivedIds(l2, p) = ArrivedIds(log, p)
    BY <2>6, ArrivedSame
  <2>8. p > 0 => l2[p] = log[p]
    BY <2>6
  <2>9. QED
    BY <2>3, <2>4, <2>5, <2>7, <2>8 DEF BInv, NamesBase
<1>3. ASSUME NEW i \in 1..Len(log), i = pos + 1 \/ i = pos,
             ReceiverDecodes(i), pos' = i, log' = log
      PROVE  BInv'
  <2>1. PICK d : d = decode_message(rcv, log[i].msg)
    OBVIOUS
  <2>2. rcv' = d.session /\ res' = d.res
    BY <1>3, <2>1 DEF ReceiverDecodes
  <2>3. SUFFICES ASSUME res' = "ok", NamesBase(i), log[i].msg.base_ref.id \in ArrivedIds(log, i)
                 PROVE  d.session.previous = log[i].kept
    BY <1>3, <2>2 DEF BInv, NamesBase
  <2>4. PatchResult(d, rcv.previous, log[i].msg, log[i].kept)
    BY <1>3, <2>1, <2>3, NamedDecode
  <2>5. QED
    BY <2>2, <2>3, <2>4, ResultsTellApart DEF PatchResult
<1>4. CASE Decode
  <2>1. pos + 1 \in 1..Len(log)
    BY <1>1, <1>4 DEF Decode
  <2>2. QED
    BY <1>3, <1>4, <2>1 DEF Decode
<1>5. CASE DecodeAgain
  <2>1. pos \in 1..Len(log)
    BY <1>1, <1>5 DEF DecodeAgain
  <2>2. QED
    BY <1>3, <1>5, <2>1 DEF DecodeAgain
<1>6. CASE Lose \/ reset_state
  BY <1>6, ResultsTellApart DEF Lose, reset_state, BInv
<1>7. CASE UNCHANGED vars
  BY <1>7 DEF vars, BInv, NamesBase
<1>8. QED
  BY <1>2, <1>4, <1>5, <1>6, <1>7, StepsAre

\* The last snapshot sent under the id a patch names: there is one, and if it
\* was not lost the id is among those that arrived.
LEMMA BaseAmongArrived ==
    ASSUME TInv, NEW i \in 1..Len(log), NamesBase(i), BaseArrived(i)
    PROVE  log[i].msg.base_ref.id \in ArrivedIds(log, i)
<1>1. Len(log) \in Nat /\ LogOK(log) /\ i - 1 \in 0..Len(log)
  BY LenProperties DEF TInv, LogOK
<1>2. PICK h \in 0..Len(log) : h = i - 1 /\ i = h + 1
  BY <1>1
<1>3. PICK s \in Snapshots(Snapshot) : s = SnapsAt(log, h)
  BY <1>1, <1>2, SnapsTyped
<1>4. PICK id : id = log[i].msg.base_ref.id
  OBVIOUS
<1>5. PICK k \in 1..Len(s) : s[k].id = id /\ s[k].msg.kind \in Patchable
  <2>1. NamedTurn(s, log[i].msg, log[i].kept, log[i].snapshots)
    BY <1>1, <1>2, <1>3 DEF LogOK
  <2>2. QED
    BY <1>4, <2>1 DEF NamedTurn, NamesBase, TurnsInto, Alike, Patchable
<1>6. id \in SnapshotIds /\ \E j \in 1..h : Snaps(log, j, id)
  BY <1>1, <1>3, <1>5, Origins DEF Origin
<1>7. PICK J \in SUBSET (1..h) : J = {j \in 1..h : Snaps(log, j, id)}
  OBVIOUS
<1>8. PICK m \in J : \A j \in J : j <= m
  <2>1. h \in Nat /\ J # {}
    BY <1>1, <1>2, <1>6, <1>7
  <2>2. QED
    BY <2>1, Latest
<1>9. Max(J) = m
  <2>1. J \in SUBSET Int
    BY <1>1, <1>7
  <2>2. \A x \in J : (\A y \in J : x >= y) => x = m
    BY <1>8, <2>1
  <2>3. \A y \in J : m >= y
    BY <1>8, <2>1
  <2>4. QED
    BY <2>2, <2>3, Zenon DEF Max
<1>10. ~log[m].lost
  <2>1. J = {j \in 1..i - 1 : IsSnapshot(j, id)}
    BY <1>2, <1>7 DEF Snaps, IsSnapshot
  <2>2. QED
    BY <1>4, <1>9, <2>1 DEF BaseArrived
<1>11. m \in 1..i /\ LastSnap(log, i, id, m)
  <2>1. ~Snaps(log, i, id)
    BY DEF Snaps, NamesBase
  <2>2. m \in 1..h /\ Snaps(log, m, id) /\ \A j \in 1..h : Snaps(log, j, id) => j <= m
    BY <1>7, <1>8
  <2>3. \A j \in 1..i : j \in 1..h \/ j = i
    BY <1>1, <1>2
  <2>4. m \in 1..i
    BY <1>1, <1>2, <2>2
  <2>5. QED
    BY <2>1, <2>2, <2>3, <2>4 DEF LastSnap
<1>12. QED
  BY <1>4, <1>6, <1>10, <1>11 DEF ArrivedIds

-----------------------------------------------------------------------------
(* The sender's previous message, when all maps have the same keys. *)

\* What fits a codec still does when it has registered more.
LEMMA SendableGrows ==
    ASSUME NEW m, NEW c, NEW d, Sendable(m, c), Grown(c, d)
    PROVE  Sendable(m, d)
BY DEF Sendable, Grown, ShapesKept

\* With one key list, two messages of a kind that fit the codec have the same
\* head: there is one shape at most.
LEMMA SameHeads ==
    ASSUME OneKeyList, NEW c, CodecOK(c, Key, KeyLists), NEW base, NEW kept,
           Alike(base, kept), Sendable(base, c), Sendable(kept, c)
    PROVE  SameHead(base, kept)
<1>1. \A k, l \in KeyLists : k = l
  BY DEF OneKeyList, KeyLists
<1>2. /\ base \in WellMade /\ kept \in WellMade /\ base.kind = kept.kind
      /\ kept.kind \in {"Array", "TypedVector", "Map", "ShapedObject"}
  BY DEF Alike
<1>3. CASE kept.kind \in {"Array", "TypedVector"}
  BY <1>3, ArrayHeads
<1>4. CASE kept.kind = "Map"
  <2>1. base.keys \in KeyLists /\ kept.keys \in KeyLists
    BY <1>2, <1>4 DEF Sendable
  <2>2. base.keys = kept.keys
    BY <1>1, <2>1
  <2>3. QED
    BY <1>2, <1>4, <2>2 DEF WellMade, SameHead
<1>5. CASE kept.kind = "ShapedObject"
  <2>1. PICK shapes : shapes = c.shape_table /\ ShapesOK(shapes, KeyLists)
    BY DEF CodecOK
  <2>2. base.shape \in DOMAIN shapes.by_id /\ kept.shape \in DOMAIN shapes.by_id
    BY <1>2, <1>5, <2>1 DEF Sendable
  <2>3. \A id \in DOMAIN shapes.by_id : shapes.by_id[id] \in KeyLists
    BY <2>1 DEF ShapesOK
  <2>4. shapes.by_id[base.shape] = shapes.by_id[kept.shape]
    BY <1>1, <2>2, <2>3
  <2>5. base.shape = kept.shape
    BY <2>1, <2>2, <2>4 DEF ShapesOK
  <2>6. QED
    BY <1>2, <1>5, <2>5 DEF WellMade, SameHead
<1>6. QED
  BY <1>2, <1>3, <1>4, <1>5

\* What the sender kept is a message it could send.
PrevSendable(s) ==
    s.previous \in WellMade /\ s.previous # None => Sendable(s.previous, s.codec)

\* A patch that is sent is one from a message with the same head.
LEMMA PatchSent ==
    ASSUME OneKeyList, SessionOK(snd, KeyLists), PrevSendable(snd),
           NEW session, NEW msg, NEW kept,
           Sends(session, msg, kept), SendsPatch(session, msg, kept)
    PROVE  \E base : /\ KnowsBase(session, msg.base_ref)
                     /\ base = BaseOf(session, msg.base_ref)
                     /\ TurnsInto(base, kept, msg.ops) /\ SameHead(base, kept)
<1>1. PICK base : /\ KnowsBase(snd, msg.base_ref) /\ base = BaseOf(snd, msg.base_ref)
                  /\ Alike(base, kept) /\ msg.ops = diff_fields(base.fields, kept.fields)
  BY DEF SendsPatch
<1>2. KnowsBase(session, msg.base_ref) /\ base = BaseOf(session, msg.base_ref)
  BY <1>1 DEF SendsPatch, KnowsBase, BaseOf
<1>3. TurnsInto(base, kept, msg.ops)
  BY <1>1 DEF TurnsInto
<1>4. CASE ~msg.base_ref.previous
  <2>1. kept.kind \in {"Array", "TypedVector"}
    BY <1>4 DEF SendsPatch
  <2>2. QED
    BY <1>1, <1>2, <1>3, <2>1, ArrayHeads
<1>5. CASE msg.base_ref.previous
  <2>1. base = snd.previous /\ base # None /\ base \in WellMade
    BY <1>1, <1>5 DEF KnowsBase, BaseOf, Alike
  <2>2. Sendable(base, snd.codec)
    BY <2>1 DEF PrevSendable
  <2>3. Sendable(base, session.codec)
    BY <2>2, SendableGrows DEF Sends
  <2>4. Sendable(kept, session.codec) /\ CodecOK(session.codec, Key, KeyLists)
    BY DEF SendsPatch, Sends, SessionOK
  <2>5. QED
    BY <1>1, <1>2, <1>3, <2>3, <2>4, SameHeads
<1>6. QED
  BY <1>4, <1>5

\* What the sender makes of its own patch.
LEMMA PatchLoopsBack ==
    ASSUME OneKeyList, SessionOK(snd, KeyLists), PrevSendable(snd),
           NEW session, NEW msg, NEW kept,
           Sends(session, msg, kept), SendsPatch(session, msg, kept)
    PROVE  PatchResult(decode_message(session, msg), snd.previous, msg, kept)
<1>1. PICK base : /\ KnowsBase(session, msg.base_ref)
                  /\ base = BaseOf(session, msg.base_ref)
                  /\ TurnsInto(base, kept, msg.ops) /\ SameHead(base, kept)
  BY PatchSent
<1>2. SessionOK(session, KeyLists) /\ PatchOK(msg) /\ session.previous = snd.previous
  BY DEF Sends, SendsPatch
<1>3. Outcome(decode_message(session, msg), session.previous, base.fields, kept)
  BY <1>1, <1>2, PatchOutcome
<1>4. QED
  BY <1>1, <1>2, <1>3, OutcomeByDeletions

\* The two messages that are decoded by kind alone.
LEMMA DecodedByKind ==
    /\ \A s, n : decode_message(s, TemplateBatch(n)) =
                     Decoded(decode_template(s, TemplateBatch(n)), "ok")
    /\ \A s, id, m : decode_message(s, BaseSnapshot(id, m)) =
                         Decoded(decode_snapshot(s, BaseSnapshot(id, m)), "ok")
<1>1. \A n : TemplateBatch(n).kind = "TemplateBatch"
  BY DEF TemplateBatch
<1>2. \A id, m : BaseSnapshot(id, m).kind = "BaseSnapshot"
  BY DEF BaseSnapshot
<1>3. QED
  BY <1>1, <1>2 DEF decode_message

\* They are no messages that stand alone.
LEMMA OthersNotMade ==
    /\ \A n : TemplateBatch(n) \notin WellMade
    /\ \A id, m : BaseSnapshot(id, m) \notin WellMade
<1>1. \A n : TemplateBatch(n).kind = "TemplateBatch"
  BY DEF TemplateBatch
<1>2. \A id, m : BaseSnapshot(id, m).kind = "BaseSnapshot"
  BY DEF BaseSnapshot
<1>3. \A m \in WellMade : m.kind # "TemplateBatch" /\ m.kind # "BaseSnapshot"
  BY DEF WellMade, Messages
<1>4. QED
  BY <1>1, <1>2, <1>3

\* What is left of the previous message when a template batch was decoded.
AfterTemplate(p, n) == IF n >= 16 THEN Batch("ColumnBatch")
                       ELSE IF p = None THEN TemplateBatch(n) ELSE p

\* Decoding a template batch or a base snapshot.
LEMMA OthersDecoded ==
    ASSUME NEW L, NEW s, SessionOK(s, L)
    PROVE  /\ \A n : LET d == decode_message(s, TemplateBatch(n))
                     IN  /\ d.res = "ok" /\ d.session.codec = s.codec
                         /\ d.session.previous = AfterTemplate(s.previous, n)
           /\ \A id, m : LET d == decode_message(s, BaseSnapshot(id, m))
                         IN  /\ d.res = "ok" /\ d.session.codec = s.codec
                             /\ d.session.previous = BaseSnapshot(id, m)
<1>1. PICK c, p, b, k : s = [codec |-> c, previous |-> p, base_snapshots |-> b,
                             next_base_id |-> k]
  BY DEF SessionOK
<1>2. ASSUME NEW n
      PROVE  LET d == decode_message(s, TemplateBatch(n))
             IN  /\ d.res = "ok" /\ d.session.codec = s.codec
                 /\ d.session.previous = AfterTemplate(s.previous, n)
  <2>1. PICK d : d = decode_message(s, TemplateBatch(n))
    OBVIOUS
  <2>2. PICK msg : msg = TemplateBatch(n)
    OBVIOUS
  <2>3. decode_template(s, msg) = [s EXCEPT !.previous = AfterTemplate(p, n)]
    BY <1>1, <2>2 DEF decode_template, AfterTemplate, TemplateBatch
  <2>4. d = [session |-> [s EXCEPT !.previous = AfterTemplate(p, n)], res |-> "ok"]
    BY <2>1, <2>2, <2>3, DecodedByKind DEF Decoded
  <2>5. QED
    BY <1>1, <2>1, <2>4
<1>3. ASSUME NEW id, NEW m
      PROVE  LET d == decode_message(s, BaseSnapshot(id, m))
             IN  /\ d.res = "ok" /\ d.session.codec = s.codec
                 /\ d.session.previous = BaseSnapshot(id, m)
  <2>1. PICK d : d = decode_message(s, BaseSnapshot(id, m))
    OBVIOUS
  <2>2. PICK msg : msg = BaseSnapshot(id, m)
    OBVIOUS
  <2>3. PICK r : r = register_base_snapshot(b, msg.base_id, msg.payload)
    OBVIOUS
  <2>4. PICK after : /\ after = decode_snapshot(s, msg)
                     /\ after = [codec |-> c, previous |-> msg, base_snapshots |-> r,
                                 next_base_id |-> k]
    <3>1. PICK t : t = [s EXCEPT !.base_snapshots = r]
      OBVIOUS
    <3>2. t = [codec |-> c, previous |-> p, base_snapshots |-> r, next_base_id |-> k]
      BY <1>1, <3>1
    <3>3. r = register_base_snapshot(s.base_snapshots, msg.base_id, msg.payload)
      BY <1>1, <2>3
    <3>4. decode_snapshot(s, msg) = [t EXCEPT !.previous = msg]
      BY <3>1, <3>3 DEF decode_snapshot
    <3>5. QED
      BY <3>2, <3>4
  <2>5. d = [session |-> after, res |-> "ok"]
    BY <2>1, <2>2, <2>4, DecodedByKind DEF Decoded
  <2>6. QED
    BY <1>1, <2>1, <2>2, <2>4, <2>5
<1>4. QED
  BY <1>2, <1>3

\* Whatever is sent, and whether the sender decodes it or not, its previous
\* message fits its codec.
LEMMA PreviousStays ==
    ASSUME OneKeyList, SessionOK(snd, KeyLists), PrevSendable(snd),
           NEW session, NEW msg, NEW kept, Sends(session, msg, kept),
           NEW after, after \in {session, decode_message(session, msg).session}
    PROVE  PrevSendable(after)
<1>1. SessionOK(session, KeyLists) /\ Grown(snd.codec, session.codec)
  BY DEF Sends
<1>2. PICK d : d = decode_message(session, msg)
  OBVIOUS
<1>3. DecodedOK(session, d, msg, KeyLists)
  BY <1>2, SentDecoded
<1>4. Grown(session.codec, d.session.codec)
  BY <1>3 DEF DecodedOK
<1>5. ASSUME NEW m, m = snd.previous, m \in WellMade, m # None
      PROVE  Sendable(m, session.codec) /\ Sendable(m, d.session.codec)
  BY <1>1, <1>4, <1>5, SendableGrows DEF PrevSendable
<1>6. ASSUME NEW m, Sendable(m, session.codec)
      PROVE  Sendable(m, d.session.codec)
  BY <1>4, <1>6, SendableGrows
<1>7. CASE SendsFull(session, msg, kept)
  <2>1. PICK m : /\ Carries(msg, m, snd.codec.key_table, session.codec.key_table)
                 /\ Sendable(m, session.codec) /\ session.previous \in {snd.previous, m}
    BY <1>7 DEF SendsFull
  <2>2. KeepsIt(session, d, msg, m, session.codec.key_table, KeyLists)
    BY <1>1, <1>2, <2>1, CarriedAgain
  <2>3. d.session.previous = m
    BY <2>2 DEF KeepsIt
  <2>4. QED
    BY <1>2, <1>5, <1>6, <2>1, <2>3 DEF PrevSendable
<1>8. CASE SendsPatch(session, msg, kept)
  <2>1. PatchResult(d, snd.previous, msg, kept)
    BY <1>2, <1>8, PatchLoopsBack
  <2>2. d.session.previous \in {snd.previous, kept}
    BY <2>1 DEF PatchResult
  <2>3. Sendable(kept, session.codec) /\ session.previous = snd.previous
    BY <1>8 DEF SendsPatch
  <2>4. QED
    BY <1>2, <1>5, <1>6, <2>2, <2>3 DEF PrevSendable
<1>9. CASE SendsTemplate(session, msg, kept)
  <2>1. PICK n : session = snd /\ msg = TemplateBatch(n)
    BY <1>9 DEF SendsTemplate
  <2>2. d.session.previous = AfterTemplate(snd.previous, n)
    BY <1>1, <1>2, <2>1, OthersDecoded
  <2>3. d.session.previous \in {snd.previous, TemplateBatch(n), Batch("ColumnBatch")}
    BY <2>2 DEF AfterTemplate
  <2>4. Sendable(Batch("ColumnBatch"), d.session.codec)
    <3>1. Batch("ColumnBatch") \in WellMade /\ Batch("ColumnBatch").kind = "ColumnBatch"
      BY BatchMade
    <3>2. QED
      BY <3>1 DEF Sendable
  <2>5. TemplateBatch(n) \notin WellMade
    BY OthersNotMade
  <2>6. QED
    BY <1>2, <1>5, <2>1, <2>3, <2>4, <2>5 DEF PrevSendable
<1>10. CASE SendsSnapshot(session, msg, kept)
  <2>1. PICK id, m, r : /\ msg = BaseSnapshot(id, m)
                        /\ session = [snd EXCEPT !.base_snapshots = r]
    BY <1>10 DEF SendsSnapshot
  <2>2. session.previous = snd.previous
    BY <2>1 DEF SessionOK
  <2>3. d.session.previous = msg /\ msg \notin WellMade
    BY <1>1, <1>2, <2>1, OthersDecoded, OthersNotMade
  <2>4. QED
    BY <1>2, <1>5, <2>2, <2>3 DEF PrevSendable
<1>11. QED
  BY <1>7, <1>8, <1>9, <1>10 DEF Sends

\* The sender's part of the type invariant.
FitsInductive == TInv /\ PrevSendable(snd)

\* With one key list, the sender's previous message always has as many fields
\* as its shape has keys.
LEMMA FitsAlways == ASSUME OneKeyList PROVE Spec => []FitsInductive
<1>1. Init => FitsInductive
  <2> SUFFICES ASSUME Init PROVE FitsInductive
    OBVIOUS
  <2>1. TInv
    BY EmptyTyped DEF Init, Empty
  <2>2. snd.previous = None
    BY NewSessionOK DEF Init
  <2>3. QED
    BY <2>1, <2>2 DEF FitsInductive, PrevSendable
<1>2. FitsInductive /\ [Next]_vars => FitsInductive'
  <2> SUFFICES ASSUME FitsInductive, [Next]_vars PROVE FitsInductive'
    OBVIOUS
  <2>1. TInv /\ TInv'
    BY TypedInductive DEF FitsInductive
  <2>2. CASE Encodes
    <3>1. PICK session, msg, kept : Sends(session, msg, kept) /\ Sent(session, msg, kept)
      BY <2>1, <2>2, EncodesSends DEF TInv
    <3>2. snd' \in {session, decode_message(session, msg).session}
      BY <2>1, <3>1, SentTyped
    <3>3. PrevSendable(snd')
      BY <2>1, <3>1, <3>2, PreviousStays DEF TInv, FitsInductive
    <3>4. QED
      BY <2>1, <3>3 DEF FitsInductive, PrevSendable
  <2>3. CASE Decode \/ DecodeAgain \/ Lose \/ UNCHANGED vars
    <3>1. snd' = snd
      BY <2>3 DEF Decode, DecodeAgain, Lose, vars
    <3>2. QED
      BY <2>1, <3>1 DEF FitsInductive, PrevSendable
  <2>4. CASE reset_state
    <3>1. snd'.previous = None
      BY <2>4, NewSessionOK DEF reset_state
    <3>2. QED
      BY <2>1, <3>1 DEF FitsInductive, PrevSendable
  <2>5. QED
    BY <2>2, <2>3, <2>4, StepsAre
<1>3. QED
  BY <1>1, <1>2, PTL DEF Spec

\* Snapshots have ids of their own.
LEMMA SnapshotCount ==
    ASSUME NEW s \in Snapshots(Snapshot)
    PROVE  Cardinality(IdsOf(s)) = Len(s) /\ Len(s) <= MaxBaseSnapshots
<1>1. PICK n \in Nat : n = Len(s) /\ DOMAIN s = 1..n
  BY LenProperties DEF Snapshots
<1>2. PICK k \in 0..Len(s) : k = 0
  BY <1>1
<1>3. IdsOf(s) = After(s, k)
  BY <1>1, <1>2 DEF IdsOf, After
<1>4. s \in Seq(Snapshot) /\ IdsApart(s) /\ Len(s) <= MaxBaseSnapshots
  BY DEF Snapshots
<1>5. Cardinality(After(s, k)) = Len(s) - k
  BY <1>4, AfterCount
<1>6. QED
  BY <1>1, <1>2, <1>3, <1>4, <1>5

\* The types of both sessions: in particular a shaped object that the sender
\* keeps has a field for each key of its shape, patched or not.
THEOREM SessionTypes == ASSUME OneKeyList PROVE Spec => []TypeOK
<1>1. ASSUME NEW L, NEW s, SessionOK(s, L)
      PROVE  /\ WellFormed(s.codec)
             /\ s.previous # None =>
                   (s.previous.kind = "Map" => Len(s.previous.keys) = Len(s.previous.fields))
             /\ Len(s.base_snapshots) <= MaxBaseSnapshots
             /\ Cardinality(IdsOf(s.base_snapshots)) = Len(s.base_snapshots)
  <2>1. WellFormed(s.codec)
    BY <1>1, CodecWellFormed DEF SessionOK
  <2>2. PreviousOK(s.previous)
    BY <1>1 DEF SessionOK
  <2>3. s.previous # None =>
           (s.previous.kind = "Map" => Len(s.previous.keys) = Len(s.previous.fields))
    BY <2>2 DEF PreviousOK, WellMade, Patchable
  <2>4. QED
    BY <1>1, <2>1, <2>3, SnapshotCount DEF SessionOK
<1>2. FitsInductive => TypeOK
  <2> SUFFICES ASSUME TInv, PrevSendable(snd) PROVE TypeOK
    BY DEF FitsInductive
  <2>1. SessionOK(snd, KeyLists) /\ SessionOK(rcv, Seq(Key))
    BY DEF TInv
  <2>2. pos \in 0..Len(log) /\ res \in {None, "ok", "ignored", InvalidData, UnknownReference}
    BY DEF TInv, Results
  <2>3. \A s \in {snd, rcv} :
           /\ WellFormed(s.codec)
           /\ s.previous # None =>
                 (s.previous.kind = "Map" => Len(s.previous.keys) = Len(s.previous.fields))
           /\ Len(s.base_snapshots) <= MaxBaseSnapshots
           /\ Cardinality(IdsOf(s.base_snapshots)) = Len(s.base_snapshots)
    BY <1>1, <2>1
  <2>4. snd.previous # None =>
           (snd.previous.kind = "ShapedObject" =>
              Len(snd.previous.fields)
                = Len(snd.codec.shape_table.by_id[snd.previous.shape]))
    <3> SUFFICES ASSUME snd.previous # None, snd.previous.kind = "ShapedObject"
                 PROVE  Len(snd.previous.fields)
                          = Len(snd.codec.shape_table.by_id[snd.previous.shape])
      OBVIOUS
    <3>1. snd.previous \in WellMade
      BY <2>1 DEF SessionOK, PreviousOK, Patchable
    <3>2. QED
      BY <3>1 DEF PrevSendable, Sendable
  <2>5. QED
    BY <2>2, <2>3, <2>4 DEF TypeOK
<1>3. QED
  BY <1>2, FitsAlways, PTL

-----------------------------------------------------------------------------
(* The key tables, when all maps have the same keys. *)

\* A key table that has the keys.
FullTable == RegisterAll(<< >>, CHOOSE keys \in KeyLists : TRUE)

\* With one key list, registering its keys gives the one full table, at once
\* and for good.
LEMMA OneTable ==
    ASSUME OneKeyList, NEW keys \in KeyLists
    PROVE  RegisterAll(<< >>, keys) = FullTable /\ RegisterAll(FullTable, keys) = FullTable
<1>1. \A k, l \in KeyLists : k = l
  BY DEF OneKeyList, KeyLists
<1>2. PICK all \in KeyLists : all = CHOOSE k \in KeyLists : TRUE
  OBVIOUS
<1>3. keys = all
  BY <1>1
<1>4. FullTable = RegisterAll(<< >>, keys)
  BY <1>2, <1>3 DEF FullTable
<1>5. keys \in Seq(Key)
  BY ValuesTyped
<1>6. << >> \in Table(Key)
  BY NewCodecOK DEF CodecOK, NewCodec, clear
<1>7. PICK t \in Table(Key) : /\ t = FullTable
                              /\ \A i \in 1..Len(keys) : HasValue(t, keys[i])
  BY <1>4, <1>5, <1>6, RegisteredAll
<1>8. RegisterAll(t, keys) = t
  BY <1>5, <1>7, RegisteredAll
<1>9. QED
  BY <1>4, <1>7, <1>8

\* The key table of the sender when it had sent i buffers.
Mapped(l, i) == \E j \in 1..i : l[j].msg.kind = "Map"
KeysAt(l, i) == IF Mapped(l, i) THEN FullTable ELSE << >>

\* What decoding the buffer e makes of the previous message p and the key
\* table t: the previous message that e has, and the key table u.
FullTurn(p, t, e, u) ==
    \E m : /\ Carries(e.msg, m, t, u)
           /\ e.previous = m /\ e.kept \in {m, None}

PatchTurn(p, t, e, u) ==
    /\ PatchOK(e.msg) /\ u = t
    /\ e.previous = IF Cardinality(Deletions(e.msg)) >= 2 THEN p ELSE e.kept
    /\ e.msg.base_ref.previous =>
          p # None /\ TurnsInto(p, e.kept, e.msg.ops) /\ SameHead(p, e.kept)

TemplateTurn(p, t, e, u) ==
    \E n : /\ e.msg = TemplateBatch(n) /\ e.kept = None
           /\ e.previous = AfterTemplate(p, n) /\ u = t

SnapshotTurn(p, t, e, u) ==
    \E id, m : /\ e.msg = BaseSnapshot(id, m) /\ e.kept = None
               /\ e.previous = e.msg /\ u = t

EntryTurn(p, t, e, u) == \/ FullTurn(p, t, e, u)     \/ PatchTurn(p, t, e, u)
                         \/ TemplateTurn(p, t, e, u) \/ SnapshotTurn(p, t, e, u)

\* The kinds of the messages sent in full.
LEMMA CarriedKinds ==
    ASSUME NEW msg, NEW m, NEW t, NEW u, Carries(msg, m, t, u)
    PROVE  /\ msg.kind # "StatePatch" /\ (m.kind = "Map" => msg.kind = "Map")
           /\ msg.kind # "Map" => u = t
           /\ msg.kind = "Map" => \E keys \in KeyLists : u = RegisterAll(t, keys)
<1>1. CASE msg \in WellMade /\ msg.kind \notin {"Map", "ShapedObject"} /\ m = msg /\ u = t
  BY <1>1 DEF WellMade, Messages
<1>2. CASE ShapedOK(msg) /\ m = Full("ShapedObject", << >>, msg.shape, "", msg.vals) /\ u = t
  BY <1>2 DEF ShapedOK, Full
<1>3. CASE \E map \in Seq(Entries) :
              /\ KeysOf(map) \in KeyLists /\ ReadableMap(msg, Key, Atoms)
              /\ u = RegisterAll(t, KeysOf(map))
  BY <1>3 DEF ReadableMap
<1>4. QED
  BY <1>1, <1>2, <1>3 DEF Carries

-----------------------------------------------------------------------------
(* The sender, when it decodes what it sends. *)

HasMap(p) == p \in WellMade /\ p # None /\ p.kind = "Map"

\* What it sent and decoded.
LEMMA SentTurn ==
    ASSUME OneKeyList, SessionOK(snd, KeyLists), PrevSendable(snd),
           NEW t \in {<< >>, FullTable}, snd.codec.key_table = t,
           HasMap(snd.previous) => t = FullTable,
           NEW session, NEW msg, NEW kept, Sends(session, msg, kept),
           NEW d, d = decode_message(session, msg),
           NEW e, e.msg = msg, e.kept = kept, e.previous = d.session.previous
    PROVE  LET u == IF msg.kind = "Map" THEN FullTable ELSE t
           IN  /\ d.session.codec.key_table = u
               /\ EntryTurn(snd.previous, t, e, u)
               /\ HasMap(d.session.previous) => u = FullTable
<1>1. SessionOK(session, KeyLists)
  BY DEF Sends
<1>2. DecodedOK(session, d, msg, KeyLists)
  BY SentDecoded
<1>3. msg.kind # "Map" => d.session.codec = session.codec
  BY <1>2 DEF DecodedOK
<1>4. PICK u : u = IF msg.kind = "Map" THEN FullTable ELSE t
  OBVIOUS
<1>5. CASE SendsFull(session, msg, kept)
  <2>1. PICK m : Carries(msg, m, t, session.codec.key_table) /\ kept \in {m, None}
    BY <1>5 DEF SendsFull
  <2>2. KeepsIt(session, d, msg, m, session.codec.key_table, KeyLists)
    BY <1>1, <2>1, CarriedAgain
  <2>3. d.session.previous = m /\ d.session.codec.key_table = session.codec.key_table
    BY <2>2 DEF KeepsIt
  <2>4. session.codec.key_table = u
    BY <1>4, <2>1, CarriedKinds, OneTable
  <2>5. FullTurn(snd.previous, t, e, u)
    BY <2>1, <2>3, <2>4 DEF FullTurn
  <2>6. HasMap(m) => u = FullTable
    BY <1>4, <2>1, CarriedKinds DEF HasMap
  <2>7. QED
    BY <1>4, <2>3, <2>4, <2>5, <2>6 DEF EntryTurn
<1>6. CASE SendsPatch(session, msg, kept)
  <2>1. PICK base : /\ KnowsBase(session, msg.base_ref)
                    /\ base = BaseOf(session, msg.base_ref)
                    /\ TurnsInto(base, kept, msg.ops) /\ SameHead(base, kept)
    BY <1>6, PatchSent
  <2>2. PatchOK(msg) /\ session.previous = snd.previous /\ Sendable(kept, session.codec)
    BY <1>6 DEF SendsPatch
  <2>3. msg.kind = "StatePatch"
    BY <2>2, PatchParts
  <2>4. PatchResult(d, snd.previous, msg, kept)
    BY <1>6, PatchLoopsBack
  <2>5. msg.base_ref.previous => /\ snd.previous # None /\ base = snd.previous
    BY <2>1, <2>2 DEF KnowsBase, BaseOf
  <2>6. kept.kind = "Map" => HasMap(snd.previous)
    <3> SUFFICES ASSUME kept.kind = "Map" PROVE HasMap(snd.previous)
      OBVIOUS
    <3>1. msg.base_ref.previous
      BY <1>6 DEF SendsPatch
    <3>2. QED
      BY <2>1, <2>5, <3>1 DEF SameHead, Alike, HasMap
  <2>7. session.codec.key_table = t
    <3>1. CASE kept.kind = "Map"
      <4>1. kept.keys \in KeyLists /\ t = FullTable
        BY <2>2, <2>6, <3>1 DEF Sendable
      <4>2. session.codec.key_table = RegisterAll(t, kept.keys)
        BY <1>6, <3>1 DEF SendsPatch
      <4>3. QED
        BY <4>1, <4>2, OneTable
    <3>2. CASE kept.kind # "Map"
      BY <1>6, <3>2 DEF SendsPatch
    <3>3. QED
      BY <3>1, <3>2
  <2>8. u = t /\ d.session.codec.key_table = t
    BY <1>3, <1>4, <2>3, <2>7
  <2>9. PatchTurn(snd.previous, t, e, u)
    BY <2>1, <2>2, <2>4, <2>5, <2>8 DEF PatchTurn, PatchResult
  <2>10. HasMap(d.session.previous) => u = FullTable
    <3>1. d.session.previous \in {snd.previous, kept}
      BY <2>4 DEF PatchResult
    <3>2. QED
      BY <2>6, <2>8, <3>1 DEF HasMap
  <2>11. QED
    BY <1>4, <2>8, <2>9, <2>10 DEF EntryTurn
<1>7. CASE SendsTemplate(session, msg, kept)
  <2>1. PICK n : session = snd /\ msg = TemplateBatch(n) /\ kept = None
    BY <1>7 DEF SendsTemplate
  <2>2. d.session.previous = AfterTemplate(snd.previous, n)
    BY <1>1, <2>1, OthersDecoded
  <2>3. msg.kind = "TemplateBatch"
    BY <2>1 DEF TemplateBatch
  <2>4. u = t /\ d.session.codec.key_table = t
    BY <1>3, <1>4, <2>1, <2>3
  <2>5. TemplateTurn(snd.previous, t, e, u)
    BY <2>1, <2>2, <2>4 DEF TemplateTurn
  <2>6. ~HasMap(TemplateBatch(n)) /\ ~HasMap(Batch("ColumnBatch"))
    BY OthersNotMade, BatchMade DEF HasMap
  <2>7. HasMap(d.session.previous) => u = FullTable
    BY <2>2, <2>4, <2>6 DEF AfterTemplate
  <2>8. QED
    BY <1>4, <2>4, <2>5, <2>7 DEF EntryTurn
<1>8. CASE SendsSnapshot(session, msg, kept)
  <2>1. PICK id \in SnapshotIds, m \in WellMade :
            /\ msg = BaseSnapshot(id, m) /\ kept = None
            /\ session = [snd EXCEPT !.base_snapshots =
                              register_base_snapshot(snd.base_snapshots, id, m)]
    BY <1>8 DEF SendsSnapshot
  <2>2. session.codec = snd.codec
    BY <2>1 DEF SessionOK
  <2>3. d.session.previous = msg /\ msg \notin WellMade
    BY <1>1, <2>1, OthersDecoded, OthersNotMade
  <2>4. msg.kind = "BaseSnapshot"
    BY <2>1 DEF BaseSnapshot
  <2>5. u = t /\ d.session.codec.key_table = t
    BY <1>3, <1>4, <2>2, <2>4
  <2>6. SnapshotTurn(snd.previous, t, e, u)
    BY <2>1, <2>3, <2>5 DEF SnapshotTurn
  <2>7. ~HasMap(d.session.previous)
    BY <2>3 DEF HasMap
  <2>8. QED
    BY <1>4, <2>5, <2>6, <2>7 DEF EntryTurn
<1>9. QED
  BY <1>5, <1>6, <1>7, <1>8 DEF Sends

-----------------------------------------------------------------------------
(* The receiver. *)

\* It decodes a buffer with what the sender had before it.
LEMMA TurnFirst ==
    ASSUME NEW p, NEW t, NEW e, NEW u, EntryTurn(p, t, e, u), MsgOK(e.msg),
           NEW s, SessionOK(s, Seq(Key)), s.previous = p, s.codec.key_table = t,
           NEW d, d = decode_message(s, e.msg), DecodedOK(s, d, e.msg, Seq(Key)),
           e.msg.kind = "StatePatch" /\ ~e.msg.base_ref.previous
              => PatchResult(d, p, e.msg, e.kept)
    PROVE  /\ d.session.previous = e.previous /\ d.session.codec.key_table = u
           /\ d.res = "ok" /\ e.kept # None => d.session.previous = e.kept
           /\ d.res # "ok" <=> Cardinality(Deletions(e.msg)) >= 2
<1>1. e.msg.kind # "Map" => d.session.codec = s.codec
  BY DEF DecodedOK
<1>2. e.msg.kind # "StatePatch" => ~(Cardinality(Deletions(e.msg)) >= 2)
  BY FS_EmptySet DEF Deletions
<1>3. CASE FullTurn(p, t, e, u)
  <2>1. PICK m : Carries(e.msg, m, t, u) /\ e.previous = m /\ e.kept \in {m, None}
    BY <1>3 DEF FullTurn
  <2>2. KeepsIt(s, d, e.msg, m, u, Seq(Key))
    BY <2>1, CarriedFirst
  <2>3. d.session.previous = m /\ d.session.codec.key_table = u /\ d.res = "ok"
    BY <2>2 DEF KeepsIt
  <2>4. e.msg.kind # "StatePatch"
    BY <2>1, CarriedKinds
  <2>5. QED
    BY <1>2, <2>1, <2>3, <2>4
<1>4. CASE PatchTurn(p, t, e, u)
  <2>1. PatchOK(e.msg) /\ u = t
        /\ e.previous = IF Cardinality(Deletions(e.msg)) >= 2 THEN p ELSE e.kept
    BY <1>4 DEF PatchTurn
  <2>2. e.msg.kind = "StatePatch"
    BY <2>1, PatchParts
  <2>3. PatchResult(d, p, e.msg, e.kept)
    <3>1. CASE e.msg.base_ref.previous
      <4>1. p # None /\ TurnsInto(p, e.kept, e.msg.ops) /\ SameHead(p, e.kept)
        BY <1>4, <3>1 DEF PatchTurn
      <4>2. KnowsBase(s, e.msg.base_ref) /\ p = BaseOf(s, e.msg.base_ref)
        BY <3>1, <4>1 DEF KnowsBase, BaseOf
      <4>3. Outcome(d, p, p.fields, e.kept)
        BY <2>1, <4>1, <4>2, PatchOutcome
      <4>4. QED
        BY <2>1, <4>1, <4>3, OutcomeByDeletions
    <3>2. QED
      BY <2>2, <3>1
  <2>4. d.session.codec.key_table = u
    BY <1>1, <2>1, <2>2
  <2>5. QED
    BY <2>1, <2>3, <2>4, ResultsTellApart DEF PatchResult
<1>5. CASE TemplateTurn(p, t, e, u)
  <2>1. PICK n : /\ e.msg = TemplateBatch(n) /\ e.kept = None
                 /\ e.previous = AfterTemplate(p, n) /\ u = t
    BY <1>5 DEF TemplateTurn
  <2>2. /\ d.res = "ok" /\ d.session.codec = s.codec
        /\ d.session.previous = AfterTemplate(p, n)
    BY <2>1, OthersDecoded
  <2>3. e.msg.kind # "StatePatch"
    BY <2>1 DEF TemplateBatch
  <2>4. QED
    BY <1>2, <2>1, <2>2, <2>3
<1>6. CASE SnapshotTurn(p, t, e, u)
  <2>1. PICK id, m : /\ e.msg = BaseSnapshot(id, m) /\ e.kept = None
                     /\ e.previous = e.msg /\ u = t
    BY <1>6 DEF SnapshotTurn
  <2>2. d.res = "ok" /\ d.session.codec = s.codec /\ d.session.previous = e.msg
    BY <2>1, OthersDecoded
  <2>3. e.msg.kind # "StatePatch"
    BY <2>1 DEF BaseSnapshot
  <2>4. QED
    BY <1>2, <2>1, <2>2, <2>3
<1>7. QED
  BY <1>3, <1>4, <1>5, <1>6 DEF EntryTurn

\* A patch is applied to what it made of its base: nothing changes.
LEMMA PatchAgain ==
    ASSUME NEW s, SessionOK(s, Seq(Key)), NEW msg, PatchOK(msg), msg.base_ref.previous,
           NEW base, NEW kept, TurnsInto(base, kept, msg.ops), SameHead(base, kept),
           s.previous = kept
    PROVE  decode_message(s, msg).session.previous = kept
<1>1. decode_message(s, msg) = decode_patch(s, msg) /\ write_message(s, msg) = s
  BY PatchParts, WrittenRest DEF decode_message
<1>2. PICK new : new = apply_state_patch(BaseOf(s, msg.base_ref), msg.ops)
  OBVIOUS
<1>3. new \in {kept, InvalidData}
  <2>1. PICK a \in Seq(Atoms), b \in Seq(Atoms) : a = base.fields /\ b = kept.fields
    BY DEF SameHead, Alike, WellMade, Messages
  <2>2. PICK acc : acc = apply_ops(b, diff_fields(a, b))
    OBVIOUS
  <2>3. acc = Going(b) \/ acc.failed
    BY <2>2, AtomsTyped, DiffAgain
  <2>4. BaseOf(s, msg.base_ref) = kept
    BY DEF BaseOf
  <2>5. new = IF acc.failed THEN InvalidData ELSE rebuild_message_like(kept, acc.fields)
    BY <1>2, <2>1, <2>2, <2>4 DEF apply_state_patch, TurnsInto
  <2>6. SameHead(kept, kept)
    BY DEF SameHead, Alike
  <2>7. rebuild_message_like(kept, b) = kept
    BY <2>1, <2>6, RebuiltExactly
  <2>8. QED
    BY <2>3, <2>5, <2>7 DEF Going
<1>4. PICK d : d = decode_patch(s, msg)
  OBVIOUS
<1>5. \/ d = Decoded(s, "ignored") \/ d = Decoded(s, InvalidData)
      \/ d = Decoded([s EXCEPT !.previous = kept], "ok")
  BY <1>1, <1>2, <1>3, <1>4 DEF decode_patch
<1>6. d.session.previous = kept
  BY <1>5 DEF Decoded, SessionOK
<1>7. QED
  BY <1>1, <1>4, <1>6

\* It decodes a buffer again, with what the sender had after it.
LEMMA TurnAgain ==
    ASSUME NEW p, NEW t, NEW e, NEW u, EntryTurn(p, t, e, u), MsgOK(e.msg),
           NEW s, SessionOK(s, Seq(Key)), s.previous = e.previous, s.codec.key_table = u,
           NEW d, d = decode_message(s, e.msg), DecodedOK(s, d, e.msg, Seq(Key)),
           e.msg.kind = "StatePatch" /\ ~e.msg.base_ref.previous
              => PatchResult(d, e.previous, e.msg, e.kept)
    PROVE  /\ d.session.previous = e.previous /\ d.session.codec.key_table = u
           /\ d.res = "ok" /\ e.kept # None => d.session.previous = e.kept
<1>1. e.msg.kind # "Map" => d.session.codec = s.codec
  BY DEF DecodedOK
<1>2. CASE FullTurn(p, t, e, u)
  <2>1. PICK m : Carries(e.msg, m, t, u) /\ e.previous = m /\ e.kept \in {m, None}
    BY <1>2 DEF FullTurn
  <2>2. KeyLists \subseteq Seq(Key)
    BY ValuesTyped
  <2>3. KeepsIt(s, d, e.msg, m, u, Seq(Key))
    BY <2>1, <2>2, CarriedAgain
  <2>4. d.session.previous = m /\ d.session.codec.key_table = u
    BY <2>3 DEF KeepsIt
  <2>5. QED
    BY <2>1, <2>4
<1>3. CASE PatchTurn(p, t, e, u)
  <2>1. PatchOK(e.msg) /\ u = t
        /\ e.previous = IF Cardinality(Deletions(e.msg)) >= 2 THEN p ELSE e.kept
    BY <1>3 DEF PatchTurn
  <2>2. e.msg.kind = "StatePatch"
    BY <2>1, PatchParts
  <2>3. d.session.codec.key_table = u
    BY <1>1, <2>2
  <2>4. CASE ~e.msg.base_ref.previous
    <3>1. PatchResult(d, e.previous, e.msg, e.kept)
      BY <2>2, <2>4
    <3>2. QED
      BY <2>1, <2>3, <3>1, ResultsTellApart DEF PatchResult
  <2>5. CASE e.msg.base_ref.previous
    <3>1. p # None /\ TurnsInto(p, e.kept, e.msg.ops) /\ SameHead(p, e.kept)
      BY <1>3, <2>5 DEF PatchTurn
    <3>2. CASE Cardinality(Deletions(e.msg)) >= 2
      <4>1. KnowsBase(s, e.msg.base_ref) /\ p = BaseOf(s, e.msg.base_ref)
        BY <2>1, <2>5, <3>1, <3>2 DEF KnowsBase, BaseOf
      <4>2. Outcome(d, p, p.fields, e.kept)
        BY <2>1, <3>1, <3>2, <4>1, PatchOutcome
      <4>3. PatchResult(d, p, e.msg, e.kept)
        BY <2>1, <3>1, <4>2, OutcomeByDeletions
      <4>4. QED
        BY <2>1, <2>3, <3>2, <4>3, ResultsTellApart DEF PatchResult
    <3>3. CASE ~(Cardinality(Deletions(e.msg)) >= 2)
      <4>1. s.previous = e.kept
        BY <2>1, <3>3
      <4>2. d.session.previous = e.kept
        BY <2>1, <2>5, <3>1, <4>1, PatchAgain
      <4>3. QED
        BY <2>1, <2>3, <3>3, <4>2
    <3>4. QED
      BY <3>2, <3>3
  <2>6. QED
    BY <2>4, <2>5
<1>4. CASE TemplateTurn(p, t, e, u)
  <2>1. PICK n : /\ e.msg = TemplateBatch(n) /\ e.kept = None
                 /\ e.previous = AfterTemplate(p, n) /\ u = t
    BY <1>4 DEF TemplateTurn
  <2>2. /\ d.session.codec = s.codec
        /\ d.session.previous = AfterTemplate(e.previous, n)
    BY <2>1, OthersDecoded
  <2>3. AfterTemplate(AfterTemplate(p, n), n) = AfterTemplate(p, n)
    BY DEF AfterTemplate
  <2>4. QED
    BY <2>1, <2>2, <2>3
<1>5. CASE SnapshotTurn(p, t, e, u)
  <2>1. PICK id, m : /\ e.msg = BaseSnapshot(id, m) /\ e.kept = None
                     /\ e.previous = e.msg /\ u = t
    BY <1>5 DEF SnapshotTurn
  <2>2. d.session.codec = s.codec /\ d.session.previous = e.msg
    BY <2>1, OthersDecoded
  <2>3. QED
    BY <2>1, <2>2
<1>6. QED
  BY <1>2, <1>3, <1>4, <1>5 DEF EntryTurn

\* Without a loss the base that a patch names arrived.
LEMMA NamedArrived ==
    ASSUME TInv, NEW i \in 1..Len(log), \A j \in 1..i : ~log[j].lost, NamesBase(i)
    PROVE  log[i].msg.base_ref.id \in ArrivedIds(log, i)
<1>1. Len(log) \in Nat /\ LogOK(log) /\ i - 1 \in 0..Len(log)
  BY LenProperties DEF TInv, LogOK
<1>2. PICK h \in 0..Len(log) : h = i - 1 /\ i = h + 1
  BY <1>1
<1>3. PICK s \in Snapshots(Snapshot) : s = SnapsAt(log, h)
  BY <1>1, <1>2, SnapsTyped
<1>4. PICK id : id = log[i].msg.base_ref.id
  OBVIOUS
<1>5. PICK k \in 1..Len(s) : s[k].id = id /\ s[k].msg.kind \in Patchable
  <2>1. NamedTurn(s, log[i].msg, log[i].kept, log[i].snapshots)
    BY <1>1, <1>2, <1>3 DEF LogOK
  <2>2. QED
    BY <1>4, <2>1 DEF NamedTurn, NamesBase, TurnsInto, Alike, Patchable
<1>6. \A j \in 1..h : ~log[j].lost
  BY <1>1, <1>2
<1>7. id \in ArrivedIds(log, h)
  BY <1>3, <1>5, <1>6, AllArrived
<1>8. log[h + 1].msg.kind # "BaseSnapshot"
  BY <1>2 DEF NamesBase
<1>9. ArrivedIds(log, h) \subseteq ArrivedIds(log, h + 1)
  BY <1>1, <1>8, ArrivedNext
<1>10. QED
  BY <1>2, <1>4, <1>7, <1>9

-----------------------------------------------------------------------------
(* Both in step, when the sender decodes what it sends. *)

LogSync(l) ==
    \A i \in 1..Len(l) : EntryTurn(PrevAt(l, i - 1), KeysAt(l, i - 1), l[i], KeysAt(l, i))

SenderSync == /\ PrevSendable(snd) /\ LogSync(log)
              /\ snd.codec.key_table = KeysAt(log, Len(log))
              /\ HasMap(snd.previous) => snd.codec.key_table = FullTable

\* The receiver has what the sender had when it had sent i buffers.
InStepAt(i, session, result) ==
    /\ session.previous = PrevAt(log, i) /\ session.codec.key_table = KeysAt(log, i)
    /\ i > 0 /\ result = "ok" /\ log[i].kept # None => session.previous = log[i].kept

ReceiverSync == (\A j \in 1..pos : ~log[j].lost) => InStepAt(pos, rcv, res)

SyncInv == TInv /\ HInv /\ SenderSync /\ ReceiverSync

\* The key table after one more buffer.
LEMMA KeysNext ==
    ASSUME NEW l, LogOK(l), NEW l2, NEW e, Longer(l, l2, e)
    PROVE  /\ \A i \in 0..Len(l) : KeysAt(l2, i) = KeysAt(l, i)
           /\ KeysAt(l2, Len(l) + 1) = IF e.msg.kind = "Map" THEN FullTable
                                                             ELSE KeysAt(l, Len(l))
<1>1. PICK n \in Nat : n = Len(l)
  BY LenProperties DEF LogOK
<1>2. l2[n + 1] = e /\ \A j \in 1..n : l2[j] = l[j]
  BY <1>1 DEF Longer
<1>3. ASSUME NEW i \in 0..n
      PROVE  KeysAt(l2, i) = KeysAt(l, i)
  <2>1. \A j \in 1..i : l2[j] = l[j]
    BY <1>1, <1>2
  <2>2. Mapped(l2, i) <=> Mapped(l, i)
    BY <2>1 DEF Mapped
  <2>3. QED
    BY <2>2 DEF KeysAt
<1>4. Mapped(l2, n + 1) <=> e.msg.kind = "Map" \/ Mapped(l, n)
  <2>1. ASSUME NEW j \in 1..n + 1, l2[j].msg.kind = "Map"
        PROVE  e.msg.kind = "Map" \/ \E k \in 1..n : l[k].msg.kind = "Map"
    <3>1. CASE j = n + 1
      BY <1>2, <2>1, <3>1
    <3>2. CASE j \in 1..n
      BY <1>2, <2>1, <3>2
    <3>3. QED
      BY <1>1, <3>1, <3>2
  <2>2. n + 1 \in 1..n + 1 /\ \A j \in 1..n : j \in 1..n + 1
    BY <1>1
  <2>3. QED
    BY <1>2, <2>1, <2>2 DEF Mapped
<1>5. QED
  BY <1>1, <1>3, <1>4 DEF KeysAt

\* A buffer is sent.
LEMMA SendKeepsSync ==
    ASSUME OneKeyList, LoopsBack, SyncInv, Encodes
    PROVE  SenderSync' /\ ReceiverSync'
<1>1. TInv /\ SessionOK(snd, KeyLists) /\ LogOK(log)
  BY DEF SyncInv, TInv
<1>2. PICK session, msg, kept : Sends(session, msg, kept) /\ Sent(session, msg, kept)
  BY <1>1, EncodesSends
<1>3. PICK e : SentAs(e, msg, kept, snd') /\ Longer(log, log', e)
  BY <1>1, <1>2, SentTyped
<1>4. UNCHANGED << rcv, pos, res >>
  BY <1>1, <1>2, SentTyped
<1>5. PICK d : d = decode_message(session, msg) /\ snd' = d.session
  BY <1>1, <1>2, SentTyped
<1>6. PICK l2 : l2 = log'
  OBVIOUS
<1>7. PICK n \in Nat : n = Len(log) /\ n + 1 = Len(l2)
  BY <1>1, <1>3, <1>6, LogLonger DEF SentAs
<1>8. /\ l2[n + 1] = e /\ \A j \in 1..n : l2[j] = log[j]
      /\ \A i \in 0..n : PrevAt(l2, i) = PrevAt(log, i)
  BY <1>1, <1>3, <1>6, <1>7, LogLonger DEF SentAs, Longer
<1>9. /\ \A i \in 0..n : KeysAt(l2, i) = KeysAt(log, i)
      /\ KeysAt(l2, n + 1) = IF e.msg.kind = "Map" THEN FullTable ELSE KeysAt(log, n)
  BY <1>1, <1>3, <1>6, <1>7, KeysNext
<1>10. e.msg = msg /\ e.kept = kept /\ e.previous = d.session.previous
  BY <1>3, <1>5 DEF SentAs
<1>11. PICK t \in {<< >>, FullTable} :
          /\ t = KeysAt(log, n) /\ snd.codec.key_table = t
          /\ HasMap(snd.previous) => t = FullTable
  BY <1>7 DEF SyncInv, SenderSync, KeysAt
<1>12. PICK u : u = KeysAt(l2, n + 1) /\ u = IF msg.kind = "Map" THEN FullTable ELSE t
  BY <1>9, <1>10, <1>11
<1>13. /\ d.session.codec.key_table = u /\ EntryTurn(snd.previous, t, e, u)
       /\ HasMap(d.session.previous) => u = FullTable
  BY <1>1, <1>2, <1>5, <1>10, <1>11, <1>12, SentTurn DEF SyncInv, SenderSync
<1>14. snd.previous = PrevAt(l2, n) /\ t = KeysAt(l2, n)
  <2>1. snd.previous = PrevAt(log, n)
    BY <1>1, <1>7 DEF TInv
  <2>2. n \in 0..n
    OBVIOUS
  <2>3. QED
    BY <1>8, <1>9, <1>11, <2>1, <2>2
<1>15. LogSync(l2)
  <2>1. ASSUME NEW i \in 1..n
        PROVE  EntryTurn(PrevAt(l2, i - 1), KeysAt(l2, i - 1), l2[i], KeysAt(l2, i))
    <3>1. i - 1 \in 0..n /\ i \in 0..n
      OBVIOUS
    <3>2. EntryTurn(PrevAt(log, i - 1), KeysAt(log, i - 1), log[i], KeysAt(log, i))
      BY <1>7 DEF SyncInv, SenderSync, LogSync
    <3>3. QED
      BY <1>8, <1>9, <3>1, <3>2
  <2>2. n + 1 - 1 = n
    OBVIOUS
  <2>3. EntryTurn(PrevAt(l2, n + 1 - 1), KeysAt(l2, n + 1 - 1), l2[n + 1], KeysAt(l2, n + 1))
    BY <1>8, <1>12, <1>13, <1>14, <2>2
  <2>4. \A i \in 1..n + 1 : i \in 1..n \/ i = n + 1
    OBVIOUS
  <2>5. QED
    BY <1>7, <2>1, <2>3, <2>4 DEF LogSync
<1>16. PrevSendable(d.session)
  BY <1>1, <1>2, <1>5, PreviousStays DEF SyncInv, SenderSync
<1>17. SenderSync'
  BY <1>5, <1>6, <1>7, <1>12, <1>13, <1>15, <1>16 DEF SenderSync
<1>18. ReceiverSync'
  <2>1. PICK p \in 0..n : p = pos
    BY <1>1, <1>7 DEF TInv
  <2>2. \A j \in 1..p : l2[j] = log[j]
    BY <1>8
  <2>3. SUFFICES ASSUME \A j \in 1..p : ~l2[j].lost
                 PROVE  /\ rcv.previous = PrevAt(l2, p) /\ rcv.codec.key_table = KeysAt(l2, p)
                        /\ p > 0 /\ res = "ok" /\ l2[p].kept # None => rcv.previous = l2[p].kept
    BY <1>4, <1>6, <2>1 DEF ReceiverSync, InStepAt
  <2>4. InStepAt(p, rcv, res)
    BY <2>1, <2>2, <2>3 DEF SyncInv, ReceiverSync
  <2>5. p > 0 => l2[p] = log[p]
    BY <2>2
  <2>6. QED
    BY <1>8, <1>9, <2>4, <2>5 DEF InStepAt
<1>19. QED
  BY <1>17, <1>18

\* The receiver decodes a buffer.
LEMMA DecodeKeepsSync ==
    ASSUME SyncInv, NEW i \in 1..Len(log),
           \/ i = pos + 1
           \/ i = pos,
           \A j \in 1..i : ~log[j].lost,
           NEW d, d = decode_message(rcv, log[i].msg)
    PROVE  /\ InStepAt(i, d.session, d.res)
           /\ i = pos + 1 => (d.res # "ok" <=> Cardinality(Deletions(log[i].msg)) >= 2)
<1>1. TInv /\ HInv /\ Len(log) \in Nat /\ pos \in 0..Len(log) /\ LogSync(log)
  BY LenProperties DEF SyncInv, TInv, LogOK, SenderSync
<1>2. PICK h \in 0..Len(log) : h = i - 1 /\ i = h + 1
  BY <1>1
<1>3. PICK p, t, e, u : /\ p = PrevAt(log, h) /\ t = KeysAt(log, h)
                        /\ e = log[i] /\ u = KeysAt(log, i)
  OBVIOUS
<1>4. EntryTurn(p, t, e, u)
  BY <1>1, <1>2, <1>3 DEF LogSync
<1>5. MsgOK(e.msg) /\ SessionOK(rcv, Seq(Key))
  BY <1>1, <1>3 DEF TInv, LogOK, EntryOK
<1>6. DecodedOK(rcv, d, e.msg, Seq(Key))
  BY <1>1, <1>3, Received
<1>7. e.previous = PrevAt(log, i)
  BY <1>1, <1>3 DEF PrevAt
<1>8. InStepAt(pos, rcv, res)
  <2>1. \A j \in 1..pos : j \in 1..i
    BY <1>1
  <2>2. QED
    BY <2>1 DEF SyncInv, ReceiverSync
<1>9. e.msg.kind = "StatePatch" /\ ~e.msg.base_ref.previous
         => PatchResult(d, rcv.previous, e.msg, e.kept)
  <2> SUFFICES ASSUME e.msg.kind = "StatePatch", ~e.msg.base_ref.previous
               PROVE  PatchResult(d, rcv.previous, e.msg, e.kept)
    OBVIOUS
  <2>1. NamesBase(i)
    BY <1>3 DEF NamesBase
  <2>2. log[i].msg.base_ref.id \in ArrivedIds(log, i)
    BY <1>1, <2>1, NamedArrived
  <2>3. QED
    BY <1>1, <1>3, <2>1, <2>2, NamedDecode
<1>10. CASE i = pos + 1
  <2>1. rcv.previous = p /\ rcv.codec.key_table = t
    <3>1. h = pos
      BY <1>1, <1>2, <1>10
    <3>2. QED
      BY <1>3, <1>8, <3>1 DEF InStepAt
  <2>2. /\ d.session.previous = e.previous /\ d.session.codec.key_table = u
        /\ d.res = "ok" /\ e.kept # None => d.session.previous = e.kept
        /\ d.res # "ok" <=> Cardinality(Deletions(e.msg)) >= 2
    BY <1>3, <1>4, <1>5, <1>6, <1>9, <2>1, TurnFirst
  <2>3. QED
    BY <1>3, <1>7, <2>2 DEF InStepAt
<1>11. CASE i = pos
  <2>1. rcv.previous = e.previous /\ rcv.codec.key_table = u
    BY <1>3, <1>7, <1>8, <1>11 DEF InStepAt
  <2>2. /\ d.session.previous = e.previous /\ d.session.codec.key_table = u
        /\ d.res = "ok" /\ e.kept # None => d.session.previous = e.kept
    BY <1>3, <1>4, <1>5, <1>6, <1>9, <2>1, TurnAgain
  <2>3. i # pos + 1
    BY <1>1, <1>11
  <2>4. QED
    BY <1>3, <1>7, <2>2, <2>3 DEF InStepAt
<1>12. QED
  BY <1>10, <1>11

\* Nothing sent, nothing decoded: both are new.
LEMMA EmptyInSync == Empty => SenderSync /\ ReceiverSync
<1> SUFFICES ASSUME Empty PROVE SenderSync /\ ReceiverSync
  OBVIOUS
<1>1. /\ snd.previous = None /\ rcv.previous = None
      /\ snd.codec.key_table = << >> /\ rcv.codec.key_table = << >>
  BY NewSessionOK DEF Empty, NewCodec, clear
<1>2. log = << >> /\ Len(log) = 0 /\ pos = 0
  BY DEF Empty
<1>3. PrevAt(log, 0) = None /\ KeysAt(log, 0) = << >>
  BY DEF PrevAt, KeysAt, Mapped
<1>4. LogSync(log)
  BY <1>2 DEF LogSync
<1>5. QED
  BY <1>1, <1>2, <1>3, <1>4 DEF SenderSync, PrevSendable, HasMap, ReceiverSync, InStepAt

\* A buffer is lost: the log says the same otherwise.
LEMMA LoseKeepsSync ==
    ASSUME SyncInv, Lose
    PROVE  SenderSync' /\ ReceiverSync'
<1>1. TInv /\ LogOK(log) /\ Len(log) \in Nat /\ pos \in 0..Len(log)
  BY LenProperties DEF SyncInv, TInv, LogOK
<1>2. /\ SameButLost(log, log') /\ pos' = pos + 1 /\ pos + 1 \in 1..Len(log)
      /\ log'[pos + 1].lost = TRUE /\ UNCHANGED << snd, rcv >>
  BY <1>1, LoseMarks
<1>3. PICK l2 : l2 = log'
  OBVIOUS
<1>4. PICK n \in Nat : n = Len(log) /\ n = Len(l2)
  BY <1>1, <1>2, <1>3 DEF SameButLost
<1>5. /\ \A i \in 0..n : PrevAt(l2, i) = PrevAt(log, i)
      /\ \A i \in 1..n : /\ l2[i].msg = log[i].msg /\ l2[i].kept = log[i].kept
                         /\ l2[i].previous = log[i].previous
  BY <1>1, <1>2, <1>3, <1>4, LogMarked DEF SameButLost
<1>6. ASSUME NEW i \in 0..n
      PROVE  KeysAt(l2, i) = KeysAt(log, i)
  <2>1. \A j \in 1..i : l2[j].msg = log[j].msg
    BY <1>5
  <2>2. Mapped(l2, i) <=> Mapped(log, i)
    BY <2>1 DEF Mapped
  <2>3. QED
    BY <2>2 DEF KeysAt
<1>7. ASSUME NEW i \in 1..n
      PROVE  EntryTurn(PrevAt(l2, i - 1), KeysAt(l2, i - 1), l2[i], KeysAt(l2, i))
  <2>1. EntryTurn(PrevAt(log, i - 1), KeysAt(log, i - 1), log[i], KeysAt(log, i))
    BY <1>4 DEF SyncInv, SenderSync, LogSync
  <2>2. i - 1 \in 0..n /\ i \in 0..n
    OBVIOUS
  <2>3. PICK p, t, u, e, e2 :
           /\ p = PrevAt(log, i - 1) /\ t = KeysAt(log, i - 1) /\ u = KeysAt(log, i)
           /\ e = log[i] /\ e2 = l2[i]
    OBVIOUS
  <2>4. e2.msg = e.msg /\ e2.kept = e.kept /\ e2.previous = e.previous
    BY <1>5, <2>3
  <2>5. /\ FullTurn(p, t, e, u) => FullTurn(p, t, e2, u)
        /\ TemplateTurn(p, t, e, u) => TemplateTurn(p, t, e2, u)
        /\ SnapshotTurn(p, t, e, u) => SnapshotTurn(p, t, e2, u)
    BY <2>4 DEF FullTurn, TemplateTurn, SnapshotTurn
  <2>6. PatchTurn(p, t, e, u) => PatchTurn(p, t, e2, u)
    BY <2>4 DEF PatchTurn
  <2>7. EntryTurn(p, t, e2, u)
    BY <2>1, <2>3, <2>5, <2>6 DEF EntryTurn
  <2>8. QED
    BY <1>5, <1>6, <2>2, <2>3, <2>7
<1>8. SenderSync'
  <2>1. LogSync(l2)
    BY <1>4, <1>7 DEF LogSync
  <2>2. KeysAt(l2, Len(l2)) = KeysAt(log, Len(log))
    BY <1>4, <1>6
  <2>3. QED
    BY <1>2, <1>3, <2>1, <2>2 DEF SyncInv, SenderSync, PrevSendable, HasMap
<1>9. ReceiverSync'
  <2>1. pos' \in 1..pos' /\ l2[pos'].lost
    BY <1>1, <1>2, <1>3
  <2>2. QED
    BY <1>3, <2>1 DEF ReceiverSync
<1>10. QED
  BY <1>8, <1>9

\* The receiver stays in step with a sender that decodes what it sends.
LEMMA SyncAlways == ASSUME OneKeyList, LoopsBack PROVE Spec => []SyncInv
<1>1. Init => SyncInv
  <2> SUFFICES ASSUME Init PROVE SyncInv
    OBVIOUS
  <2>1. Empty
    BY DEF Init, Empty
  <2>2. SnapsAt(log, 0) = << >> /\ pos = 0
    BY <2>1 DEF SnapsAt, Empty
  <2>3. QED
    BY <2>1, <2>2, EmptyTyped, EmptyInSync DEF SyncInv, HInv, Held
<1>2. SyncInv /\ [Next]_vars => SyncInv'
  <2> SUFFICES ASSUME SyncInv, [Next]_vars PROVE SyncInv'
    OBVIOUS
  <2>1. TInv' /\ HInv'
    BY TypedInductive, HeldInductive DEF SyncInv
  <2>2. Len(log) \in Nat /\ pos \in 0..Len(log)
    BY LenProperties DEF SyncInv, TInv, LogOK
  <2>3. CASE Encodes
    BY <2>1, <2>3, SendKeepsSync DEF SyncInv
  <2>4. ASSUME NEW i \in 1..Len(log), i = pos + 1 \/ i = pos,
               ReceiverDecodes(i), pos' = i, UNCHANGED << snd, log >>
        PROVE  SyncInv'
    <3>1. PICK d : d = decode_message(rcv, log[i].msg)
      OBVIOUS
    <3>2. rcv' = d.session /\ res' = d.res
      BY <2>4, <3>1 DEF ReceiverDecodes
    <3>3. (\A j \in 1..i : ~log[j].lost) => InStepAt(i, d.session, d.res)
      BY <2>4, <3>1, DecodeKeepsSync
    <3>4. ReceiverSync'
      BY <2>4, <3>2, <3>3 DEF ReceiverSync, InStepAt
    <3>5. SenderSync'
      BY <2>4 DEF SyncInv, SenderSync, PrevSendable, HasMap
    <3>6. QED
      BY <2>1, <3>4, <3>5 DEF SyncInv
  <2>5. CASE Decode
    <3>1. pos + 1 \in 1..Len(log)
      BY <2>2, <2>5 DEF Decode
    <3>2. QED
      BY <2>4, <2>5, <3>1 DEF Decode
  <2>6. CASE DecodeAgain
    <3>1. pos \in 1..Len(log)
      BY <2>2, <2>6 DEF DecodeAgain
    <3>2. QED
      BY <2>4, <2>6, <3>1 DEF DecodeAgain
  <2>7. CASE Lose
    BY <2>1, <2>7, LoseKeepsSync DEF SyncInv
  <2>8. CASE reset_state
    <3>1. Empty'
      BY <2>8 DEF reset_state, Empty
    <3>2. Empty' => SenderSync' /\ ReceiverSync'
      BY EmptyInSync, PTL
    <3>3. QED
      BY <2>1, <3>1, <3>2 DEF SyncInv
  <2>9. CASE UNCHANGED vars
    <3>1. SenderSync' /\ ReceiverSync'
      BY <2>9 DEF vars, SyncInv, SenderSync, PrevSendable, HasMap, ReceiverSync, InStepAt
    <3>2. QED
      BY <2>1, <3>1 DEF SyncInv
  <2>10. QED
    BY <2>3, <2>5, <2>6, <2>7, <2>8, <2>9, StepsAre
<1>3. QED
  BY <1>1, <1>2, PTL DEF Spec

\* Without a loss nothing of the log was lost.
LEMMA NoneLost ==
    ASSUME TInv, Lost = {}
    PROVE  \A j \in 1..pos : ~log[j].lost
<1>1. DOMAIN log = 1..Len(log) /\ Len(log) \in Nat /\ pos \in 0..Len(log)
  BY LenProperties DEF TInv, LogOK
<1>2. QED
  BY <1>1 DEF Lost

\* When the sender decodes what it sends, maps all have the same keys and
\* nothing is lost, the receiver's previous message is the sender's.
THEOREM PreviousAgrees == ASSUME OneKeyList, LoopsBack PROVE Spec => []PreviousInSync
<1>1. SyncInv => PreviousInSync
  <2> SUFFICES ASSUME SyncInv, Lost = {}
               PROVE  rcv.previous = IF pos = 0 THEN None ELSE log[pos].previous
    BY DEF PreviousInSync
  <2>1. InStepAt(pos, rcv, res)
    BY NoneLost DEF SyncInv, ReceiverSync
  <2>2. QED
    BY <2>1 DEF InStepAt, PrevAt
<1>2. QED
  BY <1>1, SyncAlways, PTL

\* Then a patch that is applied without an error makes the message it was
\* made for; and a patch to a snapshot does even after losses, if that
\* snapshot arrived.
THEOREM PatchesReachTheValue == ASSUME OneKeyList, LoopsBack PROVE Spec => []PatchesReconstruct
<1>1. SyncInv /\ BInv => PatchesReconstruct
  <2> SUFFICES ASSUME SyncInv, BInv, pos > 0, res = "ok", log[pos].kept # None,
                      Lost = {} \/ (NamesBase(pos) /\ BaseArrived(pos))
               PROVE  rcv.previous = log[pos].kept
    BY DEF PatchesReconstruct
  <2>1. CASE Lost = {}
    <3>1. InStepAt(pos, rcv, res)
      BY <2>1, NoneLost DEF SyncInv, ReceiverSync
    <3>2. QED
      BY <3>1 DEF InStepAt
  <2>2. CASE NamesBase(pos) /\ BaseArrived(pos)
    <3>1. TInv /\ pos \in 1..Len(log)
      BY LenProperties DEF SyncInv, TInv, LogOK
    <3>2. log[pos].msg.base_ref.id \in ArrivedIds(log, pos)
      BY <2>2, <3>1, BaseAmongArrived
    <3>3. QED
      BY <2>2, <3>2 DEF BInv
  <2>3. QED
    BY <2>1, <2>2
<1>2. Init => BInv
  BY DEF Init, BInv
<1>3. TInv /\ HInv /\ BInv /\ [Next]_vars => BInv'
  BY NamedInductive
<1>4. SyncInv => TInv /\ HInv
  BY DEF SyncInv
<1>5. QED
  BY <1>1, <1>2, <1>3, <1>4, SyncAlways, PTL DEF Spec

\* And what fails is exactly a patch with two deletions or more.
THEOREM FailsWhenShrinking == ASSUME OneKeyList, LoopsBack PROVE Spec => ShrinkingFails
<1>1. SyncInv /\ TInv' /\ [Next]_vars =>
         [pos' = pos + 1 /\ Lost' = {} =>
             (res' # "ok" <=> Cardinality(Deletions(log[pos'].msg)) >= 2)]_vars
  <2> SUFFICES ASSUME SyncInv, TInv', [Next]_vars, pos' = pos + 1, Lost' = {}
               PROVE  res' # "ok" <=> Cardinality(Deletions(log[pos'].msg)) >= 2
    OBVIOUS
  <2>1. TInv /\ LogOK(log) /\ Len(log) \in Nat /\ pos \in 0..Len(log)
    BY LenProperties DEF SyncInv, TInv, LogOK
  <2>2. ~(Encodes \/ DecodeAgain \/ reset_state \/ UNCHANGED vars)
    <3>1. Encodes => pos' = pos
      <4> SUFFICES ASSUME Encodes PROVE pos' = pos
        OBVIOUS
      <4>1. PICK session, msg, kept : Sends(session, msg, kept) /\ Sent(session, msg, kept)
        BY <2>1, EncodesSends DEF TInv
      <4>2. QED
        BY <4>1 DEF Sent
    <3>2. QED
      BY <2>1, <3>1 DEF DecodeAgain, reset_state, vars
  <2>3. ~Lose
    <3> SUFFICES ASSUME Lose PROVE FALSE
      OBVIOUS
    <3>1. /\ SameButLost(log, log') /\ pos + 1 \in 1..Len(log) /\ log'[pos + 1].lost = TRUE
      BY <2>1, LoseMarks
    <3>2. DOMAIN log' = 1..Len(log)
      BY <3>1, LenProperties DEF SameButLost
    <3>3. QED
      BY <3>1, <3>2 DEF Lost
  <2>4. Decode
    BY <2>2, <2>3, StepsAre
  <2>5. pos + 1 \in 1..Len(log) /\ ReceiverDecodes(pos + 1) /\ log' = log
    BY <2>1, <2>4 DEF Decode
  <2>6. PICK d : d = decode_message(rcv, log[pos + 1].msg) /\ res' = d.res
    BY <2>5 DEF ReceiverDecodes
  <2>7. \A j \in 1..pos + 1 : ~log[j].lost
    <3>1. DOMAIN log = 1..Len(log)
      BY LenProperties DEF SyncInv, TInv, LogOK
    <3>2. QED
      BY <2>1, <2>5, <3>1 DEF Lost
  <2>8. d.res # "ok" <=> Cardinality(Deletions(log[pos + 1].msg)) >= 2
    BY <2>5, <2>6, <2>7, DecodeKeepsSync
  <2>9. QED
    BY <2>5, <2>6, <2>8
<1>2. SyncInv => TInv
  BY DEF SyncInv
<1>3. QED
  BY <1>1, <1>2, SyncAlways, PTL DEF Spec, ShrinkingFails

=============================================================================
