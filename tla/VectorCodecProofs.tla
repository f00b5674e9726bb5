-------------------------- MODULE VectorCodecProofs --------------------------
(***************************************************************************)
(* What is written of a vector is read back as the vector, for integers of *)
(* any width, or refused because a difference of neighbours was out of     *)
(* range; and what is packed fits its width.                               *)
(***************************************************************************)
EXTENDS VectorCodec, Induction

-----------------------------------------------------------------------------
(* Powers of two, and the bits of a number. *)

\* Pow2 is defined: 1, then twice the one before.
LEMMA Powers ==
    /\ Pow2[0] = 1
    /\ \A k \in 1..2 * W : Pow2[k] = 2 * Pow2[k - 1]
    /\ \A k \in 0..2 * W : Pow2[k] \in Nat /\ Pow2[k] > 0
<1>1. PICK n \in Nat : n = 2 * W
  BY WAssumption
<1> DEFINE A == Nat \ {0}
           F == [x \in A \X (1..n) |-> 2 * x[1]]
           Step(f) == [k \in 0..n |-> IF k = 0 THEN 1 ELSE 2 * f[k - 1]]
<1>2. PICK h \in [0..n -> A] : Follows(h, n, 1, F)
  <2>1. F \in [A \X (1..n) -> A] /\ 1 \in A
    OBVIOUS
  <2> HIDE DEF F, A
  <2>2. QED
    BY <2>1, Iteration
<1>3. h[0] = 1
  BY <1>2 DEF Follows
<1>4. ASSUME NEW i \in 1..n
      PROVE  h[i] = 2 * h[i - 1]
  <2>1. i - 1 \in 0..n
    OBVIOUS
  <2>2. << h[i - 1], i >> \in A \X (1..n)
    BY <2>1
  <2>3. h[i] = F[<< h[i - 1], i >>]
    BY <1>2 DEF Follows
  <2>4. QED
    BY <2>2, <2>3
<1> HIDE DEF F
<1>5. h = Step(h)
  <2>1. h = [k \in 0..n |-> h[k]]
    OBVIOUS
  <2>2. \A k \in 0..n : h[k] = IF k = 0 THEN 1 ELSE 2 * h[k - 1]
    BY <1>3, <1>4
  <2>3. QED
    BY <2>1, <2>2
<1>6. Pow2 = CHOOSE f : f = Step(f)
  BY <1>1 DEF Pow2
<1>7. Pow2 = Step(Pow2)
  <2> HIDE DEF Step
  <2>1. QED
    BY <1>5, <1>6
<1>8. /\ Pow2[0] = 1
      /\ \A k \in 1..n : Pow2[k] = 2 * Pow2[k - 1]
  <2> DEFINE P == Pow2
  <2>1. P = Step(P)
    BY <1>7
  <2> HIDE DEF P
  <2>2. P[0] = 1 /\ \A k \in 1..n : P[k] = 2 * P[k - 1]
    BY <2>1
  <2>3. QED
    BY <2>2 DEF P
<1>9. Pow2[0] \in A
  BY <1>8
<1>10. \A k \in 1..n : Pow2[k - 1] \in A => Pow2[k] \in A
  BY <1>8
<1>11. \A k \in 0..n : Pow2[k] \in A
  <2> HIDE DEF A
  <2>1. QED
    BY <1>9, <1>10, StaysIn
<1>12. QED
  BY <1>1, <1>8, <1>11

\* They grow.
LEMMA PowersGrow ==
    ASSUME NEW j \in 0..2 * W, NEW k \in 0..2 * W, j <= k
    PROVE  Pow2[j] <= Pow2[k]
<1>1. PICK n \in Nat : n = 2 * W
  BY WAssumption
<1> DEFINE T == {d \in 0..k - j : Pow2[j] <= Pow2[j + d]}
<1>2. 0 \in T
  BY <1>1, Powers
<1>3. ASSUME NEW d \in 1..k - j, d - 1 \in T
      PROVE  d \in T
  <2>1. j + d \in 1..n /\ j + (d - 1) \in 0..n /\ j + d - 1 = j + (d - 1)
    BY <1>1
  <2>2. Pow2[j + d] = 2 * Pow2[j + (d - 1)] /\ Pow2[j + (d - 1)] \in Nat /\ Pow2[j] \in Nat
    BY <1>1, <2>1, Powers
  <2>3. Pow2[j] <= Pow2[j + (d - 1)]
    BY <1>3
  <2>4. QED
    BY <2>2, <2>3
<1>4. 0..k - j \subseteq T
  <2>1. k - j \in Nat
    BY <1>1
  <2> HIDE DEF T
  <2>2. QED
    BY <1>2, <1>3, <2>1, UpTo
<1>5. k - j \in T /\ j + (k - j) = k
  BY <1>1, <1>4
<1>6. QED
  BY <1>5

\* The numbers the thresholds of the selection compare with.
LEMMA Widths ==
    /\ Half \in Nat /\ Half > 0 /\ Pow2[W] = 2 * Half
    /\ Pow2[W - 4] \in Nat /\ Half = 8 * Pow2[W - 4] /\ Pow2[W - 3] = 2 * Pow2[W - 4]
<1>1. /\ W \in 1..2 * W /\ W - 1 \in 1..2 * W /\ W - 2 \in 1..2 * W
      /\ W - 3 \in 1..2 * W /\ W - 4 \in 0..2 * W
      /\ (W - 1) - 1 = W - 2 /\ (W - 2) - 1 = W - 3 /\ (W - 3) - 1 = W - 4
  BY WAssumption
<1>2. /\ Pow2[W] = 2 * Pow2[W - 1] /\ Pow2[W - 1] = 2 * Pow2[W - 2]
      /\ Pow2[W - 2] = 2 * Pow2[W - 3] /\ Pow2[W - 3] = 2 * Pow2[W - 4]
      /\ Pow2[W - 4] \in Nat /\ Pow2[W - 4] > 0
  BY <1>1, Powers
<1>3. QED
  BY <1>2 DEF Half

\* bit_width is the least number of bits that hold the number, but one for 0.
LEMMA BitWidth ==
    ASSUME NEW n \in Unsigned
    PROVE  /\ bit_width(n) \in 1..W
           /\ n < Pow2[bit_width(n)]
           /\ \A k \in 1..W : n < Pow2[k] <=> bit_width(n) <= k
<1>1. PICK m \in Nat : m = 2 * W
  BY WAssumption
<1>2. n \in Nat /\ n < Pow2[W]
  BY Widths DEF Unsigned
<1>3. CASE n = 0
  <2>1. bit_width(n) = 1
    BY <1>3 DEF bit_width
  <2>2. \A k \in 1..W : Pow2[k] \in Nat /\ Pow2[k] > 0
    BY Powers, WAssumption
  <2>3. 1 \in 1..W
    BY WAssumption
  <2>4. QED
    BY <1>3, <2>1, <2>2, <2>3
<1>4. CASE n # 0
  <2> DEFINE T == {k \in 0..W : n < Pow2[k]}
  <2>1. W \in T /\ T \in SUBSET Nat
    BY <1>2, WAssumption
  <2>2. PICK b \in T : \A k \in T : b <= k
    <3> HIDE DEF T
    <3>1. QED
      BY <2>1, Smallest
  <2>3. b \in 0..W /\ n < Pow2[b]
    OBVIOUS
  <2>4. b # 0
    BY <1>2, <1>4, <2>3, Powers
  <2>5. b \in 1..W /\ b - 1 \in 0..W /\ b \in 1..m /\ b - 1 \in 0..m
    BY <1>1, <2>3, <2>4, WAssumption
  <2>6. Pow2[b - 1] <= n
    <3>1. b - 1 \notin T
      BY <2>2, <2>5
    <3>2. Pow2[b - 1] \in Nat
      BY <1>1, <2>5, Powers
    <3>3. QED
      BY <1>2, <2>5, <3>1, <3>2
  <2> DEFINE w == CHOOSE k \in 1..m : Pow2[k - 1] <= n /\ n < Pow2[k]
  <2>7. w \in 1..m /\ Pow2[w - 1] <= n /\ n < Pow2[w]
    BY <2>3, <2>5, <2>6
  <2>8. w = bit_width(n)
    BY <1>1, <1>4 DEF bit_width
  <2> HIDE DEF w, T
  <2>9. ASSUME NEW k \in 0..m, n < Pow2[k]
        PROVE  w <= k
    <3>1. SUFFICES ASSUME k < w
                   PROVE  FALSE
      BY <2>7
    <3>2. k <= w - 1 /\ w - 1 \in 0..m
      BY <2>7, <3>1
    <3>3. Pow2[k] <= Pow2[w - 1] /\ Pow2[k] \in Nat /\ Pow2[w - 1] \in Nat
      BY <1>1, <3>2, PowersGrow, Powers
    <3>4. QED
      BY <1>2, <2>7, <2>9, <3>3
  <2>10. ASSUME NEW k \in 0..m, w <= k
         PROVE  n < Pow2[k]
    <3>1. Pow2[w] <= Pow2[k] /\ Pow2[k] \in Nat /\ Pow2[w] \in Nat
      BY <1>1, <2>7, <2>10, PowersGrow, Powers
    <3>2. QED
      BY <1>2, <2>7, <3>1
  <2>11. \A k \in 1..W : k \in 0..m
    BY <1>1, WAssumption
  <2>12. w <= W
    <3>1. W \in 0..m
      BY <1>1, WAssumption
    <3>2. QED
      BY <1>2, <2>9, <3>1
  <2>13. w \in 1..W
    BY <2>7, <2>12, WAssumption
  <2>14. QED
    BY <2>7, <2>8, <2>9, <2>10, <2>11, <2>13
<1>5. QED
  BY <1>3, <1>4

-----------------------------------------------------------------------------
(* Numbers of W bits. *)

\* Signed numbers are those in range.
LEMMA SignedNumbers == \A x \in Signed : x \in Int /\ IsSigned(x)
<1>1. PICK h \in Nat : h = Half
  BY Widths
<1>2. QED
  BY <1>1 DEF Signed, IsSigned

\* A number below 2^W is itself, taken for unsigned.
LEMMA InRange ==
    ASSUME NEW n \in Nat, n < 2 * Half
    PROVE  n \in Unsigned /\ AsUnsigned(n) = n
<1>1. PICK h \in Nat : h = Half /\ h > 0
  BY Widths
<1>2. PICK M \in Nat : M = 2 * h /\ M > 0
  BY <1>1
<1>3. n % M = n
  BY <1>1, <1>2
<1>4. QED
  BY <1>1, <1>2, <1>3 DEF Unsigned, AsUnsigned

\* Wrap keeps a number that fits and shifts one that is off by less than the
\* whole range back into it.
LEMMA Wraps ==
    ASSUME NEW n \in Int, -(3 * Half) <= n, n < 3 * Half
    PROVE  Wrap(n) = IF n < -Half THEN n + 2 * Half
                     ELSE IF n < Half THEN n ELSE n - 2 * Half
<1>1. PICK h \in Nat : h = Half /\ h > 0
  BY Widths
<1>2. PICK M \in Nat : M = 2 * h /\ M > 0
  BY <1>1
<1>3. PICK x \in Int : x = n + h
  BY <1>1
<1>4. -M <= x /\ x < 2 * M
  BY <1>1, <1>2, <1>3
<1>5. Wrap(n) = (x % M) - h
  BY <1>1, <1>2, <1>3 DEF Wrap
<1>6. CASE x < 0
  <2>1. x % M = x + M
    BY <1>2, <1>4, <1>6
  <2>2. QED
    BY <1>1, <1>2, <1>3, <1>5, <1>6, <2>1
<1>7. CASE 0 <= x /\ x < M
  <2>1. x % M = x
    BY <1>2, <1>7
  <2>2. QED
    BY <1>1, <1>2, <1>3, <1>5, <1>7, <2>1
<1>8. CASE M <= x
  <2>1. x % M = x - M
    BY <1>2, <1>4, <1>8
  <2>2. QED
    BY <1>1, <1>2, <1>3, <1>5, <1>8, <2>1
<1>9. QED
  BY <1>2, <1>3, <1>6, <1>7, <1>8

\* The difference of two numbers, taken modulo 2^W, is a number again; added to
\* the smaller it gives the other, modulo 2^W, and without wrapping if the
\* sum is in range.
LEMMA Differences ==
    ASSUME NEW a \in Signed, NEW b \in Signed
    PROVE  /\ Wrap(a - b) \in Signed
           /\ Wrap(Wrap(a - b) + b) = a
           /\ IsSigned(b + Wrap(a - b)) => b + Wrap(a - b) = a
           /\ IsSigned(a - b) => Wrap(a - b) = a - b
<1>1. PICK h \in Nat : h = Half /\ h > 0
  BY Widths
<1>2. a \in Int /\ b \in Int /\ -h <= a /\ a < h /\ -h <= b /\ b < h
  BY <1>1 DEF Signed
<1>3. Wrap(a - b) = IF a - b < -h THEN a - b + 2 * h
                    ELSE IF a - b < h THEN a - b ELSE a - b - 2 * h
  <2>1. a - b \in Int /\ -(3 * h) <= a - b /\ a - b < 3 * h
    BY <1>1, <1>2
  <2>2. QED
    BY <1>1, <2>1, Wraps
<1>4. PICK d \in Int : d = Wrap(a - b)
  BY <1>1, <1>2, <1>3
<1>5. -h <= d /\ d < h
  BY <1>1, <1>2, <1>3, <1>4
<1>6. PICK z \in Int : z = d + b
  BY <1>2
<1>7. Wrap(z) = IF z < -h THEN z + 2 * h ELSE IF z < h THEN z ELSE z - 2 * h
  <2>1. -(3 * h) <= z /\ z < 3 * h
    BY <1>1, <1>2, <1>5, <1>6
  <2>2. QED
    BY <1>1, <2>1, Wraps
<1>8. d \in Signed
  BY <1>1, <1>5 DEF Signed
<1>9. Wrap(d + b) = a
  <2>1. Wrap(z) = a
    BY <1>1, <1>2, <1>3, <1>4, <1>6, <1>7
  <2>2. QED
    BY <1>6, <2>1, Zenon
<1>10. IsSigned(b + d) => b + d = a
  BY <1>1, <1>2, <1>3, <1>4 DEF IsSigned
<1>11. IsSigned(a - b) => d = a - b
  BY <1>1, <1>2, <1>3, <1>4 DEF IsSigned
<1>12. QED
  BY <1>4, <1>8, <1>9, <1>10, <1>11

\* The zigzag encoding is undone, and turns signed numbers into unsigned ones.
THEOREM Zigzag ==
    ASSUME NEW n \in Signed
    PROVE  /\ encode_zigzag(n) \in Unsigned
           /\ decode_zigzag(encode_zigzag(n)) = n
<1>1. PICK h \in Nat : h = Half /\ h > 0
  BY Widths
<1>2. n \in Int /\ -h <= n /\ n < h
  BY <1>1 DEF Signed
<1>3. encode_zigzag(n) \in Unsigned
  BY <1>1, <1>2 DEF encode_zigzag, Unsigned
<1>4. CASE n >= 0
  <2>1. encode_zigzag(n) = 2 * n
    BY <1>4 DEF encode_zigzag
  <2>2. (2 * n) % 2 = 0 /\ (2 * n) \div 2 = n
    BY <1>2
  <2>3. QED
    BY <1>3, <2>1, <2>2 DEF decode_zigzag
<1>5. CASE n < 0
  <2>1. encode_zigzag(n) = -2 * n - 1
    BY <1>2, <1>5 DEF encode_zigzag
  <2>2. (-2 * n - 1) % 2 # 0 /\ (-2 * n - 1) \div 2 = -n - 1
    BY <1>2
  <2>3. -((-2 * n - 1) \div 2) - 1 = n
    BY <1>2, <2>2
  <2>4. QED
    BY <1>3, <2>1, <2>2, <2>3 DEF decode_zigzag
<1>6. QED
  BY <1>2, <1>4, <1>5

-----------------------------------------------------------------------------
(* The smallest and the largest of a set, and the widest of a vector. *)

\* A set of integers with a lower bound has a smallest one.
LEMMA LeastOf ==
    ASSUME NEW T \in SUBSET Int, T # {}, NEW a \in Int, \A x \in T : a <= x
    PROVE  Min(T) \in T /\ \A x \in T : Min(T) <= x
<1> DEFINE U == {x - a : x \in T}
<1>1. U \in SUBSET Nat /\ U # {}
  <2>1. \A x \in T : x \in Int /\ x - a \in Nat
    OBVIOUS
  <2>2. QED
    BY <2>1
<1>2. PICK m \in U : \A u \in U : m <= u
  <2> HIDE DEF U
  <2>1. QED
    BY <1>1, Smallest
<1>3. PICK x \in T : m = x - a
  OBVIOUS
<1>4. \A y \in T : x <= y
  <2>1. SUFFICES ASSUME NEW y \in T
                 PROVE  x <= y
    OBVIOUS
  <2>2. m <= y - a
    BY <1>2
  <2>3. QED
    BY <1>3, <2>2
<1>5. QED
  BY <1>4 DEF Min

\* A set of integers with an upper bound has a largest one.
LEMMA GreatestOf ==
    ASSUME NEW T \in SUBSET Int, T # {}, NEW a \in Int, \A x \in T : x <= a
    PROVE  Max(T) \in T /\ \A x \in T : x <= Max(T)
<1> DEFINE U == {a - x : x \in T}
<1>1. U \in SUBSET Nat /\ U # {}
  <2>1. \A x \in T : x \in Int /\ a - x \in Nat
    OBVIOUS
  <2>2. QED
    BY <2>1
<1>2. PICK m \in U : \A u \in U : m <= u
  <2> HIDE DEF U
  <2>1. QED
    BY <1>1, Smallest
<1>3. PICK x \in T : m = a - x
  OBVIOUS
<1>4. \A y \in T : x >= y
  <2>1. SUFFICES ASSUME NEW y \in T
                 PROVE  x >= y
    OBVIOUS
  <2>2. m <= a - y
    BY <1>2
  <2>3. QED
    BY <1>3, <2>2
<1>5. Max(T) \in T /\ \A y \in T : Max(T) >= y
  BY <1>4 DEF Max
<1>6. QED
  BY <1>5

\* The elements of a vector of numbers lie between the smallest and the largest.
LEMMA Extremes ==
    ASSUME NEW s, s \in Seq(Signed) \/ s \in Seq(Unsigned), s # << >>
    PROVE  /\ Min(Range(s)) \in Range(s) /\ Max(Range(s)) \in Range(s)
           /\ Range(s) \subseteq Int
           /\ \A i \in 1..Len(s) : Min(Range(s)) <= s[i] /\ s[i] <= Max(Range(s))
<1>1. PICK h \in Nat : h = Half /\ h > 0
  BY Widths
<1>2. PICK n \in Nat : n = Len(s) /\ s \in [1..n -> -(2 * h)..2 * h]
  <2>1. Signed \subseteq -(2 * h)..2 * h /\ Unsigned \subseteq -(2 * h)..2 * h
    BY <1>1 DEF Signed, Unsigned
  <2>2. s \in Seq(-(2 * h)..2 * h)
    BY <2>1, SeqMonotonic
  <2>3. QED
    BY <2>2, LenProperties
<1>3. n # 0
  BY <1>2, EmptySeq
<1>4. Range(s) = {s[i] : i \in 1..n}
  BY <1>2 DEF Range
<1>5. /\ Range(s) \in SUBSET Int /\ Range(s) # {}
      /\ \A x \in Range(s) : -(2 * h) <= x /\ x <= 2 * h
  BY <1>2, <1>3, <1>4
<1>6. -(2 * h) \in Int /\ 2 * h \in Int
  BY <1>1
<1>7. Min(Range(s)) \in Range(s) /\ \A x \in Range(s) : Min(Range(s)) <= x
  BY <1>5, <1>6, LeastOf
<1>8. Max(Range(s)) \in Range(s) /\ \A x \in Range(s) : x <= Max(Range(s))
  BY <1>5, <1>6, GreatestOf
<1>9. \A i \in 1..n : s[i] \in Range(s)
  BY <1>4
<1>10. QED
  BY <1>2, <1>5, <1>7, <1>8, <1>9

\* The widest width of unsigned numbers is one of an integer, and what all the
\* numbers fit into holds it.
LEMMA WidestOf ==
    ASSUME NEW s \in Seq(Unsigned)
    PROVE  /\ Widest(s) \in 1..W
           /\ \A i \in 1..Len(s) : s[i] < Pow2[Widest(s)]
           /\ \A k \in 1..W :
                 (\A i \in 1..Len(s) : s[i] < Pow2[k]) => Widest(s) <= k
<1>1. PICK n \in Nat : n = Len(s) /\ s \in [1..n -> Unsigned]
  BY LenProperties
<1> DEFINE T == {1} \cup {bit_width(s[i]) : i \in 1..n}
<1>2. Widest(s) = Max(T)
  <2>1. Each(bit_width, s) = [i \in 1..n |-> bit_width(s[i])]
    BY <1>1 DEF Each
  <2>2. Range([i \in 1..n |-> bit_width(s[i])]) = {bit_width(s[i]) : i \in 1..n}
    BY DEF Range
  <2>3. QED
    BY <2>1, <2>2 DEF Widest
<1>3. \A i \in 1..n : /\ s[i] \in Unsigned /\ bit_width(s[i]) \in 1..W
                      /\ \A k \in 1..W : s[i] < Pow2[k] <=> bit_width(s[i]) <= k
  BY <1>1, BitWidth
<1>4. T \subseteq 1..W /\ 1 \in T /\ \A i \in 1..n : bit_width(s[i]) \in T
  BY <1>3, WAssumption
<1>5. \A t \in T : t = 1 \/ \E i \in 1..n : t = bit_width(s[i])
  OBVIOUS
<1> HIDE DEF T
<1>6. PICK w \in 1..W : w = Max(T) /\ w \in T /\ \A t \in T : t <= w
  <2>1. T \in SUBSET Int /\ T # {} /\ W \in Int /\ \A t \in T : t <= W
    BY <1>4, WAssumption
  <2>2. Max(T) \in T /\ \A t \in T : t <= Max(T)
    BY <2>1, GreatestOf
  <2>3. QED
    BY <1>4, <2>2
<1>7. \A i \in 1..n : s[i] < Pow2[w]
  BY <1>3, <1>4, <1>6
<1>8. ASSUME NEW k \in 1..W, \A i \in 1..n : s[i] < Pow2[k]
      PROVE  w <= k
  BY <1>3, <1>5, <1>6, <1>8
<1>9. QED
  BY <1>1, <1>2, <1>6, <1>7, <1>8

-----------------------------------------------------------------------------
(* Packed bits. *)

\* Packing unsigned numbers loses no bit of them, and takes no more bits of each
\* than all of them fit into.
LEMMA Bitpacked ==
    ASSUME NEW s \in Seq(Unsigned)
    PROVE  /\ bitpack(s).form = "Bitpack" /\ bitpack(s).items = s
           /\ Packed(bitpack(s))
           /\ \A k \in 1..W :
                 (\A i \in 1..Len(s) : s[i] < Pow2[k]) => bitpack(s).width <= k
<1>1. PICK n \in Nat : n = Len(s) /\ s \in [1..n -> Unsigned]
  BY LenProperties
<1>2. PICK w \in 0..W : w = IF s = << >> THEN 0 ELSE Widest(s)
  BY WidestOf, WAssumption
<1>3. bitpack(s) = [form |-> "Bitpack", width |-> w,
                    items |-> [i \in 1..n |-> s[i] % Pow2[w]]]
  BY <1>1, <1>2 DEF bitpack, Each
<1>4. PICK p \in Nat : p = Pow2[w] /\ p > 0
  <2>1. w \in 0..2 * W
    BY WAssumption
  <2>2. Pow2[w] \in Nat /\ Pow2[w] > 0
    BY <2>1, Powers
  <2>3. QED
    BY <2>2
<1>5. \A i \in 1..n : s[i] \in Nat /\ s[i] < p
  <2>1. CASE s = << >>
    BY <1>1, <2>1, EmptySeq
  <2>2. CASE s # << >>
    <3>1. \A i \in 1..n : s[i] < Pow2[w]
      BY <1>1, <1>2, <2>2, WidestOf
    <3>2. Unsigned \subseteq Nat
      BY Widths DEF Unsigned
    <3>3. QED
      BY <1>1, <1>4, <3>1, <3>2
  <2>3. QED
    BY <2>1, <2>2
<1>6. ASSUME NEW i \in 1..n
      PROVE  s[i] % p = s[i]
  <2>1. PICK x \in Nat : x = s[i] /\ x < p
    BY <1>5
  <2>2. x % p = x
    BY <1>4, <2>1
  <2>3. QED
    BY <2>1, <2>2
<1>7. [i \in 1..n |-> s[i] % Pow2[w]] = s
  BY <1>1, <1>4, <1>6
<1>8. bitpack(s).items = s /\ bitpack(s).width = w /\ bitpack(s).form = "Bitpack"
  BY <1>3, <1>7
<1>9. \A i \in 1..n : s[i] \in 0..Pow2[w] - 1
  BY <1>4, <1>5
<1>10. Packed(bitpack(s))
  BY <1>1, <1>8, <1>9 DEF Packed
<1>11. ASSUME NEW k \in 1..W, \A i \in 1..Len(s) : s[i] < Pow2[k]
       PROVE  w <= k
  BY <1>2, <1>11, WidestOf
<1>12. QED
  BY <1>8, <1>10, <1>11

\* The zigzag encoding of a vector is undone.
LEMMA Zigzagged ==
    ASSUME NEW s \in Seq(Signed)
    PROVE  /\ Each(encode_zigzag, s) \in Seq(Unsigned)
           /\ Len(Each(encode_zigzag, s)) = Len(s)
           /\ \A i \in 1..Len(s) : Each(encode_zigzag, s)[i] = encode_zigzag(s[i])
           /\ Each(decode_zigzag, Each(encode_zigzag, s)) = s
<1>1. PICK n \in Nat : n = Len(s) /\ s \in [1..n -> Signed]
  BY LenProperties
<1>2. Each(encode_zigzag, s) = [i \in 1..n |-> encode_zigzag(s[i])]
  BY <1>1 DEF Each
<1>3. \A i \in 1..n : /\ encode_zigzag(s[i]) \in Unsigned
                      /\ decode_zigzag(encode_zigzag(s[i])) = s[i]
  BY <1>1, Zigzag
<1>4. [i \in 1..n |-> encode_zigzag(s[i])] \in [1..n -> Unsigned]
  BY <1>3
<1>5. PICK e \in [1..n -> Unsigned] : e = Each(encode_zigzag, s)
  BY <1>2, <1>4
<1>6. e \in Seq(Unsigned) /\ Len(e) = n
  BY <1>5, IsASeq, LenProperties
<1>7. \A i \in 1..n : e[i] = encode_zigzag(s[i])
  BY <1>2, <1>5
<1>8. Each(decode_zigzag, e) = [i \in 1..n |-> decode_zigzag(e[i])]
  BY <1>5 DEF Each
<1>9. [i \in 1..n |-> decode_zigzag(e[i])] = s
  BY <1>1, <1>3, <1>7
<1>10. QED
  BY <1>1, <1>5, <1>6, <1>7, <1>8, <1>9

\* Packing signed numbers loses no bit of them either.
LEMMA SignedPacked ==
    ASSUME NEW s \in Seq(Signed)
    PROVE  /\ i64_bitpack(s).form = "Bitpack"
           /\ i64_bitpack(s).items = Each(encode_zigzag, s)
           /\ Packed(i64_bitpack(s))
           /\ \A k \in 1..W :
                 (\A i \in 1..Len(s) : encode_zigzag(s[i]) < Pow2[k])
                    => i64_bitpack(s).width <= k
<1>1. PICK e \in Seq(Unsigned) :
         /\ e = Each(encode_zigzag, s) /\ Len(e) = Len(s)
         /\ \A i \in 1..Len(s) : e[i] = encode_zigzag(s[i])
  BY Zigzagged
<1>2. i64_bitpack(s) = bitpack(e)
  BY <1>1 DEF i64_bitpack
<1>3. /\ bitpack(e).form = "Bitpack" /\ bitpack(e).items = e
      /\ Packed(bitpack(e))
      /\ \A k \in 1..W :
            (\A i \in 1..Len(e) : e[i] < Pow2[k]) => bitpack(e).width <= k
  BY Bitpacked
<1>4. QED
  BY <1>1, <1>2, <1>3

-----------------------------------------------------------------------------
(* Differences. *)

\* The differences of neighbours, modulo 2^W, are numbers again.
LEMMA DeltasOf ==
    ASSUME NEW s \in Seq(Signed)
    PROVE  /\ deltas(s) \in Seq(Signed) /\ Len(deltas(s)) = Len(s)
           /\ Len(s) # 0 => deltas(s)[1] = s[1]
           /\ \A i \in 2..Len(s) : deltas(s)[i] = Wrap(s[i] - s[i - 1])
<1>1. PICK n \in Nat : n = Len(s) /\ s \in [1..n -> Signed]
  BY LenProperties
<1>2. deltas(s) = [i \in 1..n |-> IF i = 1 THEN s[1] ELSE Wrap(s[i] - s[i - 1])]
  BY <1>1 DEF deltas
<1>3. ASSUME NEW i \in 1..n
      PROVE  (IF i = 1 THEN s[1] ELSE Wrap(s[i] - s[i - 1])) \in Signed
  <2>1. CASE i = 1
    BY <1>1, <2>1
  <2>2. CASE i # 1
    <3>1. i - 1 \in 1..n
      BY <2>2
    <3>2. s[i] \in Signed /\ s[i - 1] \in Signed
      BY <1>1, <3>1
    <3>3. Wrap(s[i] - s[i - 1]) \in Signed
      BY <3>2, Differences
    <3>4. QED
      BY <2>2, <3>3
  <2>3. QED
    BY <2>1, <2>2
<1>4. deltas(s) \in [1..n -> Signed]
  BY <1>2, <1>3
<1>5. deltas(s) \in Seq(Signed) /\ Len(deltas(s)) = n
  BY <1>4, IsASeq, LenProperties
<1>6. /\ n # 0 => deltas(s)[1] = s[1]
      /\ \A i \in 2..n : deltas(s)[i] = Wrap(s[i] - s[i - 1])
  BY <1>1, <1>2
<1>7. QED
  BY <1>1, <1>5, <1>6

\* The sums undelta_values forms.
SumsUpTo(sums, ds) ==
    /\ sums \in [0..Len(ds) -> Int] /\ sums[0] = 0
    /\ \A i \in 1..Len(ds) : sums[i] = sums[i - 1] + ds[i]

\* undelta_values returns its sums, or an error if one of them does not fit.
LEMMA SumsOf ==
    ASSUME NEW ds \in Seq(Signed)
    PROVE  \E sums : /\ SumsUpTo(sums, ds)
                     /\ undelta_values(ds) =
                           IF \A i \in 1..Len(ds) : IsSigned(sums[i - 1] + ds[i])
                           THEN [i \in 1..Len(ds) |-> sums[i]] ELSE InvalidData
<1>1. PICK n \in Nat : n = Len(ds) /\ ds \in [1..n -> Signed]
  BY LenProperties
<1>2. \A i \in 1..n : ds[i] \in Int
  BY <1>1, Widths, SMTT(30) DEF Signed
<1> DEFINE F == [x \in Int \X (1..n) |-> x[1] + ds[x[2]]]
           Step(f) == [i \in 0..Len(ds) |-> IF i = 0 THEN 0 ELSE Added(f[i - 1], ds[i])]
<1>3. PICK h \in [0..n -> Int] : Follows(h, n, 0, F)
  <2>1. F \in [Int \X (1..n) -> Int] /\ 0 \in Int
    BY <1>2
  <2> HIDE DEF F
  <2>2. QED
    BY <2>1, Iteration
<1>4. h[0] = 0
  BY <1>3 DEF Follows
<1>5. ASSUME NEW i \in 1..n
      PROVE  h[i] = h[i - 1] + ds[i]
  <2>1. i - 1 \in 0..n
    OBVIOUS
  <2>2. << h[i - 1], i >> \in Int \X (1..n)
    BY <2>1
  <2>3. h[i] = F[<< h[i - 1], i >>]
    BY <1>3 DEF Follows
  <2>4. QED
    BY <2>2, <2>3
<1> HIDE DEF F
<1>6. h = Step(h)
  <2>1. h = [i \in 0..n |-> h[i]]
    OBVIOUS
  <2>2. \A i \in 0..n : h[i] = IF i = 0 THEN 0 ELSE Added(h[i - 1], ds[i])
    BY <1>4, <1>5 DEF Added, checked_add
  <2>3. QED
    BY <1>1, <2>1, <2>2
<1> DEFINE g == CHOOSE f : f = Step(f)
<1>7. undelta_values(ds) =
         IF \A i \in DOMAIN ds : Fits(g[i - 1], ds[i])
         THEN [i \in DOMAIN ds |-> g[i]] ELSE InvalidData
  BY DEF undelta_values
<1>8. g = Step(g)
  <2> HIDE DEF Step
  <2>1. QED
    BY <1>6
<1> HIDE DEF g
<1>9. g[0] = 0 /\ \A i \in 1..n : g[i] = g[i - 1] + ds[i]
  BY <1>1, <1>8 DEF Added, checked_add
<1>10. \A i \in 0..n : g[i] \in Int
  <2>1. ASSUME NEW i \in 1..n, g[i - 1] \in Int
        PROVE  g[i] \in Int
    <3>1. ds[i] \in Int /\ g[i] = g[i - 1] + ds[i]
      BY <1>2, <1>9
    <3>2. QED
      BY <2>1, <3>1
  <2>2. g[0] \in Int
    BY <1>9
  <2>3. QED
    BY <2>1, <2>2, StaysIn
<1>11. g \in [0..n -> Int]
  BY <1>1, <1>8, <1>10
<1>12. SumsUpTo(g, ds)
  BY <1>1, <1>9, <1>11 DEF SumsUpTo
<1>13. \A i \in 1..n : Fits(g[i - 1], ds[i]) <=> IsSigned(g[i - 1] + ds[i])
  BY DEF Fits, checked_add
<1>14. QED
  BY <1>1, <1>7, <1>12, <1>13

\* Adding up the differences of a vector gives the vector, or an error; and the
\* vector if none of them had to wrap around.
LEMMA Undelta ==
    ASSUME NEW s \in Seq(Signed)
    PROVE  /\ undelta_values(deltas(s)) \in {s, InvalidData}
           /\ DeltasFit(s) => undelta_values(deltas(s)) = s
<1>1. PICK n \in Nat : n = Len(s) /\ s \in [1..n -> Signed]
  BY LenProperties
<1>2. PICK ds \in Seq(Signed) :
         /\ ds = deltas(s) /\ Len(ds) = n
         /\ n # 0 => ds[1] = s[1]
         /\ \A i \in 2..n : ds[i] = Wrap(s[i] - s[i - 1])
  BY <1>1, DeltasOf
<1>3. PICK sums : /\ SumsUpTo(sums, ds)
                  /\ undelta_values(ds) =
                        IF \A i \in 1..Len(ds) : IsSigned(sums[i - 1] + ds[i])
                        THEN [i \in 1..Len(ds) |-> sums[i]] ELSE InvalidData
  BY SumsOf
<1>4. /\ sums \in [0..n -> Int] /\ sums[0] = 0
      /\ \A i \in 1..n : sums[i] = sums[i - 1] + ds[i]
  BY <1>2, <1>3 DEF SumsUpTo
<1>5. \A i \in 1..n : s[i] \in Signed /\ s[i] \in Int /\ IsSigned(s[i])
  BY <1>1, SignedNumbers
<1> DEFINE T == {i \in 0..n : i # 0 => sums[i] = s[i]}
<1>6. ASSUME NEW i \in 1..n, i - 1 \in T,
             i # 1 => IsSigned(sums[i - 1] + ds[i]) \/ IsSigned(s[i] - s[i - 1])
      PROVE  i \in T
  <2>1. CASE i = 1
    BY <1>2, <1>4, <1>5, <2>1
  <2>2. CASE i # 1
    <3>1. PICK j \in 1..n : j = i - 1 /\ sums[j] = s[j]
      BY <1>6, <2>2
    <3>2. i \in 2..n
      BY <2>2
    <3>3. ds[i] = Wrap(s[i] - s[j]) /\ sums[i] = s[j] + ds[i]
      BY <1>2, <1>4, <3>1, <3>2
    <3>4. IsSigned(s[j] + ds[i]) \/ IsSigned(s[i] - s[j])
      BY <1>6, <2>2, <3>1
    <3>5. /\ IsSigned(s[j] + Wrap(s[i] - s[j])) => s[j] + Wrap(s[i] - s[j]) = s[i]
          /\ IsSigned(s[i] - s[j]) => Wrap(s[i] - s[j]) = s[i] - s[j]
      BY <1>5, Differences
    <3>6. s[j] + ds[i] = s[i]
      <4>1. CASE IsSigned(s[j] + ds[i])
        BY <3>3, <3>5, <4>1
      <4>2. CASE IsSigned(s[i] - s[j])
        <5>1. ds[i] = s[i] - s[j]
          BY <3>3, <3>5, <4>2
        <5>2. QED
          BY <1>5, <5>1
      <4>3. QED
        BY <3>4, <4>1, <4>2
    <3>7. QED
      BY <3>3, <3>6
  <2>3. QED
    BY <2>1, <2>2
<1>7. ASSUME \A i \in 1..n : i - 1 \in T => i \in T
      PROVE  /\ \A i \in 1..n : sums[i] = s[i]
             /\ [i \in 1..n |-> sums[i]] = s
  <2>1. 0 \in T
    OBVIOUS
  <2>2. 0..n \subseteq T
    <3> HIDE DEF T
    <3>1. QED
      BY <1>7, <2>1, UpTo
  <2>3. \A i \in 1..n : sums[i] = s[i]
    BY <2>2
  <2>4. QED
    BY <1>1, <2>3
<1>8. undelta_values(ds) \in {s, InvalidData}
  <2>1. CASE \A i \in 1..n : IsSigned(sums[i - 1] + ds[i])
    <3>1. \A i \in 1..n : i - 1 \in T => i \in T
      <4> HIDE DEF T
      <4>1. QED
        BY <1>6, <2>1
    <3>2. [i \in 1..n |-> sums[i]] = s
      <4> HIDE DEF T
      <4>1. QED
        BY <1>7, <3>1
    <3>3. QED
      BY <1>2, <1>3, <2>1, <3>2
  <2>2. CASE ~ \A i \in 1..n : IsSigned(sums[i - 1] + ds[i])
    BY <1>2, <1>3, <2>2
  <2>3. QED
    BY <2>1, <2>2
<1>9. ASSUME DeltasFit(s)
      PROVE  undelta_values(ds) = s
  <2>1. \A i \in 1..n : i # 1 => IsSigned(s[i] - s[i - 1])
    BY <1>1, <1>9 DEF DeltasFit
  <2>2. \A i \in 1..n : i - 1 \in T => i \in T
    <3> HIDE DEF T
    <3>1. QED
      BY <1>6, <2>1
  <2>3. (\A i \in 1..n : sums[i] = s[i]) /\ [i \in 1..n |-> sums[i]] = s
    <3> HIDE DEF T
    <3>1. QED
      BY <1>7, <2>2
  <2>4. \A i \in 1..n : IsSigned(sums[i - 1] + ds[i])
    BY <1>4, <1>5, <2>3
  <2>5. QED
    BY <1>2, <1>3, <2>3, <2>4
<1>10. QED
  BY <1>2, <1>8, <1>9

-----------------------------------------------------------------------------
(* Frames of reference. *)

\* The distances to the smallest number, of signed numbers: added to it again
\* they give the vector, and those in a narrow span are not negative.
LEMMA SignedFrame ==
    ASSUME NEW s \in Seq(Signed), s # << >>, NEW follows \in BOOLEAN
    PROVE  /\ i64_for(s).form = "For" /\ Packed(i64_for(s).packed)
           /\ i64_unframe(i64_for(s), follows) = s
           /\ Span(s) <= W - 4 => i64_for(s).packed.width < W - 2
<1>1. PICK n \in Nat : n = Len(s) /\ s \in [1..n -> Signed]
  BY LenProperties
<1>2. PICK min \in Signed, max \in Signed :
         /\ min = Min(Range(s)) /\ max = Max(Range(s))
         /\ \A i \in 1..n : min <= s[i] /\ s[i] <= max
  <2>1. /\ Min(Range(s)) \in Range(s) /\ Max(Range(s)) \in Range(s)
        /\ \A i \in 1..Len(s) : Min(Range(s)) <= s[i] /\ s[i] <= Max(Range(s))
    BY Extremes
  <2>2. Range(s) \subseteq Signed
    BY <1>1 DEF Range
  <2>3. QED
    BY <1>1, <2>1, <2>2
<1> DEFINE u == [i \in 1..n |-> Wrap(s[i] - min)]
<1>3. \A i \in 1..n : /\ Wrap(s[i] - min) \in Signed
                      /\ Wrap(Wrap(s[i] - min) + min) = s[i]
                      /\ IsSigned(s[i] - min) => Wrap(s[i] - min) = s[i] - min
  BY <1>1, Differences
<1>4. u \in [1..n -> Signed]
  BY <1>3
<1>5. u \in Seq(Signed) /\ Len(u) = n
  BY <1>4, IsASeq, LenProperties
<1>6. i64_for(s) = Framed(encode_zigzag(min), i64_bitpack(u))
  BY <1>1, <1>2 DEF i64_for, Each
<1>7. \A i \in 1..n : u[i] = Wrap(s[i] - min)
  OBVIOUS
<1> HIDE DEF u
<1>8. PICK b : b = i64_for(s)
  OBVIOUS
<1>9. /\ b.form = "For" /\ b.min = encode_zigzag(min) /\ b.packed = i64_bitpack(u)
  BY <1>6, <1>8 DEF Framed
<1>10. /\ b.packed.items = Each(encode_zigzag, u) /\ Packed(b.packed)
       /\ \A k \in 1..W :
             (\A i \in 1..n : encode_zigzag(u[i]) < Pow2[k]) => b.packed.width <= k
  BY <1>5, <1>9, SignedPacked
<1>11. PICK e \in [1..n -> Unsigned] :
          e = b.packed.items /\ \A i \in 1..n : decode_zigzag(e[i]) = u[i]
  <2>1. /\ Each(encode_zigzag, u) \in Seq(Unsigned)
        /\ Len(Each(encode_zigzag, u)) = n
        /\ \A i \in 1..n : Each(encode_zigzag, u)[i] = encode_zigzag(u[i])
    BY <1>5, Zigzagged
  <2>2. \A i \in 1..n : decode_zigzag(encode_zigzag(u[i])) = u[i]
    BY <1>4, Zigzag
  <2>3. Each(encode_zigzag, u) \in [1..n -> Unsigned]
    BY <2>1, LenProperties
  <2>4. QED
    BY <1>10, <2>1, <2>2, <2>3
<1>12. i64_unframe(b, follows) = s
  <2>1. decode_zigzag(b.min) = min
    BY <1>9, Zigzag
  <2>2. i64_unframe(b, follows) = [i \in 1..n |-> Wrap(decode_zigzag(e[i]) + min)]
    BY <1>9, <1>11, <2>1 DEF i64_unframe, Unframed
  <2>3. \A i \in 1..n : Wrap(decode_zigzag(e[i]) + min) = s[i]
    BY <1>3, <1>7, <1>11
  <2>4. QED
    BY <1>1, <2>2, <2>3
<1>13. ASSUME Span(s) <= W - 4
       PROVE  b.packed.width < W - 2
  <2>1. PICK h \in Nat : h = Half /\ h > 0
    BY Widths
  <2>2. /\ \A i \in 1..n : s[i] \in Int
        /\ min \in Int /\ max \in Int /\ -h <= min /\ max < h /\ min <= max
    <3>1. 1 \in 1..n
      BY <1>1, EmptySeq
    <3>2. QED
      BY <1>1, <1>2, <2>1, <3>1 DEF Signed
  <2>3. PICK d \in Nat : d = max - min /\ d < 2 * h
    BY <2>2, <2>1
  <2>4. d \in Unsigned /\ AsUnsigned(d) = d
    BY <2>1, <2>3, InRange
  <2>5. bit_width(d) <= W - 4
    BY <1>2, <1>13, <2>3, <2>4 DEF Span
  <2>6. d < Pow2[W - 4]
    <3>1. bit_width(d) \in 1..W
      BY <2>4, BitWidth
    <3>2. W - 4 \in 1..W
      BY <2>5, <3>1, WAssumption
    <3>3. QED
      BY <2>4, <2>5, <3>2, BitWidth
  <2>7. ASSUME NEW i \in 1..n
        PROVE  encode_zigzag(u[i]) < Pow2[W - 3]
    <3>1. PICK x \in Nat : x = s[i] - min /\ x <= d
      BY <1>2, <2>2, <2>3, SMTT(30)
    <3>2. PICK p \in Nat : p = Pow2[W - 4] /\ Half = 8 * p /\ Pow2[W - 3] = 2 * p
      BY Widths
    <3>3. x < p
      BY <2>3, <2>6, <3>1, <3>2, SMTT(30)
    <3>4. IsSigned(x)
      BY <3>2, <3>3, SMTT(30) DEF IsSigned
    <3>5. u[i] = x
      BY <1>3, <1>7, <3>1, <3>4
    <3>6. encode_zigzag(x) = 2 * x
      BY DEF encode_zigzag
    <3>7. QED
      BY <3>2, <3>3, <3>5, <3>6
  <2>8. W - 3 \in 1..W
    BY WAssumption
  <2>9. b.packed.width <= W - 3
    BY <1>10, <2>7, <2>8
  <2>10. b.packed.width \in 0..W
    BY <1>10 DEF Packed
  <2>11. QED
    BY <2>9, <2>10, WAssumption
<1>14. QED
  BY <1>8, <1>9, <1>10, <1>12, <1>13

\* The same of unsigned numbers.
LEMMA UnsignedFrame ==
    ASSUME NEW s \in Seq(Unsigned), s # << >>, NEW follows \in BOOLEAN
    PROVE  /\ u64_for(s).form = "For" /\ Packed(u64_for(s).packed)
           /\ u64_unframe(u64_for(s), follows) = s
           /\ Span(s) <= W - 4 => u64_for(s).packed.width < W - 2
<1>1. PICK n \in Nat : n = Len(s) /\ s \in [1..n -> Unsigned]
  BY LenProperties
<1>2. PICK h \in Nat : h = Half /\ h > 0
  BY Widths
<1>3. PICK min \in Unsigned, max \in Unsigned :
         /\ min = Min(Range(s)) /\ max = Max(Range(s))
         /\ \A i \in 1..n : min <= s[i] /\ s[i] <= max
  <2>1. /\ Min(Range(s)) \in Range(s) /\ Max(Range(s)) \in Range(s)
        /\ \A i \in 1..Len(s) : Min(Range(s)) <= s[i] /\ s[i] <= Max(Range(s))
    BY Extremes
  <2>2. Range(s) \subseteq Unsigned
    BY <1>1 DEF Range
  <2>3. QED
    BY <1>1, <2>1, <2>2
<1>4. /\ min \in Nat /\ max \in Nat /\ min <= max /\ max < 2 * h
      /\ \A i \in 1..n : s[i] \in Nat /\ s[i] < 2 * h
  <2>1. 1 \in 1..n
    BY <1>1, EmptySeq
  <2>2. \A x \in Unsigned : x \in Nat /\ x < 2 * h
    BY <1>2 DEF Unsigned
  <2>3. min <= max
    <3>1. min \in Nat /\ max \in Nat /\ s[1] \in Nat /\ min <= s[1] /\ s[1] <= max
      BY <1>1, <1>3, <2>1, <2>2
    <3>2. QED
      BY <3>1
  <2>4. QED
    BY <1>1, <1>3, <2>2, <2>3
<1> DEFINE u == [i \in 1..n |-> s[i] - min]
<1>5. \A i \in 1..n : s[i] - min \in Nat /\ s[i] - min <= max - min /\ s[i] - min < 2 * h
  BY <1>3, <1>4
<1>6. u \in [1..n -> Unsigned]
  BY <1>2, <1>5 DEF Unsigned
<1>7. u \in Seq(Unsigned) /\ Len(u) = n
  BY <1>6, IsASeq, LenProperties
<1>8. u64_for(s) = Framed(min, bitpack(u))
  BY <1>1, <1>3 DEF u64_for, Each
<1>9. \A i \in 1..n : u[i] = s[i] - min
  OBVIOUS
<1> HIDE DEF u
<1>10. PICK b : b = u64_for(s)
  OBVIOUS
<1>11. b.form = "For" /\ b.min = min /\ b.packed = bitpack(u)
  BY <1>8, <1>10 DEF Framed
<1>12. /\ b.packed.items = u /\ Packed(b.packed)
       /\ \A k \in 1..W : (\A i \in 1..n : u[i] < Pow2[k]) => b.packed.width <= k
  BY <1>7, <1>11, Bitpacked
<1>13. u64_unframe(b, follows) = s
  <2>1. u64_unframe(b, follows) = [i \in 1..n |-> AsUnsigned(u[i] + min)]
    BY <1>6, <1>11, <1>12 DEF u64_unframe, Unframed
  <2>2. ASSUME NEW i \in 1..n
        PROVE  AsUnsigned(u[i] + min) = s[i]
    <3>1. PICK x \in Nat : x = s[i] /\ x < 2 * h
      BY <1>4
    <3>2. u[i] + min = x
      BY <1>4, <1>9, <3>1
    <3>3. AsUnsigned(x) = x
      BY <1>2, <3>1, InRange
    <3>4. QED
      BY <3>1, <3>2, <3>3
  <2>3. QED
    BY <1>1, <2>1, <2>2
<1>14. ASSUME Span(s) <= W - 4
       PROVE  b.packed.width < W - 2
  <2>1. PICK d \in Nat : d = max - min /\ d < 2 * h
    BY <1>4
  <2>2. d \in Unsigned /\ AsUnsigned(d) = d
    BY <1>2, <2>1, InRange
  <2>3. bit_width(d) <= W - 4
    BY <1>3, <1>14, <2>1, <2>2 DEF Span
  <2>4. W - 4 \in 1..W /\ d < Pow2[W - 4]
    <3>1. bit_width(d) \in 1..W
      BY <2>2, BitWidth
    <3>2. W - 4 \in 1..W
      BY <2>3, <3>1, WAssumption
    <3>3. QED
      BY <2>2, <2>3, <3>2, BitWidth
  <2>5. PICK p \in Nat : p = Pow2[W - 4]
    BY Widths
  <2>6. \A i \in 1..n : u[i] < Pow2[W - 4]
    <3>1. \A i \in 1..n : u[i] \in Nat /\ u[i] <= d
      BY <1>5, <1>9, <2>1
    <3>2. QED
      BY <2>4, <2>5, <3>1
  <2>7. b.packed.width <= W - 4
    BY <1>12, <2>4, <2>6
  <2>8. b.packed.width \in 0..W
    BY <1>12 DEF Packed
  <2>9. QED
    BY <2>7, <2>8, WAssumption
<1>15. QED
  BY <1>10, <1>11, <1>12, <1>13, <1>14

-----------------------------------------------------------------------------
(* Differences of differences. *)

\* A sequence is its first element and the rest.
LEMMA FirstAndRest ==
    ASSUME NEW S, NEW s \in Seq(S), Len(s) >= 1
    PROVE  /\ Tail(s) \in Seq(S) /\ Len(Tail(s)) = Len(s) - 1
           /\ \A i \in 1..Len(s) - 1 : Tail(s)[i] = s[i + 1]
           /\ << s[1] >> \o Tail(s) = s
<1>1. PICK n \in Nat : n = Len(s) /\ s \in [1..n -> S] /\ n >= 1
  BY LenProperties
<1>2. s # << >>
  BY <1>1, EmptySeq
<1>3. /\ Tail(s) \in Seq(S) /\ Len(Tail(s)) = n - 1
      /\ \A i \in 1..n - 1 : Tail(s)[i] = s[i + 1]
  BY <1>1, <1>2, HeadTailProperties
<1>4. << s[1] >> \o Tail(s) = s
  <2>1. << s[1] >> \in Seq(S) /\ Len(<< s[1] >>) = 1 /\ << s[1] >>[1] = s[1]
    BY <1>1
  <2>2. PICK t : t = << s[1] >> \o Tail(s)
    OBVIOUS
  <2>3. /\ t \in Seq(S) /\ Len(t) = 1 + (n - 1)
        /\ \A i \in 1..1 + (n - 1) :
              t[i] = IF i <= 1 THEN << s[1] >>[i] ELSE Tail(s)[i - 1]
    BY <1>3, <2>1, <2>2, ConcatProperties
  <2>4. Len(t) = n /\ t \in [1..n -> S]
    BY <1>1, <2>3, LenProperties
  <2>5. ASSUME NEW i \in 1..n
        PROVE  t[i] = s[i]
    <3>1. CASE i = 1
      BY <1>1, <2>1, <2>3, <3>1
    <3>2. CASE i # 1
      <4>1. i - 1 \in 1..n - 1 /\ (i - 1) + 1 = i
        BY <3>2
      <4>2. t[i] = Tail(s)[i - 1]
        BY <1>1, <2>3, <3>2
      <4>3. QED
        BY <1>3, <4>1, <4>2
    <3>3. QED
      BY <3>1, <3>2
  <2>6. t = s
    BY <1>1, <2>4, <2>5
  <2>7. QED
    BY <2>2, <2>6
<1>5. QED
  BY <1>1, <1>3, <1>4

\* The differences of differences of a vector are added up to the vector, or
\* to an error; and to the vector if neither they nor the differences wrapped.
LEMMA DeltaDelta ==
    ASSUME NEW s \in Seq(Signed)
    PROVE  /\ delta_delta(s).form = "DeltaDelta" /\ Packed(delta_delta(s).packed)
           /\ undelta_delta(delta_delta(s)) \in {s, InvalidData}
           /\ DeltasFit(s) /\ SecondDeltasFit(s) => undelta_delta(delta_delta(s)) = s
<1>1. PICK n \in Nat : n = Len(s) /\ s \in [1..n -> Signed]
  BY LenProperties
<1>2. PICK b : b = delta_delta(s)
  OBVIOUS
<1>3. /\ b.form = "DeltaDelta" /\ b.len = n
      /\ b.first = IF s = << >> THEN 0 ELSE encode_zigzag(s[1])
      /\ b.delta = IF n < 2 THEN 0 ELSE encode_zigzag(Wrap(s[2] - s[1]))
      /\ b.packed = IF n < 2 THEN i64_bitpack(<< >>)
                    ELSE i64_bitpack(Tail(deltas(Tail(deltas(s)))))
  BY <1>1, <1>2 DEF delta_delta
<1>4. CASE n < 2
  <2>1. Packed(b.packed)
    <3>1. << >> \in Seq(Signed)
      BY EmptySeq
    <3>2. QED
      BY <1>3, <1>4, <3>1, SignedPacked
  <2>2. undelta_delta(b) = s
    <3>1. CASE n = 0
      <4>1. s = << >>
        BY <1>1, <3>1, EmptySeq
      <4>2. QED
        BY <1>3, <3>1, <4>1 DEF undelta_delta
    <3>2. CASE n = 1
      <4>1. s # << >> /\ s[1] \in Signed
        BY <1>1, <3>2, EmptySeq
      <4>2. decode_zigzag(b.first) = s[1]
        BY <1>3, <4>1, Zigzag
      <4>3. undelta_delta(b) = << s[1] >>
        BY <1>3, <3>2, <4>2 DEF undelta_delta
      <4>4. << s[1] >> = s
        BY <1>1, <3>2
      <4>5. QED
        BY <4>3, <4>4
    <3>3. QED
      BY <1>4, <3>1, <3>2
  <2>3. QED
    BY <1>2, <1>3, <2>1, <2>2
<1>5. CASE n >= 2
  <2>1. PICK ds \in Seq(Signed) :
           /\ ds = deltas(s) /\ Len(ds) = n /\ ds[1] = s[1]
           /\ \A i \in 2..n : ds[i] = Wrap(s[i] - s[i - 1])
    BY <1>1, <1>5, DeltasOf
  <2>2. PICK d \in Seq(Signed) :
           /\ d = Tail(ds) /\ Len(d) = n - 1 /\ << ds[1] >> \o d = ds
           /\ \A i \in 1..n - 1 : d[i] = ds[i + 1]
    <3>1. Len(ds) >= 1
      BY <1>5, <2>1
    <3>2. /\ Tail(ds) \in Seq(Signed) /\ Len(Tail(ds)) = Len(ds) - 1
          /\ \A i \in 1..Len(ds) - 1 : Tail(ds)[i] = ds[i + 1]
          /\ << ds[1] >> \o Tail(ds) = ds
      BY <3>1, FirstAndRest
    <3>3. QED
      BY <2>1, <3>2
  <2>3. PICK dd \in Seq(Signed) : dd = deltas(d) /\ Len(dd) = n - 1 /\ dd[1] = d[1]
    <3>1. /\ deltas(d) \in Seq(Signed) /\ Len(deltas(d)) = Len(d)
          /\ Len(d) # 0 => deltas(d)[1] = d[1]
      BY DeltasOf
    <3>2. Len(d) = n - 1 /\ n - 1 # 0
      BY <1>5, <2>2
    <3>3. QED
      BY <3>1, <3>2
  <2>4. PICK t \in Seq(Signed) : t = Tail(dd) /\ << dd[1] >> \o t = dd
    <3>1. Len(dd) >= 1
      BY <1>5, <2>3
    <3>2. Tail(dd) \in Seq(Signed) /\ << dd[1] >> \o Tail(dd) = dd
      BY <3>1, FirstAndRest
    <3>3. QED
      BY <3>2
  <2>5. b.packed = i64_bitpack(t)
    BY <1>3, <1>5, <2>1, <2>2, <2>3, <2>4
  <2>6. Packed(b.packed) /\ Each(decode_zigzag, b.packed.items) = t
    BY <2>5, SignedPacked, Zigzagged
  <2>7. decode_zigzag(b.first) = s[1]
    <3>1. s # << >> /\ s[1] \in Signed
      BY <1>1, <1>5, EmptySeq
    <3>2. QED
      BY <1>3, <3>1, Zigzag
  <2>8. decode_zigzag(b.delta) = dd[1]
    <3>1. dd[1] = Wrap(s[2] - s[1])
      BY <1>5, <2>1, <2>2, <2>3
    <3>2. dd[1] \in Signed
      BY <1>5, <2>3, ElementOfSeq
    <3>3. QED
      BY <1>3, <1>5, <3>1, <3>2, Zigzag
  <2>9. PICK r : r = undelta_values(dd)
    OBVIOUS
  <2>10. undelta_delta(b) = IF r = InvalidData THEN InvalidData
                            ELSE undelta_values(<< s[1] >> \o r)
    <3>1. << decode_zigzag(b.delta) >> \o Each(decode_zigzag, b.packed.items) = dd
      BY <2>4, <2>6, <2>8
    <3>2. b.len # 0 /\ b.len # 1
      BY <1>3, <1>5
    <3>3. QED
      BY <2>7, <2>9, <3>1, <3>2 DEF undelta_delta
  <2>11. r \in {d, InvalidData} /\ (DeltasFit(d) => r = d)
    BY <2>3, <2>9, Undelta
  <2>12. << s[1] >> \o d = deltas(s)
    BY <2>1, <2>2
  <2>13. /\ undelta_values(deltas(s)) \in {s, InvalidData}
         /\ DeltasFit(s) => undelta_values(deltas(s)) = s
    BY Undelta
  <2>14. undelta_delta(b) \in {s, InvalidData}
    BY <2>10, <2>11, <2>12, <2>13
  <2>15. ASSUME DeltasFit(s), SecondDeltasFit(s)
         PROVE  undelta_delta(b) = s
    <3>1. \A i \in 1..n - 1 : d[i] = s[i + 1] - s[i]
      <4>1. SUFFICES ASSUME NEW i \in 1..n - 1
                     PROVE  d[i] = s[i + 1] - s[i]
        OBVIOUS
      <4>2. i + 1 \in 2..n /\ i \in 1..n /\ (i + 1) - 1 = i
        OBVIOUS
      <4>3. s[i + 1] \in Signed /\ s[i] \in Signed
        BY <1>1, <4>2
      <4>4. IsSigned(s[i + 1] - s[i])
        BY <1>1, <2>15, <4>2 DEF DeltasFit
      <4>5. Wrap(s[i + 1] - s[i]) = s[i + 1] - s[i]
        BY <4>3, <4>4, Differences
      <4>6. d[i] = Wrap(s[i + 1] - s[i])
        BY <2>1, <2>2, <4>2
      <4>7. QED
        BY <4>5, <4>6
    <3>2. ASSUME NEW i \in 2..n - 1
          PROVE  IsSigned(d[i] - d[i - 1])
      <4>1. i + 1 \in 3..n /\ i \in 1..n /\ i - 1 \in 1..n - 1 /\ (i - 1) + 1 = i
        OBVIOUS
      <4>2. (i + 1) - 1 = i /\ (i + 1) - 2 = i - 1
        OBVIOUS
      <4>3. IsSigned(s[i + 1] - 2 * s[i] + s[i - 1])
        BY <1>1, <2>15, <4>1, <4>2 DEF SecondDeltasFit
      <4>4. PICK x \in Int, y \in Int, z \in Int :
               x = s[i + 1] /\ y = s[i] /\ z = s[i - 1]
        BY <1>1, <4>1, SignedNumbers
      <4>5. d[i] = x - y /\ d[i - 1] = y - z
        BY <3>1, <4>1, <4>4
      <4>6. (x - y) - (y - z) = x - 2 * y + z
        OBVIOUS
      <4>7. QED
        BY <4>3, <4>4, <4>5, <4>6
    <3>3. DeltasFit(d)
      BY <2>2, <3>2 DEF DeltasFit
    <3>4. r = d /\ d # InvalidData
      <4>1. d \in Seq(Int)
        <5>1. Signed \subseteq Int
          BY SignedNumbers
        <5>2. QED
          BY <5>1, SeqMonotonic
      <4>2. QED
        BY <2>11, <3>3, <4>1, ResultsAssumption
    <3>5. QED
      BY <2>10, <2>12, <2>13, <2>15, <3>4
  <2>16. QED
    BY <1>2, <1>3, <2>6, <2>14, <2>15
<1>6. QED
  BY <1>1, <1>4, <1>5

-----------------------------------------------------------------------------
(* Runs. *)

RunOf == [val : Int, count : Nat]

Run(r) == [k \in 1..r.count |-> r.val]

Expanded(runs) == FlattenSeq([j \in DOMAIN runs |-> Run(runs[j])])

\* One more part is appended to the concatenation.
LEMMA FlattenAppend ==
    ASSUME NEW S, NEW seqs \in Seq(Seq(S)), NEW t \in Seq(S)
    PROVE  FlattenSeq(Append(seqs, t)) = FlattenSeq(seqs) \o t
<1>1. PICK n \in Nat : n = Len(seqs)
  BY LenProperties
<1>2. PICK more \in Seq(Seq(S)) :
         /\ more = Append(seqs, t) /\ Len(more) = n + 1
         /\ \A i \in 1..n : more[i] = seqs[i]
         /\ more[n + 1] = t
  BY <1>1, AppendProperties
<1>3. PICK f : Flattening(f, S, seqs) /\ FlattenSeq(seqs) = f[Len(seqs)]
  BY FlattenSteps
<1>4. PICK g : Flattening(g, S, more) /\ FlattenSeq(more) = g[Len(more)]
  BY FlattenSteps
<1>5. f[0] = << >> /\ \A i \in 1..n : f[i] = f[i - 1] \o seqs[i]
  BY <1>1, <1>3 DEF Flattening
<1>6. g[0] = << >> /\ \A i \in 1..n + 1 : g[i] = g[i - 1] \o more[i]
  BY <1>2, <1>4 DEF Flattening
<1> DEFINE T == {i \in 0..n : g[i] = f[i]}
<1>7. 0 \in T
  BY <1>5, <1>6
<1>8. ASSUME NEW i \in 1..n, i - 1 \in T
      PROVE  i \in T
  <2>1. i \in 1..n + 1
    OBVIOUS
  <2>2. g[i] = g[i - 1] \o seqs[i] /\ f[i] = f[i - 1] \o seqs[i]
    BY <1>2, <1>5, <1>6, <2>1
  <2>3. g[i - 1] = f[i - 1]
    BY <1>8
  <2>4. g[i] = f[i]
    BY <2>2, <2>3, Zenon
  <2>5. QED
    BY <2>4
<1>9. 0..n \subseteq T
  <2> HIDE DEF T
  <2>1. QED
    BY <1>7, <1>8, UpTo
<1>10. n + 1 \in 1..n + 1 /\ (n + 1) - 1 = n /\ n \in T
  BY <1>9
<1>11. g[n + 1] = g[n] \o t /\ g[n] = f[n]
  BY <1>2, <1>6, <1>10
<1>12. QED
  BY <1>1, <1>2, <1>3, <1>4, <1>11

\* A run is a sequence of its value.
LEMMA RunSeq ==
    ASSUME NEW r \in RunOf
    PROVE  Run(r) \in Seq(Int)
<1>1. Run(r) \in [1..r.count -> Int] /\ r.count \in Nat
  BY DEF Run, RunOf
<1>2. QED
  BY <1>1, IsASeq

\* One more run is appended to what the runs stand for.
LEMMA ExpandedAppend ==
    ASSUME NEW runs \in Seq(RunOf), NEW r \in RunOf
    PROVE  /\ Expanded(runs) \in Seq(Int)
           /\ Expanded(Append(runs, r)) = Expanded(runs) \o Run(r)
<1>1. PICK n \in Nat : n = Len(runs) /\ runs \in [1..n -> RunOf]
  BY LenProperties
<1> DEFINE seqs == [j \in 1..n |-> Run(runs[j])]
<1>2. seqs \in [1..n -> Seq(Int)]
  BY <1>1, RunSeq
<1>3. seqs \in Seq(Seq(Int)) /\ Len(seqs) = n
  BY <1>2, IsASeq, LenProperties
<1>4. Expanded(runs) = FlattenSeq(seqs)
  BY <1>1 DEF Expanded
<1>5. PICK more \in [1..n + 1 -> RunOf] :
         /\ more = Append(runs, r)
         /\ \A j \in 1..n : more[j] = runs[j]
         /\ more[n + 1] = r
  <2>1. /\ Append(runs, r) \in Seq(RunOf) /\ Len(Append(runs, r)) = n + 1
        /\ \A j \in 1..n : Append(runs, r)[j] = runs[j]
        /\ Append(runs, r)[n + 1] = r
    BY <1>1, AppendProperties
  <2>2. Append(runs, r) \in [1..n + 1 -> RunOf]
    BY <2>1, LenProperties
  <2>3. QED
    BY <2>1, <2>2
<1>6. Expanded(more) = FlattenSeq([j \in 1..n + 1 |-> Run(more[j])])
  BY <1>5 DEF Expanded
<1>7. \A j \in 1..n : seqs[j] = Run(runs[j])
  OBVIOUS
<1> HIDE DEF seqs
<1>8. PICK longer \in [1..n + 1 -> Seq(Int)] :
         /\ longer = Append(seqs, Run(r))
         /\ \A j \in 1..n : longer[j] = seqs[j]
         /\ longer[n + 1] = Run(r)
  <2>1. Run(r) \in Seq(Int)
    BY RunSeq
  <2>2. /\ Append(seqs, Run(r)) \in Seq(Seq(Int)) /\ Len(Append(seqs, Run(r))) = n + 1
        /\ \A j \in 1..n : Append(seqs, Run(r))[j] = seqs[j]
        /\ Append(seqs, Run(r))[n + 1] = Run(r)
    BY <1>3, <2>1, AppendProperties
  <2>3. Append(seqs, Run(r)) \in [1..n + 1 -> Seq(Int)]
    BY <2>2, LenProperties
  <2>4. QED
    BY <2>2, <2>3
<1>9. ASSUME NEW j \in 1..n + 1
      PROVE  Run(more[j]) = longer[j]
  <2>1. CASE j = n + 1
    BY <1>5, <1>8, <2>1
  <2>2. CASE j # n + 1
    <3>1. j \in 1..n
      BY <2>2
    <3>2. QED
      BY <1>5, <1>7, <1>8, <3>1
  <2>3. QED
    BY <2>1, <2>2
<1>10. [j \in 1..n + 1 |-> Run(more[j])] = longer
  BY <1>9
<1>11. FlattenSeq(Append(seqs, Run(r))) = FlattenSeq(seqs) \o Run(r)
  BY <1>3, RunSeq, FlattenAppend
<1>12. FlattenSeq(seqs) \in Seq(Int)
  BY <1>3, FlattenSeqs
<1>13. QED
  BY <1>4, <1>5, <1>6, <1>8, <1>10, <1>11, <1>12

\* One more element, in the last run or in one of its own.
LEMMA RunAdded ==
    ASSUME NEW runs \in Seq(RunOf), NEW x \in Int
    PROVE  /\ AddRun(runs, x) \in Seq(RunOf)
           /\ Expanded(AddRun(runs, x)) = Append(Expanded(runs), x)
<1>1. << x >> \in Seq(Int)
  OBVIOUS
<1>2. CASE runs # << >> /\ Last(runs).val = x
  <2>1. PICK q \in Seq(RunOf), e \in RunOf : runs = Append(q, e)
    BY <1>2, SequenceEmptyOrAppend
  <2>2. PICK n \in Nat :
           /\ n = Len(q) /\ Len(runs) = n + 1 /\ runs[n + 1] = e
           /\ \A j \in 1..n : runs[j] = q[j]
           /\ runs \in [1..n + 1 -> RunOf]
    <3>1. /\ Len(runs) = Len(q) + 1 /\ runs[Len(q) + 1] = e
          /\ \A j \in 1..Len(q) : runs[j] = q[j]
      BY <2>1, AppendProperties
    <3>2. runs \in [1..Len(runs) -> RunOf] /\ Len(q) \in Nat
      BY LenProperties
    <3>3. QED
      BY <3>1, <3>2
  <2>3. e.val = x /\ e.count \in Nat /\ e = [val |-> x, count |-> e.count]
    BY <1>2, <2>2 DEF Last, RunOf
  <2> DEFINE e2 == [val |-> x, count |-> e.count + 1]
  <2>4. e2 \in RunOf
    BY <2>3 DEF RunOf
  <2>5. [e EXCEPT !.count = @ + 1] = e2
    BY <2>3
  <2>6. AddRun(runs, x) = [runs EXCEPT ![n + 1] = e2]
    BY <1>2, <2>2, <2>5 DEF AddRun
  <2> HIDE DEF e2
  <2>7. /\ Append(q, e2) \in Seq(RunOf) /\ Len(Append(q, e2)) = n + 1
        /\ \A j \in 1..n : Append(q, e2)[j] = q[j]
        /\ Append(q, e2)[n + 1] = e2
    BY <2>2, <2>4, AppendProperties
  <2>8. Append(q, e2) \in [1..n + 1 -> RunOf]
    BY <2>7, LenProperties
  <2>9. [runs EXCEPT ![n + 1] = e2] = Append(q, e2)
    <3>1. PICK a \in [1..n + 1 -> RunOf] : a = Append(q, e2)
      BY <2>8
    <3>2. \A j \in 1..n + 1 : j = n + 1 \/ j \in 1..n
      OBVIOUS
    <3>3. \A j \in 1..n + 1 : [runs EXCEPT ![n + 1] = e2][j] = a[j]
      BY <2>2, <2>7, <3>1, <3>2
    <3>4. [runs EXCEPT ![n + 1] = e2] \in [1..n + 1 -> RunOf]
      BY <2>2, <2>4
    <3>5. [runs EXCEPT ![n + 1] = e2] = a
      BY <3>1, <3>3, <3>4
    <3>6. QED
      BY <3>1, <3>5
  <2>10. /\ Expanded(q) \in Seq(Int)
         /\ Expanded(Append(q, e2)) = Expanded(q) \o Run(e2)
         /\ Expanded(Append(q, e)) = Expanded(q) \o Run(e)
    BY <2>4, ExpandedAppend
  <2>11. Run(e) \in Seq(Int) /\ Run(e2) = Append(Run(e), x)
    <3>1. PICK c \in Nat : c = e.count
      BY <2>3
    <3>2. Run(e) = [k \in 1..c |-> x] /\ Run(e2) = [k \in 1..c + 1 |-> x]
      BY <2>3, <3>1 DEF Run, e2
    <3>3. Run(e) \in Seq(Int)
      BY RunSeq
    <3>4. Len(Run(e)) = c
      BY <3>2, <3>3, LenProperties
    <3>5. /\ Append(Run(e), x) \in Seq(Int) /\ Len(Append(Run(e), x)) = c + 1
          /\ \A k \in 1..c : Append(Run(e), x)[k] = Run(e)[k]
          /\ Append(Run(e), x)[c + 1] = x
      BY <3>3, <3>4, AppendProperties
    <3>6. PICK a \in [1..c + 1 -> Int] : a = Append(Run(e), x)
      BY <3>5, LenProperties
    <3>7. \A k \in 1..c + 1 : k = c + 1 \/ k \in 1..c
      OBVIOUS
    <3>8. \A k \in 1..c + 1 : a[k] = x
      BY <3>2, <3>5, <3>6, <3>7
    <3>9. a = [k \in 1..c + 1 |-> x]
      BY <3>6, <3>8
    <3>10. QED
      BY <3>2, <3>3, <3>6, <3>9
  <2>12. Run(e2) = Run(e) \o << x >>
    BY <2>11, AppendIsConcat
  <2>13. (Expanded(q) \o Run(e)) \o << x >> = Expanded(q) \o (Run(e) \o << x >>)
    BY <1>1, <2>10, <2>11, ConcatAssociative
  <2>14. Expanded(runs) \in Seq(Int) /\ Expanded(runs) = Expanded(q) \o Run(e)
    BY <2>1, <2>10, <2>11, ConcatProperties
  <2>15. Append(Expanded(runs), x) = Expanded(runs) \o << x >>
    BY <2>14, AppendIsConcat
  <2>16. QED
    BY <2>6, <2>7, <2>9, <2>10, <2>12, <2>13, <2>14, <2>15
<1>3. CASE ~(runs # << >> /\ Last(runs).val = x)
  <2> DEFINE e == [val |-> x, count |-> 1]
  <2>1. e \in RunOf
    BY DEF RunOf
  <2>2. Run(e) = << x >>
    BY DEF Run
  <2>3. AddRun(runs, x) = Append(runs, e)
    BY <1>3 DEF AddRun
  <2> HIDE DEF e
  <2>4. Append(runs, e) \in Seq(RunOf)
    BY <2>1, AppendProperties
  <2>5. /\ Expanded(runs) \in Seq(Int)
        /\ Expanded(Append(runs, e)) = Expanded(runs) \o Run(e)
    BY <2>1, ExpandedAppend
  <2>6. Append(Expanded(runs), x) = Expanded(runs) \o << x >>
    BY <2>5, AppendIsConcat
  <2>7. QED
    BY <2>2, <2>3, <2>4, <2>5, <2>6
<1>4. QED
  BY <1>2, <1>3

\* The runs of a vector are expanded to it.
LEMMA RunLengths ==
    ASSUME NEW s \in Seq(Int)
    PROVE  rle(s).form = "Rle" /\ unrle(rle(s)) = s
<1>1. PICK n \in Nat : n = Len(s) /\ s \in [1..n -> Int]
  BY LenProperties
<1> DEFINE A == Seq(RunOf)
           F == [x \in A \X (1..n) |-> AddRun(x[1], s[x[2]])]
           Step(f) == [i \in 0..Len(s) |-> IF i = 0 THEN << >> ELSE AddRun(f[i - 1], s[i])]
<1>2. PICK h \in [0..n -> A] : Follows(h, n, << >>, F)
  <2>1. F \in [A \X (1..n) -> A]
    BY <1>1, RunAdded
  <2>2. << >> \in A
    BY EmptySeq
  <2> HIDE DEF F, A
  <2>3. QED
    BY <2>1, <2>2, Iteration
<1>3. h[0] = << >>
  BY <1>2 DEF Follows
<1>4. ASSUME NEW i \in 1..n
      PROVE  h[i] = AddRun(h[i - 1], s[i])
  <2>1. i - 1 \in 0..n
    OBVIOUS
  <2>2. << h[i - 1], i >> \in A \X (1..n)
    BY <2>1
  <2>3. h[i] = F[<< h[i - 1], i >>]
    BY <1>2 DEF Follows
  <2>4. QED
    BY <2>2, <2>3
<1> HIDE DEF F
<1>5. h = Step(h)
  <2>1. h = [i \in 0..n |-> h[i]]
    OBVIOUS
  <2>2. \A i \in 0..n : h[i] = IF i = 0 THEN << >> ELSE AddRun(h[i - 1], s[i])
    BY <1>3, <1>4
  <2>3. QED
    BY <1>1, <2>1, <2>2
<1> DEFINE g == CHOOSE f : f = Step(f)
<1>6. rle(s) = [form |-> "Rle", runs |-> g[Len(s)]]
  BY DEF rle
<1>7. g = Step(g)
  <2> HIDE DEF Step
  <2>1. QED
    BY <1>5
<1> HIDE DEF g
<1>8. g[0] = << >> /\ \A i \in 1..n : g[i] = AddRun(g[i - 1], s[i])
  <2>1. \A i \in 0..n : g[i] = IF i = 0 THEN << >> ELSE AddRun(g[i - 1], s[i])
    BY <1>1, <1>7, Zenon
  <2>2. 0 \in 0..n /\ \A i \in 1..n : i \in 0..n /\ i # 0
    OBVIOUS
  <2>3. QED
    BY <2>1, <2>2, Zenon
<1> HIDE DEF Step
<1> DEFINE T == {i \in 0..n : g[i] \in A /\ Expanded(g[i]) = SubSeq(s, 1, i)}
<1>9. 0 \in T
  <2>1. Expanded(<< >>) = << >>
    <3>1. [j \in DOMAIN << >> |-> Run(<< >>[j])] = << >>
      OBVIOUS
    <3>2. FlattenSeq(<< >>) = << >>
      BY DEF FlattenSeq
    <3>3. QED
      BY <3>1, <3>2 DEF Expanded
  <2>2. SubSeq(s, 1, 0) = << >>
    BY SubSeqEmpty
  <2>3. << >> \in A
    BY EmptySeq
  <2>4. g[0] \in A /\ Expanded(g[0]) = SubSeq(s, 1, 0)
    BY <1>8, <2>1, <2>2, <2>3, Zenon
  <2>5. QED
    BY <2>4
<1>10. ASSUME NEW i \in 1..n, i - 1 \in T
       PROVE  i \in T
  <2>1. g[i - 1] \in A /\ Expanded(g[i - 1]) = SubSeq(s, 1, i - 1) /\ s[i] \in Int
    BY <1>1, <1>10
  <2>2. g[i] \in A /\ Expanded(g[i]) = Append(SubSeq(s, 1, i - 1), s[i])
    BY <1>8, <2>1, RunAdded
  <2>3. SubSeq(s, 1, i) = SubSeq(s, 1, i - 1) \o << s[i] >>
    <3>1. 1 \in 1..Len(s) /\ i \in 1..Len(s)
      BY <1>1
    <3>2. QED
      BY <3>1, SubSeqRecursiveSecond
  <2>4. SubSeq(s, 1, i - 1) \in Seq(Int)
    <3>1. \A j \in 1..i - 1 : s[j] \in Int
      BY <1>1
    <3>2. QED
      BY <3>1, SubSeqProperties
  <2>5. Append(SubSeq(s, 1, i - 1), s[i]) = SubSeq(s, 1, i - 1) \o << s[i] >>
    BY <2>1, <2>4, AppendIsConcat
  <2>6. Expanded(g[i]) = SubSeq(s, 1, i)
    BY <2>2, <2>3, <2>5, Zenon
  <2>7. QED
    BY <2>2, <2>6
<1>11. 0..n \subseteq T
  <2> HIDE DEF T
  <2>1. QED
    BY <1>9, <1>10, UpTo
<1>12. Expanded(g[n]) = SubSeq(s, 1, n)
  BY <1>11
<1>13. SubSeq(s, 1, n) = s
  BY <1>1, SubSeqFull
<1>14. unrle(rle(s)) = Expanded(rle(s).runs)
  BY DEF unrle, Expanded, Run
<1>15. QED
  BY <1>1, <1>6, <1>12, <1>13, <1>14

-----------------------------------------------------------------------------
(* Strings. *)

\* What an entry leaves: the strings that were there, and the new one.
Holding(new, old, x) ==
    /\ Len(new) \in Len(old)..Len(old) + 1
    /\ \A j \in 1..Len(old) : new[j] = old[j]
    /\ \E j \in 1..Len(new) : new[j] = x

\* A string is entered behind those that are there, if it is not one of them.
LEMMA EnteredOnce ==
    ASSUME NEW S, NEW u \in Seq(S), NEW x \in S
    PROVE  Entered(u, x) \in Seq(S) /\ Holding(Entered(u, x), u, x)
<1>1. PICK n \in Nat : n = Len(u) /\ DOMAIN u = 1..n
  BY LenProperties
<1>2. CASE \E j \in 1..n : u[j] = x
  <2>1. Entered(u, x) = u
    BY <1>1, <1>2 DEF Entered
  <2>2. QED
    BY <1>1, <1>2, <2>1 DEF Holding
<1>3. CASE ~ \E j \in 1..n : u[j] = x
  <2>1. Entered(u, x) = Append(u, x)
    BY <1>1, <1>3 DEF Entered
  <2>2. /\ Append(u, x) \in Seq(S) /\ Len(Append(u, x)) = n + 1
        /\ \A j \in 1..n : Append(u, x)[j] = u[j]
        /\ Append(u, x)[n + 1] = x
    BY <1>1, AppendProperties
  <2>3. QED
    BY <1>1, <2>1, <2>2 DEF Holding
<1>4. QED
  BY <1>2, <1>3

\* All strings of a vector are in its dictionary, which is not longer than it.
LEMMA DictionaryHasAll ==
    ASSUME NEW S, NEW s \in Seq(S)
    PROVE  /\ dictionary(s) \in Seq(S) /\ Len(dictionary(s)) <= Len(s)
           /\ \A i \in 1..Len(s) :
                 \E j \in 1..Len(dictionary(s)) : dictionary(s)[j] = s[i]
<1>1. PICK n \in Nat : n = Len(s) /\ s \in [1..n -> S]
  BY LenProperties
<1> DEFINE A == Seq(S)
           F == [x \in A \X (1..n) |-> Entered(x[1], s[x[2]])]
           Step(f) == [i \in 0..Len(s) |-> IF i = 0 THEN << >> ELSE Entered(f[i - 1], s[i])]
<1>2. PICK h \in [0..n -> A] : Follows(h, n, << >>, F)
  <2>1. F \in [A \X (1..n) -> A]
    BY <1>1, EnteredOnce
  <2>2. << >> \in A
    BY EmptySeq
  <2> HIDE DEF F, A
  <2>3. QED
    BY <2>1, <2>2, Iteration
<1>3. h[0] = << >>
  BY <1>2 DEF Follows
<1>4. ASSUME NEW i \in 1..n
      PROVE  h[i] = Entered(h[i - 1], s[i])
  <2>1. i - 1 \in 0..n
    OBVIOUS
  <2>2. << h[i - 1], i >> \in A \X (1..n)
    BY <2>1
  <2>3. h[i] = F[<< h[i - 1], i >>]
    BY <1>2 DEF Follows
  <2>4. QED
    BY <2>2, <2>3
<1> HIDE DEF F
<1>5. h = Step(h)
  <2>1. h = [i \in 0..n |-> h[i]]
    OBVIOUS
  <2>2. \A i \in 0..n : h[i] = IF i = 0 THEN << >> ELSE Entered(h[i - 1], s[i])
    BY <1>3, <1>4
  <2>3. QED
    BY <1>1, <2>1, <2>2
<1> DEFINE g == CHOOSE f : f = Step(f)
<1>6. dictionary(s) = g[Len(s)]
  BY DEF dictionary
<1>7. g = Step(g)
  <2> HIDE DEF Step
  <2>1. QED
    BY <1>5
<1> HIDE DEF g
<1>8. g[0] = << >> /\ \A i \in 1..n : g[i] = Entered(g[i - 1], s[i])
  <2>1. \A i \in 0..n : g[i] = IF i = 0 THEN << >> ELSE Entered(g[i - 1], s[i])
    BY <1>1, <1>7, Zenon
  <2>2. 0 \in 0..n /\ \A i \in 1..n : i \in 0..n /\ i # 0
    OBVIOUS
  <2>3. QED
    BY <2>1, <2>2, Zenon
<1> HIDE DEF Step
<1> DEFINE Known(u, i) == /\ u \in Seq(S) /\ Len(u) <= i
                          /\ \A k \in 1..i : \E j \in 1..Len(u) : u[j] = s[k]
           T == {i \in 0..n : Known(g[i], i)}
<1>9. 0 \in T
  <2>1. << >> \in Seq(S) /\ Len(<< >>) = 0
    BY EmptySeq
  <2>2. Known(<< >>, 0)
    BY <2>1
  <2> HIDE DEF Known
  <2>3. Known(g[0], 0)
    BY <1>8, <2>2, Zenon
  <2>4. QED
    BY <2>3
<1>10. ASSUME NEW i \in 1..n, i - 1 \in T
       PROVE  i \in T
  <2>1. PICK u : u = g[i - 1]
    OBVIOUS
  <2>2. Known(u, i - 1)
    <3> HIDE DEF Known
    <3>1. QED
      BY <1>10, <2>1
  <2>3. PICK m \in Nat : m = Len(u) /\ m <= i - 1 /\ u \in Seq(S)
    BY <2>2, LenProperties
  <2>4. s[i] \in S
    BY <1>1
  <2>5. PICK v \in Seq(S), l \in Nat :
           /\ v = Entered(u, s[i]) /\ l = Len(v)
           /\ l \in m..m + 1
           /\ \A j \in 1..m : v[j] = u[j]
           /\ \E j \in 1..l : v[j] = s[i]
    <3>1. PICK z \in S : z = s[i]
      BY <2>4
    <3>2. Entered(u, z) \in Seq(S) /\ Holding(Entered(u, z), u, z)
      BY <2>3, EnteredOnce
    <3>3. Len(Entered(u, z)) \in Nat
      BY <3>2, LenProperties
    <3>4. QED
      BY <2>3, <3>1, <3>2, <3>3 DEF Holding
  <2>6. ASSUME NEW k \in 1..i
        PROVE  \E j \in 1..l : v[j] = s[k]
    <3>1. CASE k = i
      BY <2>5, <3>1
    <3>2. CASE k # i
      <4>1. k \in 1..i - 1
        BY <3>2
      <4>2. PICK j \in 1..m : u[j] = s[k]
        BY <2>2, <2>3, <4>1
      <4>3. j \in 1..l /\ v[j] = u[j]
        BY <2>5
      <4>4. QED
        BY <4>2, <4>3
    <3>3. QED
      BY <3>1, <3>2
  <2>7. Known(v, i)
    <3>1. l <= i
      BY <2>3, <2>5
    <3>2. v \in Seq(S) /\ Len(v) = l
      BY <2>5
    <3>3. QED
      BY <2>6, <3>1, <3>2
  <2>8. g[i] = v
    BY <1>8, <2>1, <2>5, Zenon
  <2> HIDE DEF Known
  <2>9. QED
    BY <2>7, <2>8
<1>11. 0..n \subseteq T
  <2> HIDE DEF T
  <2>1. QED
    BY <1>9, <1>10, UpTo
<1>12. Known(g[n], n)
  <2> HIDE DEF Known
  <2>1. QED
    BY <1>11
<1>13. QED
  BY <1>1, <1>6, <1>12

\* The references into the dictionary are read back as the strings.
LEMMA Dictionaries ==
    ASSUME NEW s \in StrVectors
    PROVE  /\ write_string_vector(s, "Dictionary").form = "Dictionary"
           /\ from_dictionary(write_string_vector(s, "Dictionary")) = s
<1>1. PICK n \in Nat : n = Len(s) /\ s \in [1..n -> Seq(Nat)] /\ n <= 2 * Half
  BY VectorsAssumption, LenProperties
<1>2. PICK h \in Nat : h = Half /\ h > 0
  BY Widths
<1>3. PICK u \in Seq(Seq(Nat)), l \in Nat :
         /\ u = dictionary(s) /\ l = Len(u) /\ l <= n /\ DOMAIN u = 1..l
         /\ \A i \in 1..n : \E j \in 1..l : u[j] = s[i]
  <2>1. /\ dictionary(s) \in Seq(Seq(Nat)) /\ Len(dictionary(s)) <= n
        /\ \A i \in 1..n : \E j \in 1..Len(dictionary(s)) : dictionary(s)[j] = s[i]
    BY <1>1, VectorsAssumption, DictionaryHasAll
  <2>2. Len(dictionary(s)) \in Nat /\ DOMAIN dictionary(s) = 1..Len(dictionary(s))
    BY <2>1, LenProperties
  <2>3. QED
    BY <2>1, <2>2
<1>4. ASSUME NEW i \in 1..n
      PROVE  /\ RefTo(u, s[i]) \in Nat /\ RefTo(u, s[i]) < l
             /\ u[RefTo(u, s[i]) + 1] = s[i]
  <2>1. PICK k : k = CHOOSE j \in 1..l : u[j] = s[i]
    OBVIOUS
  <2>2. k \in 1..l /\ u[k] = s[i]
    BY <1>3, <2>1
  <2>3. RefTo(u, s[i]) = k - 1
    BY <1>3, <2>1 DEF RefTo
  <2>4. (k - 1) + 1 = k
    BY <2>2
  <2>5. QED
    BY <2>2, <2>3, <2>4
<1> DEFINE refs == [i \in 1..n |-> RefTo(u, s[i])]
<1>5. refs \in [1..n -> Unsigned]
  <2>1. \A i \in 1..n : RefTo(u, s[i]) \in Unsigned
    BY <1>1, <1>2, <1>3, <1>4 DEF Unsigned
  <2>2. QED
    BY <2>1
<1>6. refs \in Seq(Unsigned)
  BY <1>5, IsASeq
<1>7. write_string_vector(s, "Dictionary")
         = [form |-> "Dictionary", unique |-> u, refs |-> bitpack(refs)]
  BY <1>1, <1>3 DEF write_string_vector, Each
<1>8. \A i \in 1..n : refs[i] = RefTo(u, s[i])
  OBVIOUS
<1> HIDE DEF refs
<1>9. PICK b : b = write_string_vector(s, "Dictionary")
  OBVIOUS
<1>10. b.form = "Dictionary" /\ b.unique = u /\ b.refs.items = refs
  BY <1>6, <1>7, <1>9, Bitpacked
<1>11. from_dictionary(b) = [i \in 1..n |-> u[refs[i] + 1]]
  <2>1. \A i \in 1..n : refs[i] < Len(u)
    BY <1>3, <1>4, <1>8
  <2>2. QED
    BY <1>5, <1>10, <2>1 DEF from_dictionary, Each
<1>12. \A i \in 1..n : u[refs[i] + 1] = s[i]
  BY <1>4, <1>8
<1>13. QED
  BY <1>1, <1>9, <1>10, <1>11, <1>12

\* What two strings have in common is no longer than either.
LEMMA CommonPrefixOf ==
    ASSUME NEW a \in Seq(Nat), NEW b \in Seq(Nat)
    PROVE  /\ CommonPrefix(a, b) \in Nat
           /\ CommonPrefix(a, b) <= Len(a) /\ CommonPrefix(a, b) <= Len(b)
           /\ SubSeq(a, 1, CommonPrefix(a, b)) = SubSeq(b, 1, CommonPrefix(a, b))
<1>1. PICK k \in Nat, l \in Nat : k = Len(a) /\ l = Len(b)
  BY LenProperties
<1>2. PICK m \in Nat : m = Min({k, l}) /\ m <= k /\ m <= l
  BY LesserAndGreater DEF Lesser
<1> DEFINE T == {n \in 0..m : SubSeq(a, 1, n) = SubSeq(b, 1, n)}
<1>3. CommonPrefix(a, b) = Max(T)
  BY <1>1, <1>2 DEF CommonPrefix
<1>4. 0 \in T
  BY SubSeqEmpty
<1>5. T \in SUBSET Int /\ T # {} /\ \A n \in T : n <= m
  BY <1>4
<1>6. Max(T) \in T
  <2> HIDE DEF T
  <2>1. QED
    <3>1. T \in SUBSET Int /\ T # {}
      BY <1>5
    <3>2. m \in Int /\ \A n \in T : n <= m
      BY <1>5
    <3>3. QED
      BY <3>1, <3>2, GreatestOf
<1>7. Max(T) \in 0..m /\ SubSeq(a, 1, Max(T)) = SubSeq(b, 1, Max(T))
  BY <1>6
<1> HIDE DEF T
<1>8. QED
  BY <1>1, <1>2, <1>3, <1>7

\* Prefixes of the string before, and what follows them, are read back.
LEMMA PrefixDeltas ==
    ASSUME NEW s \in StrVectors
    PROVE  /\ write_string_vector(s, "PrefixDelta").form = "PrefixDelta"
           /\ from_prefixes(write_string_vector(s, "PrefixDelta")) = s
<1>1. PICK n \in Nat : n = Len(s) /\ s \in [1..n -> Seq(Nat)]
  BY VectorsAssumption, LenProperties
<1> DEFINE items == [i \in 1..n |->
                        [prefix |-> PrefixOf(s, i),
                         suffix |-> SubSeq(s[i], PrefixOf(s, i) + 1, Len(s[i]))]]
<1>2. write_string_vector(s, "PrefixDelta") = [form |-> "PrefixDelta", items |-> items]
  BY <1>1 DEF write_string_vector
<1>3. DOMAIN items = 1..n /\ items = [i \in 1..n |-> items[i]]
  OBVIOUS
<1>4. \A i \in 1..n : /\ items[i].prefix = PrefixOf(s, i)
                      /\ items[i].suffix
                            = SubSeq(s[i], PrefixOf(s, i) + 1, Len(s[i]))
  OBVIOUS
<1> HIDE DEF items
<1>5. Len(items) = n
  <2>1. items \in [1..n -> {items[i] : i \in 1..n}]
    BY <1>3
  <2>2. QED
    BY <2>1, LenProperties
<1>6. PICK b : b = write_string_vector(s, "PrefixDelta")
  OBVIOUS
<1>7. b.form = "PrefixDelta" /\ b.items = items
  BY <1>2, <1>6
<1> DEFINE h == [i \in 0..n |-> IF i = 0 THEN << >> ELSE s[i]]
           Step(f) == [i \in 0..Len(b.items) |->
                         IF i = 0 THEN << >>
                         ELSE SubSeq(f[i - 1], 1, b.items[i].prefix) \o b.items[i].suffix]
<1>8. ASSUME NEW i \in 1..n
      PROVE  /\ items[i].prefix <= Len(h[i - 1])
             /\ SubSeq(h[i - 1], 1, items[i].prefix) \o items[i].suffix = s[i]
  <2>1. PICK p : p = PrefixOf(s, i)
    OBVIOUS
  <2>2. s[i] \in Seq(Nat) /\ Len(s[i]) \in Nat
    BY <1>1, LenProperties
  <2>3. PICK a : a = h[i - 1]
    OBVIOUS
  <2>4. /\ p \in Nat /\ p <= Len(a) /\ p <= Len(s[i])
        /\ SubSeq(a, 1, p) = SubSeq(s[i], 1, p)
    <3>1. CASE i = 1
      <4>1. p = 0 /\ a = << >>
        BY <2>1, <2>3, <3>1 DEF PrefixOf
      <4>2. SubSeq(a, 1, 0) = << >> /\ SubSeq(s[i], 1, 0) = << >>
        BY SubSeqEmpty
      <4>3. Len(<< >>) = 0
        BY EmptySeq
      <4>4. QED
        BY <2>2, <4>1, <4>2, <4>3
    <3>2. CASE i # 1
      <4>1. i - 1 \in 1..n
        BY <3>2
      <4>2. a = s[i - 1] /\ s[i - 1] \in Seq(Nat)
        BY <1>1, <2>3, <4>1
      <4>3. p = CommonPrefix(a, s[i])
        BY <2>1, <3>2, <4>2 DEF PrefixOf
      <4>4. QED
        BY <2>2, <4>2, <4>3, CommonPrefixOf
    <3>3. QED
      BY <3>1, <3>2
  <2>5. SubSeq(s[i], 1, p) \o SubSeq(s[i], p + 1, Len(s[i])) = SubSeq(s[i], 1, Len(s[i]))
    <3>1. PICK z \in Seq(Nat) : z = s[i]
      BY <2>2
    <3>2. 1 \in 1..Len(z) + 1 /\ p \in 1 - 1..Len(z) /\ Len(z) \in p..Len(z)
      BY <2>2, <2>4, <3>1
    <3>3. SubSeq(z, 1, p) \o SubSeq(z, p + 1, Len(z)) = SubSeq(z, 1, Len(z))
      BY <3>2, ConcatAdjacentSubSeq
    <3>4. QED
      BY <3>1, <3>3
  <2>6. SubSeq(s[i], 1, Len(s[i])) = s[i]
    BY <2>2, SubSeqFull
  <2>7. items[i].prefix = p /\ items[i].suffix = SubSeq(s[i], p + 1, Len(s[i]))
    BY <1>4, <2>1
  <2> HIDE DEF h
  <2>8. QED
    BY <2>3, <2>4, <2>5, <2>6, <2>7
<1>9. h[0] = << >> /\ h = [i \in 0..n |-> h[i]] /\ \A i \in 1..n : h[i] = s[i]
  OBVIOUS
<1> HIDE DEF h
<1>10. h = Step(h)
  <2>1. \A i \in 0..n : h[i] = IF i = 0 THEN << >>
                               ELSE SubSeq(h[i - 1], 1, items[i].prefix) \o items[i].suffix
    <3>1. \A i \in 0..n : i = 0 \/ i \in 1..n
      OBVIOUS
    <3>2. \A i \in 1..n : i # 0
      OBVIOUS
    <3>3. QED
      BY <1>8, <1>9, <3>1, <3>2, Zenon
  <2>2. QED
    BY <1>5, <1>7, <1>9, <2>1
<1> DEFINE g == CHOOSE f : f = Step(f)
<1>11. from_prefixes(b) =
          IF \A i \in DOMAIN b.items : b.items[i].prefix <= Len(g[i - 1])
          THEN [i \in DOMAIN b.items |-> g[i]] ELSE InvalidData
  BY DEF from_prefixes
<1>12. g = Step(g)
  <2> HIDE DEF Step
  <2>1. QED
    BY <1>10
<1> HIDE DEF g
<1>13. /\ g[0] = << >>
       /\ \A i \in 1..n : g[i] = SubSeq(g[i - 1], 1, items[i].prefix) \o items[i].suffix
  <2>1. \A i \in 0..n : g[i] = IF i = 0 THEN << >>
                               ELSE SubSeq(g[i - 1], 1, items[i].prefix) \o items[i].suffix
    BY <1>5, <1>7, <1>12, Zenon
  <2>2. 0 \in 0..n /\ \A i \in 1..n : i \in 0..n /\ i # 0
    OBVIOUS
  <2>3. QED
    BY <2>1, <2>2, Zenon
<1> HIDE DEF Step
<1> DEFINE T == {i \in 0..n : g[i] = h[i]}
<1>14. 0 \in T
  BY <1>9, <1>13
<1>15. ASSUME NEW i \in 1..n, i - 1 \in T
       PROVE  i \in T
  <2>1. g[i - 1] = h[i - 1]
    BY <1>15
  <2>2. g[i] = h[i]
    BY <1>8, <1>9, <1>13, <2>1, Zenon
  <2>3. QED
    BY <2>2
<1>16. 0..n \subseteq T
  <2> HIDE DEF T
  <2>1. QED
    BY <1>14, <1>15, UpTo
<1>17. ASSUME NEW i \in 1..n
       PROVE  g[i - 1] = h[i - 1] /\ g[i] = s[i]
  <2>1. i - 1 \in 0..n /\ i \in 0..n
    OBVIOUS
  <2>2. QED
    BY <1>9, <1>16, <2>1
<1>18. \A i \in 1..n : items[i].prefix <= Len(g[i - 1])
  BY <1>8, <1>17, Zenon
<1>19. from_prefixes(b) = [i \in 1..n |-> g[i]]
  BY <1>3, <1>7, <1>11, <1>18
<1>20. [i \in 1..n |-> g[i]] = s
  BY <1>1, <1>17
<1>21. QED
  BY <1>6, <1>7, <1>19, <1>20

-----------------------------------------------------------------------------
(* The selection: a frame of reference, which an empty vector must not get,    *)
(* is selected for vectors with elements only, and that of the elements        *)
(* themselves for a narrow span only.                                          *)

\* Which codecs need an element, and which one a narrow span.
Selectable(s, c) ==
    /\ c \in IntegerCodecs
    /\ c \in {"ForBitpack", "DeltaForBitpack"} => s # << >>
    /\ c = "ForBitpack" => Span(s) <= W - 4

\* select_integer_codec selects a codec a vector may have.
LEMMA SelectsInteger == \A s : Selectable(s, select_integer_codec(s))
<1>1. SUFFICES ASSUME NEW s
               PROVE  Selectable(s, select_integer_codec(s))
  OBVIOUS
<1>2. PICK c : c = select_integer_codec(s)
  OBVIOUS
<1>3. Len(<< >>) = 0
  BY EmptySeq
<1>4. c \in IntegerCodecs
  BY <1>2 DEF select_integer_codec, IntegerCodecs
<1>5. c \in {"ForBitpack", "DeltaForBitpack"} => ~(Len(s) < 4)
  BY <1>2 DEF select_integer_codec
<1>6. c = "ForBitpack" => Span(s) <= W - 4
  BY <1>2 DEF select_integer_codec
<1>7. QED
  BY <1>2, <1>3, <1>4, <1>5, <1>6 DEF Selectable

\* So does select_u64_codec.
LEMMA SelectsUnsigned == \A s : Selectable(s, select_u64_codec(s))
<1>1. SUFFICES ASSUME NEW s
               PROVE  Selectable(s, select_u64_codec(s))
  OBVIOUS
<1>2. PICK c : c = select_u64_codec(s)
  OBVIOUS
<1>3. CASE \A i \in DOMAIN s : s[i] < Half
  BY <1>3, SelectsInteger DEF select_u64_codec
<1>4. CASE ~ \A i \in DOMAIN s : s[i] < Half
  <2>1. Len(<< >>) = 0
    BY EmptySeq
  <2>2. c = IF Len(s) < 4 THEN "DirectBitpack"
            ELSE IF RunsPay(s) THEN "Rle"
            ELSE IF Span(s) <= W - 4 THEN "ForBitpack" ELSE "Plain"
    BY <1>2, <1>4 DEF select_u64_codec
  <2>3. QED
    BY <1>2, <2>1, <2>2 DEF Selectable, IntegerCodecs
<1>5. QED
  BY <1>3, <1>4

\* select_string_codec selects a codec of strings.
LEMMA SelectsString == \A s : select_string_codec(s) \in StringCodecs
BY DEF select_string_codec, StringCodecs

-----------------------------------------------------------------------------
(* One vector, written and read back. *)

\* What is packed in it fits its width.
Fitting(b) ==
    /\ b.form = "Bitpack" => Packed(b)
    /\ b.form \in {"For", "DeltaDelta"} => Packed(b.packed)

\* The frame an empty vector does not have.
Unframeable(s, c) == s = << >> /\ c \in {"ForBitpack", "DeltaForBitpack"}

\* What may be read back, and when it may be an error.
Returned(s, c, r) ==
    /\ ~Unframeable(s, c) => r \in {s, InvalidData}
    /\ r = InvalidData =>
          /\ c \in {"DeltaBitpack", "DeltaForBitpack", "DeltaDeltaBitpack"}
          /\ ~DeltasFit(s) \/ (c = "DeltaDeltaBitpack" /\ ~SecondDeltasFit(s))

\* A frame of a narrow span is.
Narrow(s, c, b) ==
    c = "ForBitpack" /\ s # << >> /\ Span(s) <= W - 4 =>
        b.form = "For" /\ b.packed.width < W - 2

\* A vector of signed numbers.
LEMMA SignedVector ==
    ASSUME NEW s \in Seq(Signed), NEW c \in IntegerCodecs, NEW follows \in BOOLEAN
    PROVE  LET b == encode_i64_vector(s, c)
           IN  Fitting(b) /\ Narrow(s, c, b) /\ Returned(s, c, decode_i64_vector(b, c, follows))
<1>1. PICK b, r : b = encode_i64_vector(s, c) /\ r = decode_i64_vector(b, c, follows)
  OBVIOUS
<1>2. s # InvalidData /\ << >> # InvalidData /\ Misread # InvalidData
  <2>1. Signed \subseteq Int
    BY SignedNumbers
  <2>2. s \in Seq(Int) /\ << >> \in Seq(Int)
    BY <2>1, SeqMonotonic, EmptySeq
  <2>3. QED
    BY <2>2, ResultsAssumption
<1>3. Each(decode_zigzag, Each(encode_zigzag, s)) = s
  BY Zigzagged
<1>4. CASE c = "Plain"
  <2>1. b = Plain(Each(encode_zigzag, s)) /\ r = Each(decode_zigzag, b.items)
    BY <1>1, <1>4 DEF encode_i64_vector, decode_i64_vector
  <2>2. b.form = "Plain" /\ r = s
    BY <1>3, <2>1 DEF Plain
  <2>3. QED
    BY <1>1, <1>2, <1>4, <2>2 DEF Fitting, Narrow, Returned
<1>5. CASE c = "Rle"
  <2>1. b = rle(Each(encode_zigzag, s)) /\ r = Each(decode_zigzag, unrle(b))
    BY <1>1, <1>5 DEF encode_i64_vector, decode_i64_vector
  <2>2. Each(encode_zigzag, s) \in Seq(Int)
    <3>1. Unsigned \subseteq Int
      BY Widths DEF Unsigned
    <3>2. Each(encode_zigzag, s) \in Seq(Unsigned)
      BY Zigzagged
    <3>3. QED
      BY <3>1, <3>2, SeqMonotonic
  <2>3. b.form = "Rle" /\ r = s
    BY <1>3, <2>1, <2>2, RunLengths
  <2>4. QED
    BY <1>1, <1>2, <1>5, <2>3 DEF Fitting, Narrow, Returned
<1>6. CASE c = "DirectBitpack"
  <2>1. b = i64_bitpack(s) /\ r = Each(decode_zigzag, b.items)
    BY <1>1, <1>6 DEF encode_i64_vector, decode_i64_vector
  <2>2. b.form = "Bitpack" /\ Packed(b) /\ r = s
    BY <1>3, <2>1, SignedPacked
  <2>3. QED
    BY <1>1, <1>2, <1>6, <2>2 DEF Fitting, Narrow, Returned
<1>7. PICK ds \in Seq(Signed) : ds = deltas(s) /\ Len(ds) = Len(s)
  BY DeltasOf
<1>8. undelta_values(ds) \in {s, InvalidData} /\ (DeltasFit(s) => undelta_values(ds) = s)
  BY <1>7, Undelta
<1>9. CASE c = "DeltaBitpack"
  <2>1. b = i64_bitpack(ds) /\ r = undelta_values(Each(decode_zigzag, b.items))
    BY <1>1, <1>7, <1>9 DEF encode_i64_vector, decode_i64_vector
  <2>2. /\ b.form = "Bitpack" /\ Packed(b)
        /\ Each(decode_zigzag, b.items) = ds
    BY <2>1, SignedPacked, Zigzagged
  <2>3. r = undelta_values(ds)
    BY <2>1, <2>2
  <2>4. QED
    BY <1>1, <1>2, <1>8, <1>9, <2>2, <2>3 DEF Fitting, Narrow, Returned
<1>10. CASE c = "ForBitpack"
  <2>1. b = i64_for(s) /\ r = i64_unframe(b, follows)
    BY <1>1, <1>10 DEF encode_i64_vector, decode_i64_vector
  <2>2. CASE s = << >>
    <3>1. b = NoFrame
      BY <2>1, <2>2 DEF i64_for
    <3>2. b.form = "Plain" /\ r \in {Misread, << >>}
      BY <2>1, <3>1 DEF NoFrame, Plain, i64_unframe, Unframed
    <3>3. QED
      BY <1>1, <1>2, <1>10, <2>2, <3>2 DEF Fitting, Narrow, Returned, Unframeable
  <2>3. CASE s # << >>
    <3>1. /\ b.form = "For" /\ Packed(b.packed) /\ r = s
          /\ Span(s) <= W - 4 => b.packed.width < W - 2
      BY <2>1, <2>3, SignedFrame
    <3>2. QED
      BY <1>1, <1>2, <1>10, <3>1 DEF Fitting, Narrow, Returned
  <2>4. QED
    BY <2>2, <2>3
<1>11. CASE c = "DeltaForBitpack"
  <2>1. /\ b = i64_for(ds)
        /\ r = IF i64_unframe(b, follows) = Misread THEN Misread
               ELSE undelta_values(i64_unframe(b, follows))
    BY <1>1, <1>7, <1>11 DEF encode_i64_vector, decode_i64_vector
  <2>2. s = << >> <=> ds = << >>
    BY <1>7, EmptySeq
  <2>3. CASE s = << >>
    <3>1. b = NoFrame
      BY <2>1, <2>2, <2>3 DEF i64_for
    <3>2. b.form = "Plain" /\ i64_unframe(b, follows) \in {Misread, << >>}
      BY <3>1 DEF NoFrame, Plain, i64_unframe, Unframed
    <3>3. DeltasFit(s)
      BY <2>3, EmptySeq DEF DeltasFit
    <3>4. r \in {Misread, << >>}
      BY <1>8, <2>1, <2>2, <2>3, <3>2, <3>3
    <3>5. QED
      BY <1>1, <1>2, <1>11, <2>3, <3>2, <3>4 DEF Fitting, Narrow, Returned, Unframeable
  <2>4. CASE s # << >>
    <3>1. b.form = "For" /\ Packed(b.packed) /\ i64_unframe(b, follows) = ds
      BY <2>1, <2>2, <2>4, SignedFrame
    <3>2. ds # Misread
      <4>1. Signed \subseteq Int
        BY SignedNumbers
      <4>2. ds \in Seq(Int)
        BY <4>1, SeqMonotonic
      <4>3. QED
        BY <4>2, ResultsAssumption
    <3>3. r = undelta_values(ds)
      BY <2>1, <3>1, <3>2
    <3>4. QED
      BY <1>1, <1>2, <1>8, <1>11, <3>1, <3>3 DEF Fitting, Narrow, Returned
  <2>5. QED
    BY <2>3, <2>4
<1>12. CASE c = "DeltaDeltaBitpack"
  <2>1. b = delta_delta(s) /\ r = undelta_delta(b)
    BY <1>1, <1>12 DEF encode_i64_vector, decode_i64_vector
  <2>2. /\ b.form = "DeltaDelta" /\ Packed(b.packed)
        /\ r \in {s, InvalidData}
        /\ DeltasFit(s) /\ SecondDeltasFit(s) => r = s
    BY <2>1, DeltaDelta
  <2>3. QED
    BY <1>1, <1>2, <1>12, <2>2 DEF Fitting, Narrow, Returned
<1>13. QED
  BY <1>4, <1>5, <1>6, <1>9, <1>10, <1>11, <1>12 DEF IntegerCodecs

\* A vector of unsigned numbers: never an error.
LEMMA UnsignedVector ==
    ASSUME NEW s \in Seq(Unsigned), NEW c \in IntegerCodecs, NEW follows \in BOOLEAN
    PROVE  LET b == encode_u64_vector(s, c)
           IN  /\ Fitting(b) /\ Narrow(s, c, b)
               /\ Returned(s, c, decode_u64_vector(b, c, follows))
               /\ decode_u64_vector(b, c, follows) # InvalidData
<1>1. PICK b, r : b = encode_u64_vector(s, c) /\ r = decode_u64_vector(b, c, follows)
  OBVIOUS
<1>2. s \in Seq(Int) /\ s # InvalidData /\ << >> # InvalidData /\ Misread # InvalidData
  <2>1. Unsigned \subseteq Int
    BY Widths DEF Unsigned
  <2>2. s \in Seq(Int) /\ << >> \in Seq(Int)
    BY <2>1, SeqMonotonic, EmptySeq
  <2>3. QED
    BY <2>2, ResultsAssumption
<1>3. CASE c = "Rle"
  <2>1. b = rle(s) /\ r = unrle(b)
    BY <1>1, <1>3 DEF encode_u64_vector, decode_u64_vector
  <2>2. b.form = "Rle" /\ r = s
    BY <1>2, <2>1, RunLengths
  <2>3. QED
    BY <1>1, <1>2, <1>3, <2>2 DEF Fitting, Narrow, Returned
<1>4. CASE c = "DirectBitpack"
  <2>1. b = bitpack(s) /\ r = b.items
    BY <1>1, <1>4 DEF encode_u64_vector, decode_u64_vector
  <2>2. b.form = "Bitpack" /\ Packed(b) /\ r = s
    BY <2>1, Bitpacked
  <2>3. QED
    BY <1>1, <1>2, <1>4, <2>2 DEF Fitting, Narrow, Returned
<1>5. CASE c = "ForBitpack"
  <2>1. b = u64_for(s) /\ r = u64_unframe(b, follows)
    BY <1>1, <1>5 DEF encode_u64_vector, decode_u64_vector
  <2>2. CASE s = << >>
    <3>1. b = NoFrame
      BY <2>1, <2>2 DEF u64_for
    <3>2. b.form = "Plain" /\ r \in {Misread, << >>}
      BY <2>1, <3>1 DEF NoFrame, Plain, u64_unframe, Unframed
    <3>3. QED
      BY <1>1, <1>2, <1>5, <2>2, <3>2 DEF Fitting, Narrow, Returned, Unframeable
  <2>3. CASE s # << >>
    <3>1. /\ b.form = "For" /\ Packed(b.packed) /\ r = s
          /\ Span(s) <= W - 4 => b.packed.width < W - 2
      BY <2>1, <2>3, UnsignedFrame
    <3>2. QED
      BY <1>1, <1>2, <1>5, <3>1 DEF Fitting, Narrow, Returned
  <2>4. QED
    BY <2>2, <2>3
<1>6. CASE c \notin {"Rle", "DirectBitpack", "ForBitpack"}
  <2>1. b = Plain(s) /\ r = b.items
    BY <1>1, <1>6 DEF encode_u64_vector, decode_u64_vector
  <2>2. b.form = "Plain" /\ r = s
    BY <2>1 DEF Plain
  <2>3. QED
    BY <1>1, <1>2, <1>6, <2>2 DEF Fitting, Narrow, Returned
<1>7. QED
  BY <1>3, <1>4, <1>5, <1>6

\* A vector of strings: never an error, and no number in the open.
LEMMA StringVector ==
    ASSUME NEW s \in StrVectors, NEW c \in StringCodecs
    PROVE  LET b == write_string_vector(s, c)
           IN  /\ b.form \in {"Plain", "Dictionary", "PrefixDelta"}
               /\ read_string_vector(b, c) = s /\ s # InvalidData
<1>1. PICK b, r : b = write_string_vector(s, c) /\ r = read_string_vector(b, c)
  OBVIOUS
<1>2. s # InvalidData
  BY ResultsAssumption
<1>3. CASE c = "Plain"
  <2>1. b = Plain(s) /\ r = b.items
    BY <1>1, <1>3 DEF write_string_vector, read_string_vector
  <2>2. b.form = "Plain" /\ r = s
    BY <2>1 DEF Plain
  <2>3. QED
    BY <1>1, <1>2, <2>2
<1>4. CASE c = "Dictionary"
  <2>1. r = from_dictionary(b)
    BY <1>1, <1>4 DEF read_string_vector
  <2>2. b.form = "Dictionary" /\ r = s
    BY <1>1, <1>4, <2>1, Dictionaries
  <2>3. QED
    BY <1>1, <1>2, <2>2
<1>5. CASE c = "PrefixDelta"
  <2>1. r = from_prefixes(b)
    BY <1>1, <1>5 DEF read_string_vector
  <2>2. b.form = "PrefixDelta" /\ r = s
    BY <1>1, <1>5, <2>1, PrefixDeltas
  <2>3. QED
    BY <1>1, <1>2, <2>2
<1>6. QED
  BY <1>3, <1>4, <1>5 DEF StringCodecs

-----------------------------------------------------------------------------
(* The invariant. *)

\* The vector is one of its type.
Vector ==
    \/ elem = "I64" /\ vec \in I64Vectors
    \/ elem = "U64" /\ vec \in U64Vectors
    \/ elem = "String" /\ vec \in StrVectors

Selected ==
    CASE elem = "I64"    -> select_integer_codec(vec)
      [] elem = "U64"    -> select_u64_codec(vec)
      [] elem = "String" -> select_string_codec(vec)

Written ==
    CASE elem = "I64"    -> encode_i64_vector(vec, codec)
      [] elem = "U64"    -> encode_u64_vector(vec, codec)
      [] elem = "String" -> write_string_vector(vec, codec)

ReadBack(follows) ==
    CASE elem = "I64"    -> decode_i64_vector(buf, codec, follows)
      [] elem = "U64"    -> decode_u64_vector(buf, codec, follows)
      [] elem = "String" -> read_string_vector(buf, codec)

Chosen ==
    /\ codec \in (IF elem = "String" THEN StringCodecs ELSE IntegerCodecs)
    /\ chosen = "application" \/ (chosen = "library" /\ codec = Selected)

\* What the codec, what was written and what was read back come from.
Inv ==
    /\ Vector
    /\ codec # None => Chosen
    /\ buf # None => codec # None /\ buf = Written
    /\ res # None => buf # None /\ \E follows \in BOOLEAN : res = ReadBack(follows)

\* A step keeps it.
LEMMA InvStep == Inv /\ [Next]_vars => Inv'
<1>1. SUFFICES ASSUME Inv, [Next]_vars
               PROVE  Inv'
  OBVIOUS
<1>2. CASE UNCHANGED vars
  <2>1. /\ elem' = elem /\ vec' = vec /\ codec' = codec
        /\ chosen' = chosen /\ buf' = buf /\ res' = res
    BY <1>2 DEF vars
  <2>2. Selected' = Selected /\ Written' = Written
    BY <2>1 DEF Selected, Written
  <2>3. \A follows \in BOOLEAN : ReadBack(follows)' = ReadBack(follows)
    BY <2>1 DEF ReadBack
  <2>4. QED
    BY <1>1, <2>1, <2>2, <2>3 DEF Inv, Vector, Chosen
<1>3. CASE select
  <2>1. /\ codec = None /\ elem' = elem /\ vec' = vec /\ buf' = buf /\ res' = res
        /\ codec' = Selected /\ chosen' = "library"
    BY <1>3 DEF select, Selected
  <2>2. buf = None /\ res = None
    BY <1>1, <2>1 DEF Inv
  <2>3. Selected' = Selected
    BY <2>1 DEF Selected
  <2>4. Selected \in IF elem = "String" THEN StringCodecs ELSE IntegerCodecs
    BY <1>1, SelectsInteger, SelectsUnsigned, SelectsString
       DEF Inv, Vector, Selected, Selectable
  <2>5. Chosen'
    BY <2>1, <2>3, <2>4 DEF Chosen
  <2>6. QED
    BY <1>1, <2>1, <2>2, <2>5 DEF Inv, Vector
<1>4. ASSUME NEW c \in IntegerCodecs \cup StringCodecs, choose(c)
      PROVE  Inv'
  <2>1. /\ codec = None /\ elem' = elem /\ vec' = vec /\ buf' = buf /\ res' = res
        /\ codec' = c /\ chosen' = "application"
        /\ c \in IF elem = "String" THEN StringCodecs ELSE IntegerCodecs
    BY <1>4 DEF choose
  <2>2. buf = None /\ res = None
    BY <1>1, <2>1 DEF Inv
  <2>3. Chosen'
    BY <2>1 DEF Chosen
  <2>4. QED
    BY <1>1, <2>1, <2>2, <2>3 DEF Inv, Vector
<1>5. CASE write_typed_vector
  <2>1. /\ codec # None /\ buf = None /\ buf' = Written
        /\ elem' = elem /\ vec' = vec /\ codec' = codec
        /\ chosen' = chosen /\ res' = res
    BY <1>5 DEF write_typed_vector, Written
  <2>2. res = None
    BY <1>1, <2>1 DEF Inv
  <2>3. Selected' = Selected /\ Written' = Written
    BY <2>1 DEF Selected, Written
  <2>4. QED
    BY <1>1, <2>1, <2>2, <2>3 DEF Inv, Vector, Chosen
<1>6. ASSUME NEW follows \in BOOLEAN, read_typed_vector(follows)
      PROVE  Inv'
  <2>1. /\ buf # None /\ res = None /\ res' = ReadBack(follows)
        /\ elem' = elem /\ vec' = vec /\ codec' = codec
        /\ chosen' = chosen /\ buf' = buf
    BY <1>6 DEF read_typed_vector, ReadBack
  <2>2. Selected' = Selected /\ Written' = Written
    BY <2>1 DEF Selected, Written
  <2>3. ReadBack(follows)' = ReadBack(follows)
    BY <2>1 DEF ReadBack
  <2>4. QED
    BY <1>1, <2>1, <2>2, <2>3 DEF Inv, Vector, Chosen
<1>7. CASE Again
  <2>1. /\ elem' = elem /\ vec' = vec
        /\ codec' = None /\ buf' = None /\ res' = None
    BY <1>7 DEF Again
  <2>2. QED
    BY <1>1, <2>1 DEF Inv, Vector
<1>8. QED
  BY <1>1, <1>2, <1>3, <1>4, <1>5, <1>6, <1>7 DEF Next

\* What the codec, what was written and what was read back come from.
THEOREM Provenance == Spec => []Inv
<1>1. Init => Inv
  BY DEF Init, Inv, Vector
<1>2. QED
  BY <1>1, InvStep, PTL DEF Spec

\* The invariant gives the properties, one vector at a time.
LEMMA InvProperties ==
    Inv => TypeOK /\ NeverWrong /\ FailsOnOverflowOnly /\ FramePays
<1>1. SUFFICES ASSUME Inv
               PROVE  TypeOK /\ NeverWrong /\ FailsOnOverflowOnly /\ FramePays
  OBVIOUS
<1>2. Vector /\ (codec # None => Chosen)
  BY <1>1 DEF Inv
<1>3. None # InvalidData
  BY ResultsAssumption
<1>4. CASE buf = None
  <2>1. res = None
    BY <1>1, <1>4 DEF Inv
  <2>2. QED
    BY <1>3, <1>4, <2>1 DEF TypeOK, NeverWrong, FailsOnOverflowOnly, FramePays
<1>5. CASE buf # None
  <2>1. codec # None /\ buf = Written /\ Chosen
    BY <1>1, <1>5 DEF Inv
  <2>2. PICK follows \in BOOLEAN : res = None \/ res = ReadBack(follows)
    BY <1>1 DEF Inv
  <2>3. CASE elem = "String"
    <3>1. vec \in StrVectors /\ codec \in StringCodecs
      BY <1>2, <2>1, <2>3 DEF Vector, Chosen
    <3>2. buf = write_string_vector(vec, codec)
      BY <2>1, <2>3 DEF Written
    <3>3. ReadBack(follows) = read_string_vector(buf, codec)
      BY <2>3 DEF ReadBack
    <3>4. /\ buf.form \in {"Plain", "Dictionary", "PrefixDelta"}
          /\ read_string_vector(buf, codec) = vec /\ vec # InvalidData
      BY <3>1, <3>2, StringVector
    <3>5. codec # "ForBitpack"
      BY <3>1 DEF StringCodecs
    <3>6. res = None \/ (res = vec /\ res # InvalidData)
      BY <2>2, <3>3, <3>4
    <3>7. TypeOK
      BY <3>4 DEF TypeOK
    <3>8. NeverWrong /\ FailsOnOverflowOnly /\ FramePays
      BY <1>3, <3>5, <3>6 DEF NeverWrong, FailsOnOverflowOnly, FramePays
    <3>9. QED
      BY <3>7, <3>8
  <2>4. ASSUME elem # "String",
               Fitting(buf), Narrow(vec, codec, buf),
               Selectable(vec, Selected),
               res = None \/ Returned(vec, codec, res),
               res = InvalidData => elem = "I64"
        PROVE  TypeOK /\ NeverWrong /\ FailsOnOverflowOnly /\ FramePays
    <3>1. TypeOK
      BY <2>4 DEF TypeOK, Fitting
    <3>2. chosen = "application" \/ (chosen = "library" /\ Selectable(vec, codec))
      BY <2>1, <2>4 DEF Chosen
    <3>3. FailsOnOverflowOnly
      BY <1>3, <2>4 DEF FailsOnOverflowOnly, Returned
    <3>4. NeverWrong
      BY <2>4, <3>2 DEF NeverWrong, EmptyFrame, Returned, Unframeable, Selectable
    <3>5. FramePays
      BY <2>4, <3>2 DEF FramePays, Narrow, Selectable
    <3>6. QED
      BY <3>1, <3>3, <3>4, <3>5
  <2>5. CASE elem = "I64"
    <3>1. vec \in Seq(Signed) /\ codec \in IntegerCodecs
      BY <1>2, <2>1, <2>5, VectorsAssumption DEF Vector, Chosen
    <3>2. buf = encode_i64_vector(vec, codec) /\ Selected = select_integer_codec(vec)
      BY <2>1, <2>5 DEF Written, Selected
    <3>3. ReadBack(follows) = decode_i64_vector(buf, codec, follows)
      BY <2>5 DEF ReadBack
    <3>4. /\ Fitting(buf) /\ Narrow(vec, codec, buf)
          /\ Returned(vec, codec, decode_i64_vector(buf, codec, follows))
      BY <3>1, <3>2, SignedVector
    <3>5. Selectable(vec, Selected)
      BY <3>2, SelectsInteger
    <3>6. res = None \/ Returned(vec, codec, res)
      BY <2>2, <3>3, <3>4
    <3>7. QED
      BY <2>4, <2>5, <3>4, <3>5, <3>6
  <2>6. CASE elem = "U64"
    <3>1. vec \in Seq(Unsigned) /\ codec \in IntegerCodecs
      BY <1>2, <2>1, <2>6, VectorsAssumption DEF Vector, Chosen
    <3>2. buf = encode_u64_vector(vec, codec) /\ Selected = select_u64_codec(vec)
      BY <2>1, <2>6 DEF Written, Selected
    <3>3. ReadBack(follows) = decode_u64_vector(buf, codec, follows)
      BY <2>6 DEF ReadBack
    <3>4. /\ Fitting(buf) /\ Narrow(vec, codec, buf)
          /\ Returned(vec, codec, decode_u64_vector(buf, codec, follows))
          /\ decode_u64_vector(buf, codec, follows) # InvalidData
      BY <3>1, <3>2, UnsignedVector
    <3>5. Selectable(vec, Selected)
      BY <3>2, SelectsUnsigned
    <3>6. res = None \/ (Returned(vec, codec, res) /\ res # InvalidData)
      BY <2>2, <3>3, <3>4
    <3>7. res = None \/ Returned(vec, codec, res)
      BY <3>6
    <3>8. res # InvalidData
      BY <1>3, <3>6
    <3>9. QED
      BY <2>4, <2>6, <3>4, <3>5, <3>7, <3>8
  <2>7. QED
    BY <1>2, <2>3, <2>5, <2>6 DEF Vector
<1>6. QED
  BY <1>4, <1>5

\* A vector is read back as it was, or not at all, whatever codec it has: the
\* one exception is the empty vector the application frames itself.
THEOREM VectorsReturn == Spec => []NeverWrong
<1>1. Inv => NeverWrong
  BY InvProperties
<1>2. QED
  BY <1>1, Provenance, PTL

\* A decode fails only for signed numbers whose differences overflowed.
THEOREM OverflowFails == Spec => []FailsOnOverflowOnly
<1>1. Inv => FailsOnOverflowOnly
  BY InvProperties
<1>2. QED
  BY <1>1, Provenance, PTL

\* No width is larger than that of an integer, and what is packed fits its width.
THEOREM WidthsFit == Spec => []TypeOK
<1>1. Inv => TypeOK
  BY InvProperties
<1>2. QED
  BY <1>1, Provenance, PTL

\* A frame of reference the library selects saves bits.
THEOREM FramesPay == Spec => []FramePays
<1>1. Inv => FramePays
  BY InvProperties
<1>2. QED
  BY <1>1, Provenance, PTL
=============================================================================
