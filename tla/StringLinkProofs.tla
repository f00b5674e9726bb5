-------------------------- MODULE StringLinkProofs --------------------------
(***************************************************************************)
(* Proofs about StringLink, for every set of strings, every field_enums    *)
(* the receiver knows at least as well as the sender, and any number of    *)
(* tokens: as long as the link is intact the two string tables stay in     *)
(* step, and the link implements the abstract channel.                     *)
(***************************************************************************)
EXTENDS StringLink, SequenceTheorems, TLAPS

-----------------------------------------------------------------------------
(* The inductive invariant. *)

\* What a token says of string v under field f, read with the first n
\* entries of table t.  Entries are never changed, so it stays true as the
\* table grows.
Says(t, n, f, v, token) ==
    /\ token.mode = "InlineEnum" =>
          /\ f \in Fields
          /\ token.code + 1 \in DOMAIN SndEnums[f]
          /\ SndEnums[f][token.code + 1] = v
    /\ token.mode = "Empty" => v = << >>
    /\ token.mode = "Ref" => token.id < n /\ t[token.id + 1] = v
    /\ token.mode = "PrefixDelta" =>
          /\ token.base < n
          /\ token.len <= Len(t[token.base + 1])
          /\ SubSeq(t[token.base + 1], 1, token.len) \o token.suffix = v
    /\ token.mode = "Literal" => token.str = v

\* Token i stands for its string in the table its writer had, which then
\* grew by that string if the token registers it.
TokenOK(i) ==
    LET e == log[i]
        n == SizeAfter(i - 1)
    IN  /\ Says(snd, n, e.field, e.val, e.token)
        /\ e.size = IF Registers(e.token) THEN n + 1 ELSE n
        /\ Registers(e.token) => snd[e.size] = e.val

SizesOK ==
    /\ Len(snd) = SizeAfter(Len(log))
    /\ \A i, j \in 0..Len(log) : i <= j => SizeAfter(i) <= SizeAfter(j)

InStep == /\ Distinct(snd)
          /\ SizesOK
          /\ \A i \in DOMAIN log : TokenOK(i)
          /\ rcv = SubSeq(snd, 1, SizeAfter(pos))

IInv == TypeOK /\ (intact => InStep)

Text == Seq(Chars)
Results == Text \cup {None, ReferenceError, InvalidData}

-----------------------------------------------------------------------------
(* Facts about tables and sequences. *)

\* The first m entries of a table.
LEMMA Prefix ==
    ASSUME NEW S, NEW t \in Seq(S), NEW m \in 0..Len(t)
    PROVE  /\ SubSeq(t, 1, m) \in Seq(S)
           /\ Len(SubSeq(t, 1, m)) = m
           /\ \A i \in 1..m : SubSeq(t, 1, m)[i] = t[i]
BY SubSeqProperties

\* Appending to a table changes none of its prefixes.
LEMMA PrefixOfAppend ==
    ASSUME NEW S, NEW t \in Seq(S), NEW v \in S, NEW m \in 0..Len(t)
    PROVE  SubSeq(Append(t, v), 1, m) = SubSeq(t, 1, m)
<1>1. /\ Append(t, v) \in Seq(S)
      /\ Len(Append(t, v)) = Len(t) + 1
      /\ \A i \in 1..Len(t) : Append(t, v)[i] = t[i]
  BY AppendProperties
<1>2. /\ SubSeq(Append(t, v), 1, m) \in Seq(S)
      /\ Len(SubSeq(Append(t, v), 1, m)) = m
      /\ \A i \in 1..m : SubSeq(Append(t, v), 1, m)[i] = Append(t, v)[i]
  BY <1>1, Prefix
<1>3. QED
  BY <1>1, <1>2, Prefix, SeqEqual

\* Cutting a string in two and joining the parts.
LEMMA SplitAt ==
    ASSUME NEW S, NEW s \in Seq(S), NEW n \in 0..Len(s)
    PROVE  SubSeq(s, 1, n) \o SubSeq(s, n + 1, Len(s)) = s
<1>1. /\ 1 \in 1..Len(s) + 1 /\ n \in 1 - 1..Len(s) /\ Len(s) \in n..Len(s)
  BY LenProperties
<1>2. SubSeq(s, 1, n) \o SubSeq(s, n + 1, Len(s)) = SubSeq(s, 1, Len(s))
  BY <1>1, ConcatAdjacentSubSeq
<1>3. QED
  BY <1>2, SubSeqFull

\* Registering an entry of a table in one of its prefixes: nothing happens
\* if the prefix has it, and the prefix grows by it if it is the next one.
LEMMA RegisterNext ==
    ASSUME NEW S, NEW t \in Seq(S), Distinct(t),
           NEW m \in 0..Len(t), NEW k \in 1..Len(t), k <= m + 1
    PROVE  register_value(SubSeq(t, 1, m), t[k])
               = SubSeq(t, 1, IF k <= m THEN m ELSE k)
<1> DEFINE p == SubSeq(t, 1, m)
<1>1. /\ p \in Seq(S) /\ Len(p) = m /\ DOMAIN p = 1..m
      /\ \A i \in 1..m : p[i] = t[i]
  BY Prefix, LenProperties
<1>2. CASE k <= m
  <2>1. k \in DOMAIN p /\ p[k] = t[k]
    BY <1>1, <1>2
  <2>2. HasValue(p, t[k])
    BY <2>1 DEF HasValue
  <2>3. QED
    BY <1>2, <2>2 DEF register_value
<1>3. CASE k = m + 1
  <2>1. ~HasValue(p, t[k])
    BY <1>1, <1>3 DEF HasValue, Distinct
  <2>2. register_value(p, t[k]) = Append(p, t[k])
    BY <2>1 DEF register_value
  <2>3. t[k] \in S
    BY ElementOfSeq
  <2>4. /\ Append(p, t[k]) \in Seq(S)
        /\ Len(Append(p, t[k])) = k
        /\ \A i \in 1..k : Append(p, t[k])[i] = t[i]
    BY <1>1, <1>3, <2>3, AppendProperties
  <2>5. /\ SubSeq(t, 1, k) \in Seq(S)
        /\ Len(SubSeq(t, 1, k)) = k
        /\ \A i \in 1..k : SubSeq(t, 1, k)[i] = t[i]
    BY Prefix
  <2>6. Append(p, t[k]) = SubSeq(t, 1, k)
    BY <2>4, <2>5, SeqEqual
  <2>7. QED
    BY <1>3, <2>2, <2>6
<1>4. QED
  BY <1>2, <1>3

-----------------------------------------------------------------------------
(* What the sender writes. *)

\* Every branch of write_value_with_field's String case says the truth about
\* the table it was taken on.
LEMMA WrittenToken ==
    ASSUME NEW t \in Seq(Text), NEW f \in Identities, NEW v \in Strings,
           NEW token, token = write_string(t, EnumOf(SndEnums, f), v)
    PROVE  /\ token \in Tokens
           /\ Registers(token) => ~HasValue(t, v)
           /\ Says(t, Len(t), f, v, token)
<1> DEFINE enum == EnumOf(SndEnums, f)
<1>e. enum \in Seq(Strings)
  BY EnumsAssumption DEF EnumOf
<1>1. CASE HasValue(enum, v)
  <2>1. token = [mode |-> "InlineEnum", code |-> get_id(enum, v)]
    BY <1>1 DEF write_string
  <2>2. /\ get_id(enum, v) \in Nat
        /\ get_id(enum, v) + 1 \in DOMAIN enum
        /\ enum[get_id(enum, v) + 1] = v
    BY <1>e, <1>1, LenProperties DEF get_id, HasValue
  <2>3. f \in Fields /\ enum = SndEnums[f]
    BY <2>2 DEF EnumOf
  <2>4. QED
    BY <2>1, <2>2, <2>3 DEF Tokens, Registers, Says
<1>2. CASE /\ ~HasValue(enum, v)
           /\ v = << >>
  <2>1. token = [mode |-> "Empty"]
    BY <1>2 DEF write_string
  <2>2. QED
    BY <1>2, <2>1 DEF Tokens, Registers, Says
<1>3. CASE /\ ~HasValue(enum, v)
           /\ v # << >> /\ HasValue(t, v)
  <2>1. token = [mode |-> "Ref", id |-> get_id(t, v)]
    BY <1>3 DEF write_string
  <2>2. get_id(t, v) \in Nat /\ get_id(t, v) + 1 \in DOMAIN t
        /\ t[get_id(t, v) + 1] = v
    BY <1>3, LenProperties DEF get_id, HasValue
  <2>3. QED
    BY <2>1, <2>2, LenProperties DEF Tokens, Registers, Says
<1>4. CASE /\ ~HasValue(enum, v)
           /\ v # << >> /\ ~HasValue(t, v) /\ PrefixBases(t, v) # {}
  <2>1. PICK m, suf :
           /\ m \in PrefixBases(t, v)
           /\ suf = SubSeq(v, m.len + 1, Len(v))
           /\ token = [mode |-> "PrefixDelta", base |-> m.id, len |-> m.len,
                       suffix |-> suf]
    BY <1>4 DEF write_string
  <2>2. /\ m.id \in 0..Len(t) - 1 /\ m.len \in 1..Len(v)
        /\ m.len <= Len(t[m.id + 1])
        /\ \A i \in 1..m.len : t[m.id + 1][i] = v[i]
    BY <2>1 DEF PrefixBases, best_prefix_base, Matches, get_value
  <2> DEFINE b == t[m.id + 1]
  <2>3. b \in Seq(Chars) /\ v \in Seq(Chars)
    BY <2>2, ElementOfSeq, StringsAssumption DEF Text
  <2>4. SubSeq(b, 1, m.len) = SubSeq(v, 1, m.len)
    BY <2>2, <2>3, Prefix, SeqEqual
  <2>5. SubSeq(v, 1, m.len) \o suf = v
    <3>1. v \in Seq(Chars) /\ m.len \in 0..Len(v)
      BY <2>2, <2>3, LenProperties
    <3>2. QED
      BY <2>1, <3>1, SplitAt
  <2>6. suf \in Seq(Chars)
    BY <2>1, <2>2, <2>3, SubSeqProperties, SMTT(30)
  <2>7. QED
    <3> token = [mode |-> "PrefixDelta", base |-> m.id, len |-> m.len,
                 suffix |-> suf]
      BY <2>1
    <3>1. /\ token.mode = "PrefixDelta" /\ token.base = m.id
          /\ token.len = m.len /\ token.suffix = suf
      OBVIOUS
    <3>2. m.id \in Nat /\ m.len \in Nat /\ m.id < Len(t)
      BY <2>2, LenProperties
    <3>3. token \in Tokens
      BY <2>1, <2>6, <3>2 DEF Tokens
    <3>4. SubSeq(b, 1, m.len) \o token.suffix = v
      BY <2>4, <2>5, <3>1
    <3>5. QED
      BY <1>4, <2>2, <3>1, <3>2, <3>3, <3>4 DEF Registers, Says
<1>5. CASE /\ ~HasValue(enum, v)
           /\ v # << >> /\ ~HasValue(t, v) /\ PrefixBases(t, v) = {}
  <2>1. token = [mode |-> "Literal", str |-> v]
    BY <1>5 DEF write_string
  <2>2. QED
    BY <1>5, <2>1 DEF Tokens, Registers, Says
<1>6. QED
  BY <1>1, <1>2, <1>3, <1>4, <1>5

-----------------------------------------------------------------------------
(* What a reader makes of it. *)

\* What an entry of the log is made of.
LEMMA EntryTyped ==
    ASSUME TypeOK, NEW i \in DOMAIN log
    PROVE  /\ i \in 1..Len(log) /\ i \in Nat
           /\ log[i].field \in Identities /\ log[i].val \in Strings
           /\ log[i].token \in Tokens /\ log[i].size \in Nat
<1>1. i \in 1..Len(log)
  BY LenProperties DEF TypeOK
<1>2. log[i] \in Entry
  BY <1>1, ElementOfSeq DEF TypeOK
<1>3. QED
  BY <1>1, <1>2 DEF Entry

\* The size a table had after any entry of the log is a number.
LEMMA SizeTyped ==
    ASSUME TypeOK, NEW i \in 0..Len(log)
    PROVE  SizeAfter(i) \in Nat
<1>1. CASE i = 0
  BY <1>1 DEF SizeAfter
<1>2. CASE i # 0
  <2>1. i \in DOMAIN log
    BY <1>2, LenProperties DEF TypeOK
  <2>2. QED
    BY <1>2, <2>1, EntryTyped DEF SizeAfter
<1>3. QED
  BY <1>1, <1>2

\* A token decodes to its string under every table the sender had from the
\* moment it wrote the token, and leaves the table it had right after, or
\* the one it was read with if that is larger.
LEMMA ReadToken ==
    ASSUME TypeOK, intact, Distinct(snd), SizesOK,
           NEW i \in DOMAIN log, TokenOK(i),
           NEW m \in SizeAfter(i - 1)..Len(snd),
           NEW enum \in Seq(Strings),
           log[i].field \in Fields =>
               \A c \in DOMAIN SndEnums[log[i].field] :
                   c \in DOMAIN enum /\ enum[c] = SndEnums[log[i].field][c]
    PROVE  read_string_value(SubSeq(snd, 1, m), enum, log[i].token)
               = Decoded(log[i].val,
                         SubSeq(snd, 1, IF log[i].size <= m THEN m
                                                            ELSE log[i].size))
<1> DEFINE e == log[i]
           t == e.token
           n == SizeAfter(i - 1)
           p == SubSeq(snd, 1, m)
<1>1. /\ i \in 1..Len(log) /\ e.field \in Identities /\ e.val \in Strings
      /\ t \in Tokens /\ e.size \in Nat
  BY EntryTyped
<1>2. /\ n \in Nat /\ n <= m /\ m \in Nat /\ m <= Len(snd)
      /\ e.size = SizeAfter(i) /\ e.size <= Len(snd)
  <2>1. Len(log) \in Nat /\ Len(snd) \in Nat
    BY LenProperties DEF TypeOK
  <2>2. i - 1 \in 0..Len(log) /\ i \in 0..Len(log) /\ i # 0
    BY <1>1, <2>1
  <2>3. n \in Nat
    BY <2>2, SizeTyped
  <2>4. e.size = SizeAfter(i)
    BY <2>2 DEF SizeAfter
  <2>5. SizeAfter(i) <= Len(snd)
    BY <2>1, <2>2 DEF SizesOK
  <2>6. QED
    BY <2>1, <2>3, <2>4, <2>5
<1>3. /\ snd \in Seq(Strings) /\ p \in Seq(Strings) /\ Len(p) = m
      /\ \A k \in 1..m : p[k] = snd[k]
  BY <1>2, Prefix DEF TypeOK
<1>r. ASSUME snd[e.size] = e.val, e.size = n + 1
      PROVE  register_value(p, e.val)
                 = SubSeq(snd, 1, IF e.size <= m THEN m ELSE e.size)
  <2>1. /\ m \in 0..Len(snd) /\ e.size \in 1..Len(snd) /\ e.size <= m + 1
    BY <1>2, <1>3, <1>r, LenProperties
  <2>2. register_value(SubSeq(snd, 1, m), snd[e.size])
            = SubSeq(snd, 1, IF e.size <= m THEN m ELSE e.size)
    <3> HIDE DEF e
    <3>1. QED
      BY <1>3, <2>1, RegisterNext
  <2>3. QED
    BY <1>r, <2>2
<1>4. CASE t.mode = "InlineEnum"
  <2>1. /\ e.field \in Fields /\ t.code \in Nat
        /\ t.code + 1 \in DOMAIN SndEnums[e.field]
        /\ SndEnums[e.field][t.code + 1] = e.val
        /\ e.size = n
    BY <1>1, <1>4 DEF TokenOK, Says, Tokens, Registers
  <2>2. HasId(enum, t.code) /\ get_value(enum, t.code) = e.val
    BY <2>1, LenProperties DEF HasId, get_value
  <2>3. read_string_value(p, enum, t) = Decoded(e.val, p)
    BY <1>4, <2>2 DEF read_string_value
  <2>4. QED
    BY <1>2, <2>1, <2>3
<1>5. CASE t.mode = "Empty"
  <2>1. e.val = << >> /\ e.size = n
    BY <1>5 DEF TokenOK, Says, Registers
  <2>2. read_string_value(p, enum, t) = Decoded(e.val, p)
    BY <1>5, <2>1 DEF read_string_value
  <2>3. QED
    BY <1>2, <2>1, <2>2
<1>6. CASE t.mode = "Ref"
  <2>1. t.id \in Nat /\ t.id < n /\ snd[t.id + 1] = e.val /\ e.size = n
    BY <1>1, <1>6 DEF TokenOK, Says, Tokens, Registers
  <2>2. HasId(p, t.id) /\ get_value(p, t.id) = e.val
    <3>1. t.id < m /\ t.id + 1 \in 1..m
      BY <1>2, <2>1
    <3>2. p[t.id + 1] = e.val
      BY <1>3, <2>1, <3>1
    <3>3. QED
      BY <1>3, <3>1, <3>2 DEF HasId, get_value
  <2>3. read_string_value(p, enum, t) = Decoded(e.val, p)
    BY <1>6, <2>2 DEF read_string_value, read_ref
  <2>4. QED
    BY <1>2, <2>1, <2>3
<1>7. CASE t.mode = "PrefixDelta"
  <2>1. /\ t.base \in Nat /\ t.base < n /\ t.len \in Nat
        /\ t.len <= Len(snd[t.base + 1])
        /\ SubSeq(snd[t.base + 1], 1, t.len) \o t.suffix = e.val
        /\ snd[e.size] = e.val /\ e.size = n + 1
    <3>1. t.base \in Nat /\ t.len \in Nat /\ Registers(t)
      BY <1>1, <1>7 DEF Tokens, Registers
    <3>2. QED
      BY <1>7, <3>1 DEF TokenOK, Says
  <2>2. HasId(p, t.base) /\ get_value(p, t.base) = snd[t.base + 1]
    <3>1. t.base < m /\ t.base + 1 \in 1..m
      <4>1. t.base \in Nat /\ t.base < n
        BY <2>1
      <4>2. n \in Nat /\ n <= m /\ m \in Nat
        BY <1>2
      <4> HIDE DEF t, n
      <4>3. QED
        BY <4>1, <4>2
    <3>2. QED
      BY <1>3, <3>1 DEF HasId, get_value
  <2>3. snd[t.base + 1] \in Seq(Chars)
    <3>1. t.base + 1 \in 1..Len(snd)
      BY <1>2, <2>1, SMTT(30)
    <3>2. snd[t.base + 1] \in Strings
      BY <1>3, <3>1, ElementOfSeq
    <3>3. QED
      BY <3>2, StringsAssumption
  <2>4. ~(t.len > Len(snd[t.base + 1]))
    BY <2>1, <2>3, LenProperties
  <2>5. read_prefix_delta(p, t) = Decoded(e.val, register_value(p, e.val))
    BY <2>1, <2>2, <2>4 DEF read_prefix_delta
  <2>6. read_string_value(p, enum, t) = Decoded(e.val, register_value(p, e.val))
    BY <1>7, <2>5 DEF read_string_value
  <2>7. register_value(p, e.val)
            = SubSeq(snd, 1, IF e.size <= m THEN m ELSE e.size)
    BY <1>r, <2>1
  <2>8. QED
    BY <2>6, <2>7
<1>8. CASE t.mode = "Literal"
  <2>1. t.str = e.val /\ snd[e.size] = e.val /\ e.size = n + 1
    BY <1>8 DEF TokenOK, Says, Registers
  <2>2. read_string_value(p, enum, t) = Decoded(e.val, register_value(p, e.val))
    BY <1>8, <2>1 DEF read_string_value
  <2>3. register_value(p, e.val)
            = SubSeq(snd, 1, IF e.size <= m THEN m ELSE e.size)
    BY <1>r, <2>1
  <2>4. QED
    BY <2>2, <2>3
<1>9. QED
  BY <1>1, <1>4, <1>5, <1>6, <1>7, <1>8 DEF Tokens

\* Whatever the table holds, a token decodes to a string or an error.
LEMMA ReadTyped ==
    ASSUME NEW t \in Seq(Text), NEW enum \in Seq(Strings), NEW token \in Tokens,
           NEW d, d = read_string_value(t, enum, token)
    PROVE  d.table \in Seq(Text) /\ d.val \in Results
<1>s. ASSUME NEW S, NEW s \in Seq(S), NEW id \in Nat, HasId(s, id)
      PROVE  get_value(s, id) \in S
  <2>1. id + 1 \in 1..Len(s)
    BY <1>s, LenProperties DEF HasId
  <2>2. QED
    BY <2>1, ElementOfSeq DEF get_value
<1>r. ASSUME NEW s \in Text PROVE register_value(t, s) \in Seq(Text)
  BY AppendProperties DEF register_value
<1>1. CASE token.mode = "InlineEnum"
  <2>1. d = Decoded(IF HasId(enum, token.code) THEN get_value(enum, token.code)
                                               ELSE InvalidData, t)
    BY <1>1 DEF read_string_value
  <2>2. token.code \in Nat
    BY <1>1 DEF Tokens
  <2>3. HasId(enum, token.code) => get_value(enum, token.code) \in Text
    BY <1>s, <2>2, StringsAssumption DEF Text
  <2>4. QED
    BY <2>1, <2>3 DEF Decoded, Results
<1>2. CASE token.mode = "Empty"
  <2>1. d = Decoded(<< >>, t)
    BY <1>2 DEF read_string_value
  <2>2. << >> \in Text
    BY DEF Text
  <2>3. QED
    BY <2>1, <2>2 DEF Decoded, Results
<1>3. CASE token.mode = "Ref"
  <2>1. d = read_ref(t, token.id)
    BY <1>3 DEF read_string_value
  <2>2. token.id \in Nat
    BY <1>3 DEF Tokens
  <2>3. HasId(t, token.id) => get_value(t, token.id) \in Text
    BY <1>s, <2>2
  <2>4. QED
    BY <2>1, <2>3 DEF read_ref, Decoded, Results
<1>4. CASE token.mode = "PrefixDelta"
  <2>1. d = read_prefix_delta(t, token)
    BY <1>4 DEF read_string_value
  <2>2. token.base \in Nat /\ token.len \in Nat /\ token.suffix \in Text
    BY <1>4 DEF Tokens, Text
  <2>3. CASE ~HasId(t, token.base)
    BY <2>1, <2>3 DEF read_prefix_delta, Decoded, Results
  <2>4. CASE HasId(t, token.base)
    <3> DEFINE base == get_value(t, token.base)
               s    == SubSeq(base, 1, token.len) \o token.suffix
    <3>1. base \in Text
      BY <1>s, <2>2, <2>4
    <3>2. d = IF token.len > Len(base) THEN Decoded(InvalidData, t)
              ELSE Decoded(s, register_value(t, s))
      BY <2>1, <2>4 DEF read_prefix_delta
    <3>3. CASE token.len > Len(base)
      BY <3>2, <3>3 DEF Decoded, Results
    <3>4. CASE ~(token.len > Len(base))
      <4>1. token.len \in 0..Len(base)
        BY <2>2, <3>1, <3>4, LenProperties DEF Text
      <4>2. SubSeq(base, 1, token.len) \in Text
        BY <3>1, <4>1, Prefix DEF Text
      <4>3. s \in Text
        BY <2>2, <4>2, ConcatProperties DEF Text
      <4>4. register_value(t, s) \in Seq(Text)
        BY <1>r, <4>3
      <4>5. QED
        BY <3>2, <3>4, <4>3, <4>4 DEF Decoded, Results
    <3>5. QED
      BY <3>3, <3>4
  <2>5. QED
    BY <2>3, <2>4
<1>5. CASE token.mode = "Literal"
  <2>1. d = Decoded(token.str, register_value(t, token.str))
    BY <1>5 DEF read_string_value
  <2>2. token.str \in Text
    BY <1>5, StringsAssumption DEF Tokens, Text
  <2>3. register_value(t, token.str) \in Seq(Text)
    BY <1>r, <2>2
  <2>4. QED
    BY <2>1, <2>2, <2>3 DEF Decoded, Results
<1>6. QED
  BY <1>1, <1>2, <1>3, <1>4, <1>5 DEF Tokens

-----------------------------------------------------------------------------
(* The steps. *)

\* The log, the sender's table and the place of the receiver are in range.
LEMMA PosTyped ==
    ASSUME IInv
    PROVE  /\ Len(log) \in Nat /\ Len(snd) \in Nat /\ pos \in Nat
           /\ pos <= Len(log) /\ DOMAIN log = 1..Len(log)
           /\ DOMAIN snd = 1..Len(snd)
BY LenProperties DEF IInv, InStep, TypeOK

\* The receiver decodes token i, the next one or one it has read before.
LEMMA ReadResult ==
    ASSUME IInv, intact, NEW i \in 1..pos + 1, i <= Len(log), ReadEntry(i)
    PROVE  /\ out' = log[i].val
           /\ rcv' = SubSeq(snd, 1, SizeAfter(IF i <= pos THEN pos ELSE i))
<1> DEFINE m    == SizeAfter(pos)
           enum == EnumOf(RcvEnums, log[i].field)
<1>1. /\ i \in DOMAIN log /\ i \in Nat
      /\ i - 1 \in 0..Len(log) /\ i \in 0..Len(log) /\ pos \in 0..Len(log)
      /\ Len(log) \in 0..Len(log) /\ i - 1 <= pos /\ i # 0
  BY PosTyped
<1>2. /\ m \in Nat /\ SizeAfter(i - 1) \in Nat /\ SizeAfter(i) \in Nat
      /\ Len(snd) \in Nat
  BY <1>1, SizeTyped, PosTyped DEF IInv, InStep
<1>3. /\ SizeAfter(i - 1) <= m /\ m <= Len(snd) /\ SizeAfter(i - 1) <= SizeAfter(i)
      /\ i <= pos => SizeAfter(i) <= m
  BY <1>1, PosTyped DEF IInv, InStep, SizesOK
<1>4. enum \in Seq(Strings)
  BY EnumsAssumption DEF EnumOf
<1>5. log[i].field \in Fields =>
        \A c \in DOMAIN SndEnums[log[i].field] :
            c \in DOMAIN enum /\ enum[c] = SndEnums[log[i].field][c]
  BY EnumsAssumption DEF EnumOf
<1>6. m \in SizeAfter(i - 1)..Len(snd)
  BY <1>2, <1>3
<1>7. log[i].size = SizeAfter(i)
  BY <1>1 DEF SizeAfter
<1>8. rcv = SubSeq(snd, 1, m)
  BY DEF IInv, InStep
<1> DEFINE d == read_string_value(rcv, enum, log[i].token)
           r == SubSeq(snd, 1, IF log[i].size <= m THEN m ELSE log[i].size)
<1>9. d = Decoded(log[i].val, r)
  <2> HIDE DEF m, enum
  <2>1. read_string_value(SubSeq(snd, 1, m), enum, log[i].token)
            = Decoded(log[i].val, r)
    BY <1>1, <1>4, <1>5, <1>6, ReadToken DEF IInv, InStep
  <2>2. QED
    BY <1>8, <2>1
<1>10. out' = log[i].val /\ rcv' = r
  <2>1. rcv' = d.table /\ out' = d.val
    BY DEF ReadEntry
  <2> HIDE DEF d, r
  <2>2. QED
    BY <1>9, <2>1 DEF Decoded
<1>11. (IF SizeAfter(i) <= m THEN m ELSE SizeAfter(i))
           = SizeAfter(IF i <= pos THEN pos ELSE i)
  <2>1. CASE i <= pos
    BY <1>3, <2>1
  <2>2. CASE ~(i <= pos)
    <3>1. m <= SizeAfter(i)
      BY <1>1, <2>2, PosTyped DEF IInv, InStep, SizesOK
    <3>2. QED
      BY <1>2, <2>2, <3>1
  <2>3. QED
    BY <2>1, <2>2
<1>12. QED
  BY <1>7, <1>10, <1>11

\* The sender decodes its own token i and its table stays as it is.
LEMMA LoopbackResult ==
    ASSUME IInv, intact, NEW i \in DOMAIN log, Loopback(i)
    PROVE  snd' = snd /\ out' = log[i].val
<1> DEFINE m    == Len(snd)
           enum == EnumOf(SndEnums, log[i].field)
<1>1. /\ i \in 1..Len(log) /\ i - 1 \in 0..Len(log) /\ i \in 0..Len(log)
      /\ Len(log) \in 0..Len(log) /\ i # 0 /\ i - 1 <= Len(log) /\ i <= Len(log)
  BY PosTyped
<1>2. m \in Nat /\ SizeAfter(i - 1) \in Nat /\ SizeAfter(i) \in Nat
  BY <1>1, SizeTyped, PosTyped DEF IInv, InStep
<1>3. SizeAfter(i - 1) <= m /\ SizeAfter(i) <= m
  BY <1>1 DEF IInv, InStep, SizesOK
<1>4. m \in SizeAfter(i - 1)..Len(snd)
  BY <1>2, <1>3
<1>5. enum \in Seq(Strings)
  BY EnumsAssumption DEF EnumOf
<1>6. log[i].field \in Fields =>
        \A c \in DOMAIN SndEnums[log[i].field] :
            c \in DOMAIN enum /\ enum[c] = SndEnums[log[i].field][c]
  BY DEF EnumOf
<1>7. log[i].size <= m
  BY <1>1, <1>3 DEF SizeAfter
<1>8. SubSeq(snd, 1, m) = snd
  BY SubSeqFull DEF IInv, InStep, TypeOK
<1>9. read_string_value(snd, enum, log[i].token) = Decoded(log[i].val, snd)
  BY <1>4, <1>5, <1>6, <1>7, <1>8, ReadToken DEF IInv, InStep
<1>10. QED
  BY <1>9 DEF Loopback, Decoded

\* What a token says does not change when the table grows.
LEMMA SaysStable ==
    ASSUME NEW t, NEW u, NEW n \in Nat, NEW f, NEW v, NEW token \in Tokens,
           \A k \in 1..n : u[k] = t[k],
           Says(t, n, f, v, token)
    PROVE  Says(u, n, f, v, token)
<1>1. token.mode = "Ref" => u[token.id + 1] = t[token.id + 1]
  BY DEF Says, Tokens
<1>2. token.mode = "PrefixDelta" => u[token.base + 1] = t[token.base + 1]
  BY DEF Says, Tokens
<1>3. QED
  BY <1>1, <1>2 DEF Says

\* Handing a token to the transport adds one entry at the end of the log.
LEMMA SentGrows ==
    ASSUME IInv, NEW f \in Identities, NEW v \in Strings, NEW token \in Tokens,
           Sent(f, v, token), Len(snd') \in Nat
    PROVE  /\ log' \in Seq(Entry) /\ Len(log') = Len(log) + 1
           /\ DOMAIN log' = 1..Len(log) + 1
           /\ \A i \in 1..Len(log) : log'[i] = log[i]
           /\ log'[Len(log) + 1] = [field |-> f, val |-> v, token |-> token,
                                    size |-> Len(snd')]
           /\ log'[Len(log) + 1].val = v
           /\ UNCHANGED << rcv, pos, out >>
           /\ pos' \in 0..Len(log')
<1> DEFINE e == [field |-> f, val |-> v, token |-> token, size |-> Len(snd')]
<1>1. log' = Append(log, e) /\ UNCHANGED << rcv, pos, out >>
  BY DEF Sent
<1>2. e \in Entry
  BY DEF Entry
<1>3. log \in Seq(Entry) /\ Len(log) \in Nat /\ pos \in 0..Len(log)
  BY PosTyped DEF IInv, TypeOK
<1>4. /\ log' \in Seq(Entry) /\ Len(log') = Len(log) + 1
      /\ \A i \in 1..Len(log) : log'[i] = log[i]
      /\ log'[Len(log) + 1] = e
  <2> HIDE DEF e
  <2>1. QED
    BY <1>1, <1>2, <1>3, AppendProperties
<1>5. e.val = v
  OBVIOUS
<1>6. /\ log'[Len(log) + 1].val = v
      /\ DOMAIN log' = 1..Len(log) + 1
      /\ pos' \in 0..Len(log')
  <2> HIDE DEF e
  <2>1. QED
    BY <1>1, <1>3, <1>4, <1>5, LenProperties
<1>7. QED
  BY <1>1, <1>4, <1>6

\* The strings of a log, in order.
LEMMA SentByLog ==
    ASSUME NEW entries \in Seq(Entry)
    PROVE  /\ SentBy(entries) \in Seq(Strings)
           /\ Len(SentBy(entries)) = Len(entries)
           /\ DOMAIN SentBy(entries) = 1..Len(entries)
           /\ \A i \in 1..Len(entries) : SentBy(entries)[i] = entries[i].val
<1>1. DOMAIN entries = 1..Len(entries) /\ Len(entries) \in Nat
  BY LenProperties
<1>2. ASSUME NEW i \in 1..Len(entries) PROVE entries[i].val \in Strings
  <2>1. entries[i] \in Entry
    BY ElementOfSeq
  <2>2. QED
    BY <2>1 DEF Entry
<1>3. SentBy(entries) \in [1..Len(entries) -> Strings]
  BY <1>1, <1>2 DEF SentBy
<1>4. SentBy(entries) \in Seq(Strings)
  BY <1>1, <1>3, IsASeq
<1>5. QED
  BY <1>1, <1>3, <1>4, LenProperties DEF SentBy

\* What was sent grows by the string of the new entry.
LEMMA SentExtends ==
    ASSUME IInv, NEW f \in Identities, NEW v \in Strings, NEW token \in Tokens,
           Sent(f, v, token), snd' \in Seq(Text)
    PROVE  SentBy(log') = Append(SentBy(log), v)
<1>1. /\ log' \in Seq(Entry) /\ Len(log') = Len(log) + 1
      /\ \A i \in 1..Len(log) : log'[i] = log[i]
      /\ log'[Len(log) + 1].val = v
  <2>1. Len(snd') \in Nat
    BY LenProperties
  <2>2. QED
    BY <2>1, SentGrows
<1>2. log \in Seq(Entry) /\ Len(log) \in Nat
  BY PosTyped DEF IInv, TypeOK
<1>3. /\ SentBy(log) \in Seq(Strings) /\ Len(SentBy(log)) = Len(log)
      /\ \A i \in 1..Len(log) : SentBy(log)[i] = log[i].val
  BY <1>2, SentByLog
<1>4. /\ Append(SentBy(log), v) \in Seq(Strings)
      /\ Len(Append(SentBy(log), v)) = Len(log) + 1
      /\ \A i \in 1..Len(log) : Append(SentBy(log), v)[i] = log[i].val
      /\ Append(SentBy(log), v)[Len(log) + 1] = v
  BY <1>2, <1>3, AppendProperties, SMTT(30)
<1>5. /\ SentBy(log') \in Seq(Strings) /\ Len(SentBy(log')) = Len(log) + 1
      /\ \A i \in 1..Len(log) + 1 : SentBy(log')[i] = log'[i].val
  BY <1>1, SentByLog
<1>6. \A i \in 1..Len(log) + 1 : SentBy(log')[i] = Append(SentBy(log), v)[i]
  BY <1>1, <1>2, <1>4, <1>5
<1>7. QED
  BY <1>1, <1>4, <1>5, <1>6, SeqEqual

\* A token that says the truth about the sender's table keeps the sides in
\* step, if it registers just when the table grows.
LEMMA SentStep ==
    ASSUME IInv, intact, intact',
           NEW f \in Identities, NEW v \in Strings, NEW token \in Tokens,
           Registers(token) => ~HasValue(snd, v),
           Says(snd, Len(snd), f, v, token),
           snd' = (IF Registers(token) THEN register_value(snd, v) ELSE snd),
           Sent(f, v, token)
    PROVE  IInv'
<1> DEFINE e == [field |-> f, val |-> v, token |-> token, size |-> Len(snd')]
<1>0. PICK L \in Nat, N \in Nat : L = Len(log) /\ N = Len(snd)
  BY PosTyped
<1>1. /\ snd \in Seq(Strings) /\ log \in Seq(Entry) /\ Distinct(snd)
      /\ DOMAIN snd = 1..N /\ DOMAIN log = 1..L /\ pos \in 0..L
  BY <1>0, PosTyped DEF IInv, InStep, TypeOK
<1>3. /\ token \in Tokens
      /\ Registers(token) => ~HasValue(snd, v)
      /\ Says(snd, N, f, v, token)
  BY <1>0
<1>4. snd' = IF Registers(token) THEN Append(snd, v) ELSE snd
  BY <1>3 DEF register_value
<1>5. /\ snd' \in Seq(Strings)
      /\ Len(snd') = IF Registers(token) THEN N + 1 ELSE N
      /\ DOMAIN snd' = 1..Len(snd')
      /\ \A k \in 1..N : snd'[k] = snd[k]
      /\ Registers(token) => snd'[N + 1] = v
  BY <1>0, <1>1, <1>4, AppendProperties, LenProperties
<1>6. \A m \in 0..N : SubSeq(snd', 1, m) = SubSeq(snd, 1, m)
  BY <1>0, <1>1, <1>4, PrefixOfAppend
<1>7. Distinct(snd')
  <2>1. CASE Registers(token)
    <3>1. \A k \in 1..N : snd[k] # v
      BY <1>1, <1>3, <2>1 DEF HasValue
    <3>2. QED
      BY <1>1, <1>5, <2>1, <3>1 DEF Distinct
  <2>2. CASE ~Registers(token)
    BY <1>1, <1>4, <2>2
  <2>3. QED
    BY <2>1, <2>2
<1>9. e.val = v /\ e.token = token /\ e.size = Len(snd') /\ e.field = f
  OBVIOUS
<1>10. /\ log' \in Seq(Entry) /\ Len(log') = L + 1
       /\ DOMAIN log' = 1..L + 1
       /\ \A i \in 1..L : log'[i] = log[i]
       /\ log'[L + 1] = e
       /\ UNCHANGED << rcv, pos, out >>
  BY <1>0, <1>5, SentGrows
<1> HIDE DEF e
<1>11. /\ \A i \in 0..L : SizeAfter(i)' = SizeAfter(i)
       /\ SizeAfter(L + 1)' = Len(snd')
       /\ \A i \in 0..L : SizeAfter(i) \in Nat /\ SizeAfter(i) <= N
       /\ SizeAfter(L) = N
  <2>1. \A i \in 0..L : SizeAfter(i)' = SizeAfter(i)
    BY <1>10 DEF SizeAfter
  <2>2. SizeAfter(L + 1)' = Len(snd')
    BY <1>9, <1>10 DEF SizeAfter
  <2>3. \A i \in 0..L : SizeAfter(i) \in Nat
    BY <1>0, SizeTyped DEF IInv, InStep
  <2>4. SizeAfter(L) = N
    BY <1>0 DEF IInv, InStep, SizesOK
  <2>5. \A i \in 0..L : SizeAfter(i) <= N
    BY <1>0, <2>4 DEF IInv, InStep, SizesOK
  <2>6. QED
    BY <2>1, <2>2, <2>3, <2>4, <2>5
<1>12. TypeOK'
  <2>1. /\ rcv \in Seq(Strings) /\ rcv \in Seq(Text)
        /\ out \in Results /\ pos \in 0..L
    BY <1>1 DEF IInv, TypeOK, Text, Results
  <2>2. snd' \in Seq(Text)
    BY <1>5, StringsAssumption, SeqMonotonic DEF Text
  <2>3. QED
    BY <1>5, <1>10, <2>1, <2>2 DEF TypeOK, Text, Results
<1>13. SizesOK'
  <2>1. Len(snd)' = SizeAfter(Len(log))'
    BY <1>10, <1>11
  <2>2. ASSUME NEW i \in 0..L + 1, NEW j \in 0..L + 1, i <= j
        PROVE  SizeAfter(i)' <= SizeAfter(j)'
    <3>1. CASE j \in 0..L
      <4>1. i \in 0..L
        BY <2>2, <3>1
      <4>2. SizeAfter(i) <= SizeAfter(j)
        BY <1>0, <2>2, <3>1, <4>1 DEF IInv, InStep, SizesOK
      <4>3. QED
        BY <1>11, <3>1, <4>1, <4>2
    <3>2. CASE j = L + 1 /\ i \in 0..L
      BY <1>5, <1>11, <3>2
    <3>3. CASE j = L + 1 /\ i = L + 1
      BY <1>5, <1>11, <3>3
    <3>4. QED
      BY <2>2, <3>1, <3>2, <3>3
  <2>3. QED
    BY <1>10, <2>1, <2>2 DEF SizesOK
<1>14. ASSUME NEW i \in 1..L PROVE TokenOK(i)'
  <2>1. TokenOK(i) /\ log'[i] = log[i] /\ log[i].token \in Tokens
    BY <1>1, <1>10, EntryTyped DEF IInv, InStep
  <2>2. i - 1 \in 0..L /\ i \in 0..L /\ i # 0
    OBVIOUS
  <2>3. /\ SizeAfter(i - 1)' = SizeAfter(i - 1) /\ SizeAfter(i - 1) <= N
        /\ SizeAfter(i - 1) \in Nat
        /\ log[i].size \in Nat /\ log[i].size <= N
    BY <1>11, <2>2 DEF SizeAfter
  <2>4. Says(snd', SizeAfter(i - 1), log[i].field, log[i].val, log[i].token)
    <3>1. \A k \in 1..SizeAfter(i - 1) : snd'[k] = snd[k]
      BY <1>5, <2>3
    <3>2. QED
      BY <2>1, <2>3, <3>1, SaysStable DEF TokenOK
  <2>5. Registers(log[i].token) => snd'[log[i].size] = snd[log[i].size]
    <3>1. Registers(log[i].token) => log[i].size \in 1..N
      BY <2>1, <2>3 DEF TokenOK
    <3>2. QED
      BY <1>5, <3>1
  <2>6. QED
    BY <2>1, <2>3, <2>4, <2>5 DEF TokenOK
<1>15. TokenOK(L + 1)'
  <2>1. SizeAfter(L + 1 - 1)' = N
    BY <1>11
  <2>2. Says(snd', N, f, v, token)
    BY <1>3, <1>5, SaysStable
  <2>3. QED
    BY <1>5, <1>9, <1>10, <2>1, <2>2 DEF TokenOK
<1>16. \A i \in 1..L + 1 : TokenOK(i)'
  BY <1>14, <1>15
<1>17. rcv' = SubSeq(snd', 1, SizeAfter(pos)')
  <2>1. PICK p \in 0..L : p = pos
    BY <1>1
  <2>2. SizeAfter(p)' = SizeAfter(p) /\ SizeAfter(p) \in 0..N
    BY <1>11, <2>1
  <2>3. QED
    BY <1>6, <1>10, <2>1, <2>2 DEF IInv, InStep, SizeAfter
<1>18. QED
  BY <1>7, <1>10, <1>12, <1>13, <1>16, <1>17 DEF IInv, InStep

\* A link that is not intact need only hold strings.
LEMMA SentBroken ==
    ASSUME IInv, intact' = FALSE, snd' \in Seq(Text),
           NEW f \in Identities, NEW v \in Strings, NEW token \in Tokens,
           Sent(f, v, token)
    PROVE  IInv'
<1>1. Len(snd') \in Nat
  BY LenProperties
<1>2. log' \in Seq(Entry) /\ pos' \in 0..Len(log') /\ UNCHANGED << rcv, out >>
  BY <1>1, SentGrows
<1>3. QED
  BY <1>2 DEF IInv, TypeOK, Text

\* Registering a string keeps a table of strings, puts the string there and
\* changes nothing when it is there already.
LEMMA Registered ==
    ASSUME NEW S, NEW t \in Seq(S), NEW v \in S, NEW u, u = register_value(t, v)
    PROVE  u \in Seq(S) /\ HasValue(u, v) /\ (HasValue(t, v) => u = t)
<1>1. CASE HasValue(t, v)
  BY <1>1 DEF register_value
<1>2. CASE ~HasValue(t, v)
  <2>1. u = Append(t, v)
    BY <1>2 DEF register_value
  <2>2. u \in Seq(S) /\ Len(u) = Len(t) + 1 /\ u[Len(t) + 1] = v
    BY <2>1, AppendProperties
  <2>3. Len(t) + 1 \in DOMAIN u
    BY <2>2, LenProperties
  <2>4. QED
    BY <1>2, <2>2, <2>3 DEF HasValue
<1>3. QED
  BY <1>1, <1>2

\* Both tables, and the tables of both enums, hold text.
LEMMA TablesTyped ==
    ASSUME IInv
    PROVE  /\ snd \in Seq(Text) /\ rcv \in Seq(Text) /\ out \in Results
           /\ \A v \in Strings : v \in Text
           /\ \A f : EnumOf(SndEnums, f) \in Seq(Strings)
           /\ \A f : EnumOf(RcvEnums, f) \in Seq(Strings)
<1>1. \A f : /\ EnumOf(SndEnums, f) \in Seq(Strings)
             /\ EnumOf(RcvEnums, f) \in Seq(Strings)
  BY EnumsAssumption DEF EnumOf
<1>2. QED
  BY <1>1, StringsAssumption DEF IInv, TypeOK, Text, Results

\* Writing a string under a field keeps the invariant and sends just that
\* string.
LEMMA WriteStep ==
    ASSUME IInv, NEW f \in Identities, NEW v \in Strings, Write(f, v)
    PROVE  IInv' /\ SentBy(log') = Append(SentBy(log), v)
<1>1. PICK token :
        /\ token = write_string(snd, EnumOf(SndEnums, f), v)
        /\ snd' = IF Registers(token) THEN register_value(snd, v) ELSE snd
        /\ Sent(f, v, token)
        /\ intact' = intact
  BY DEF Write
<1>2. /\ token \in Tokens
      /\ Registers(token) => ~HasValue(snd, v)
      /\ Says(snd, Len(snd), f, v, token)
  BY <1>1, TablesTyped, WrittenToken
<1>3. snd' \in Seq(Text)
  BY <1>1, TablesTyped, Registered
<1>4. ASSUME intact PROVE IInv'
  <2>1. intact'
    BY <1>1, <1>4
  <2>2. QED
    BY <1>1, <1>2, <1>4, <2>1, SentStep
<1>5. ASSUME ~intact PROVE IInv'
  <2>1. intact' = FALSE
    BY <1>1, <1>5 DEF IInv, TypeOK
  <2>2. QED
    BY <1>1, <1>2, <1>3, <2>1, SentBroken
<1>6. SentBy(log') = Append(SentBy(log), v)
  BY <1>1, <1>2, <1>3, SentExtends
<1>7. QED
  BY <1>4, <1>5, <1>6

\* Writing a string by reference keeps the invariant, sends just that string
\* and never mends a broken link.
LEMMA WriteRefStep ==
    ASSUME IInv, NEW v \in Strings, write_string_ref(v)
    PROVE  /\ IInv' /\ SentBy(log') = Append(SentBy(log), v)
           /\ intact' \in BOOLEAN /\ (intact' => intact)
<1> DEFINE token == [mode |-> "Ref", id |-> get_id(snd', v)]
<1>1. /\ snd' = register_value(snd, v)
      /\ Sent(NoField, v, token)
      /\ intact' = (intact /\ HasValue(snd, v))
  BY DEF write_string_ref, Harmed
<1>2. snd' \in Seq(Text) /\ HasValue(snd', v) /\ (HasValue(snd, v) => snd' = snd)
  BY <1>1, TablesTyped, Registered
<1>3. /\ get_id(snd', v) \in Nat /\ get_id(snd', v) + 1 \in DOMAIN snd'
      /\ snd'[get_id(snd', v) + 1] = v
  BY <1>2, LenProperties DEF get_id, HasValue
<1>4. token \in Tokens /\ ~Registers(token) /\ NoField \in Identities
  BY <1>3 DEF Tokens, Registers, Identities
<1>5. ASSUME intact' PROVE IInv'
  <2>1. intact /\ snd' = snd
    BY <1>1, <1>2, <1>5
  <2>2. Says(snd, Len(snd), NoField, v, token)
    BY <1>3, <2>1, TablesTyped, LenProperties DEF Says
  <2> HIDE DEF token
  <2>3. QED
    BY <1>1, <1>4, <1>5, <2>1, <2>2, SentStep
<1>6. ASSUME ~intact' PROVE IInv'
  <2>1. intact' = FALSE
    BY <1>1, <1>6
  <2> HIDE DEF token
  <2>2. QED
    BY <1>1, <1>2, <1>4, <2>1, SentBroken
<1>7. SentBy(log') = Append(SentBy(log), v)
  <2> HIDE DEF token
  <2>1. QED
    BY <1>1, <1>2, <1>4, SentExtends
<1>8. QED
  BY <1>1, <1>5, <1>6, <1>7 DEF IInv, TypeOK

\* A read, a first or a repeated one, leaves the receiver with the table the
\* sender had at the last token the receiver has seen.
LEMMA ReadStep ==
    ASSUME IInv, NEW i \in 1..pos + 1, i <= Len(log), ReadEntry(i),
           pos' = (IF i <= pos THEN pos ELSE i), UNCHANGED << snd, log, intact >>
    PROVE  IInv' /\ (intact => out' = log[i].val /\ (i <= pos => rcv' = rcv))
<1>1. /\ i \in DOMAIN log
      /\ pos' \in 0..Len(log)
  BY PosTyped
<1>2. rcv' \in Seq(Text) /\ out' \in Results
  <2>1. log[i].token \in Tokens
    BY <1>1, EntryTyped DEF IInv
  <2> DEFINE d == read_string_value(rcv, EnumOf(RcvEnums, log[i].field), log[i].token)
  <2>2. d.table \in Seq(Text) /\ d.val \in Results
    BY <2>1, TablesTyped, ReadTyped
  <2>3. QED
    BY <2>2 DEF ReadEntry
<1>3. CASE ~intact
  BY <1>1, <1>2, <1>3 DEF IInv, TypeOK, Text, Results
<1>4. CASE intact
  <2>1. /\ out' = log[i].val
        /\ rcv' = SubSeq(snd, 1, SizeAfter(IF i <= pos THEN pos ELSE i))
    BY <1>4, ReadResult
  <2>2. rcv' = SubSeq(snd, 1, SizeAfter(pos'))
    BY <2>1
  <2>3. SizeAfter(pos') \in 0..Len(snd)
    <3>1. SizeAfter(pos') \in Nat
      BY <1>1, SizeTyped DEF IInv
    <3>2. Len(log) \in 0..Len(log) /\ pos' <= Len(log)
      BY <1>1, PosTyped
    <3>3. SizeAfter(pos') <= Len(snd)
      BY <1>1, <1>4, <3>2 DEF IInv, InStep, SizesOK
    <3>4. QED
      BY <3>1, <3>3, PosTyped
  <2>4. rcv' \in Seq(Strings)
    BY <1>4, <2>2, <2>3, Prefix DEF IInv, TypeOK
  <2>5. TypeOK'
    BY <1>1, <1>2, <1>4, <2>4 DEF IInv, TypeOK, Text, Results
  <2>6. rcv' = SubSeq(snd', 1, SizeAfter(pos)')
    BY <2>2 DEF SizeAfter
  <2>7. SizesOK' /\ Distinct(snd)' /\ (\A k \in DOMAIN log : TokenOK(k))'
    BY <1>4 DEF IInv, InStep, SizesOK, SizeAfter, TokenOK
  <2>8. IInv'
    BY <2>5, <2>6, <2>7 DEF IInv, InStep
  <2>9. i <= pos => rcv' = rcv
    BY <1>4, <2>1 DEF IInv, InStep
  <2>10. QED
    BY <2>1, <2>8, <2>9
<1>5. QED
  BY <1>3, <1>4

\* Losing a token that registers nothing leaves the receiver in step.
LEMMA LoseStep == ASSUME IInv, Lose PROVE IInv'
<1>1. /\ pos < Len(log) /\ pos' = pos + 1 /\ out' = None
      /\ UNCHANGED << snd, rcv, log >>
      /\ intact' = (intact /\ ~Registers(log[pos + 1].token))
  BY DEF Lose, Harmed
<1>2. /\ pos' \in 0..Len(log) /\ pos + 1 \in DOMAIN log
      /\ pos + 1 # 0 /\ pos + 1 - 1 = pos
  BY <1>1, PosTyped
<1>3. TypeOK'
  BY <1>1, <1>2 DEF IInv, TypeOK
<1>4. ASSUME intact' PROVE InStep'
  <2>1. intact /\ ~Registers(log[pos + 1].token)
    BY <1>1, <1>4
  <2>2. log[pos + 1].size = SizeAfter(pos)
    <3>1. pos + 1 \in DOMAIN log
      BY <1>2
    <3>i. PICK i : i = pos + 1
      OBVIOUS
    <3>2. TokenOK(i)
      BY <2>1, <3>1, <3>i DEF IInv, InStep
    <3>3. ~Registers(log[i].token)
      BY <2>1, <3>i
    <3>4. log[i].size = SizeAfter(i - 1)
      BY <3>2, <3>3 DEF TokenOK
    <3>5. pos \in Nat /\ i \in Nat /\ i = pos + 1
      BY <3>i, PosTyped
    <3>6. i - 1 = pos
      BY <3>5
    <3>7. QED
      BY <3>4, <3>5, <3>6
  <2>3. SizeAfter(pos + 1) = SizeAfter(pos)
    BY <1>2, <2>2 DEF SizeAfter
  <2>4. rcv' = SubSeq(snd', 1, SizeAfter(pos)')
    BY <1>1, <2>1, <2>3 DEF IInv, InStep, SizeAfter
  <2>5. SizesOK' /\ Distinct(snd)' /\ (\A k \in DOMAIN log : TokenOK(k))'
    BY <1>1, <2>1 DEF IInv, InStep, SizesOK, SizeAfter, TokenOK
  <2>6. QED
    BY <2>4, <2>5 DEF InStep
<1>5. QED
  BY <1>3, <1>4 DEF IInv

\* The sender decoding a token of its own keeps the invariant.
LEMMA LoopbackStep ==
    ASSUME IInv, NEW i \in DOMAIN log, Loopback(i)
    PROVE  IInv'
<1>1. UNCHANGED << rcv, log, pos, intact >>
  BY DEF Loopback
<1>2. snd' \in Seq(Text) /\ out' \in Results
  <2>1. log[i].token \in Tokens
    BY EntryTyped DEF IInv
  <2> DEFINE d == read_string_value(snd, EnumOf(SndEnums, log[i].field), log[i].token)
  <2>2. d.table \in Seq(Text) /\ d.val \in Results
    BY <2>1, TablesTyped, ReadTyped
  <2>3. QED
    BY <2>2 DEF Loopback
<1>3. CASE ~intact
  BY <1>1, <1>2, <1>3 DEF IInv, TypeOK, Text, Results
<1>4. CASE intact
  <2>1. snd' = snd
    BY <1>4, LoopbackResult
  <2>2. TypeOK'
    BY <1>1, <1>2, <1>4, <2>1 DEF IInv, TypeOK, Text, Results
  <2>3. InStep'
    BY <1>1, <1>4, <2>1 DEF IInv, InStep, SizesOK, SizeAfter, TokenOK
  <2>4. QED
    BY <2>2, <2>3 DEF IInv
<1>5. QED
  BY <1>3, <1>4

\* Resetting the tables keeps the invariant.
LEMMA ResetStep == ASSUME IInv, reset_tables PROVE IInv'
<1>1. /\ snd' = << >> /\ rcv' = << >> /\ log' = << >> /\ pos' = 0
      /\ out' = None /\ intact' = TRUE
  BY DEF reset_tables, clear
<1>2. TypeOK'
  BY <1>1 DEF TypeOK
<1>3. SizesOK'
  BY <1>1 DEF SizesOK, SizeAfter
<1>4. rcv' = SubSeq(snd', 1, SizeAfter(pos)')
  BY <1>1 DEF SizeAfter
<1>5. QED
  BY <1>1, <1>2, <1>3, <1>4 DEF IInv, InStep, Distinct

\* After a reset of one side the link is not intact.
LEMMA OneSidedStep ==
    ASSUME IInv, reset_sender \/ reset_receiver
    PROVE  IInv' /\ ~intact' /\ intact' \in BOOLEAN /\ UNCHANGED << log, pos, out >>
<1>1. /\ intact' = FALSE /\ UNCHANGED << log, pos, out >>
      /\ snd' \in {snd, << >>} /\ rcv' \in {rcv, << >>}
  BY DEF reset_sender, reset_receiver, Harmed, clear
<1>2. << >> \in Seq(Text)
  OBVIOUS
<1>3. snd' \in Seq(Text) /\ rcv' \in Seq(Text)
  BY <1>1, <1>2, TablesTyped
<1>4. TypeOK'
  BY <1>1, <1>3 DEF IInv, TypeOK, Text
<1>5. QED
  BY <1>1, <1>4 DEF IInv

\* The initial state satisfies the invariant.
LEMMA InitIInv == Init => IInv
<1> SUFFICES ASSUME Init PROVE IInv
  OBVIOUS
<1>1. /\ snd = << >> /\ rcv = << >> /\ log = << >> /\ pos = 0 /\ out = None
      /\ intact = TRUE
  BY DEF Init, clear
<1>2. TypeOK
  BY <1>1 DEF TypeOK
<1>3. SizesOK
  BY <1>1 DEF SizesOK, SizeAfter
<1>4. rcv = SubSeq(snd, 1, SizeAfter(pos))
  BY <1>1 DEF SizeAfter
<1>5. QED
  BY <1>1, <1>2, <1>3, <1>4 DEF IInv, InStep, Distinct

\* Every step keeps the invariant.
LEMMA NextIInv == IInv /\ [Next]_vars => IInv'
<1> SUFFICES ASSUME IInv, [Next]_vars PROVE IInv'
  OBVIOUS
<1>1. ASSUME NEW f \in Identities, NEW v \in Strings, Write(f, v)
      PROVE  IInv'
  BY <1>1, WriteStep
<1>2. ASSUME NEW v \in Strings, write_string_ref(v)
      PROVE  IInv'
  BY <1>2, WriteRefStep
<1>3. CASE Read
  <2>1. /\ pos + 1 \in 1..pos + 1 /\ pos + 1 <= Len(log) /\ ~(pos + 1 <= pos)
    BY <1>3, PosTyped DEF Read
  <2>2. QED
    BY <1>3, <2>1, ReadStep DEF Read
<1>4. CASE Lose
  BY <1>4, LoseStep
<1>5. ASSUME NEW i \in 1..pos, ReadAgain(i)
      PROVE  IInv'
  <2>1. i \in 1..pos + 1 /\ i <= Len(log) /\ i <= pos
    BY PosTyped
  <2>2. QED
    BY <1>5, <2>1, ReadStep DEF ReadAgain
<1>6. ASSUME NEW i \in DOMAIN log, Loopback(i)
      PROVE  IInv'
  BY <1>6, LoopbackStep
<1>7. CASE reset_tables
  BY <1>7, ResetStep
<1>8. CASE reset_sender \/ reset_receiver
  BY <1>8, OneSidedStep
<1>9. CASE UNCHANGED vars
  BY <1>9 DEF vars, IInv, InStep, TypeOK, SizesOK, SizeAfter, TokenOK
<1>10. QED
  BY <1>1, <1>2, <1>3, <1>4, <1>5, <1>6, <1>7, <1>8, <1>9 DEF Next

-----------------------------------------------------------------------------
(* The theorems. *)

\* IInv holds throughout every behaviour of the link.
THEOREM Invariance == Spec => []IInv
BY InitIInv, NextIInv, PTL DEF Spec

\* The tables and the log hold what they should, and a decode returns a
\* string or a declared error; while the link is intact the tables hold
\* strings the application sent.
THEOREM TypeCorrect == Spec => []TypeOK
<1>1. IInv => TypeOK
  BY DEF IInv
<1>2. QED
  BY <1>1, Invariance, PTL

\* string_table of the receiver is always the one the sender had at the
\* token the receiver read or missed last, unless the link broke.
THEOREM Sync == Spec => []TablesInSync
<1>1. IInv => TablesInSync
  BY DEF IInv, InStep, TablesInSync
<1>2. QED
  BY <1>1, Invariance, PTL

\* A string that two entries register would stand twice in the sender's
\* table.
LEMMA IInvRegisteredOnce == IInv => RegisteredOnce
<1> SUFFICES ASSUME IInv, intact, NEW i \in DOMAIN log, NEW j \in DOMAIN log,
                    Registers(log[i].token), Registers(log[j].token),
                    log[i].val = log[j].val, i < j
             PROVE  FALSE
  BY PosTyped DEF RegisteredOnce, Spelled, Registers
<1>1. i \in 1..Len(log) /\ j \in 1..Len(log) /\ Len(log) \in Nat
  BY PosTyped
<1>2. /\ i \in 0..Len(log) /\ j \in 0..Len(log) /\ j - 1 \in 0..Len(log)
      /\ i - 1 \in 0..Len(log) /\ i # 0 /\ j # 0 /\ i <= j - 1
      /\ Len(log) \in 0..Len(log) /\ j <= Len(log) /\ i <= Len(log)
  BY <1>1
<1>3. /\ log[i].size = SizeAfter(i) /\ log[j].size = SizeAfter(j)
      /\ SizeAfter(i) = SizeAfter(i - 1) + 1
      /\ SizeAfter(j) = SizeAfter(j - 1) + 1
      /\ snd[SizeAfter(i)] = log[i].val /\ snd[SizeAfter(j)] = log[j].val
  BY <1>2 DEF IInv, InStep, TokenOK, SizeAfter
<1>4. /\ SizeAfter(i) \in Nat /\ SizeAfter(j - 1) \in Nat
      /\ SizeAfter(i - 1) \in Nat /\ SizeAfter(j) \in Nat
  BY <1>2, SizeTyped DEF IInv, InStep
<1>5. /\ SizeAfter(i) <= SizeAfter(j - 1)
      /\ SizeAfter(i) <= Len(snd) /\ SizeAfter(j) <= Len(snd)
  BY <1>2 DEF IInv, InStep, SizesOK
<1>6. SizeAfter(i) \in DOMAIN snd /\ SizeAfter(j) \in DOMAIN snd
  BY <1>3, <1>4, <1>5, PosTyped
<1>7. SizeAfter(i) = SizeAfter(j)
  BY <1>3, <1>6 DEF IInv, InStep, Distinct
<1>8. QED
  BY <1>3, <1>4, <1>5, <1>7

\* No string is registered by two tokens: after the first, only its id
\* travels.
THEOREM RegisterOnce == Spec => []RegisteredOnce
BY IInvRegisteredOnce, Invariance, PTL

\* A repeated read and a loopback change neither table.
THEOREM Redelivery == Spec => RedeliveryHarmless
<1>1. IInv /\ [Next]_vars
          => [intact /\ intact' /\ log' = log /\ pos' = pos
                 => snd' = snd /\ rcv' = rcv]_vars
  <2> SUFFICES ASSUME IInv, Next, intact, intact', log' = log, pos' = pos
               PROVE  snd' = snd /\ rcv' = rcv
    BY DEF vars
  <2>0. SentBy(log') = SentBy(log) /\ Len(SentBy(log)) \in Nat
        /\ SentBy(log) \in Seq(Strings)
    BY SentByLog, PosTyped DEF IInv, TypeOK
  <2>1. ASSUME NEW v \in Strings, SentBy(log') = Append(SentBy(log), v)
        PROVE  FALSE
    BY <2>0, <2>1, AppendProperties
  <2>2. ASSUME NEW f \in Identities, NEW v \in Strings, Write(f, v)
        PROVE  FALSE
    BY <2>1, <2>2, WriteStep
  <2>3. ASSUME NEW v \in Strings, write_string_ref(v)
        PROVE  FALSE
    BY <2>1, <2>3, WriteRefStep
  <2>4. CASE Read \/ Lose
    BY <2>4, PosTyped DEF Read, Lose
  <2>5. ASSUME NEW i \in 1..pos, ReadAgain(i)
        PROVE  snd' = snd /\ rcv' = rcv
    <3>1. i \in 1..pos + 1 /\ i <= Len(log) /\ i <= pos
      BY PosTyped
    <3>2. QED
      BY <2>5, <3>1, ReadStep DEF ReadAgain
  <2>6. ASSUME NEW i \in DOMAIN log, Loopback(i)
        PROVE  snd' = snd /\ rcv' = rcv
    BY <2>6, LoopbackResult DEF Loopback
  <2>7. CASE reset_tables
    <3>1. log = << >> /\ pos = 0 /\ snd' = << >> /\ rcv' = << >>
      BY <2>7 DEF reset_tables, clear
    <3>2. Len(snd) = 0 /\ SizeAfter(pos) = 0
      BY <3>1 DEF IInv, InStep, SizesOK, SizeAfter
    <3>3. snd = << >> /\ rcv = << >>
      BY <3>2, EmptySeq, SubSeqEmpty DEF IInv, InStep, TypeOK
    <3>4. QED
      BY <3>1, <3>3
  <2>8. CASE reset_sender \/ reset_receiver
    BY <2>8, OneSidedStep
  <2>9. QED
    BY <2>2, <2>3, <2>4, <2>5, <2>6, <2>7, <2>8 DEF Next
<1>2. QED
  BY <1>1, Invariance, PTL DEF Spec, RedeliveryHarmless

\* The link implements the channel: while it is intact, whatever was written
\* is what is read.
THEOREM Implementation == Spec => ImplementsChannel
<1>1. Init => Channel!Init
  BY DEF Init, Channel!Init, SentBy, clear
<1>2. IInv /\ [Next]_vars => [Channel!Next]_Channel!vars
  <2> SUFFICES ASSUME IInv, Next
               PROVE  Channel!Next
    BY DEF vars, Channel!vars
  <2>0. /\ Len(SentBy(log)) = Len(log) /\ DOMAIN SentBy(log) = 1..Len(log)
        /\ Len(log) \in Nat /\ pos \in 0..Len(log) /\ intact \in BOOLEAN
        /\ \A i \in 1..Len(log) : SentBy(log)[i] = log[i].val
    BY SentByLog, PosTyped DEF IInv, TypeOK
  <2>1. ASSUME NEW f \in Identities, NEW v \in Strings, Write(f, v)
        PROVE  Channel!Send(v)
    <3>1. SentBy(log') = Append(SentBy(log), v)
      BY <2>1, WriteStep
    <3>2. intact' = intact /\ UNCHANGED << pos, out >>
      BY <2>1 DEF Write, Sent
    <3>3. QED
      BY <2>0, <3>1, <3>2 DEF Channel!Send, Channel!MayBreak
  <2>2. ASSUME NEW v \in Strings, write_string_ref(v)
        PROVE  Channel!Send(v)
    <3>1. /\ SentBy(log') = Append(SentBy(log), v)
          /\ intact' \in BOOLEAN /\ (intact' => intact)
      BY <2>2, WriteRefStep
    <3>2. UNCHANGED << pos, out >>
      BY <2>2 DEF write_string_ref, Sent
    <3>3. QED
      BY <3>1, <3>2 DEF Channel!Send, Channel!MayBreak
  <2>3. ASSUME Read PROVE Channel!Deliver
    <3>1. /\ pos + 1 \in 1..pos + 1 /\ pos + 1 <= Len(log)
          /\ pos + 1 \in 1..Len(log) /\ ~(pos + 1 <= pos)
      BY <2>0, <2>3 DEF Read
    <3>2. intact => out' = log[pos + 1].val
      BY <2>3, <3>1, ReadStep DEF Read
    <3>3. intact => out' = SentBy(log)[pos + 1]
      BY <2>0, <3>1, <3>2
    <3>4. QED
      BY <2>0, <2>3, <3>3 DEF Read, Channel!Deliver, Channel!Returns
  <2>4. ASSUME Lose PROVE Channel!Lose
    BY <2>0, <2>4 DEF Lose, Harmed, Channel!Lose, Channel!MayBreak
  <2>5. ASSUME NEW i \in 1..pos, ReadAgain(i)
        PROVE  Channel!DeliverAgain(i)
    <3>1. i \in 1..pos + 1 /\ i \in 1..Len(log) /\ i <= Len(log) /\ i <= pos
      BY <2>0
    <3>2. intact => out' = log[i].val
      BY <2>5, <3>1, ReadStep DEF ReadAgain
    <3>3. intact => out' = SentBy(log)[i]
      BY <2>0, <3>1, <3>2
    <3>4. QED
      BY <2>5, <3>3 DEF ReadAgain, Channel!DeliverAgain, Channel!Returns
  <2>6. ASSUME NEW i \in DOMAIN log, Loopback(i)
        PROVE  Channel!Echo(i)
    <3>1. intact => out' = log[i].val
      BY <2>6, LoopbackResult
    <3>2. i \in 1..Len(log) /\ UNCHANGED << log, pos, intact >>
      BY <2>6, PosTyped DEF Loopback
    <3>3. intact => out' = SentBy(log)[i]
      BY <2>0, <3>1, <3>2
    <3>4. QED
      BY <2>0, <3>2, <3>3 DEF Channel!Echo, Channel!Returns
  <2>7. ASSUME reset_tables PROVE Channel!Reset
    <3>1. /\ pos = Len(log) /\ log' = << >> /\ pos' = 0 /\ out' = None
          /\ intact' = TRUE
      BY <2>7 DEF reset_tables
    <3>2. SentBy(log') = << >>
      BY <3>1 DEF SentBy
    <3>3. QED
      BY <2>0, <3>1, <3>2 DEF Channel!Reset
  <2>8. ASSUME reset_sender \/ reset_receiver PROVE Channel!Break
    BY <2>8, OneSidedStep DEF Channel!Break, Channel!MayBreak
  <2>9. CASE \E f \in Identities, v \in Strings : Write(f, v)
    BY <2>1, <2>9 DEF Channel!Next
  <2>10. CASE \E v \in Strings : write_string_ref(v)
    BY <2>2, <2>10 DEF Channel!Next
  <2>11. CASE \E i \in 1..pos : ReadAgain(i)
    BY <2>5, <2>11 DEF Channel!Next
  <2>12. CASE \E i \in DOMAIN log : Loopback(i)
    <3>1. PICK i \in DOMAIN log : Channel!Echo(i)
      BY <2>6, <2>12
    <3>2. i \in DOMAIN SentBy(log)
      BY <2>0, PosTyped
    <3>3. QED
      BY <3>1, <3>2 DEF Channel!Next
  <2>13. CASE Read \/ Lose \/ reset_tables \/ reset_sender \/ reset_receiver
    BY <2>3, <2>4, <2>7, <2>8, <2>13 DEF Channel!Next
  <2>14. QED
    BY <2>9, <2>10, <2>11, <2>12, <2>13 DEF Next
<1>3. QED
  BY <1>1, <1>2, Invariance, PTL DEF Spec, ImplementsChannel, Channel!Spec
=============================================================================
