----------------------------- MODULE VectorCodec -----------------------------
(***************************************************************************)
(* Vectors of integers and strings: the codec the library selects for      *)
(* them, what it writes and what is read back.  Integers have W bits, as   *)
(* in two's complement, and the selection's thresholds of 60, 61 and 64    *)
(* bits are W - 4, W - 3 and W.  Differences wrap around when they are     *)
(* taken; signed overflow is undefined in the source, and wrapping is what *)
(* its builds do.  When they are added up again an overflow is an error.   *)
(*                                                                         *)
(* A varuint is the number it stands for, packed bits are the numbers they *)
(* hold, cut to the width; an application may also choose a codec itself.  *)
(***************************************************************************)
EXTENDS Integers, SequencesExt

CONSTANTS W,             \* bits of an integer
          I64Vectors,    \* vectors of signed,
          U64Vectors,    \* of unsigned integers,
          StrVectors,    \* and of strings, themselves sequences
          None,          \* not yet chosen, written or read
          InvalidData,   \* the decode failed
          Misread        \* the decode took the bytes after the vector for it

ASSUME WAssumption == W \in Nat /\ W > 4

VARIABLES elem,      \* element type of the vector
          vec,       \* the vector
          codec,     \* its codec
          chosen,    \* "library" or "application"
          buf,       \* what was written
          res        \* what was read back

vars == << elem, vec, codec, chosen, buf, res >>

-----------------------------------------------------------------------------
(* Integers of W bits. *)

Pow2[k \in 0..2 * W] == IF k = 0 THEN 1 ELSE 2 * Pow2[k - 1]

Half     == Pow2[W - 1]
Signed   == -Half..Half - 1
Unsigned == 0..2 * Half - 1

ASSUME VectorsAssumption ==
    /\ I64Vectors \subseteq Seq(Signed) /\ U64Vectors \subseteq Seq(Unsigned)
    /\ StrVectors \subseteq Seq(Seq(Nat))
    /\ \A s \in StrVectors : Len(s) <= 2 * Half

IsSigned(n)   == -Half <= n /\ n < Half
Wrap(n)       == ((n + Half) % (2 * Half)) - Half
AsUnsigned(n) == n % (2 * Half)
\* abs64, taken for unsigned: the smallest number has the widest one.
Abs(n)        == AsUnsigned(IF n < 0 THEN -n ELSE n)

bit_width(n) == IF n = 0 THEN 1
                ELSE CHOOSE b \in 1..2 * W : Pow2[b - 1] <= n /\ n < Pow2[b]

encode_zigzag(n) == IF n >= 0 THEN 2 * n ELSE -2 * n - 1
decode_zigzag(n) == IF n % 2 = 0 THEN n \div 2 ELSE -(n \div 2) - 1

Each(Op(_), s) == [i \in DOMAIN s |-> Op(s[i])]

\* The widest bit_width of the numbers.
Widest(s) == Max({1} \cup Range(Each(bit_width, s)))

-----------------------------------------------------------------------------
(* The selection. *)

\* Mutant: the span is compared as a signed number.
SpanSigned(s) == LET d == Wrap(Max(Range(s)) - Min(Range(s)))
                 IN  bit_width(IF d < 0 THEN 0 ELSE d)

\* Bits of the difference between the largest and the smallest.
Span(s) == bit_width(AsUnsigned(Max(Range(s)) - Min(Range(s))))

\* Mutant: the differences are taken in a wider integer.
deltas_wide(s) == [i \in DOMAIN s |-> IF i = 1 THEN s[1] ELSE s[i] - s[i - 1]]

deltas(s) == [i \in DOMAIN s |-> IF i = 1 THEN s[1] ELSE Wrap(s[i] - s[i - 1])]

\* run_stats: at least half of the elements repeat, in runs of three.
RunsPay(s) ==
    LET starts   == {i \in DOMAIN s : i = 1 \/ s[i] # s[i - 1]}
        repeated == {i \in DOMAIN s : \/ i > 1 /\ s[i] = s[i - 1]
                                      \/ i < Len(s) /\ s[i] = s[i + 1]}
    IN  2 * Cardinality(repeated) >= Len(s) /\ Len(s) >= 3 * Cardinality(starts)

Monotonic(s) == \A i \in 2..Len(s) : s[i - 1] <= s[i]

select_integer_codec(s) ==
    LET ds       == deltas(s)
        nonzero  == Cardinality({i \in 2..Len(s) : deltas(ds)[i] # 0})
        range    == Span(s)
        drange   == Span(ds)
        absolute == Widest(Each(Abs, s))
    IN  IF Len(s) < 4 THEN "Plain"
        ELSE IF Len(s) >= 8 /\ (4 * nonzero <= Len(s) - 1 \/ drange <= 2)
             THEN "DeltaDeltaBitpack"
        ELSE IF RunsPay(s) THEN "Rle"
        ELSE IF range <= W - 4 THEN "ForBitpack"
        ELSE IF Len(s) >= 8 /\ Monotonic(s) /\ drange <= range - 3
             THEN "DeltaForBitpack"
        ELSE IF Widest(Each(Abs, ds)) <= W - 3 THEN "DeltaBitpack"
        ELSE IF absolute < W THEN "DirectBitpack"
        ELSE "Plain"

select_u64_codec(s) ==
    IF \A i \in DOMAIN s : s[i] < Half THEN select_integer_codec(s)
    ELSE IF Len(s) < 4 THEN "DirectBitpack"
    ELSE IF RunsPay(s) THEN "Rle"
    ELSE IF Span(s) <= W - 4 THEN "ForBitpack"
    ELSE "Plain"

CommonPrefix(a, b) ==
    Max({n \in 0..Min({Len(a), Len(b)}) : SubSeq(a, 1, n) = SubSeq(b, 1, n)})

PrefixOf(s, i) == IF i = 1 THEN 0 ELSE CommonPrefix(s[i - 1], s[i])

select_string_codec(s) ==
    LET gain == FoldLeft(LAMBDA n, i : n + PrefixOf(s, i), 0, [i \in DOMAIN s |-> i])
    IN  IF s # << >> /\ 2 * Cardinality(Range(s)) <= Len(s) THEN "Dictionary"
        ELSE IF gain > 2 * Len(s) THEN "PrefixDelta"
        ELSE "Plain"

-----------------------------------------------------------------------------
(* What is written.  The codecs a vector has no writer for are plain. *)

Plain(s) == [form |-> "Plain", items |-> s]

\* One more element.
AddRun(runs, x) ==
    IF runs # << >> /\ Last(runs).val = x
    THEN [runs EXCEPT ![Len(runs)].count = @ + 1]
    ELSE Append(runs, [val |-> x, count |-> 1])

rle(s) ==
    LET runs[i \in 0..Len(s)] ==
            IF i = 0 THEN << >> ELSE AddRun(runs[i - 1], s[i])
    IN  [form |-> "Rle", runs |-> runs[Len(s)]]

\* Mutant: the width is that of the first number.
bitpack_first_width(s) ==
    LET width == IF s = << >> THEN 0 ELSE bit_width(s[1])
    IN  [form |-> "Bitpack", width |-> width, items |-> Each(LAMBDA n : n % Pow2[width], s)]

\* encode_u64_direct_bitpack and pack_u64_values.
bitpack(s) ==
    LET width == IF s = << >> THEN 0 ELSE Widest(s)
    IN  [form |-> "Bitpack", width |-> width, items |-> Each(LAMBDA n : n % Pow2[width], s)]

i64_bitpack(s) == bitpack(Each(encode_zigzag, s))

\* Frame of reference: the smallest number and the distances to it.
Framed(min, packed) == [form |-> "For", min |-> min, packed |-> packed]
NoFrame == Plain(<< 0 >>)

u64_for(s) ==
    LET min == Min(Range(s))
    IN  IF s = << >> THEN NoFrame ELSE Framed(min, bitpack(Each(LAMBDA n : n - min, s)))

i64_for(s) ==
    LET min == Min(Range(s))
    IN  IF s = << >> THEN NoFrame
        ELSE Framed(encode_zigzag(min), i64_bitpack(Each(LAMBDA n : Wrap(n - min), s)))

\* The first number, the first difference, and the differences of those.
delta_delta(s) ==
    [form |-> "DeltaDelta", len |-> Len(s),
     first |-> IF s = << >> THEN 0 ELSE encode_zigzag(s[1]),
     delta |-> IF Len(s) < 2 THEN 0 ELSE encode_zigzag(Wrap(s[2] - s[1])),
     packed |-> IF Len(s) < 2 THEN i64_bitpack(<< >>)
                ELSE i64_bitpack(Tail(deltas(Tail(deltas(s)))))]

encode_u64_vector(s, c) ==
    CASE c = "Rle"           -> rle(s)
      [] c = "DirectBitpack" -> bitpack(s)
      [] c = "ForBitpack"    -> u64_for(s)
      [] OTHER               -> Plain(s)

encode_i64_vector(s, c) ==
    CASE c = "Rle"               -> rle(Each(encode_zigzag, s))
      [] c = "DirectBitpack"     -> i64_bitpack(s)
      [] c = "DeltaBitpack"      -> i64_bitpack(deltas(s))
      [] c = "ForBitpack"        -> i64_for(s)
      [] c = "DeltaForBitpack"   -> i64_for(deltas(s))
      [] c = "DeltaDeltaBitpack" -> delta_delta(s)
      [] OTHER                   -> Plain(Each(encode_zigzag, s))

\* A dictionary has each string once, in the order they appear.
Entered(unique, x) ==
    IF \E j \in DOMAIN unique : unique[j] = x THEN unique ELSE Append(unique, x)

dictionary(s) ==
    LET unique[i \in 0..Len(s)] ==
            IF i = 0 THEN << >> ELSE Entered(unique[i - 1], s[i])
    IN  unique[Len(s)]

RefTo(unique, x) == (CHOOSE j \in DOMAIN unique : unique[j] = x) - 1

write_string_vector(s, c) ==
    CASE c = "Dictionary" ->
             [form |-> "Dictionary", unique |-> dictionary(s),
              refs |-> bitpack(Each(LAMBDA x : RefTo(dictionary(s), x), s))]
      [] c = "PrefixDelta" ->
             [form |-> "PrefixDelta",
              items |-> [i \in DOMAIN s |->
                  [prefix |-> PrefixOf(s, i),
                   suffix |-> SubSeq(s[i], PrefixOf(s, i) + 1, Len(s[i]))]]]
      [] OTHER -> Plain(s)

-----------------------------------------------------------------------------
(* What is read back. *)

unrle(b) == FlattenSeq([j \in DOMAIN b.runs |->
                           [k \in 1..b.runs[j].count |-> b.runs[j].val]])

\* Mutant: the extremes count as out of range.
checked_add_strict(a, b) == << a + b, -Half < a + b /\ a + b < Half - 1 >>

\* checked_add_i64: the sum, and whether it fits.
checked_add(a, b) == << a + b, IsSigned(a + b) >>

Added(a, b) == checked_add(a, b)[1]
Fits(a, b)  == checked_add(a, b)[2]

undelta_values(ds) ==
    LET sums[i \in 0..Len(ds)] ==
            IF i = 0 THEN 0 ELSE Added(sums[i - 1], ds[i])
    IN  IF \A i \in DOMAIN ds : Fits(sums[i - 1], ds[i])
        THEN [i \in DOMAIN ds |-> sums[i]] ELSE InvalidData

\* The differences are added up, and the numbers from them, in one loop in the
\* source: its error is the same for both.
undelta_delta(b) ==
    LET first == decode_zigzag(b.first)
        ds    == undelta_values(<< decode_zigzag(b.delta) >>
                                    \o Each(decode_zigzag, b.packed.items))
    IN  IF b.len = 0 THEN << >>
        ELSE IF b.len = 1 THEN << first >>
        ELSE IF ds = InvalidData THEN InvalidData
        ELSE undelta_values(<< first >> \o ds)

\* A frame with nothing in it is told by the end of the message only.
Unframed(b, follows, numbers) ==
    IF b.form = "Plain" THEN IF follows THEN Misread ELSE << >> ELSE numbers

u64_unframe(b, follows) ==
    Unframed(b, follows,
             [i \in DOMAIN b.packed.items |-> AsUnsigned(b.packed.items[i] + b.min)])

i64_unframe(b, follows) ==
    Unframed(b, follows,
             [i \in DOMAIN b.packed.items |->
                 Wrap(decode_zigzag(b.packed.items[i]) + decode_zigzag(b.min))])

decode_u64_vector(b, c, follows) ==
    CASE c = "Rle"        -> unrle(b)
      [] c = "ForBitpack" -> u64_unframe(b, follows)
      [] OTHER            -> b.items

decode_i64_vector(b, c, follows) ==
    CASE c = "Rle"               -> Each(decode_zigzag, unrle(b))
      [] c = "DeltaBitpack"      -> undelta_values(Each(decode_zigzag, b.items))
      [] c = "ForBitpack"        -> i64_unframe(b, follows)
      [] c = "DeltaForBitpack"   ->
             IF i64_unframe(b, follows) = Misread THEN Misread
             ELSE undelta_values(i64_unframe(b, follows))
      [] c = "DeltaDeltaBitpack" -> undelta_delta(b)
      [] OTHER                   -> Each(decode_zigzag, b.items)

\* A reference or a prefix that reaches past what is known is an error.
from_dictionary(b) ==
    IF \A i \in DOMAIN b.refs.items : b.refs.items[i] < Len(b.unique)
    THEN Each(LAMBDA ref : b.unique[ref + 1], b.refs.items) ELSE InvalidData

from_prefixes(b) ==
    LET out[i \in 0..Len(b.items)] ==
            IF i = 0 THEN << >>
            ELSE SubSeq(out[i - 1], 1, b.items[i].prefix) \o b.items[i].suffix
    IN  IF \A i \in DOMAIN b.items : b.items[i].prefix <= Len(out[i - 1])
        THEN [i \in DOMAIN b.items |-> out[i]] ELSE InvalidData

read_string_vector(b, c) ==
    CASE c = "Dictionary"  -> from_dictionary(b)
      [] c = "PrefixDelta" -> from_prefixes(b)
      [] OTHER             -> b.items

-----------------------------------------------------------------------------
IntegerCodecs == {"Plain", "DirectBitpack", "DeltaBitpack", "ForBitpack",
                  "DeltaForBitpack", "DeltaDeltaBitpack", "Rle"}
StringCodecs  == {"Plain", "Dictionary", "PrefixDelta"}

ASSUME ResultsAssumption ==
    /\ None \notin IntegerCodecs \cup StringCodecs \cup {InvalidData}
    /\ InvalidData # Misread
    /\ \A r \in {InvalidData, Misread} : r \notin Seq(Int) /\ r \notin StrVectors

Init == /\ \/ elem = "I64" /\ vec \in I64Vectors
           \/ elem = "U64" /\ vec \in U64Vectors
           \/ elem = "String" /\ vec \in StrVectors
        /\ codec = None /\ chosen = None /\ buf = None /\ res = None

\* infer_column_codec_and_values and try_make_typed_vector.
select ==
    /\ codec = None
    /\ codec' = CASE elem = "I64"    -> select_integer_codec(vec)
                  [] elem = "U64"    -> select_u64_codec(vec)
                  [] elem = "String" -> select_string_codec(vec)
    /\ chosen' = "library"
    /\ UNCHANGED << elem, vec, buf, res >>

\* A TypedVector or a Column the application made itself.
choose(c) ==
    /\ codec = None
    /\ c \in (IF elem = "String" THEN StringCodecs ELSE IntegerCodecs)
    /\ codec' = c /\ chosen' = "application"
    /\ UNCHANGED << elem, vec, buf, res >>

write_typed_vector ==
    /\ codec # None /\ buf = None
    /\ buf' = CASE elem = "I64"    -> encode_i64_vector(vec, codec)
                [] elem = "U64"    -> encode_u64_vector(vec, codec)
                [] elem = "String" -> write_string_vector(vec, codec)
    /\ UNCHANGED << elem, vec, codec, chosen, res >>

\* follows: the vector is not the last thing in its message.
read_typed_vector(follows) ==
    /\ buf # None /\ res = None
    /\ res' = CASE elem = "I64"    -> decode_i64_vector(buf, codec, follows)
                [] elem = "U64"    -> decode_u64_vector(buf, codec, follows)
                [] elem = "String" -> read_string_vector(buf, codec)
    /\ UNCHANGED << elem, vec, codec, chosen, buf >>

\* The next message has the same vector.
Again == /\ res # None
         /\ codec' = None /\ chosen' = None /\ buf' = None /\ res' = None
         /\ UNCHANGED << elem, vec >>

Next == \/ select
        \/ \E c \in IntegerCodecs \cup StringCodecs : choose(c)
        \/ write_typed_vector
        \/ \E follows \in BOOLEAN : read_typed_vector(follows)
        \/ Again

Spec == Init /\ [][Next]_vars

-----------------------------------------------------------------------------
(* Properties. *)

\* No width is larger than that of an integer, whatever wrapped around before
\* (decode_u64_direct_bitpack refuses others), and what is packed fits into it.
Packed(b) == /\ b.width \in 0..W
             /\ \A i \in DOMAIN b.items : b.items[i] \in 0..Pow2[b.width] - 1

TypeOK ==
    buf # None =>
        /\ buf.form = "Bitpack" => Packed(buf)
        /\ buf.form \in {"For", "DeltaDelta"} => Packed(buf.packed)

\* A vector is read back as it was, or not at all: differences that wrapped
\* around never add up to other numbers.  The exception is an empty vector for
\* which the application, never the library, chose a frame of reference.
EmptyFrame == /\ vec = << >> /\ chosen = "application"
              /\ codec \in {"ForBitpack", "DeltaForBitpack"}

NeverWrong == res # None /\ ~EmptyFrame => res \in {vec, InvalidData}

\* undelta_values and decode_i64_delta_delta fail only if a difference of
\* neighbours, or with DeltaDeltaBitpack a difference of those, is out of the
\* range of an integer.
DeltasFit(s) == \A i \in 2..Len(s) : IsSigned(s[i] - s[i - 1])

SecondDeltasFit(s) ==
    \A i \in 3..Len(s) : IsSigned(s[i] - 2 * s[i - 1] + s[i - 2])

FailsOnOverflowOnly ==
    res = InvalidData =>
        /\ elem = "I64"
        /\ codec \in {"DeltaBitpack", "DeltaForBitpack", "DeltaDeltaBitpack"}
        /\ ~DeltasFit(vec) \/ (codec = "DeltaDeltaBitpack" /\ ~SecondDeltasFit(vec))

\* A frame of reference the library selects saves bits: the threshold of the
\* selection, compared with a span that may have wrapped around, bounds the
\* width that encode_i64_vector computes from the distances.
FramePays ==
    codec = "ForBitpack" /\ chosen = "library" /\ buf # None =>
        buf.form = "For" /\ buf.packed.width < W - 2
=============================================================================
