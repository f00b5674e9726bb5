----------------------------- MODULE StringLink -----------------------------
(***************************************************************************)
(* String values between two codecs: the String case of                    *)
(* TwilicCodec::write_value_with_field, read_string_value and the two      *)
(* string tables they maintain.  A string leaves the sender as one token:  *)
(* an inline enum code, the empty string, a reference to a registered      *)
(* string, a prefix of a registered string plus a suffix, or a literal.    *)
(* Each side registers strings on its own; nothing on the wire says under  *)
(* which id, so every reference rests on the two tables having grown alike.*)
(*                                                                         *)
(* The transport is the application's: it hands the buffers over in order, *)
(* may hand over an old one again or lose one, and may have both sides     *)
(* reset once nothing is under way.  The sender may also decode its own    *)
(* buffers (the loopback of the tests).                                    *)
(*                                                                         *)
(* Three things leave the receiver without an id the sender goes on using, *)
(* and nothing tells either side: the loss of a buffer that registers, a   *)
(* reset of one side only, and a string vector of references, which gives  *)
(* a new string an id and sends the id alone.  The link is intact until    *)
(* then, and again once both sides have reset.                             *)
(***************************************************************************)
EXTENDS InternTable

CONSTANTS Chars,            \* bytes of a string
          Strings,          \* the strings the application sends
          Fields,           \* keys a string can be the value of
          NoField,          \* a string that is no map value
          SndEnums,         \* field_enums of the sender,
          RcvEnums,         \* and of the receiver: lists of strings by field
          None,             \* nothing decoded yet
          ReferenceError,   \* unknown_reference or stateless_retry_required
          InvalidData,      \* invalid_data
          MaxSent,          \* bound: strings sent between two resets
          MaxBroken         \* bound: the same if the link breaks

ASSUME StringsAssumption == Strings \subseteq Seq(Chars)
ASSUME FieldsAssumption == NoField \notin Fields
ASSUME EnumsAssumption ==
    /\ SndEnums \in [Fields -> Seq(Strings)]
    /\ RcvEnums \in [Fields -> Seq(Strings)]
    \* The sender uses no code the receiver was not given.
    /\ \A f \in Fields : \A i \in DOMAIN SndEnums[f] :
          i \in DOMAIN RcvEnums[f] /\ RcvEnums[f][i] = SndEnums[f][i]

VARIABLES snd,     \* string_table of the sender
          rcv,     \* string_table of the receiver
          log,     \* the tokens written, with the string each stands for
          pos,     \* how many of them the receiver has read
          out,     \* what the last read_string_value returned
          intact   \* the receiver was or will be given all that snd holds

vars == << snd, rcv, log, pos, out, intact >>

-----------------------------------------------------------------------------
Identities == Fields \cup {NoField}

EnumOf(enums, f) == IF f \in Fields THEN enums[f] ELSE << >>

\* Mutant: the comparison loop stops one byte late.
MatchesOneByteLate(table, value) ==
    {m \in [id : 0..Len(table) - 1, len : 1..Len(value)] :
        LET base == get_value(table, m.id)
        IN  /\ m.len <= Len(base)
            /\ \A i \in 1..m.len - 1 : base[i] = value[i]}

\* common_prefix_len: the registered strings and how many bytes of value
\* they begin with.
Matches(table, value) ==
    {m \in [id : 0..Len(table) - 1, len : 1..Len(value)] :
        LET base == get_value(table, m.id)
        IN  /\ m.len <= Len(base)
            /\ \A i \in 1..m.len : base[i] = value[i]}

\* The longest of them, the oldest among equals: at most one.
best_prefix_base(table, value) ==
    {m \in Matches(table, value) :
        \A o \in Matches(table, value) :
            o.len < m.len \/ (o.len = m.len /\ m.id <= o.id)}

\* The match that is worth a PrefixDelta token, if there is one.
PrefixBases(table, value) ==
    {m \in best_prefix_base(table, value) : 4 <= m.len /\ m.len < Len(value)}

\* The token written for value: the branches of the String case in order.
write_string(table, enum, value) ==
    IF HasValue(enum, value)
        THEN [mode |-> "InlineEnum", code |-> get_id(enum, value)]
    ELSE IF value = << >>
        THEN [mode |-> "Empty"]
    ELSE IF HasValue(table, value)
        THEN [mode |-> "Ref", id |-> get_id(table, value)]
    ELSE IF PrefixBases(table, value) # {}
        THEN LET m == CHOOSE m \in PrefixBases(table, value) : TRUE
             IN  [mode |-> "PrefixDelta", base |-> m.id, len |-> m.len,
                  suffix |-> SubSeq(value, m.len + 1, Len(value))]
    ELSE [mode |-> "Literal", str |-> value]

\* Mutant: the PrefixDelta branch returns before register_value.
RegistersLiteralOnly(token) == token.mode = "Literal"

\* The branches of either side that end in register_value.
Registers(token) == token.mode \in {"Literal", "PrefixDelta"}

\* read_string_value: the string, or an error, and the table afterwards.
Decoded(v, table) == [val |-> v, table |-> table]

read_ref(table, id) ==
    Decoded(IF HasId(table, id) THEN get_value(table, id) ELSE ReferenceError,
            table)

\* Mutant: the prefix is cut one byte short.
read_prefix_short(table, token) ==
    IF ~HasId(table, token.base) THEN Decoded(ReferenceError, table)
    ELSE LET base == get_value(table, token.base)
             s    == SubSeq(base, 1, token.len - 1) \o token.suffix
         IN  Decoded(s, register_value(table, s))

read_prefix_delta(table, token) ==
    IF ~HasId(table, token.base) THEN Decoded(ReferenceError, table)
    ELSE LET base == get_value(table, token.base)
             s    == SubSeq(base, 1, token.len) \o token.suffix
         IN  IF token.len > Len(base)
             THEN Decoded(InvalidData, table)
             ELSE Decoded(s, register_value(table, s))

read_string_value(table, enum, token) ==
    CASE token.mode = "Empty"       -> Decoded(<< >>, table)
      [] token.mode = "Literal"     -> Decoded(token.str,
                                         register_value(table, token.str))
      [] token.mode = "Ref"         -> read_ref(table, token.id)
      [] token.mode = "PrefixDelta" -> read_prefix_delta(table, token)
      [] token.mode = "InlineEnum"  ->
             Decoded(IF HasId(enum, token.code) THEN get_value(enum, token.code)
                                                ELSE InvalidData, table)

-----------------------------------------------------------------------------
Init == /\ snd = clear /\ rcv = clear
        /\ log = << >> /\ pos = 0 /\ out = None /\ intact = TRUE

\* The link breaks if harm is done.  MaxBroken bounds what is followed then.
Harmed(harm) == /\ harm => Len(log') <= MaxBroken
                /\ intact' = (intact /\ ~harm)

Sent(f, v, token) ==
    /\ Len(log) < (IF intact THEN MaxSent ELSE MaxBroken)
    /\ log' = Append(log, [field |-> f, val |-> v, token |-> token,
                           size |-> Len(snd')])
    /\ UNCHANGED << rcv, pos, out >>

\* Encode value v under field f and hand the token to the transport.
Write(f, v) ==
    LET token == write_string(snd, EnumOf(SndEnums, f), v)
    IN  /\ snd' = IF Registers(token) THEN register_value(snd, v) ELSE snd
        /\ Sent(f, v, token)
        /\ UNCHANGED intact

\* One element of a vector that the application has write_string_vector
\* write with StringRef; it is read like a Ref.
write_string_ref(v) ==
    /\ snd' = register_value(snd, v)
    /\ Sent(NoField, v, [mode |-> "Ref", id |-> get_id(snd', v)])
    /\ Harmed(~HasValue(snd, v))

ReadEntry(i) ==
    LET d == read_string_value(rcv, EnumOf(RcvEnums, log[i].field),
                               log[i].token)
    IN  rcv' = d.table /\ out' = d.val

\* The receiver decodes the next token.
Read == /\ pos < Len(log)
        /\ ReadEntry(pos + 1)
        /\ pos' = pos + 1
        /\ UNCHANGED << snd, log, intact >>

\* The next buffer never arrives.
Lose == /\ pos < Len(log)
        /\ pos' = pos + 1
        /\ out' = None
        /\ UNCHANGED << snd, rcv, log >>
        /\ Harmed(Registers(log[pos + 1].token))

\* A buffer the receiver already decoded is handed to it again, or one it
\* missed is handed to it late.
ReadAgain(i) == /\ i \in 1..pos
                /\ ReadEntry(i)
                /\ UNCHANGED << snd, log, pos, intact >>

\* The sender's codec decodes a token of its own.
Loopback(i) ==
    /\ i \in DOMAIN log
    /\ LET d == read_string_value(snd, EnumOf(SndEnums, log[i].field),
                                  log[i].token)
       IN  snd' = d.table /\ out' = d.val
    /\ UNCHANGED << rcv, log, pos, intact >>

\* Both applications call reset_tables when nothing is under way.
reset_tables == /\ pos = Len(log)
                /\ snd' = clear /\ rcv' = clear
                /\ log' = << >> /\ pos' = 0 /\ out' = None
                /\ intact' = TRUE

\* One of them calls reset_tables and the other goes on.
reset_sender == /\ snd # clear /\ snd' = clear
                /\ UNCHANGED << rcv, log, pos, out >>
                /\ Harmed(TRUE)

reset_receiver == /\ rcv # clear /\ rcv' = clear
                  /\ UNCHANGED << snd, log, pos, out >>
                  /\ Harmed(TRUE)

Next == \/ \E f \in Identities, v \in Strings : Write(f, v)
        \/ \E v \in Strings : write_string_ref(v)
        \/ Read
        \/ Lose
        \/ \E i \in 1..pos : ReadAgain(i)
        \/ \E i \in DOMAIN log : Loopback(i)
        \/ reset_tables
        \/ reset_sender
        \/ reset_receiver

Spec == Init /\ [][Next]_vars

-----------------------------------------------------------------------------
Tokens ==
    [mode : {"InlineEnum"}, code : Nat]
        \cup [mode : {"Empty"}]
        \cup [mode : {"Ref"}, id : Nat]
        \cup [mode : {"PrefixDelta"}, base : Nat, len : Nat, suffix : Seq(Chars)]
        \cup [mode : {"Literal"}, str : Strings]

Entry == [field : Identities, val : Strings, token : Tokens, size : Nat]

\* The tables hold strings and a decode returns a string or an error; while
\* the link is intact they are strings that were sent.
TypeOK ==
    /\ snd \in Seq(Seq(Chars)) /\ rcv \in Seq(Seq(Chars))
    /\ log \in Seq(Entry)
    /\ pos \in 0..Len(log)
    /\ out \in Seq(Chars) \cup {None, ReferenceError, InvalidData}
    /\ intact \in BOOLEAN
    /\ intact => snd \in Seq(Strings) /\ rcv \in Seq(Strings)

\* Size of the sender's table when it had written the first i tokens.
SizeAfter(i) == IF i = 0 THEN 0 ELSE log[i].size

\* The receiver's table is the one the sender had when it had written the
\* token the receiver read or missed last: both sides give every string the
\* same id.  Losing a buffer that registers nothing does no harm.
TablesInSync == intact => rcv = SubSeq(snd, 1, SizeAfter(pos))

\* A string is spelled by one token only: once it was sent, in full or as
\* prefix and suffix, write_value_with_field sends its id.
Spelled(token) == token.mode \in {"Literal", "PrefixDelta"}

RegisteredOnce ==
    intact => \A i, j \in DOMAIN log :
        /\ Spelled(log[i].token) /\ Spelled(log[j].token)
        /\ log[i].val = log[j].val
        => i = j

\* Decoding a token a second time, or at the sender itself, gives no string
\* a second id: the reads that deliver nothing new change no table.
RedeliveryHarmless ==
    [][intact /\ intact' /\ log' = log /\ pos' = pos
          => snd' = snd /\ rcv' = rcv]_vars

\* Every read returns the string that was written: the link implements the
\* abstract channel, so while it is intact no reference is unknown and none
\* resolves to another string than the one it was written for.
SentBy(entries) == [i \in DOMAIN entries |-> entries[i].val]

Channel == INSTANCE ValueChannel
               WITH Values <- Strings, sent <- SentBy(log), got <- pos

ImplementsChannel == Channel!Spec
=============================================================================
