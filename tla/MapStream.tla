----------------------------- MODULE MapStream ------------------------------
(***************************************************************************)
(* Map values between two TwilicCodecs.  The receiver gives numbers to     *)
(* keys and key lists from what it decodes; no message carries the number  *)
(* given.  The transport keeps the order, may hand a message over again,   *)
(* and the sender's codec may decode its own messages (the loopback of the *)
(* tests).                                                                 *)
(***************************************************************************)
EXTENDS MapCodec

CONSTANTS Maps,       \* the maps the application sends: sequences of entries
          None,       \* nothing decoded yet
          MaxSent     \* bound: messages sent between two resets

\* A value is an atom or a map of atoms.
Inner   == [key : Key, val : [atom : STRING, entries : {<< >>}]]
Val     == [atom : STRING, entries : Seq(Inner)]
Field   == [key : Key, val : Val]

ASSUME MapsAreMaps == Maps \subseteq Seq(Field)

VARIABLES snd,     \* the sender's tables
          rcv,     \* the receiver's tables
          log,     \* the messages sent, each with the map it stands for
          pos,     \* how many of them the receiver has decoded
          out      \* the last decode: message number, codec and result

vars == << snd, rcv, log, pos, out >>

-----------------------------------------------------------------------------
Init == /\ snd = NewCodec /\ rcv = NewCodec
        /\ log = << >> /\ pos = 0 /\ out = None

Encode(map) ==
    /\ Len(log) < MaxSent
    /\ LET e == encode_map(snd, map)
       IN  /\ snd' = e.codec
           /\ log' = Append(log, [map |-> map, msg |-> e.msg])
    /\ UNCHANGED << rcv, pos, out >>

\* The receiver decodes the next message.
Decode ==
    /\ pos < Len(log)
    /\ LET d == decode_map(rcv, log[pos + 1].msg)
       IN  rcv' = d.codec /\ out' = [at |-> pos + 1, own |-> FALSE, res |-> d.res]
    /\ pos' = pos + 1
    /\ UNCHANGED << snd, log >>

\* A message the receiver already decoded is handed to it again.
DecodeAgain(i) ==
    /\ i \in 1..pos
    /\ LET d == decode_map(rcv, log[i].msg)
       IN  rcv' = d.codec /\ out' = [at |-> i, own |-> FALSE, res |-> d.res]
    /\ UNCHANGED << snd, log, pos >>

\* The sender's codec decodes a message of its own, in any order and again.
DecodeOwn(i) ==
    /\ i \in DOMAIN log
    /\ LET d == decode_map(snd, log[i].msg)
       IN  snd' = d.codec /\ out' = [at |-> i, own |-> TRUE, res |-> d.res]
    /\ UNCHANGED << rcv, log, pos >>

\* The sender's application forgets how often a key list was encoded.
reset_encode_shape_observation(map) ==
    /\ shape_key(KeysOf(map)) \in DOMAIN snd.encode_shape_observations
    /\ snd' = [snd EXCEPT !.encode_shape_observations =
                  [sk \in DOMAIN @ \ {shape_key(KeysOf(map))} |-> @[sk]]]
    /\ UNCHANGED << rcv, log, pos, out >>

\* Both applications call reset_tables when nothing is under way.
reset_tables ==
    /\ pos = Len(log) /\ log # << >>
    /\ snd' = NewCodec /\ rcv' = NewCodec
    /\ log' = << >> /\ pos' = 0 /\ out' = None

Next == \/ \E map \in Maps : Encode(map)
        \/ Decode
        \/ \E i \in 1..pos : DecodeAgain(i)
        \/ \E i \in DOMAIN log : DecodeOwn(i)
        \/ \E map \in Maps : reset_encode_shape_observation(map)
        \/ reset_tables

Spec == Init /\ [][Next]_vars

-----------------------------------------------------------------------------
(* Properties. *)

\* What a shaped object can carry: no map has a key twice, and key lists that
\* differ have different shape_keys.
KeysTellApart ==
    \A map \in Maps :
        /\ Distinct(KeysOf(map))
        /\ \A other \in Maps :
              shape_key(KeysOf(other)) = shape_key(KeysOf(map))
                 => KeysOf(other) = KeysOf(map)

IsFlat(map) == \A i \in DOMAIN map : map[i].val.entries = << >>

\* In both codecs the tables are inverse to each other and keep their ids
\* apart.
TypeOK == WellFormed(snd) /\ WellFormed(rcv) /\ pos \in 0..Len(log)

\* A codec that decodes its own messages, late, twice and in any order,
\* always gets its maps back: encoding may promote key lists in between and
\* observations may be reset, a number once given keeps its meaning.
OwnMessagesDecode ==
    out # None => (out.own => out.res = log[out.at].map)

\* As long as no map is nested, the receiver of a Map message resolves every
\* key id to the key the sender meant, on a second delivery too.
MapMessagesDecode ==
    out # None =>
        (/\ ~out.own
         /\ log[out.at].msg.kind = "Map"
         /\ \A i \in 1..pos : IsFlat(log[i].map)
         => out.res = log[out.at].map)

\* Until a reset the ids of keys and the numbers of key lists do not change,
\* in either codec, whatever is encoded, decoded or read again.
NumbersKept(codec, new) ==
    /\ IsPrefix(codec.key_table, new.key_table)
    /\ \A id \in DOMAIN codec.shape_table.by_id :
          /\ id \in DOMAIN new.shape_table.by_id
          /\ new.shape_table.by_id[id] = codec.shape_table.by_id[id]

IdsAreForever ==
    [][log' # << >> => NumbersKept(snd, snd') /\ NumbersKept(rcv, rcv')]_vars

\* A key of the map itself travels as a literal at most once.
LiteralKeyOnce ==
    \A i, j \in DOMAIN log : \A m \in DOMAIN log[i].map, n \in DOMAIN log[j].map :
        /\ log[i].msg.kind = "Map" /\ ~log[i].msg.entries[m].ref.is_id
        /\ log[j].msg.kind = "Map" /\ ~log[j].msg.entries[n].ref.is_id
        /\ log[i].map[m].key = log[j].map[n].key
        => i = j /\ m = n

\* What the shape messages are for: the receiver, which has decoded every
\* message before, decodes this one.
RemoteDecodes ==
    out # None => (~out.own => out.res = log[out.at].map)

\* A weaker promise: the receiver returns the map that was sent or fails.
RemoteNeverWrong ==
    out # None => (~out.own => out.res \in {log[out.at].map, UnknownReference})
=============================================================================
