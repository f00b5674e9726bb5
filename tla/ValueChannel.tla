---------------------------- MODULE ValueChannel ----------------------------
(***************************************************************************)
(* What a pair of codecs promises its users: the values one side encodes   *)
(* are the values the other decodes, in order, whatever tables both sides  *)
(* use to make the buffers small.  A buffer decoded a second time yields   *)
(* its value again; a buffer may be lost; both sides may start over once   *)
(* all was delivered.  The promise ends when the two sides lose track of   *)
(* each other, and holds again once both have started over.                *)
(***************************************************************************)
EXTENDS Naturals, Sequences

CONSTANTS Values, None

VARIABLES sent,     \* the values encoded since the last reset
          got,      \* how many of them the receiver has decoded or missed
          out,      \* what the last decode returned
          intact    \* the sides have not lost track of each other

vars == << sent, got, out, intact >>

Init == sent = << >> /\ got = 0 /\ out = None /\ intact = TRUE

\* The sides may lose track, and do not find each other again by themselves.
MayBreak == intact' \in BOOLEAN /\ (intact' => intact)

\* A decode returns value i, or anything once the promise has ended.
Returns(i) == (intact => out' = sent[i]) /\ UNCHANGED intact

Send(v) == sent' = Append(sent, v) /\ MayBreak /\ UNCHANGED << got, out >>

Deliver == /\ got < Len(sent)
           /\ got' = got + 1
           /\ Returns(got + 1)
           /\ UNCHANGED sent

Lose == /\ got < Len(sent)
        /\ got' = got + 1
        /\ out' = None
        /\ MayBreak
        /\ UNCHANGED sent

DeliverAgain(i) == /\ i \in 1..got
                   /\ Returns(i)
                   /\ UNCHANGED << sent, got >>

\* The sender's own codec decodes a buffer it made.
Echo(i) == /\ i \in DOMAIN sent
           /\ Returns(i)
           /\ UNCHANGED << sent, got >>

\* Both sides start over.
Reset == /\ got = Len(sent)
         /\ sent' = << >> /\ got' = 0 /\ out' = None /\ intact' = TRUE

\* One of them does.
Break == MayBreak /\ UNCHANGED << sent, got, out >>

Next == \/ \E v \in Values : Send(v)
        \/ Deliver
        \/ Lose
        \/ \E i \in 1..got : DeliverAgain(i)
        \/ \E i \in DOMAIN sent : Echo(i)
        \/ Reset
        \/ Break

Spec == Init /\ [][Next]_vars
=============================================================================
