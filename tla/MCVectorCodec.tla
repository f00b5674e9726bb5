---------------------------- MODULE MCVectorCodec ----------------------------
(* VectorCodec on integers of eight bits: all short vectors over the        *)
(* extremes and the numbers next to zero, the vectors of eight made of two  *)
(* values, and vectors that rise or fall by two steps in turn, modulo 2^W.  *)
(* Between them the library selects every codec.                            *)
EXTENDS VectorCodec

MCEdges == {-Half, -1, 0, 1, Half - 1}

MCUpTo(n, S) == UNION {[1..k -> S] : k \in 0..n}

MCEight == [1..8 -> {-Half, Half - 1}] \cup [1..8 -> {0, -Half}]

MCStepping ==
    {[i \in 1..n |-> Wrap(a + (i \div 2) * d + ((i - 1) \div 2) * e)] :
        n \in {3, 5, 8}, a \in {-Half, 0, 2},
        d \in {1, Half \div 8 - 1, Half \div 4 - 1, Half - 2},
        e \in {-2, 0, 2, Half - 3}}

MCSignedVectors == MCUpTo(4, MCEdges) \cup MCEight \cup MCStepping

MCUnsignedVectors ==
    MCUpTo(3, {0, Half - 1, Half, 2 * Half - 1})
        \cup [1..4 -> {Half - 1, Half + 1, 2 * Half - 1}]
        \cup {[i \in DOMAIN s |-> AsUnsigned(s[i])] : s \in MCStepping}

\* Strings with common beginnings.
MCStrVectors ==
    MCUpTo(4, {<< >>, << 1 >>, << 1, 1, 1, 2 >>, << 1, 1, 1, 3, 3 >>})
=============================================================================
