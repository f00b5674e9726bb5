---------------------------- MODULE MCMapStream -----------------------------
(* MapStream on keys of one byte and maps of one or two entries.            *)
EXTENDS MapStream

A == << 1 >>
B == << 2 >>
C == << 3 >>

One == Atom("one")

\* What the proof about a codec's own messages takes for granted holds here.
ASSUME TellApart == KeysTellApart

\* The same two keys in both orders are two shapes; the second is nested.
MCMaps == { << Entry(A, One), Entry(B, Null) >>,
            << Entry(B, Null), Entry(A, Nested(<< Entry(C, One) >>)) >>,
            << Entry(B, One) >> }

\* Flat maps: what goes wrong in them is the shapes.
MCFlat == { << Entry(A, One), Entry(B, Null) >> }

\* A nested map whose inner key is new, and a map that refers to the key
\* that follows it.
MCNested == { << Entry(A, Nested(<< Entry(C, One) >>)), Entry(B, Null) >>,
              << Entry(B, One) >> }
=============================================================================
