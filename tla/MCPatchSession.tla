--------------------------- MODULE MCPatchSession ---------------------------
(* PatchSession on arrays and maps of one to four fields.  The sizes are    *)
(* those of a bool, a small and a large integer and a string of 37 bytes.   *)
EXTENDS PatchSession

MCSize == [t |-> 1, i |-> 3, L |-> 10, M |-> 10, S |-> 40, null |-> 1]
MCType == [t |-> "Bool", i |-> "I64", L |-> "I64", M |-> "I64",
           S |-> "String", null |-> "Null"]

t == Atom("t")
i == Atom("i")
L == Atom("L")
M == Atom("M")
S == Atom("S")

A == << 1 >>
B == << 2 >>

\* Among them: one field more, one less, two less, a field that differs, a
\* typed vector, and two maps with the same keys, which become shaped.
MCValues == { ArrayOf(<< Item(L), Item(L) >>),
              ArrayOf(<< Item(S) >>), ArrayOf(<< Item(S), Item(t), Item(t) >>),
              ArrayOf(<< Item(i), Item(i), Item(i), Item(i) >>),
              MapOf(<< Entry(A, L), Entry(B, t) >>),
              MapOf(<< Entry(A, L), Entry(B, Null) >>) }

\* The snapshots have an id the sender's batches take as well, and another.
MCSnapshotIds    == {0, 7}
MCSnapshotValues == { ArrayOf(<< Item(L), Item(L) >>),
                      ArrayOf(<< Item(M) >>) }

\* A schema with the keys of the maps in the other order, and one of its own.
MCSchemas == << << B, A, << 3 >> >> >>

MCBatches      == {"RowBatch"}
MCMicroBatches == {2, 16}

\* Arrays that differ in one place each.
MCArrays == { ArrayOf(<< Item(L), Item(L) >>), ArrayOf(<< Item(L), Item(M) >>),
              ArrayOf(<< Item(M), Item(L) >>) }

MCNone      == {}
MCNoSchemas == << >>

ASSUME SameKeys == OneKeyList
=============================================================================
