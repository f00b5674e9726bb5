----------------------------- MODULE MCV2Stream -----------------------------
(* V2Stream on integers around the boundaries of their tags and on all      *)
(* documents of two levels, and some of three, over few keys and strings.   *)
EXTENDS V2Stream

MCInts == {I64(n) : n \in {-32769, -32768, -129, -128, -33, -32, -1, 0, 127,
                           128, 32767, 32768}}
          \cup {U64(n) : n \in {0, 127, 128, 255, 256, 65535, 65536}}

\* The string "a" is a key as well.
MCScalars == {I64(1), Null, Str("a"), Str("b")}

MCMapsOver(keys, vals) ==
    {MapOf(<< >>)}
        \cup {MapOf(<< Entry(k, v) >>) : k \in keys, v \in vals}
        \cup {MapOf(<< Entry(k, v), Entry(l, u) >>) :
                  k \in keys, l \in keys, v \in vals, u \in vals}

MCArraysOver(vals) ==
    {ArrayOf(<< >>)} \cup {ArrayOf(<< v >>) : v \in vals}
                     \cup {ArrayOf(<< v, u >>) : v \in vals, u \in vals}

MCInner == MCMapsOver({"a", "k"}, {Str("a"), I64(200)})
               \cup MCArraysOver({Str("b"), Null})

MCDocs == MCInts \cup MCMapsOver({"a", "k"}, MCScalars) \cup MCArraysOver(MCInner)
              \cup MCMapsOver({"a"}, MCArraysOver({MapOf(<< Entry("k", Str("a")) >>),
                                                   MapOf(<< Entry("a", I64(7)) >>)}))

\* One key of more than 31 bytes.
MCLongDocs == MCMapsOver({"a", "long"}, {Str("a"), Str("b")})
=============================================================================
