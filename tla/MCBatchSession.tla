--------------------------- MODULE MCBatchSession ---------------------------
(* BatchSession on batches of two, four and sixteen rows.                   *)
EXTENDS BatchSession, TLC

\* The peers do the same.
MCSymmetry == Permutations(Peers)

MCOne   == Scalar("U64", "1", 0)
MCTwo   == Scalar("U64", "2", 0)
MCShort == Scalar("String", "a", 2)
MCLong  == Scalar("String", "aa", 3)

Row(id, name) == MapOf(<< Entry("id", id), Entry("name", name) >>)
Four(row)     == << row, row, row, row >>

MCRow    == Row(MCOne, MCShort)
MCNoName == MapOf(<< Entry("id", MCTwo) >>)
MCItem   == ArrayOf(<< MCTwo >>)
MCItems  == ArrayOf(<< MCOne, MCLong >>)

\* The names grow, the ids stay; a null in one row of four, with a name
\* column of mixed kinds; sixteen equal rows; rows with unequal keys; rows
\* of one column.
MCMicroBatches ==
    { << Row(MCOne, MCShort), Row(MCTwo, MCShort) >>,
      << Row(MCOne, MCLong), Row(MCTwo, MCShort) >>,
      << Row(MCOne, MCShort), Row(MCOne, Null), Row(MCOne, MCOne),
         Row(MCTwo, MCTwo) >>,
      Four(MCRow) \o Four(MCRow) \o Four(MCRow) \o Four(MCRow),
      << MCRow, MCNoName >>,
      << MCNoName, MCNoName >> }

MCEmpty == MapOf(<< >>)

\* No rows; sixteen maps of which few lack a key; sixteen rows of unequal
\* length, some of them no arrays; sixteen maps without a key.
MCBatches ==
    { << >>,
      << MCRow, MCNoName, MCRow, MCRow, MCNoName, MCRow, MCRow, MCRow >>
          \o Four(MCRow) \o Four(MCRow),
      << MCItem, MCOne, MCItems, Null, MCItem, MCEmpty, MCItems, MCItem >>
          \o Four(MCItem) \o Four(MCItem),
      Four(MCEmpty) \o Four(MCEmpty) \o Four(MCEmpty) \o Four(MCEmpty) }

\* The ids differ, the sizes do not.
MCSameSize ==
    { << Row(MCOne, MCShort), Row(MCTwo, MCShort) >>,
      << Row(MCTwo, MCShort), Row(MCTwo, MCShort) >> }

MCNoBatches == {}
=============================================================================
