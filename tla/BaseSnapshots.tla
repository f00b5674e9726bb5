---------------------------- MODULE BaseSnapshots ----------------------------
(***************************************************************************)
(* The base snapshots of a session, src/session.c: a sequence of messages  *)
(* with their ids, the one registered last at its end.                     *)
(***************************************************************************)
EXTENDS SequencesExt

CONSTANT MaxBaseSnapshots    \* options.max_base_snapshots

SnapshotEntry(id, msg) == [id |-> id, msg |-> msg]

ASSUME SnapshotsBounded == MaxBaseSnapshots \in Nat

OtherSnapshots(snapshots, id) ==
    LET kept[i \in 0..Len(snapshots)] ==
            IF i = 0 THEN << >>
            ELSE LET before == kept[i - 1]
                 IN  IF snapshots[i].id = id THEN before
                                             ELSE Append(before, snapshots[i])
    IN  kept[Len(snapshots)]

\* Mutant: the newest snapshot is evicted, not the oldest.
register_evicts_newest(snapshots, id, msg) ==
    LET all == Append(OtherSnapshots(snapshots, id), SnapshotEntry(id, msg))
    IN  SubSeq(all, 1, Min({Len(all), MaxBaseSnapshots}))

register_base_snapshot(snapshots, id, msg) ==
    LET all == Append(OtherSnapshots(snapshots, id), SnapshotEntry(id, msg))
    IN  SubSeq(all, Max({1, Len(all) - MaxBaseSnapshots + 1}), Len(all))

IdsOf(snapshots) == {snapshots[i].id : i \in DOMAIN snapshots}

\* get_base_snapshot: the first entry of this id.
get_base_snapshot(snapshots, id) ==
    snapshots[Min({i \in DOMAIN snapshots : snapshots[i].id = id})].msg
=============================================================================
