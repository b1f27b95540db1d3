---------------------------- MODULE MCPullCursor ----------------------------
(* Small instances of PullCursor for TLC.                                  *)
EXTENDS PullCursor

At(sec, usec) == [sec |-> sec, usec |-> usec]

\* Stamps around the end of a second, the closest one microsecond apart.
MCTimes == {At(1, 999998), At(1, 999999), At(2, 0), At(2, 1)}
MCAnyOrder == MCTimes \X MCTimes

\* Stamps of one ticker that are in order and more than a microsecond apart.
MCSpacedTimes == {At(1, 5), At(1, 7), At(1, 999997), At(1, 999999),
                  At(2, 1), At(2, 3), At(4, 0)}
MCSpaced == {p \in MCSpacedTimes \X MCSpacedTimes : Later(p[2], p[1])}

MCUpdatesOnly == {"pull_tick_update"}
MCAllPulls == PullOps
=============================================================================
