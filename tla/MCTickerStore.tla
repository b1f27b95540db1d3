--------------------------- MODULE MCTickerStore ----------------------------
(* A small instance of TickerStore for TLC.                                *)
EXTENDS TickerStore

\* Two readings of the clock across a second's end.
MCTimes == {[sec |-> 1, usec |-> 9], [sec |-> 2, usec |-> 0]}

\* Each kind of call, on a ticker that others use and on one that is missing.
MCCalls ==
       [op: NameOps, name: Names]
  \cup [op: {"push_tick"}, id: {0, 1}, data: Data]
  \cup [op: {"pull_tick"}, id: {1}]
  \cup [op: DatedOps, id: {0}, at: {CHOOSE t \in MCTimes : TRUE}]
=============================================================================
