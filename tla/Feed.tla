-------------------------------- MODULE Feed --------------------------------
(***************************************************************************)
(* What a reader of tickers hopes for when it asks for updates: every tick *)
(* of a ticker, once, in the order in which the ticks were pushed.         *)
(***************************************************************************)
EXTENDS Naturals, Sequences

CONSTANTS Ids, Ticks

VARIABLES pushed,      \* per ticker, the ticks pushed, in order
          delivered    \* per ticker, those that the reader has got, in order

vars == <<pushed, delivered>>

Init == /\ pushed = [i \in Ids |-> <<>>]
        /\ delivered = [i \in Ids |-> <<>>]

Push(i) == /\ \E k \in Ticks : pushed' = [pushed EXCEPT ![i] = Append(@, k)]
           /\ UNCHANGED delivered

Deliver(i) ==
  /\ Len(delivered[i]) < Len(pushed[i])
  /\ delivered' = [delivered EXCEPT
                     ![i] = Append(@, pushed[i][Len(@) + 1])]
  /\ UNCHANGED pushed

Next == \E i \in Ids : Push(i) \/ Deliver(i)

Spec == Init /\ [][Next]_vars
=============================================================================
