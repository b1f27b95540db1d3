------------------------------ MODULE SrvTypes ------------------------------
(***************************************************************************)
(* The vocabulary of core_srv: the time stamps, ticks, requests and        *)
(* results that the server's parts exchange (core_srv_types.h and          *)
(* core_srv_data.h), and the three ways in which core_srv_data.c selects   *)
(* a tick of a ticker's list.  A list is a sequence whose first element is *)
(* the tick pushed last: m_ticks points to it and m_next to the one        *)
(* pushed before.  The payload of a tick is a value that is only copied.   *)
(***************************************************************************)
EXTENDS Naturals, Sequences, FiniteSetsExt

(***************************************************************************)
(* Time stamps: struct timeval.                                            *)
(***************************************************************************)
Timeval == [sec: Nat, usec: Nat]

Later(a, b) == \/ a.sec > b.sec
               \/ a.sec = b.sec /\ a.usec > b.usec

Earlier(a, b) == Later(b, a)

(***************************************************************************)
(* The values of SRV_ERROR that the operations on the store return.        *)
(* (SRV_ERROR_TICKER_EXISTS is declared and never returned.)               *)
(***************************************************************************)
StoreErrors == {"SUCCESS", "UNKNOWN", "UNKNOWN_TICKER", "NO_TICKDATA"}

Tick(Data, Times) == [data: Data, time: Times]

(***************************************************************************)
(* Calls of the store and what they return through SRV_ERROR and their     *)
(* output parameters.                                                      *)
(***************************************************************************)
NameOps == {"add_ticker", "get_ticker"}
DatedOps == {"pull_tick_by_datetime", "pull_tick_update"}
PullOps == {"pull_tick"} \cup DatedOps

Requests(Names, Ids, Data, Times) ==
        [op: NameOps, name: Names]
  \cup  [op: {"push_tick"}, id: Ids, data: Data]
  \cup  [op: {"pull_tick"}, id: Ids]
  \cup  [op: DatedOps, id: Ids, at: Times]

Status(s) == [status |-> s]
Found(i) == [status |-> "SUCCESS", id |-> i]
Pulled(k) == [status |-> "SUCCESS", tick |-> k]

Results(Ids, Ticks) ==
  {Status(s) : s \in StoreErrors} \cup {Found(i) : i \in Ids}
    \cup {Pulled(k) : k \in Ticks}

(***************************************************************************)
(* The selections.  Each is the walk of the C function over the list.      *)
(***************************************************************************)
PullTick(list) ==
  IF list = <<>> THEN Status("NO_TICKDATA") ELSE Pulled(list[1])

(* The walk goes on while the tick is later than the time asked for. *)
PullByDatetime(list, at) ==
  LET hits == {k \in DOMAIN list : ~Later(list[k].time, at)}
  IN  IF hits = {} THEN Status("NO_TICKDATA") ELSE Pulled(list[Min(hits)])

(* No update when the newest tick is earlier than the time asked for; else *)
(* the walk goes on while the NEXT tick is (strictly) later than it.       *)
PullUpdate(list, at) ==
  IF list = <<>> \/ Earlier(list[1].time, at)
  THEN Status("NO_TICKDATA")
  ELSE Pulled(list[Max({k \in DOMAIN list :
                          \A j \in 2..k : Later(list[j].time, at)})])

Selection(r, list) ==
  CASE r.op = "pull_tick"             -> PullTick(list)
    [] r.op = "pull_tick_by_datetime" -> PullByDatetime(list, r.at)
    [] r.op = "pull_tick_update"      -> PullUpdate(list, r.at)
=============================================================================
