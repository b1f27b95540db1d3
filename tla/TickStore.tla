----------------------------- MODULE TickStore ------------------------------
(***************************************************************************)
(* What the tick store promises to the connection threads of the server:   *)
(* every call takes effect in one indivisible step between the moment it   *)
(* is made and the moment it returns.  TickerStore, which follows          *)
(* core_srv_data.c access by access, is shown to implement this module.    *)
(*                                                                         *)
(* The specification lets a pushed tick carry any time: core_srv_data.c    *)
(* does not promise that a list is in the order of its time stamps.        *)
(***************************************************************************)
EXTENDS SrvTypes

CONSTANTS Threads,      \* the connection threads
          Times,        \* time stamps
          Ids,          \* the ids a client may send
          Calls         \* the calls the clients may make

VARIABLES catalog,      \* the registered names; ticker id i is catalog[i + 1]
          log,          \* per id, the ticks pushed, newest first
          call          \* per thread: idle, a call pending, or its result

vars == <<catalog, log, call>>

Idle == [at |-> "idle"]
Pending(r) == [at |-> "pending", req |-> r]
Done(v) == [at |-> "done", res |-> v]

Init == /\ catalog = <<>>
        /\ log = [i \in Ids |-> <<>>]
        /\ call = [t \in Threads |-> Idle]

Known(i) == i < Len(catalog)

(* The first registration of a name wins. *)
Resolve(n) == {i \in Ids : Known(i) /\ catalog[i + 1] = n}

Answer(t, v) == call' = [call EXCEPT ![t] = Done(v)]

Invoke(t, r) == /\ call[t] = Idle
                /\ call' = [call EXCEPT ![t] = Pending(r)]
                /\ UNCHANGED <<catalog, log>>

Add(t, n) == /\ Len(catalog) \in Ids
             /\ catalog' = Append(catalog, n)
             /\ Answer(t, Found(Len(catalog)))
             /\ UNCHANGED log

Get(t, n) == /\ Answer(t, IF Resolve(n) = {} THEN Status("UNKNOWN")
                                             ELSE Found(Min(Resolve(n))))
             /\ UNCHANGED <<catalog, log>>

Refuse(t, i) == /\ ~Known(i)
                /\ Answer(t, Status("UNKNOWN_TICKER"))
                /\ UNCHANGED <<catalog, log>>

Push(t, i, d) ==
  /\ Known(i)
  /\ \E at \in Times :
       log' = [log EXCEPT ![i] = <<[data |-> d, time |-> at]>> \o @]
  /\ Answer(t, Status("SUCCESS"))
  /\ UNCHANGED catalog

Pull(t, r) == /\ Known(r.id)
              /\ Answer(t, Selection(r, log[r.id]))
              /\ UNCHANGED <<catalog, log>>

Effect(t) ==
  /\ call[t].at = "pending"
  /\ LET r == call[t].req
     IN  \/ r.op = "add_ticker" /\ Add(t, r.name)
         \/ r.op = "get_ticker" /\ Get(t, r.name)
         \/ r.op \notin NameOps /\ Refuse(t, r.id)
         \/ r.op = "push_tick" /\ Push(t, r.id, r.data)
         \/ r.op \in PullOps /\ Pull(t, r)

Return(t) == /\ call[t].at = "done"
             /\ call' = [call EXCEPT ![t] = Idle]
             /\ UNCHANGED <<catalog, log>>

Next == \E t \in Threads :
          \/ \E r \in Calls : Invoke(t, r)
          \/ Effect(t)
          \/ Return(t)

Spec == Init /\ [][Next]_vars
=============================================================================
