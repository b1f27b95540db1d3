------------------------------ MODULE SrvNotify -----------------------------
(***************************************************************************)
(* Subscriptions: srv_tick_subscribe and srv_tick_unsubscribe of           *)
(* core_srv_data.c, the walk over the subscribers at the end of a push in  *)
(* srv_run_server_thread, and srv_client_wait_for_tick.                    *)
(*                                                                         *)
(* Each connection has a client and a server thread.  The threads share    *)
(* the subscribers of each ticker, a linked list that is changed under the *)
(* ticker's m_tickslock and walked under its m_subscriblock.  A walk       *)
(* writes to the connections of other threads, one write at a time, with   *)
(* nothing that keeps their replies or another ticker's walk out; a write  *)
(* waits while the connection is full.  Reading freed memory is undefined, *)
(* and the model stops there.                                              *)
(*                                                                         *)
(* A request reaches its thread in one step (SrvWire has its parts), all   *)
(* ids are registered, and the data of a tick is one piece.                *)
(***************************************************************************)
EXTENDS Naturals, Sequences, FiniteSets

CONSTANTS Listeners,   \* the connections that subscribe and wait for updates
          Pushers,     \* the connections that push ticks
          NoOne,       \* the owner of a free mutex
          Ids,         \* the registered tickers
          MaxNodes,    \* bound: subscriptions made
          Capacity     \* items that a connection holds unread

ASSUME NotifyAssumption ==
  /\ NoOne \notin Listeners \cup Pushers
  /\ MaxNodes \in Nat /\ Capacity \in Nat \ {0}

Conns == Listeners \cup Pushers
Nodes == 1..MaxNodes
Null == 0

VARIABLES
  m_subscribers,  \* per ticker: the first node of its list
  m_connection,   \* per node: the connection subscribed
  m_next,         \* per node: the node after it
  allocated,      \* the nodes that have been allocated: 1..allocated
  freed,          \* those that have been freed
  m_tickslock,    \* per ticker: who holds it
  m_subscriblock,
  down,           \* per connection: what its client has not read
  closed,         \* the connections whose client has gone
  pc,             \* per thread: what it does next
  req,            \* per thread: its request
  subscr,         \* per thread: the node it makes or has got to
  client,         \* per client: what it does next
  server,         \* "up", or how the process came to an end
  due,            \* history, per thread: the nodes its walk still owes a visit
  visits,         \* history, per thread: the nodes its walk has visited
  sent            \* history: per connection and ticker, the last item written of a
                  \* notification that is not complete

nodes == <<m_subscribers, m_connection, m_next, allocated, freed>>
locks == <<m_tickslock, m_subscriblock>>
conns == <<down, closed>>
history == <<due, visits, sent>>
vars == <<nodes, locks, conns, pc, req, subscr, client, server, history>>

NoReq == [op |-> "none"]
NoItem == [kind |-> "none"]

Init ==
  /\ m_subscribers = [i \in Ids |-> Null]
  /\ m_connection = [n \in Nodes |-> NoOne]
  /\ m_next = [n \in Nodes |-> Null]
  /\ allocated = 0 /\ freed = {}
  /\ m_tickslock = [i \in Ids |-> NoOne]
  /\ m_subscriblock = [i \in Ids |-> NoOne]
  /\ down = [c \in Conns |-> <<>>] /\ closed = {}
  /\ pc = [c \in Conns |-> "idle"]
  /\ req = [c \in Conns |-> NoReq]
  /\ subscr = [c \in Conns |-> Null]
  /\ client = [c \in Conns |-> "idle"]
  /\ server = "up"
  /\ due = [c \in Conns |-> {}] /\ visits = [c \in Conns |-> <<>>]
  /\ sent = [c \in Conns |-> [i \in Ids |-> NoItem]]

Goto(c, step) == pc' = [pc EXCEPT ![c] = step]
id(c) == req[c].id

Acquire(lock, c) == lock[id(c)] = NoOne /\ lock' = [lock EXCEPT ![id(c)] = c]
Release(lock, c) == lock' = [lock EXCEPT ![id(c)] = NoOne]

\* The nodes that a walk meets which begins at node n and follows the links in
\* next as far as a node of stop: those in every set that the walk cannot leave.
Closed(S, next, stop) == \A p \in S \ stop : next[p] \in S \cup {Null}
Walk(n, next, stop) ==
  {m \in Nodes : \A S \in SUBSET Nodes :
                   n \in S \cup {Null} /\ Closed(S, next, stop) => m \in S}

\* The list of a ticker: the nodes that a walk from its head meets.
Listed(i) == Walk(m_subscribers[i], m_next, {})

-----------------------------------------------------------------------------
(* The clients                                                             *)

ClientGoto(c, step) == client' = [client EXCEPT ![c] = step]

Requests(c) ==
       [op: {"subscribe", "unsubscribe"}, id: IF c \in Listeners THEN Ids ELSE {}]
  \cup [op: {"push"}, id: IF c \in Pushers THEN Ids ELSE {}]

\* Mutant: the client does not wait for the reply.
AskAndGoOn(c, r) ==
  /\ client[c] = "idle" /\ pc[c] = "idle"
  /\ r.op = "push"
  /\ req' = [req EXCEPT ![c] = r]
  /\ Goto(c, r.op)
  /\ UNCHANGED <<nodes, subscr, locks, conns, client, server, history>>

\* The bound on nodes is not in the code.
Ask(c, r) ==
  /\ client[c] = "idle" /\ pc[c] = "idle"
  /\ r.op = "subscribe" => allocated < MaxNodes
  /\ req' = [req EXCEPT ![c] = r]
  /\ IF r.op = "subscribe"
     THEN /\ allocated' = allocated + 1
          /\ m_connection' = [m_connection EXCEPT ![allocated + 1] = c]
          /\ subscr' = [subscr EXCEPT ![c] = allocated + 1]
     ELSE UNCHANGED <<allocated, m_connection, subscr>>
  /\ Goto(c, r.op)
  /\ ClientGoto(c, "status")
  /\ UNCHANGED <<m_subscribers, m_next, freed, locks, conns, server, history>>

\* srv_client_wait_for_tick is called.
Wait(c) ==
  /\ c \in Listeners
  /\ client[c] = "idle"
  /\ ClientGoto(c, "command")
  /\ UNCHANGED <<nodes, locks, conns, pc, req, subscr, server, history>>

\* What follows the item that the client reads.  A command and a status have
\* the same size, so one is read for the other and the call returns an error;
\* any other mismatch leaves the client in the middle of an item.
AfterRead(expected, kind) ==
  IF kind = expected
  THEN IF kind = "command" THEN "len"
       ELSE IF kind = "len" THEN "piece"
       ELSE IF kind = "piece" THEN "time" ELSE "idle"
  ELSE IF {kind, expected} = {"command", "status"} THEN "idle" ELSE "lost"

ClientRead(c) ==
  /\ client[c] \in {"status", "command", "len", "piece", "time"}
  /\ down[c] # <<>>
  /\ ClientGoto(c, AfterRead(client[c], Head(down[c]).kind))
  /\ down' = [down EXCEPT ![c] = Tail(@)]
  /\ UNCHANGED <<nodes, locks, closed, pc, req, subscr, server, history>>

\* The client closes its connection.  Its thread, once idle, returns and leaves
\* the connection's subscriptions where they are.
CloseConnection(c) ==
  /\ client[c] = "idle"
  /\ ClientGoto(c, "closed")
  /\ closed' = closed \cup {c}
  /\ down' = [down EXCEPT ![c] = <<>>]
  /\ UNCHANGED <<nodes, locks, pc, req, subscr, server, history>>

-----------------------------------------------------------------------------
(* srv_tick_subscribe                                                      *)

\* Mutant: the list is changed without its lock.
SubscribeLockFree(c) ==
  /\ pc[c] = "subscribe"
  /\ Goto(c, "subscribe.next")
  /\ UNCHANGED <<nodes, locks, conns, req, subscr, client, server, history>>

SubscribeLock(c) ==
  /\ pc[c] = "subscribe"
  /\ Acquire(m_tickslock, c)
  /\ Goto(c, "subscribe.next")
  /\ UNCHANGED <<nodes, m_subscriblock, conns, req, subscr, client, server, history>>

SubscribeNext(c) ==
  /\ pc[c] = "subscribe.next"
  /\ m_next' = [m_next EXCEPT ![subscr[c]] = m_subscribers[id(c)]]
  /\ Goto(c, "subscribe.link")
  /\ UNCHANGED <<m_subscribers, m_connection, allocated, freed, locks, conns,
                 req, subscr, client, server, history>>

SubscribeLink(c) ==
  /\ pc[c] = "subscribe.link"
  /\ m_subscribers' = [m_subscribers EXCEPT ![id(c)] = subscr[c]]
  /\ Release(m_tickslock, c)
  /\ subscr' = [subscr EXCEPT ![c] = Null]
  /\ Goto(c, "status")
  /\ UNCHANGED <<m_connection, m_next, allocated, freed, m_subscriblock, conns,
                 req, client, server, history>>

-----------------------------------------------------------------------------
(* srv_tick_unsubscribe                                                    *)

\* The first node of the connection, or Null: the walk goes no further.
Own(c) == {n \in Nodes : m_connection[n] = c}
FirstOf(c) ==
  LET found == Walk(m_subscribers[id(c)], m_next, Own(c)) \cap Own(c)
  IN  IF found = {} THEN Null ELSE CHOOSE n \in found : TRUE

UnsubscribeLock(c) ==
  /\ pc[c] = "unsubscribe"
  /\ Acquire(m_tickslock, c)
  /\ Goto(c, "unsubscribe.unlink")
  /\ UNCHANGED <<nodes, m_subscriblock, conns, req, subscr, client, server, history>>

\* Mutant: the link of the node that is taken out is cleared.
UnsubscribeUnlinkClears(c) ==
  /\ pc[c] = "unsubscribe.unlink"
  /\ LET n == FirstOf(c)
     IN  /\ n # Null /\ n = m_subscribers[id(c)]
         /\ subscr' = [subscr EXCEPT ![c] = n]
         /\ m_subscribers' = [m_subscribers EXCEPT ![id(c)] = m_next[n]]
         /\ m_next' = [m_next EXCEPT ![n] = Null]
         /\ due' = [t \in Conns |-> due[t] \ {n}]
  /\ Goto(c, "unsubscribe.free")
  /\ UNCHANGED <<m_connection, allocated, freed, locks, conns, req, client,
                 server, visits, sent>>

\* The walk to the node and the write that takes it out of the list.
UnsubscribeUnlink(c) ==
  /\ pc[c] = "unsubscribe.unlink"
  /\ LET n == FirstOf(c)
     IN  /\ n # Null
         /\ subscr' = [subscr EXCEPT ![c] = n]
         /\ IF n = m_subscribers[id(c)]
            THEN /\ m_subscribers' = [m_subscribers EXCEPT ![id(c)] = m_next[n]]
                 /\ UNCHANGED m_next
            ELSE /\ m_next' = [p \in Nodes |-> IF p \in Listed(id(c)) /\ m_next[p] = n
                                               THEN m_next[n] ELSE m_next[p]]
                 /\ UNCHANGED m_subscribers
         /\ due' = [t \in Conns |-> due[t] \ {n}]
  /\ Goto(c, "unsubscribe.free")
  /\ UNCHANGED <<m_connection, allocated, freed, locks, conns, req, client,
                 server, visits, sent>>

UnsubscribeNone(c) ==
  /\ pc[c] = "unsubscribe.unlink"
  /\ FirstOf(c) = Null
  /\ Release(m_tickslock, c)
  /\ Goto(c, "status")
  /\ UNCHANGED <<nodes, m_subscriblock, conns, req, subscr, client, server, history>>

UnsubscribeFree(c) ==
  /\ pc[c] = "unsubscribe.free"
  /\ freed' = freed \cup {subscr[c]}
  /\ subscr' = [subscr EXCEPT ![c] = Null]
  /\ Release(m_tickslock, c)
  /\ Goto(c, "status")
  /\ UNCHANGED <<m_subscribers, m_connection, m_next, allocated, m_subscriblock,
                 conns, req, client, server, history>>

-----------------------------------------------------------------------------
(* Replies and notifications                                               *)

\* A write to connection d.  One to a closed connection kills the process or
\* is lost.
Write(c, d, item, step) ==
  \/ /\ d \notin closed
     /\ Len(down[d]) < Capacity
     /\ down' = [down EXCEPT ![d] = Append(@, item)]
     /\ Goto(c, step)
     /\ UNCHANGED <<closed, server>>
  \/ d \in closed /\ Goto(c, step) /\ UNCHANGED <<conns, server>>
  \/ d \in closed /\ server' = "killed" /\ UNCHANGED <<conns, pc>>

\* srv_push_tick has one critical section (see TickerStore).
PushTick(c) ==
  /\ pc[c] = "push"
  /\ m_tickslock[id(c)] = NoOne
  /\ Goto(c, "status")
  /\ UNCHANGED <<nodes, locks, conns, req, subscr, client, server, history>>

WriteStatus(c) ==
  /\ pc[c] = "status"
  /\ Write(c, c, [kind |-> "status"], IF req[c].op = "push" THEN "notify" ELSE "idle")
  /\ req' = IF pc'[c] = "idle" THEN [req EXCEPT ![c] = NoReq] ELSE req
  /\ UNCHANGED <<nodes, locks, subscr, client, history>>

\* Mutant: the walk does not lock the subscribers.
NotifyLockFree(c) ==
  /\ pc[c] = "notify"
  /\ Goto(c, "notify.head")
  /\ UNCHANGED <<nodes, locks, conns, req, subscr, client, server, history>>

NotifyLock(c) ==
  /\ pc[c] = "notify"
  /\ Acquire(m_subscriblock, c)
  /\ Goto(c, "notify.head")
  /\ UNCHANGED <<nodes, m_tickslock, conns, req, subscr, client, server, history>>

NotifyStep(n) == IF n = Null THEN "notify.unlock" ELSE "notify.command"

NotifyHead(c) ==
  /\ pc[c] = "notify.head"
  /\ subscr' = [subscr EXCEPT ![c] = m_subscribers[id(c)]]
  /\ due' = [due EXCEPT ![c] = Listed(id(c))]
  /\ visits' = [visits EXCEPT ![c] = <<>>]
  /\ Goto(c, NotifyStep(m_subscribers[id(c)]))
  /\ UNCHANGED <<nodes, locks, conns, req, client, server, sent>>

\* The writes of one notification; each reads the connection from the node.
Parts == <<"command", "len", "piece", "time">>
NotifyParts == <<"notify.command", "notify.len", "notify.piece", "notify.time">>

NotifyWrite(c) ==
  \E k \in DOMAIN Parts :
    LET to == m_connection[subscr[c]]
    IN  /\ pc[c] = NotifyParts[k]
        /\ subscr[c] \notin freed
        /\ Write(c, to, [kind |-> Parts[k]],
                 IF k = 4 THEN "notify.next" ELSE NotifyParts[k + 1])
        /\ sent' = [sent EXCEPT ![to][id(c)] =
                      IF k = 4 THEN NoItem ELSE [kind |-> Parts[k], by |-> c]]
        /\ UNCHANGED <<nodes, locks, req, subscr, client, due, visits>>

NotifyNext(c) ==
  /\ pc[c] = "notify.next"
  /\ subscr[c] \notin freed
  /\ subscr' = [subscr EXCEPT ![c] = m_next[subscr[c]]]
  /\ due' = [due EXCEPT ![c] = @ \ {subscr[c]}]
  /\ visits' = [visits EXCEPT ![c] = Append(@, subscr[c])]
  /\ Goto(c, NotifyStep(m_next[subscr[c]]))
  /\ UNCHANGED <<nodes, locks, conns, req, client, server, sent>>

\* The node has been freed meanwhile: undefined behaviour.
NotifyWild(c) ==
  /\ pc[c] \in {NotifyParts[k] : k \in DOMAIN Parts} \cup {"notify.next"}
  /\ subscr[c] \in freed
  /\ server' = "wild"
  /\ UNCHANGED <<nodes, locks, conns, pc, req, subscr, client, history>>

\* Mutant: the lock of the subscribers is kept.
NotifyUnlockForgotten(c) ==
  /\ pc[c] = "notify.unlock"
  /\ Goto(c, "idle")
  /\ req' = [req EXCEPT ![c] = NoReq]
  /\ visits' = [visits EXCEPT ![c] = <<>>]
  /\ UNCHANGED <<nodes, locks, conns, subscr, client, server, due, sent>>

NotifyUnlock(c) ==
  /\ pc[c] = "notify.unlock"
  /\ Release(m_subscriblock, c)
  /\ Goto(c, "idle")
  /\ req' = [req EXCEPT ![c] = NoReq]
  /\ visits' = [visits EXCEPT ![c] = <<>>]
  /\ UNCHANGED <<nodes, m_tickslock, conns, subscr, client, server, due, sent>>

-----------------------------------------------------------------------------
Thread(c) ==
  /\ server = "up"
  /\ \/ SubscribeLock(c) \/ SubscribeNext(c) \/ SubscribeLink(c)
     \/ UnsubscribeLock(c) \/ UnsubscribeUnlink(c) \/ UnsubscribeNone(c)
     \/ UnsubscribeFree(c)
     \/ PushTick(c) \/ WriteStatus(c)
     \/ NotifyLock(c) \/ NotifyHead(c) \/ NotifyWrite(c) \/ NotifyNext(c)
     \/ NotifyWild(c) \/ NotifyUnlock(c)

Next ==
  \E c \in Conns :
    \/ Thread(c)
    \/ /\ server = "up"
       /\ \/ \E r \in Requests(c) : Ask(c, r)
          \/ Wait(c) \/ ClientRead(c) \/ CloseConnection(c)

Spec == Init /\ [][Next]_vars

\* Threads that can run do; a client that has called goes on reading; and a
\* listener keeps waiting for updates, as the loop of core_srv_types.h:46 does.
FairSpec ==
  /\ Spec
  /\ \A c \in Conns : /\ WF_vars(Thread(c))
                      /\ WF_vars(server = "up" /\ ClientRead(c))
                      /\ SF_vars(server = "up" /\ Wait(c))

-----------------------------------------------------------------------------
(* Properties                                                              *)

Listening == {"status", "command", "len", "piece", "time"}

TypeOK ==
  /\ m_subscribers \in [Ids -> {Null} \cup Nodes]
  /\ m_connection \in [Nodes -> Conns \cup {NoOne}]
  /\ m_next \in [Nodes -> {Null} \cup Nodes]
  /\ allocated \in 0..MaxNodes /\ freed \subseteq Nodes
  /\ m_tickslock \in [Ids -> Conns \cup {NoOne}]
  /\ m_subscriblock \in [Ids -> Conns \cup {NoOne}]
  /\ subscr \in [Conns -> {Null} \cup Nodes]
  /\ closed \subseteq Conns
  /\ client \in [Conns -> Listening \cup {"idle", "lost", "closed"}]
  /\ server \in {"up", "killed", "wild"}

\* Every variable has its type, and every subscription is accounted for, whatever
\* subscribes and unsubscribes run at once: its node is in the list of one ticker,
\* or freed, or in the hands of the one thread that makes or removes it; and a
\* list ends.
Held(n) == {c \in Conns : subscr[c] = n /\ pc[c] \in
              {"subscribe", "subscribe.next", "subscribe.link", "unsubscribe.free"}}
NodesAccounted ==
  /\ TypeOK
  /\ \A n \in 1..allocated :
       Cardinality({i \in Ids : n \in Listed(i)}) + Cardinality(Held(n))
         + (IF n \in freed THEN 1 ELSE 0) = 1
  /\ \A i \in Ids : Listed(i) # {} => \E n \in Listed(i) : m_next[n] = Null

\* A walk that ends has visited every node that was in the list when it began
\* and has not been unsubscribed since, and no node twice.
EveryoneNotified ==
  \A c \in Conns : pc[c] = "notify.unlock" =>
    /\ due[c] = {}
    /\ \A j, k \in DOMAIN visits[c] : visits[c][j] = visits[c][k] => j = k

\* The notifications of one ticker to one connection are never mixed with each
\* other, whoever pushes: this is what m_subscriblock is for.
OneTickerInOrder ==
  [][\A d \in Conns, i \in Ids :
       LET old == sent[d][i]
           new == sent'[d][i]
       IN  new # old =>
             \/ old = NoItem /\ new.kind = "command"
             \/ \E k \in 1..2 : /\ old.kind = Parts[k] /\ new.kind = Parts[k + 1]
                               /\ old.by = new.by
             \/ new = NoItem /\ old.kind = "piece" /\ pc[old.by] = "notify.time"]_vars

\* A connection that closes after its calls kills the server only if it has
\* subscribed to something: its thread does not remove its subscriptions, and a
\* notification read as the reply of a call ends the call too early.
KilledOnlyBySubscriber ==
  server = "killed" => \E n \in 1..allocated : m_connection[n] \in closed

\* As long as the listeners wait for their updates and stay in step, some walk
\* gets to its end: threads never wait for each other in a circle.
SomeWalkEnds ==
  (\E c \in Conns : pc[c] = "notify") ~>
    \/ \E c \in Conns : pc[c] = "notify.unlock"
    \/ server # "up"
    \/ \E c \in Conns : client[c] = "lost"

\* "this will wait for an update to happen before continuing"
\* (core_srv_types.h:47), after a subscribe: each of the two calls reads what is
\* meant for it, the reply of the one and the update of the other.
RepliesAndUpdatesApart ==
  \A c \in Conns : client[c] \in Listening /\ down[c] # <<>> =>
    Head(down[c]).kind = client[c]
=============================================================================
