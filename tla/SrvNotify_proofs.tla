--------------------------- MODULE SrvNotify_proofs --------------------------
(***************************************************************************)
(* NotifyInv is an inductive invariant of SrvNotify, for every set of      *)
(* connections and tickers and every bound.  It gives that every           *)
(* subscription is accounted for, that a walk visits every subscriber and  *)
(* none twice, that the notifications of one ticker do not mix, and which  *)
(* connections can kill the server by closing.                             *)
(***************************************************************************)
EXTENDS SrvNotify, FiniteSetTheorems, TLAPS

-----------------------------------------------------------------------------
(* The inductive invariant                                                 *)

MakeSteps == {"subscribe", "subscribe.next", "subscribe.link"}
RemoveSteps == {"unsubscribe", "unsubscribe.unlink", "unsubscribe.free"}
VisitSteps == {"notify.command", "notify.len", "notify.piece", "notify.time",
               "notify.next"}
WalkSteps == {"notify.head", "notify.unlock"} \cup VisitSteps
PushSteps == {"push", "notify"} \cup WalkSteps
Steps == {"idle", "status"} \cup MakeSteps \cup RemoveSteps \cup PushSteps

Request == [op: {"subscribe", "unsubscribe", "push"}, id: Ids]
Kinds == {"status", "command", "len", "piece", "time"}

\* TypeOK, and the types of the other variables.
TypeInv ==
  /\ TypeOK
  /\ pc \in [Conns -> Steps]
  /\ req \in [Conns -> Request \cup {NoReq}]
  /\ down \in [Conns -> Seq([kind: Kinds])]
  /\ due \in [Conns -> SUBSET Nodes]
  /\ visits \in [Conns -> Seq(Nodes)]
  /\ sent \in [Conns -> [Ids -> {NoItem} \cup [kind: Kinds, by: Conns]]]

\* What a thread does belongs to its request, and it has a node in hand exactly
\* while it makes one, takes one out or visits one.
RequestOf(c) ==
  /\ pc[c] # "idle" => req[c] \in Request
  /\ pc[c] \in MakeSteps => req[c].op = "subscribe"
  /\ pc[c] \in RemoveSteps => req[c].op = "unsubscribe"
  /\ pc[c] \in PushSteps => req[c].op = "push"
  /\ pc[c] \in MakeSteps \cup {"unsubscribe.free"} \cup VisitSteps
       => subscr[c] \in 1..allocated
  /\ pc[c] \notin MakeSteps \cup {"unsubscribe.free"} \cup VisitSteps
       => subscr[c] = Null
RequestInv == \A c \in Conns : RequestOf(c)

\* A mutex is held by the thread that is between its lock and its unlock.
TickHolds == {"subscribe.next", "subscribe.link", "unsubscribe.unlink",
              "unsubscribe.free"}
LockInv ==
  \A c \in Conns, i \in Ids :
    /\ m_tickslock[i] = c <=> pc[c] \in TickHolds /\ id(c) = i
    /\ m_subscriblock[i] = c <=> pc[c] \in WalkSteps /\ id(c) = i

\* The links: no circle, no two links of a list to one node, none to a node
\* that is not linked yet; and the head that a new node is linked to stays.
Making(c) == pc[c] \in MakeSteps
Unlinked(n) == n > allocated \/ \E c \in Conns : Making(c) /\ subscr[c] = n
NoCircle == \A n \in Nodes : n \notin Walk(m_next[n], m_next, {})
NoFork ==
  \A i \in Ids : \A m, n \in Listed(i) :
    m_next[m] = m_next[n] /\ m_next[m] # Null => m = n
NotYetLinked ==
  \A n \in Nodes : Unlinked(n) => /\ \A m \in Nodes : m_next[m] # n
                                 /\ \A i \in Ids : m_subscribers[i] # n
ReadyToLink ==
  \A c \in Conns : pc[c] = "subscribe.link" => m_next[subscr[c]] = m_subscribers[id(c)]
LinkInv == NoCircle /\ NoFork /\ NotYetLinked /\ ReadyToLink

\* Where a node is: in one list, freed, or in the hands of one thread.
Holding(c) == pc[c] \in MakeSteps \cup {"unsubscribe.free"}
InOneList ==
  /\ freed \subseteq 1..allocated
  /\ \A i \in Ids : Listed(i) \subseteq 1..allocated /\ Listed(i) \cap freed = {}
  /\ \A i, j \in Ids : i # j => Listed(i) \cap Listed(j) = {}
InOneHand ==
  /\ \A c \in Conns : Holding(c) => /\ subscr[c] \notin freed
                                    /\ \A i \in Ids : subscr[c] \notin Listed(i)
  /\ \A c, d \in Conns : Holding(c) /\ Holding(d) /\ subscr[c] = subscr[d] => c = d
NoneLost ==
  \A n \in 1..allocated : /\ m_connection[n] \in Conns
                          /\ \/ n \in freed
                             \/ \E i \in Ids : n \in Listed(i)
                             \/ \E c \in Conns : Holding(c) /\ subscr[c] = n
PlaceInv == InOneList /\ InOneHand /\ NoneLost

\* A walk has what it owes a visit before it, and what it has visited behind it.
Walking(c) == pc[c] \in VisitSteps \cup {"notify.unlock"}
Ahead(c) == Walk(subscr[c], m_next, {})
WalkOf(c) ==
  /\ due[c] \subseteq Ahead(c)
  /\ \A k \in DOMAIN visits[c] : visits[c][k] \notin Ahead(c)
  /\ \A j, k \in DOMAIN visits[c] : visits[c][j] = visits[c][k] => j = k
  /\ \A d \in Conns : Making(d) => subscr[d] # subscr[c]
WalkInv == \A c \in Conns : Walking(c) => WalkOf(c)

\* Of a notification that has begun and is not complete, the last part written is
\* the one before the part that the walk of its ticker writes next.
To(c) == m_connection[subscr[c]]
Begun == {"notify.len", "notify.piece", "notify.time"}
SentBehind ==
  \A c \in Conns, k \in 1..3 : pc[c] = NotifyParts[k + 1] =>
    sent[To(c)][id(c)] = [kind |-> Parts[k], by |-> c]
SentUnderWay ==
  \A d \in Conns, i \in Ids : sent[d][i] # NoItem =>
    \E c \in Conns, k \in 1..3 : /\ sent[d][i] = [kind |-> Parts[k], by |-> c]
                               /\ pc[c] = NotifyParts[k + 1]
                               /\ id(c) = i /\ To(c) = d
SentInv == server = "up" => SentBehind /\ SentUnderWay

\* A connection that has never subscribed reads the reply of each call, and
\* nothing else is ever sent to it.
Subscribed(c) == \E n \in 1..allocated : m_connection[n] = c
Called(c) == pc[c] \in RemoveSteps \cup {"push", "status"}
QuietOf(c) ==
  /\ ~Making(c)
  /\ Called(c) => client[c] = "status" /\ down[c] = <<>>
  /\ ~Called(c) /\ client[c] = "status" => down[c] = <<[kind |-> "status"]>>
  /\ client[c] # "status" => down[c] = <<>>
QuietInv ==
  /\ \A c \in Conns : c \in closed <=> client[c] = "closed"
  /\ \A c \in Conns : ~Subscribed(c) => QuietOf(c)
  /\ KilledOnlyBySubscriber

NotifyInv == /\ TypeInv /\ RequestInv /\ LockInv /\ LinkInv /\ PlaceInv
             /\ WalkInv /\ SentInv /\ QuietInv

-----------------------------------------------------------------------------
(* Walks                                                                   *)

Links == [Nodes -> {Null} \cup Nodes]

\* Null is not a node, and there are finitely many nodes.
LEMMA NullIsNoNode == Null \notin Nodes /\ Nodes \subseteq Nat /\ IsFiniteSet(Nodes)
  BY NotifyAssumption, FS_Interval DEF Null, Nodes

\* A walk meets its first node.
LEMMA WalkStart ==
  ASSUME NEW next, NEW stop, NEW n \in Nodes
  PROVE  n \in Walk(n, next, stop)
  BY NullIsNoNode DEF Walk

\* A walk goes on from each node that does not stop it.
LEMMA WalkClosed ==
  ASSUME NEW next \in Links, NEW stop, NEW n
  PROVE  /\ Walk(n, next, stop) \subseteq Nodes
         /\ Closed(Walk(n, next, stop), next, stop)
<1>1. Walk(n, next, stop) \subseteq Nodes
  BY DEF Walk
<1>2. ASSUME NEW p \in Walk(n, next, stop) \ stop, next[p] # Null
      PROVE  next[p] \in Walk(n, next, stop)
  <2>1. next[p] \in Nodes
    BY <1>1, <1>2 DEF Links
  <2>2. ASSUME NEW S \in SUBSET Nodes, n \in S \cup {Null}, Closed(S, next, stop)
        PROVE  next[p] \in S
    BY <1>2, <2>2 DEF Walk, Closed
  <2> QED BY <2>1, <2>2 DEF Walk
<1> QED
  BY <1>1, <1>2 DEF Closed

\* A walk stays in every set that goes on from its nodes.
LEMMA WalkLeast ==
  ASSUME NEW next, NEW stop, NEW n, NEW S \in SUBSET Nodes,
         n \in S \cup {Null}, Closed(S, next, stop)
  PROVE  Walk(n, next, stop) \subseteq S
  BY DEF Walk

\* A walk that has no first node meets none.
LEMMA WalkNull ==
  ASSUME NEW next, NEW stop
  PROVE  Walk(Null, next, stop) = {}
<1>1. Closed({}, next, stop) /\ Null \in {} \cup {Null}
  BY DEF Closed
<1> QED
  BY <1>1, WalkLeast

\* One step of a walk.
LEMMA WalkStep ==
  ASSUME NEW next \in Links, NEW n \in Nodes
  PROVE  Walk(n, next, {}) = {n} \cup Walk(next[n], next, {})
<1> DEFINE R == Walk(next[n], next, {})
           W == Walk(n, next, {})
<1>1. /\ R \subseteq Nodes /\ Closed(R, next, {})
      /\ W \subseteq Nodes /\ Closed(W, next, {})
  BY WalkClosed
<1>2. next[n] \in R \cup {Null}
  BY WalkStart DEF Links
<1>3. Closed({n} \cup R, next, {})
  BY <1>1, <1>2 DEF Closed
<1>4. W \subseteq {n} \cup R
  BY <1>1, <1>3, WalkLeast
<1>5. n \in W
  BY WalkStart
<1>6. next[n] \in W \cup {Null}
  BY <1>1, <1>5 DEF Closed
<1>7. R \subseteq W
  BY <1>1, <1>6, WalkLeast
<1> QED
  BY <1>4, <1>5, <1>7

\* From a node that a walk meets, nothing is met that the walk does not meet.
LEMMA WalkOn ==
  ASSUME NEW next \in Links, NEW n, NEW m \in Walk(n, next, {})
  PROVE  Walk(m, next, {}) \subseteq Walk(n, next, {})
  BY WalkClosed, WalkLeast

\* A walk that may stop meets no more than one that does not.
LEMMA WalkStops ==
  ASSUME NEW next \in Links, NEW n \in Nodes \cup {Null}, NEW stop
  PROVE  Walk(n, next, stop) \subseteq Walk(n, next, {})
<1>1. n \in Walk(n, next, {}) \cup {Null}
  BY WalkStart
<1>2. Walk(n, next, {}) \subseteq Nodes /\ Closed(Walk(n, next, {}), next, stop)
  BY WalkClosed DEF Closed
<1> QED
  BY <1>1, <1>2, WalkLeast

\* A walk depends on the links of the nodes that it meets.
LEMMA WalkSame ==
  ASSUME NEW next \in Links, NEW new \in Links, NEW n \in Nodes \cup {Null},
         \A m \in Walk(n, next, {}) : new[m] = next[m]
  PROVE  Walk(n, new, {}) = Walk(n, next, {})
<1> DEFINE W == Walk(n, next, {})
           V == Walk(n, new, {})
<1>1. /\ W \subseteq Nodes /\ Closed(W, next, {})
      /\ V \subseteq Nodes /\ Closed(V, new, {})
  BY WalkClosed
<1>2. n \in W \cup {Null} /\ n \in V \cup {Null}
  BY WalkStart
<1>3. Closed(W, new, {}) /\ Closed(V \cap W, next, {})
  BY <1>1 DEF Closed
<1>4. V \subseteq W
  BY <1>1, <1>2, <1>3, WalkLeast
<1>5. W \subseteq V \cap W
  BY <1>1, <1>2, <1>3, WalkLeast
<1> QED
  BY <1>4, <1>5

\* A node that nothing links to is met only by a walk that begins there, and its
\* own link changes no other walk.
LEMMA WalkFresh ==
  ASSUME NEW next \in Links, NEW x \in Nodes, \A m \in Nodes : next[m] # x,
         NEW new \in Links, \A m \in Nodes \ {x} : new[m] = next[m],
         NEW n \in Nodes \cup {Null}, n # x
  PROVE  /\ x \notin Walk(n, next, {})
         /\ Walk(n, new, {}) = Walk(n, next, {})
<1> DEFINE W == Walk(n, next, {})
<1>1. W \subseteq Nodes /\ Closed(W, next, {}) /\ n \in W \cup {Null}
  BY WalkClosed, WalkStart
<1>2. Closed(W \ {x}, next, {})
  BY <1>1 DEF Closed
<1>3. x \notin W
  BY <1>1, <1>2, WalkLeast
<1>4. \A m \in W : new[m] = next[m]
  BY <1>1, <1>3
<1> QED
  BY <1>3, <1>4, WalkSame

\* The links after n has been taken out from behind the nodes of L.
Without(n, next, L) ==
  [p \in Nodes |-> IF p \in L /\ next[p] = n THEN next[n] ELSE next[p]]

\* Taking a node out takes it, at most, out of the walks.
LEMMA WalkWithout ==
  ASSUME NEW next \in Links, NEW n \in Nodes, NEW L, NEW x \in Nodes \cup {Null}
  PROVE  /\ Without(n, next, L) \in Links
         /\ Walk(x, Without(n, next, L), {}) \subseteq Walk(x, next, {})
         /\ Walk(x, next, {}) \ {n} \subseteq Walk(x, Without(n, next, L), {})
<1> DEFINE new == Without(n, next, L)
           W == Walk(x, next, {})
           V == Walk(x, new, {})
<1>1. new \in Links
  BY DEF Without, Links
<1>2. /\ W \subseteq Nodes /\ Closed(W, next, {}) /\ x \in W \cup {Null}
      /\ V \subseteq Nodes /\ Closed(V, new, {}) /\ x \in V \cup {Null}
  BY <1>1, WalkClosed, WalkStart
<1>3. Closed(W, new, {})
  BY <1>2, NullIsNoNode DEF Closed, Without
<1>4. V \subseteq W
  BY <1>2, <1>3, WalkLeast
<1>5. W \subseteq V \cup {n}
  <2>1. CASE \E p \in V : p \in L /\ next[p] = n
    <3>1. next[n] \in V \cup {Null}
      BY <1>2, <2>1 DEF Closed, Without
    <3>2. Closed(V \cup {n}, next, {})
      BY <1>2, <3>1 DEF Closed, Without
    <3> QED BY <1>2, <3>2, WalkLeast
  <2>2. CASE ~ \E p \in V : p \in L /\ next[p] = n
    <3>1. Closed(V, next, {})
      BY <1>2, <2>2 DEF Closed, Without
    <3> QED BY <1>2, <3>1, WalkLeast
  <2> QED BY <2>1, <2>2
<1> QED
  BY <1>1, <1>4, <1>5

\* A list that no link leaves twice for the same node, and none for its head, ends.
LEMMA ListEnds ==
  ASSUME NEW next \in Links, NEW h \in Nodes, NEW L, L = Walk(h, next, {}),
         \A m, n \in L : next[m] = next[n] /\ next[m] # Null => m = n,
         \A n \in L : next[n] # h
  PROVE  \E n \in L : next[n] = Null
<1> SUFFICES ASSUME \A n \in L : next[n] # Null PROVE FALSE
  OBVIOUS
<1>1. L \subseteq Nodes /\ Closed(L, next, {}) /\ h \in L
  BY WalkClosed, WalkStart
<1>2. IsFiniteSet(L)
  BY <1>1, NullIsNoNode, FS_Subset
<1>3. /\ IsFiniteSet(L \ {h}) /\ Cardinality(L \ {h}) = Cardinality(L) - 1
      /\ Cardinality(L) \in Nat
  BY <1>1, <1>2, FS_RemoveElement, FS_CardinalityType
<1> DEFINE f == [n \in L |-> next[n]]
           T == L \ {h}
<1>4. f \in [L -> T] /\ IsFiniteSet(T) /\ Cardinality(T) < Cardinality(L)
  BY <1>1, <1>3 DEF Closed
<1>5. \A m, n \in L : f[m] = f[n] => m = n
  OBVIOUS
<1> HIDE DEF f, T
<1>6. \E m, n \in L : m # n /\ f[m] = f[n]
  BY <1>2, <1>4, FS_PigeonHole
<1> QED
  BY <1>5, <1>6

-----------------------------------------------------------------------------
(* The steps of the model                                                  *)

\* The nodes of a list.
LEMMA ListedNodes ==
  ASSUME TypeOK, NEW i \in Ids
  PROVE  /\ Listed(i) \subseteq Nodes
         /\ Closed(Listed(i), m_next, {})
         /\ m_subscribers[i] \in Listed(i) \cup {Null}
  BY WalkClosed, WalkStart DEF TypeOK, Listed, Links

\* The node that an unsubscribe finds is in the list, and its connection's.
LEMMA FirstFound ==
  ASSUME TypeOK, NEW c \in Conns, id(c) \in Ids, FirstOf(c) # Null
  PROVE  FirstOf(c) \in Listed(id(c)) /\ m_connection[FirstOf(c)] = c
<1> DEFINE found == Walk(m_subscribers[id(c)], m_next, Own(c)) \cap Own(c)
<1>1. found # {} /\ FirstOf(c) = CHOOSE n \in found : TRUE
  BY DEF FirstOf
<1>2. FirstOf(c) \in found
  BY <1>1
<1> QED
  BY <1>2, WalkStops DEF Own, Listed, TypeOK, Links

\* Who is under way has a request, and writes to a connection.
LEMMA UnderWay ==
  ASSUME TypeInv, RequestInv, PlaceInv, NEW c \in Conns, pc[c] # "idle"
  PROVE  /\ req[c] \in Request /\ id(c) \in Ids
         /\ pc[c] \in MakeSteps \cup {"unsubscribe.free"} \cup VisitSteps =>
              subscr[c] \in 1..allocated /\ subscr[c] \in Nodes
         /\ subscr[c] # Null => subscr[c] \in 1..allocated /\ m_connection[subscr[c]] \in Conns
<1>1. req[c] \in Request /\ id(c) \in Ids
  BY DEF RequestInv, RequestOf, Request, id
<1>2. subscr[c] # Null => subscr[c] \in 1..allocated
  BY DEF RequestInv, RequestOf
<1>3. 1..allocated \subseteq Nodes /\ Null \notin 1..allocated
  BY NotifyAssumption DEF TypeInv, TypeOK, Nodes, Null
<1>4. subscr[c] # Null <=> pc[c] \in MakeSteps \cup {"unsubscribe.free"} \cup VisitSteps
  BY <1>3 DEF RequestInv, RequestOf
<1> QED
  BY <1>1, <1>2, <1>3, <1>4 DEF PlaceInv, NoneLost

\* Sequences of items or nodes, one for each connection.
LEMMA QueueTypes ==
  ASSUME NEW S, NEW q \in [Conns -> Seq(S)], NEW c \in Conns
  PROVE  /\ [q EXCEPT ![c] = <<>>] \in [Conns -> Seq(S)]
         /\ \A e \in S : [q EXCEPT ![c] = Append(@, e)] \in [Conns -> Seq(S)]
         /\ q[c] # <<>> => [q EXCEPT ![c] = Tail(@)] \in [Conns -> Seq(S)]
<1>1. q[c] \in Seq(S) /\ <<>> \in Seq(S)
  OBVIOUS
<1>2. \A e \in S : Append(q[c], e) \in Seq(S)
  BY <1>1
<1>3. q[c] # <<>> => Tail(q[c]) \in Seq(S)
  BY <1>1
<1> QED
  BY <1>1, <1>2, <1>3

\* The parts of a notification and the steps that write them.
LEMMA PartFacts ==
  /\ DOMAIN Parts = 1..4
  /\ \A k \in 1..4 : Parts[k] \in Kinds /\ NotifyParts[k] \in VisitSteps
  /\ \A j, k \in 1..4 : Parts[j] = Parts[k] \/ NotifyParts[j] = NotifyParts[k] => j = k
  /\ \A k \in 1..4 : NotifyParts[k] # "notify.next"
<1>1. DOMAIN Parts = 1..4
  BY DEF Parts
<1>2. \A k \in 1..4 : k = 1 \/ k = 2 \/ k = 3 \/ k = 4
  OBVIOUS
<1> QED
  BY <1>1, <1>2 DEF Parts, NotifyParts, Kinds, VisitSteps

\* A write sends its item, or the process ends, and the thread goes on or not.
LEMMA WriteTypes ==
  ASSUME TypeInv, NEW c \in Conns, NEW d \in Conns, NEW item \in [kind: Kinds],
         NEW step \in Steps, Write(c, d, item, step)
  PROVE  /\ down' \in [Conns -> Seq([kind: Kinds])] /\ pc' \in [Conns -> Steps]
         /\ closed' = closed /\ server' \in {"up", "killed", "wild"}
<1>1. [down EXCEPT ![d] = Append(down[d], item)] \in [Conns -> Seq([kind: Kinds])]
  BY QueueTypes DEF TypeInv
<1>2. [pc EXCEPT ![c] = step] \in [Conns -> Steps]
  BY DEF TypeInv
<1>3. /\ down' = [down EXCEPT ![d] = Append(down[d], item)] \/ down' = down
      /\ pc' = [pc EXCEPT ![c] = step] \/ pc' = pc
      /\ closed' = closed /\ (server' = server \/ server' = "killed")
  BY DEF Write, Goto, conns
<1> QED
  BY <1>1, <1>2, <1>3 DEF TypeInv, TypeOK

\* Every variable keeps its type.
LEMMA TypeStep == NotifyInv /\ [Next]_vars => TypeInv'
<1> SUFFICES ASSUME TypeInv, RequestInv, PlaceInv, [Next]_vars PROVE TypeInv'
  BY DEF NotifyInv
<1>1. ASSUME NEW c \in Conns, server = "up", SubscribeLock(c)
     PROVE  TypeInv'
  <2>1. id(c) \in Ids
    BY <1>1, UnderWay DEF SubscribeLock
  <2> QED
    BY <1>1, <2>1 DEF SubscribeLock, Acquire, Goto, TypeInv, TypeOK, Steps,
       MakeSteps, RemoveSteps, PushSteps, WalkSteps, VisitSteps, nodes,
       locks, conns, history
<1>2. ASSUME NEW c \in Conns, server = "up", SubscribeNext(c)
     PROVE  TypeInv'
  <2>1. id(c) \in Ids
    BY <1>2, UnderWay DEF SubscribeNext
  <2> QED
    BY <1>2, <2>1 DEF SubscribeNext, Goto, TypeInv, TypeOK, Steps, MakeSteps,
       RemoveSteps, PushSteps, WalkSteps, VisitSteps, nodes, locks, conns,
       history
<1>3. ASSUME NEW c \in Conns, server = "up", SubscribeLink(c)
     PROVE  TypeInv'
  <2>1. id(c) \in Ids
    BY <1>3, UnderWay DEF SubscribeLink
  <2> QED
    BY <1>3, <2>1 DEF SubscribeLink, Release, Goto, TypeInv, TypeOK, Steps,
       MakeSteps, RemoveSteps, PushSteps, WalkSteps, VisitSteps, nodes,
       locks, conns, history
<1>4. ASSUME NEW c \in Conns, server = "up", UnsubscribeLock(c)
     PROVE  TypeInv'
  <2>1. id(c) \in Ids
    BY <1>4, UnderWay DEF UnsubscribeLock
  <2> QED
    BY <1>4, <2>1 DEF UnsubscribeLock, Acquire, Goto, TypeInv, TypeOK, Steps,
       MakeSteps, RemoveSteps, PushSteps, WalkSteps, VisitSteps, nodes,
       locks, conns, history
<1>5. ASSUME NEW c \in Conns, server = "up", UnsubscribeUnlink(c)
     PROVE  TypeInv'
  <2>1. id(c) \in Ids
    BY <1>5, UnderWay DEF UnsubscribeUnlink
  <2>2. FirstOf(c) \in Nodes
    BY <1>5, <2>1, FirstFound, ListedNodes DEF UnsubscribeUnlink, TypeInv
  <2> QED
    BY ZenonT(60), <1>5, <2>1, <2>2 DEF UnsubscribeUnlink, Goto, TypeInv, TypeOK, Steps,
       MakeSteps, RemoveSteps, PushSteps, WalkSteps, VisitSteps, nodes,
       locks, conns, history
<1>6. ASSUME NEW c \in Conns, server = "up", UnsubscribeNone(c)
     PROVE  TypeInv'
  <2>1. id(c) \in Ids
    BY <1>6, UnderWay DEF UnsubscribeNone
  <2> QED
    BY <1>6, <2>1 DEF UnsubscribeNone, Release, Goto, TypeInv, TypeOK, Steps,
       MakeSteps, RemoveSteps, PushSteps, WalkSteps, VisitSteps, nodes,
       locks, conns, history
<1>7. ASSUME NEW c \in Conns, server = "up", UnsubscribeFree(c)
     PROVE  TypeInv'
  <2>1. id(c) \in Ids
    BY <1>7, UnderWay DEF UnsubscribeFree
  <2>2. subscr[c] \in Nodes
    BY <1>7, UnderWay, NullIsNoNode DEF UnsubscribeFree, RequestInv, RequestOf
  <2> QED
    BY <1>7, <2>1, <2>2 DEF UnsubscribeFree, Release, Goto, TypeInv, TypeOK,
       Steps, MakeSteps, RemoveSteps, PushSteps, WalkSteps, VisitSteps,
       nodes, locks, conns, history
<1>8. ASSUME NEW c \in Conns, server = "up", PushTick(c)
     PROVE  TypeInv'
  BY <1>8 DEF PushTick, Goto, TypeInv, TypeOK, Steps, MakeSteps,
     RemoveSteps, PushSteps, WalkSteps, VisitSteps, nodes, locks, conns,
     history
<1>9. ASSUME NEW c \in Conns, server = "up", WriteStatus(c)
     PROVE  TypeInv'
  <2>1. pc' \in [Conns -> Steps] /\ req' \in [Conns -> Request \cup {NoReq}]
    BY <1>9 DEF WriteStatus, Write, Goto, TypeInv, Steps, PushSteps
  <2>2. down' \in [Conns -> Seq([kind: Kinds])]
    <3>1. [kind |-> "status"] \in [kind: Kinds]
      BY DEF Kinds
    <3>2. [down EXCEPT ![c] = Append(down[c], [kind |-> "status"])] \in [Conns -> Seq([kind: Kinds])]
      BY <3>1, QueueTypes DEF TypeInv
    <3> QED
      BY <1>9, <3>2 DEF WriteStatus, Write, TypeInv, conns
  <2>3. TypeOK'
    BY <1>9 DEF WriteStatus, Write, Goto, TypeInv, TypeOK, nodes, locks, conns
  <2> QED
    BY <1>9, <2>1, <2>2, <2>3 DEF WriteStatus, TypeInv, nodes, locks, conns, history
<1>10. ASSUME NEW c \in Conns, server = "up", NotifyLock(c)
     PROVE  TypeInv'
  <2>1. id(c) \in Ids
    BY <1>10, UnderWay DEF NotifyLock
  <2> QED
    BY <1>10, <2>1 DEF NotifyLock, Acquire, Goto, TypeInv, TypeOK, Steps,
       MakeSteps, RemoveSteps, PushSteps, WalkSteps, VisitSteps, nodes,
       locks, conns, history
<1>11. ASSUME NEW c \in Conns, server = "up", NotifyHead(c)
     PROVE  TypeInv'
  <2>1. id(c) \in Ids
    BY <1>11, UnderWay DEF NotifyHead
  <2>2. Listed(id(c)) \subseteq Nodes
    BY <2>1, ListedNodes DEF TypeInv
  <2>3. visits' \in [Conns -> Seq(Nodes)]
    BY <1>11, QueueTypes DEF NotifyHead, TypeInv
  <2> QED
    BY <1>11, <2>1, <2>2, <2>3 DEF NotifyHead, Goto, NotifyStep, TypeInv,
       TypeOK, Steps, MakeSteps, RemoveSteps, PushSteps, WalkSteps,
       VisitSteps, nodes, locks, conns, history
<1>12. ASSUME NEW c \in Conns, server = "up", NotifyWrite(c)
     PROVE  TypeInv'
  <2> DEFINE to == m_connection[subscr[c]]
  <2>1. PICK k \in 1..4 :
          /\ pc[c] = NotifyParts[k]
          /\ Write(c, to, [kind |-> Parts[k]],
                   IF k = 4 THEN "notify.next" ELSE NotifyParts[k + 1])
          /\ sent' = [sent EXCEPT ![to][id(c)] =
                        IF k = 4 THEN NoItem ELSE [kind |-> Parts[k], by |-> c]]
          /\ UNCHANGED <<nodes, locks, req, subscr, client, due, visits>>
    BY <1>12, PartFacts DEF NotifyWrite
  <2>2. pc[c] \in VisitSteps
    BY <2>1 DEF NotifyParts, VisitSteps
  <2>3. id(c) \in Ids /\ to \in Conns
    BY <2>2, UnderWay, NullIsNoNode DEF VisitSteps, MakeSteps, RequestInv, RequestOf, Null
  <2>4. Parts[k] \in Kinds /\ (k # 4 => NotifyParts[k + 1] \in Steps)
    BY DEF Parts, NotifyParts, Kinds, Steps, PushSteps, WalkSteps, VisitSteps
  <2> HIDE DEF to
  <2>5. /\ sent' \in [Conns -> [Ids -> {NoItem} \cup [kind: Kinds, by: Conns]]]
        /\ UNCHANGED <<req, due, visits>>
    BY <2>1, <2>3, <2>4 DEF TypeInv
  <2>6. /\ down' \in [Conns -> Seq([kind: Kinds])] /\ pc' \in [Conns -> Steps]
        /\ closed' = closed /\ server' \in {"up", "killed", "wild"}
    <3>1. "notify.next" \in Steps
      BY DEF Steps, PushSteps, WalkSteps, VisitSteps
    <3>2. [kind |-> Parts[k]] \in [kind: Kinds]
      BY <2>4
    <3>3. (IF k = 4 THEN "notify.next" ELSE NotifyParts[k + 1]) \in Steps
      BY <2>4, <3>1
    <3> QED
      BY <2>1, <2>3, <3>2, <3>3, WriteTypes
  <2>7. TypeOK'
    BY <2>1, <2>6 DEF TypeInv, TypeOK, nodes, locks
  <2> QED
    BY <2>5, <2>6, <2>7 DEF TypeInv
<1>13. ASSUME NEW c \in Conns, server = "up", NotifyNext(c)
     PROVE  TypeInv'
  <2>1. subscr[c] \in Nodes
    BY <1>13, UnderWay, NullIsNoNode DEF NotifyNext, RequestInv, RequestOf, VisitSteps
  <2>2. visits' \in [Conns -> Seq(Nodes)]
    BY <1>13, <2>1, QueueTypes DEF NotifyNext, TypeInv
  <2>3. m_next[subscr[c]] \in {Null} \cup Nodes
    BY <2>1 DEF TypeInv, TypeOK
  <2> QED
    BY <1>13, <2>1, <2>2, <2>3 DEF NotifyNext, Goto, NotifyStep, TypeInv,
       TypeOK, Steps, MakeSteps, RemoveSteps, PushSteps, WalkSteps,
       VisitSteps, nodes, locks, conns, history
<1>14. ASSUME NEW c \in Conns, server = "up", NotifyWild(c)
     PROVE  TypeInv'
  BY <1>14 DEF NotifyWild, TypeInv, TypeOK, Steps, MakeSteps, RemoveSteps,
     PushSteps, WalkSteps, VisitSteps, nodes, locks, conns, history
<1>15. ASSUME NEW c \in Conns, server = "up", NotifyUnlock(c)
     PROVE  TypeInv'
  <2>1. id(c) \in Ids
    BY <1>15, UnderWay DEF NotifyUnlock
  <2>2. visits' \in [Conns -> Seq(Nodes)]
    BY <1>15, QueueTypes DEF NotifyUnlock, TypeInv
  <2> QED
    BY <1>15, <2>1, <2>2 DEF NotifyUnlock, Release, Goto, TypeInv, TypeOK,
       Steps, MakeSteps, RemoveSteps, PushSteps, WalkSteps, VisitSteps,
       nodes, locks, conns, history
<1>16. ASSUME NEW c \in Conns, server = "up", Wait(c)
     PROVE  TypeInv'
  BY <1>16 DEF Wait, ClientGoto, Listening, TypeInv, TypeOK, Steps, MakeSteps,
     RemoveSteps, PushSteps, WalkSteps, VisitSteps, nodes, locks, conns,
     history
<1>17. ASSUME NEW c \in Conns, server = "up", ClientRead(c)
     PROVE  TypeInv'
  <2>1. AfterRead(client[c], Head(down[c]).kind) \in Listening \cup {"idle", "lost", "closed"}
    BY DEF AfterRead, Listening
  <2>2. down' \in [Conns -> Seq([kind: Kinds])]
    BY <1>17, QueueTypes DEF ClientRead, TypeInv
  <2> QED
    BY <1>17, <2>1, <2>2 DEF ClientRead, ClientGoto, TypeInv, TypeOK, nodes, locks, history
<1>18. ASSUME NEW c \in Conns, server = "up", CloseConnection(c)
     PROVE  TypeInv'
  <2>1. down' \in [Conns -> Seq([kind: Kinds])]
    BY <1>18, QueueTypes DEF CloseConnection, TypeInv
  <2> QED
    BY <1>18, <2>1 DEF CloseConnection, ClientGoto, TypeInv, TypeOK, Steps,
       MakeSteps, RemoveSteps, PushSteps, WalkSteps, VisitSteps, nodes,
       locks, conns, history
<1>19. ASSUME NEW c \in Conns, NEW r \in Requests(c), server = "up", Ask(c, r)
     PROVE  TypeInv'
  <2>1. r \in Request
    BY DEF Requests, Request
  <2>2. r.op \in Steps
    BY <2>1 DEF Request, Steps, MakeSteps, RemoveSteps, PushSteps
  <2>3. pc' \in [Conns -> Steps] /\ req' \in [Conns -> Request \cup {NoReq}]
    BY <1>19, <2>1, <2>2 DEF Ask, Goto, TypeInv
  <2>4. r.op = "subscribe" => allocated + 1 \in Nodes
    BY <1>19, NotifyAssumption DEF Ask, TypeInv, TypeOK, Nodes
  <2>5. TypeOK'
    <3>1. CASE r.op = "subscribe"
      <4>1. allocated' = allocated + 1 /\ allocated' \in 0..MaxNodes
        BY <1>19, <3>1, NotifyAssumption DEF Ask, TypeInv, TypeOK
      <4>2. m_connection' \in [Nodes -> Conns \cup {NoOne}]
        BY <1>19, <2>4, <3>1 DEF Ask, TypeInv, TypeOK
      <4>3. subscr' \in [Conns -> {Null} \cup Nodes]
        BY <1>19, <2>4, <3>1 DEF Ask, TypeInv, TypeOK
      <4> QED
        BY <1>19, <4>1, <4>2, <4>3 DEF Ask, ClientGoto, TypeInv, TypeOK, locks,
           conns, Listening
    <3>2. CASE r.op # "subscribe"
      BY <1>19, <3>2 DEF Ask, ClientGoto, TypeInv, TypeOK, locks, conns, Listening
    <3> QED BY <3>1, <3>2
  <2> QED
    BY <1>19, <2>3, <2>5 DEF Ask, TypeInv, conns, history
<1>20. CASE UNCHANGED vars
  BY <1>20 DEF vars, TypeInv, TypeOK, Steps, MakeSteps, RemoveSteps,
     PushSteps, WalkSteps, VisitSteps, nodes, locks, conns, history
<1> QED
  BY <1>1, <1>2, <1>3, <1>4, <1>5, <1>6, <1>7, <1>8, <1>9, <1>10, <1>11,
     <1>12, <1>13, <1>14, <1>15, <1>16, <1>17, <1>18, <1>19, <1>20 DEF Next,
     Thread

\* What a link or the head of a list leads to has been linked.
LEMMA LedTo ==
  ASSUME TypeInv, LinkInv
  PROVE  /\ \A n \in Nodes : m_next[n] # Null => m_next[n] \in 1..allocated /\ ~Unlinked(m_next[n])
         /\ \A i \in Ids : m_subscribers[i] # Null =>
              m_subscribers[i] \in 1..allocated /\ ~Unlinked(m_subscribers[i])
<1>1. \A n \in Nodes : n \in Nat /\ n >= 1 /\ (n \notin 1..allocated => n > allocated)
  BY NotifyAssumption DEF Nodes, TypeInv, TypeOK
<1> QED
  BY <1>1 DEF TypeInv, TypeOK, LinkInv, NotYetLinked, Unlinked

\* Requests, control points and the nodes in hand stay in agreement.
LEMMA RequestStep == NotifyInv /\ [Next]_vars => RequestInv'
<1> SUFFICES ASSUME TypeInv, RequestInv, LinkInv, PlaceInv, [Next]_vars PROVE RequestInv'
  BY DEF NotifyInv
<1>1. ASSUME NEW c \in Conns, server = "up", SubscribeLock(c)
     PROVE  RequestInv'
  BY <1>1 DEF SubscribeLock, Acquire, Goto, RequestInv, RequestOf, TypeInv,
     TypeOK, MakeSteps, RemoveSteps, PushSteps, WalkSteps, VisitSteps,
     nodes, locks, conns, history
<1>2. ASSUME NEW c \in Conns, server = "up", SubscribeNext(c)
     PROVE  RequestInv'
  BY <1>2 DEF SubscribeNext, Goto, RequestInv, RequestOf, TypeInv, TypeOK,
     MakeSteps, RemoveSteps, PushSteps, WalkSteps, VisitSteps, nodes, locks,
     conns, history
<1>3. ASSUME NEW c \in Conns, server = "up", SubscribeLink(c)
     PROVE  RequestInv'
  BY <1>3 DEF SubscribeLink, Release, Goto, RequestInv, RequestOf, TypeInv,
     TypeOK, MakeSteps, RemoveSteps, PushSteps, WalkSteps, VisitSteps,
     nodes, locks, conns, history
<1>4. ASSUME NEW c \in Conns, server = "up", UnsubscribeLock(c)
     PROVE  RequestInv'
  BY <1>4 DEF UnsubscribeLock, Acquire, Goto, RequestInv, RequestOf,
     TypeInv, TypeOK, MakeSteps, RemoveSteps, PushSteps, WalkSteps,
     VisitSteps, nodes, locks, conns, history
<1>5. ASSUME NEW c \in Conns, server = "up", UnsubscribeUnlink(c)
     PROVE  RequestInv'
  <2>1. FirstOf(c) \in 1..allocated
    BY <1>5, UnderWay, FirstFound DEF UnsubscribeUnlink, PlaceInv, InOneList, TypeInv
  <2> QED
    BY <1>5, <2>1 DEF UnsubscribeUnlink, Goto, RequestInv, RequestOf, TypeInv,
       TypeOK, MakeSteps, RemoveSteps, PushSteps, WalkSteps, VisitSteps,
       nodes, locks, conns, history
<1>6. ASSUME NEW c \in Conns, server = "up", UnsubscribeNone(c)
     PROVE  RequestInv'
  BY <1>6 DEF UnsubscribeNone, Release, Goto, RequestInv, RequestOf,
     TypeInv, TypeOK, MakeSteps, RemoveSteps, PushSteps, WalkSteps,
     VisitSteps, nodes, locks, conns, history
<1>7. ASSUME NEW c \in Conns, server = "up", UnsubscribeFree(c)
     PROVE  RequestInv'
  BY <1>7 DEF UnsubscribeFree, Release, Goto, RequestInv, RequestOf,
     TypeInv, TypeOK, MakeSteps, RemoveSteps, PushSteps, WalkSteps,
     VisitSteps, nodes, locks, conns, history
<1>8. ASSUME NEW c \in Conns, server = "up", PushTick(c)
     PROVE  RequestInv'
  BY <1>8 DEF PushTick, Goto, RequestInv, RequestOf, TypeInv, TypeOK,
     MakeSteps, RemoveSteps, PushSteps, WalkSteps, VisitSteps, nodes, locks,
     conns, history
<1>9. ASSUME NEW c \in Conns, server = "up", WriteStatus(c)
     PROVE  RequestInv'
  <2>1. /\ pc' = pc /\ req' = req
        \/ /\ pc' = [pc EXCEPT ![c] = IF req[c].op = "push" THEN "notify" ELSE "idle"]
           /\ req' = IF pc'[c] = "idle" THEN [req EXCEPT ![c] = NoReq] ELSE req
    BY <1>9 DEF WriteStatus, Write, Goto, TypeInv
  <2> QED
    BY <1>9, <2>1 DEF WriteStatus, RequestInv, RequestOf, TypeInv, TypeOK,
       MakeSteps, RemoveSteps, PushSteps, WalkSteps, VisitSteps, nodes,
       locks, conns, history
<1>10. ASSUME NEW c \in Conns, server = "up", NotifyLock(c)
     PROVE  RequestInv'
  BY <1>10 DEF NotifyLock, Acquire, Goto, RequestInv, RequestOf, TypeInv,
     TypeOK, MakeSteps, RemoveSteps, PushSteps, WalkSteps, VisitSteps,
     nodes, locks, conns, history
<1>11. ASSUME NEW c \in Conns, server = "up", NotifyHead(c)
     PROVE  RequestInv'
  <2>1. m_subscribers[id(c)] = Null \/ m_subscribers[id(c)] \in 1..allocated
    BY <1>11, UnderWay, LedTo DEF NotifyHead
  <2> QED
    BY <1>11, <2>1 DEF NotifyHead, Goto, NotifyStep, RequestInv, RequestOf,
       TypeInv, TypeOK, MakeSteps, RemoveSteps, PushSteps, WalkSteps,
       VisitSteps, nodes, locks, conns, history
<1>12. ASSUME NEW c \in Conns, server = "up", NotifyWrite(c)
     PROVE  RequestInv'
  <2>1. PICK k, step, item, to :
          /\ k \in 1..4 /\ step \in VisitSteps
          /\ pc[c] = NotifyParts[k]
          /\ Write(c, to, item, step)
          /\ UNCHANGED <<nodes, req, subscr>>
    BY <1>12, PartFacts DEF NotifyWrite, VisitSteps
  <2>2. pc[c] \in VisitSteps /\ (pc' = pc \/ pc' = [pc EXCEPT ![c] = step])
    BY <2>1, PartFacts DEF Write, Goto
  <2> QED
    BY <2>1, <2>2 DEF RequestInv, RequestOf, TypeInv, TypeOK, MakeSteps,
       RemoveSteps, PushSteps, WalkSteps, VisitSteps, nodes, locks, conns,
       history
<1>13. ASSUME NEW c \in Conns, server = "up", NotifyNext(c)
     PROVE  RequestInv'
  <2>1. subscr[c] \in Nodes
    BY <1>13, UnderWay DEF NotifyNext, VisitSteps
  <2>2. m_next[subscr[c]] = Null \/ m_next[subscr[c]] \in 1..allocated
    BY <2>1, LedTo
  <2> QED
    BY <1>13, <2>2 DEF NotifyNext, Goto, NotifyStep, RequestInv, RequestOf,
       TypeInv, TypeOK, MakeSteps, RemoveSteps, PushSteps, WalkSteps,
       VisitSteps, nodes, locks, conns, history
<1>14. ASSUME NEW c \in Conns, server = "up", NotifyWild(c)
     PROVE  RequestInv'
  BY <1>14 DEF NotifyWild, RequestInv, RequestOf, TypeInv, TypeOK,
     MakeSteps, RemoveSteps, PushSteps, WalkSteps, VisitSteps, nodes, locks,
     conns, history
<1>15. ASSUME NEW c \in Conns, server = "up", NotifyUnlock(c)
     PROVE  RequestInv'
  BY <1>15 DEF NotifyUnlock, Release, Goto, RequestInv, RequestOf, TypeInv,
     TypeOK, MakeSteps, RemoveSteps, PushSteps, WalkSteps, VisitSteps,
     nodes, locks, conns, history
<1>16. ASSUME NEW c \in Conns, server = "up", Wait(c)
     PROVE  RequestInv'
  BY <1>16 DEF Wait, ClientGoto, RequestInv, RequestOf, TypeInv, TypeOK,
     MakeSteps, RemoveSteps, PushSteps, WalkSteps, VisitSteps, nodes, locks,
     conns, history
<1>17. ASSUME NEW c \in Conns, server = "up", ClientRead(c)
     PROVE  RequestInv'
  BY <1>17 DEF ClientRead, ClientGoto, RequestInv, RequestOf, TypeInv,
     TypeOK, MakeSteps, RemoveSteps, PushSteps, WalkSteps, VisitSteps,
     nodes, locks, conns, history
<1>18. ASSUME NEW c \in Conns, server = "up", CloseConnection(c)
     PROVE  RequestInv'
  BY <1>18 DEF CloseConnection, ClientGoto, RequestInv, RequestOf, TypeInv,
     TypeOK, MakeSteps, RemoveSteps, PushSteps, WalkSteps, VisitSteps,
     nodes, locks, conns, history
<1>19. ASSUME NEW c \in Conns, NEW r \in Requests(c), server = "up", Ask(c, r)
     PROVE  RequestInv'
  <2>1. r \in Request
    BY DEF Requests, Request
  <2>2. r.op = "subscribe" => allocated + 1 \in 1..allocated'
    BY <1>19, NotifyAssumption DEF Ask, TypeInv, TypeOK
  <2>3. 1..allocated \subseteq 1..allocated'
    BY <1>19, NotifyAssumption DEF Ask, TypeInv, TypeOK
  <2> QED
    BY <1>19, <2>1, <2>2, <2>3 DEF Ask, Goto, ClientGoto, Request, RequestInv,
       RequestOf, TypeInv, TypeOK, MakeSteps, RemoveSteps, PushSteps,
       WalkSteps, VisitSteps, nodes, locks, conns, history
<1>20. CASE UNCHANGED vars
  BY <1>20 DEF vars, RequestInv, RequestOf, TypeInv, TypeOK, MakeSteps,
     RemoveSteps, PushSteps, WalkSteps, VisitSteps, nodes, locks, conns,
     history
<1> QED
  BY <1>1, <1>2, <1>3, <1>4, <1>5, <1>6, <1>7, <1>8, <1>9, <1>10, <1>11,
     <1>12, <1>13, <1>14, <1>15, <1>16, <1>17, <1>18, <1>19, <1>20 DEF Next,
     Thread

\* Locks and control points stay in agreement.
LEMMA LockStep == NotifyInv /\ [Next]_vars => LockInv'
<1> SUFFICES ASSUME TypeInv, RequestInv, PlaceInv, LockInv, [Next]_vars PROVE LockInv'
  BY DEF NotifyInv
<1>1. ASSUME NEW c \in Conns, server = "up", SubscribeLock(c)
     PROVE  LockInv'
  <2>1. id(c) \in Ids /\ NoOne \notin Conns
    BY <1>1, UnderWay, NotifyAssumption DEF SubscribeLock, Conns
  <2> QED
    BY <1>1, <2>1 DEF SubscribeLock, Acquire, Goto, LockInv, TickHolds,
       TypeInv, TypeOK, id, WalkSteps, VisitSteps, nodes, locks, conns,
       history
<1>2. ASSUME NEW c \in Conns, server = "up", SubscribeNext(c)
     PROVE  LockInv'
  BY <1>2 DEF SubscribeNext, Goto, LockInv, TickHolds, TypeInv, TypeOK, id,
     WalkSteps, VisitSteps, nodes, locks, conns, history
<1>3. ASSUME NEW c \in Conns, server = "up", SubscribeLink(c)
     PROVE  LockInv'
  <2>1. id(c) \in Ids /\ NoOne \notin Conns
    BY <1>3, UnderWay, NotifyAssumption DEF SubscribeLink, Conns
  <2> QED
    BY <1>3, <2>1 DEF SubscribeLink, Release, Goto, LockInv, TickHolds,
       TypeInv, TypeOK, id, WalkSteps, VisitSteps, nodes, locks, conns,
       history
<1>4. ASSUME NEW c \in Conns, server = "up", UnsubscribeLock(c)
     PROVE  LockInv'
  <2>1. id(c) \in Ids /\ NoOne \notin Conns
    BY <1>4, UnderWay, NotifyAssumption DEF UnsubscribeLock, Conns
  <2> QED
    BY <1>4, <2>1 DEF UnsubscribeLock, Acquire, Goto, LockInv, TickHolds,
       TypeInv, TypeOK, id, WalkSteps, VisitSteps, nodes, locks, conns,
       history
<1>5. ASSUME NEW c \in Conns, server = "up", UnsubscribeUnlink(c)
     PROVE  LockInv'
  BY <1>5 DEF UnsubscribeUnlink, Goto, LockInv, TickHolds, TypeInv, TypeOK,
     id, WalkSteps, VisitSteps, nodes, locks, conns, history
<1>6. ASSUME NEW c \in Conns, server = "up", UnsubscribeNone(c)
     PROVE  LockInv'
  <2>1. id(c) \in Ids /\ NoOne \notin Conns
    BY <1>6, UnderWay, NotifyAssumption DEF UnsubscribeNone, Conns
  <2> QED
    BY <1>6, <2>1 DEF UnsubscribeNone, Release, Goto, LockInv, TickHolds,
       TypeInv, TypeOK, id, WalkSteps, VisitSteps, nodes, locks, conns,
       history
<1>7. ASSUME NEW c \in Conns, server = "up", UnsubscribeFree(c)
     PROVE  LockInv'
  <2>1. id(c) \in Ids /\ NoOne \notin Conns
    BY <1>7, UnderWay, NotifyAssumption DEF UnsubscribeFree, Conns
  <2> QED
    BY <1>7, <2>1 DEF UnsubscribeFree, Release, Goto, LockInv, TickHolds,
       TypeInv, TypeOK, id, WalkSteps, VisitSteps, nodes, locks, conns,
       history
<1>8. ASSUME NEW c \in Conns, server = "up", PushTick(c)
     PROVE  LockInv'
  BY <1>8 DEF PushTick, Goto, LockInv, TickHolds, TypeInv, TypeOK, id,
     WalkSteps, VisitSteps, nodes, locks, conns, history
<1>9. ASSUME NEW c \in Conns, server = "up", WriteStatus(c)
     PROVE  LockInv'
  <2>1. /\ pc' = pc /\ req' = req
        \/ /\ pc' = [pc EXCEPT ![c] = IF req[c].op = "push" THEN "notify" ELSE "idle"]
           /\ req' = IF pc'[c] = "idle" THEN [req EXCEPT ![c] = NoReq] ELSE req
    BY <1>9 DEF WriteStatus, Write, Goto, TypeInv
  <2> QED
    BY <1>9, <2>1 DEF WriteStatus, LockInv, TickHolds, TypeInv, TypeOK, id,
       WalkSteps, VisitSteps, nodes, locks, conns, history
<1>10. ASSUME NEW c \in Conns, server = "up", NotifyLock(c)
     PROVE  LockInv'
  <2>1. id(c) \in Ids /\ NoOne \notin Conns
    BY <1>10, UnderWay, NotifyAssumption DEF NotifyLock, Conns
  <2> QED
    BY <1>10, <2>1 DEF NotifyLock, Acquire, Goto, LockInv, TickHolds, TypeInv,
       TypeOK, id, WalkSteps, VisitSteps, nodes, locks, conns, history
<1>11. ASSUME NEW c \in Conns, server = "up", NotifyHead(c)
     PROVE  LockInv'
  BY <1>11 DEF NotifyHead, Goto, NotifyStep, LockInv, TickHolds, TypeInv,
     TypeOK, id, WalkSteps, VisitSteps, nodes, locks, conns, history
<1>12. ASSUME NEW c \in Conns, server = "up", NotifyWrite(c)
     PROVE  LockInv'
  <2>1. PICK k, step, item, to :
          /\ k \in 1..4 /\ step \in VisitSteps
          /\ pc[c] = NotifyParts[k]
          /\ Write(c, to, item, step)
          /\ UNCHANGED <<req, locks>>
    BY <1>12, PartFacts DEF NotifyWrite, VisitSteps
  <2>2. pc[c] \in VisitSteps /\ (pc' = pc \/ pc' = [pc EXCEPT ![c] = step])
    BY <2>1, PartFacts DEF Write, Goto
  <2> QED
    BY <2>1, <2>2 DEF LockInv, TickHolds, TypeInv, TypeOK, id, WalkSteps,
       VisitSteps, nodes, locks, conns, history
<1>13. ASSUME NEW c \in Conns, server = "up", NotifyNext(c)
     PROVE  LockInv'
  BY <1>13 DEF NotifyNext, Goto, NotifyStep, LockInv, TickHolds, TypeInv,
     TypeOK, id, WalkSteps, VisitSteps, nodes, locks, conns, history
<1>14. ASSUME NEW c \in Conns, server = "up", NotifyWild(c)
     PROVE  LockInv'
  BY <1>14 DEF NotifyWild, LockInv, TickHolds, TypeInv, TypeOK, id,
     WalkSteps, VisitSteps, nodes, locks, conns, history
<1>15. ASSUME NEW c \in Conns, server = "up", NotifyUnlock(c)
     PROVE  LockInv'
  <2>1. id(c) \in Ids /\ NoOne \notin Conns
    BY <1>15, UnderWay, NotifyAssumption DEF NotifyUnlock, Conns
  <2> QED
    BY <1>15, <2>1 DEF NotifyUnlock, Release, Goto, LockInv, TickHolds, TypeInv,
       TypeOK, id, WalkSteps, VisitSteps, nodes, locks, conns, history
<1>16. ASSUME NEW c \in Conns, server = "up", Wait(c)
     PROVE  LockInv'
  BY <1>16 DEF Wait, ClientGoto, LockInv, TickHolds, TypeInv, TypeOK, id,
     WalkSteps, VisitSteps, nodes, locks, conns, history
<1>17. ASSUME NEW c \in Conns, server = "up", ClientRead(c)
     PROVE  LockInv'
  BY <1>17 DEF ClientRead, ClientGoto, LockInv, TickHolds, TypeInv, TypeOK,
     id, WalkSteps, VisitSteps, nodes, locks, conns, history
<1>18. ASSUME NEW c \in Conns, server = "up", CloseConnection(c)
     PROVE  LockInv'
  BY <1>18 DEF CloseConnection, ClientGoto, LockInv, TickHolds, TypeInv,
     TypeOK, id, WalkSteps, VisitSteps, nodes, locks, conns, history
<1>19. ASSUME NEW c \in Conns, NEW r \in Requests(c), server = "up", Ask(c, r)
     PROVE  LockInv'
  <2>1. r.op \in {"subscribe", "unsubscribe", "push"}
    BY DEF Requests
  <2> QED
    BY <1>19, <2>1 DEF Ask, Goto, ClientGoto, LockInv, TickHolds, TypeInv,
       TypeOK, id, WalkSteps, VisitSteps, nodes, locks, conns, history
<1>20. CASE UNCHANGED vars
  BY <1>20 DEF vars, LockInv, TickHolds, TypeInv, TypeOK, id, WalkSteps,
     VisitSteps, nodes, locks, conns, history
<1> QED
  BY <1>1, <1>2, <1>3, <1>4, <1>5, <1>6, <1>7, <1>8, <1>9, <1>10, <1>11,
     <1>12, <1>13, <1>14, <1>15, <1>16, <1>17, <1>18, <1>19, <1>20 DEF Next,
     Thread

-----------------------------------------------------------------------------
(* What the steps that change links do to the walks                        *)

\* A new node that is given its link: no walk that begins elsewhere changes.
LEMMA SubscribeNextWalks ==
  ASSUME TypeInv, RequestInv, LinkInv, PlaceInv, NEW c \in Conns, SubscribeNext(c)
  PROVE  /\ subscr[c] \in Nodes /\ Unlinked(subscr[c]) /\ id(c) \in Ids /\ m_next' \in Links
         /\ \A n \in Nodes \cup {Null} : n # subscr[c] =>
              /\ subscr[c] \notin Walk(n, m_next, {})
              /\ Walk(n, m_next', {}) = Walk(n, m_next, {})
         /\ \A i \in Ids : /\ Listed(i)' = Listed(i)
                           /\ m_subscribers[i] # subscr[c]
                           /\ subscr[c] \notin Listed(i)
<1> DEFINE s == subscr[c]
<1>1. s \in Nodes /\ id(c) \in Ids /\ Unlinked(s)
  BY UnderWay DEF SubscribeNext, MakeSteps, Unlinked, Making
<1>2. m_next \in Links /\ \A i \in Ids : m_subscribers[i] \in Nodes \cup {Null}
  BY DEF TypeInv, TypeOK, Links
<1>3. m_next' = [m_next EXCEPT ![s] = m_subscribers[id(c)]] /\ m_subscribers' = m_subscribers
  BY DEF SubscribeNext
<1>4. /\ \A m \in Nodes : m_next[m] # s
      /\ \A i \in Ids : m_subscribers[i] # s
  BY <1>1 DEF LinkInv, NotYetLinked
<1>5. m_next' \in Links
  BY <1>1, <1>2, <1>3 DEF Links
<1>0. \A m \in Nodes \ {s} : m_next'[m] = m_next[m]
  BY <1>1, <1>2, <1>3 DEF Links
<1> HIDE DEF s
<1>6. ASSUME NEW n \in Nodes \cup {Null}, n # s
      PROVE  s \notin Walk(n, m_next, {}) /\ Walk(n, m_next', {}) = Walk(n, m_next, {})
  BY <1>0, <1>1, <1>2, <1>4, <1>5, <1>6, WalkFresh
<1>7. \A i \in Ids : Listed(i)' = Listed(i) /\ s \notin Listed(i)
  BY <1>2, <1>3, <1>4, <1>6 DEF Listed
<1> QED
  BY <1>1, <1>4, <1>5, <1>6, <1>7 DEF s

\* A new node that becomes the head of its list.
LEMMA SubscribeLinkWalks ==
  ASSUME TypeInv, RequestInv, LinkInv, PlaceInv, NEW c \in Conns, SubscribeLink(c)
  PROVE  /\ subscr[c] \in Nodes /\ id(c) \in Ids /\ m_next' = m_next
         /\ m_next[subscr[c]] = m_subscribers[id(c)]
         /\ m_subscribers' = [m_subscribers EXCEPT ![id(c)] = subscr[c]]
         /\ \A i \in Ids : Listed(i)' = IF i = id(c) THEN {subscr[c]} \cup Listed(i)
                                                  ELSE Listed(i)
<1>1. subscr[c] \in Nodes /\ id(c) \in Ids /\ m_next \in Links
  BY UnderWay DEF SubscribeLink, MakeSteps, TypeInv, TypeOK, Links
<1>2. m_next[subscr[c]] = m_subscribers[id(c)]
  BY DEF LinkInv, ReadyToLink, SubscribeLink
<1>3. m_next' = m_next /\ m_subscribers' = [m_subscribers EXCEPT ![id(c)] = subscr[c]]
  BY DEF SubscribeLink
<1>4. \A i \in Ids : m_subscribers'[i] = IF i = id(c) THEN subscr[c] ELSE m_subscribers[i]
  BY <1>1, <1>3 DEF TypeInv, TypeOK
<1>5. \A i \in Ids : Listed(i)' = Walk(m_subscribers'[i], m_next, {})
  BY <1>3 DEF Listed
<1>6. Walk(subscr[c], m_next, {}) = {subscr[c]} \cup Walk(m_next[subscr[c]], m_next, {})
  BY <1>1, WalkStep
<1> QED
  BY <1>1, <1>2, <1>3, <1>4, <1>5, <1>6 DEF Listed

\* A node that is taken out of its list: every walk goes on as before without it.
LEMMA UnlinkWalks ==
  ASSUME TypeInv, RequestInv, LinkInv, PlaceInv, NEW c \in Conns, UnsubscribeUnlink(c)
  PROVE  LET n == FirstOf(c)
         IN  /\ id(c) \in Ids /\ n \in Listed(id(c)) /\ n \in Nodes /\ m_next' \in Links
             /\ \A x \in Nodes \cup {Null} :
                  /\ Walk(x, m_next', {}) \subseteq Walk(x, m_next, {})
                  /\ Walk(x, m_next, {}) \ {n} \subseteq Walk(x, m_next', {})
             /\ \A i \in Ids : /\ Listed(i)' = Listed(i) \ {n}
                               /\ i # id(c) => /\ n \notin Listed(i)
                                               /\ m_subscribers'[i] = m_subscribers[i]
                               /\ m_subscribers'[i] \in {m_subscribers[i], m_next[n]}
             /\ \A p \in Nodes :
                  \/ m_next'[p] = m_next[p]
                  \/ p \in Listed(id(c)) /\ m_next[p] = n /\ m_next'[p] = m_next[n]
<1> DEFINE n == FirstOf(c)
<1>1. id(c) \in Ids /\ n # Null
  BY UnderWay DEF UnsubscribeUnlink
<1>0. PICK i \in Ids : i = id(c)
  BY <1>1
<1> DEFINE h == m_subscribers[i]
           L == Walk(h, m_next, {})
<1>2. n \in L /\ L \subseteq Nodes /\ L = Listed(i)
  BY <1>1, <1>0, FirstFound, ListedNodes DEF TypeInv, Listed
<1>3. m_next \in Links /\ \A j \in Ids : m_subscribers[j] \in Nodes \cup {Null}
  BY DEF TypeInv, TypeOK, Links
<1>4. h \in Nodes /\ h \in L
  BY <1>1, <1>2, <1>3, WalkNull, WalkStart
<1>5. n \notin Walk(m_next[n], m_next, {})
  BY <1>2 DEF LinkInv, NoCircle
<1>6. \A j \in Ids : Listed(j)' = Walk(m_subscribers'[j], m_next', {})
  BY DEF Listed
<1>7. \A j \in Ids : j # i => Listed(j) \cap L = {}
  BY <1>2 DEF PlaceInv, InOneList
<1>8. CASE n = h
  <2>1. m_next' = m_next /\ m_subscribers' = [m_subscribers EXCEPT ![i] = m_next[n]]
    BY <1>0, <1>8 DEF UnsubscribeUnlink
  <2>2. Walk(n, m_next, {}) = {n} \cup Walk(m_next[n], m_next, {})
    BY <1>2, <1>3, WalkStep
  <2>3. m_subscribers'[i] = m_next[n] /\ \A j \in Ids : j # i => m_subscribers'[j] = m_subscribers[j]
    BY <1>1, <2>1 DEF TypeInv, TypeOK
  <2>4. Listed(i)' = L \ {n}
    BY <1>1, <1>2, <1>5, <1>6, <1>8, <2>1, <2>2, <2>3
  <2>5. \A j \in Ids : j # i => Listed(j)' = Listed(j)
    BY <1>6, <2>1, <2>3 DEF Listed
  <2> QED
    BY <1>0, <1>2, <1>3, <1>7, <2>1, <2>3, <2>4, <2>5
<1>9. CASE n # h
  <2>1. m_next' = Without(n, m_next, L) /\ m_subscribers' = m_subscribers
    BY <1>0, <1>2, <1>9 DEF UnsubscribeUnlink, Without
  <2>2. m_next' \in Links
    BY <1>2, <1>3, <2>1, WalkWithout
  <2>3. \A x \in Nodes \cup {Null} :
          /\ Walk(x, m_next', {}) \subseteq Walk(x, m_next, {})
          /\ Walk(x, m_next, {}) \ {n} \subseteq Walk(x, m_next', {})
    BY <1>2, <1>3, <2>1, WalkWithout
  <2>4. \A p \in Nodes :
          \/ m_next'[p] = m_next[p]
          \/ p \in L /\ m_next[p] = n /\ m_next'[p] = m_next[n]
    BY <2>1 DEF Without
  <2>5. Closed(L \ {n}, m_next', {})
    <3>1. Closed(L, m_next, {})
      BY <1>2, <1>3, WalkClosed
    <3>2. m_next[n] # n
      BY <1>2, <1>5, WalkStart
    <3> QED
      BY <1>2, <2>1, <3>1, <3>2 DEF Closed, Without
  <2>6. Walk(h, m_next', {}) \subseteq L \ {n}
    BY <1>2, <1>4, <1>9, <2>5, WalkLeast
  <2>7. Listed(i)' = L \ {n}
    BY <1>1, <1>2, <1>3, <1>6, <2>1, <2>3, <2>6
  <2>8. ASSUME NEW j \in Ids, j # i
        PROVE  Listed(j)' = Listed(j)
    <3>1. \A m \in Walk(m_subscribers[j], m_next, {}) : m_next'[m] = m_next[m]
      BY <1>2, <1>3, <1>7, <2>4, <2>8, WalkClosed DEF Listed
    <3>2. Walk(m_subscribers[j], m_next', {}) = Walk(m_subscribers[j], m_next, {})
      BY <1>3, <2>2, <3>1, WalkSame
    <3> QED
      BY <2>1, <3>2 DEF Listed
  <2> QED
    BY <1>0, <1>2, <1>7, <2>1, <2>2, <2>3, <2>4, <2>7, <2>8
<1> QED
  BY <1>8, <1>9

-----------------------------------------------------------------------------
(* Links and places                                                        *)

\* The links stay as they should be while no link changes, no new node begins to
\* be in the hands of a thread but a fresh one, and none gets its link.
LEMMA LinksKept ==
  ASSUME LinkInv, m_next' = m_next, m_subscribers' = m_subscribers,
         \A n \in Nodes : Unlinked(n)' => Unlinked(n),
         \A c \in Conns : pc'[c] = "subscribe.link" =>
           pc[c] = "subscribe.link" /\ subscr'[c] = subscr[c] /\ req'[c] = req[c]
  PROVE  LinkInv'
<1>1. \A i \in Ids : Listed(i)' = Listed(i)
  BY DEF Listed
<1>2. NoCircle' /\ NoFork'
  BY <1>1 DEF LinkInv, NoCircle, NoFork
<1>3. NotYetLinked'
  BY DEF LinkInv, NotYetLinked
<1>4. ReadyToLink'
  BY DEF LinkInv, ReadyToLink, id
<1> QED
  BY <1>2, <1>3, <1>4 DEF LinkInv

\* No step makes a circle or a fork, or links to a node that is not linked yet.
LEMMA LinkStep == NotifyInv /\ [Next]_vars => LinkInv'
<1> SUFFICES ASSUME TypeInv, RequestInv, LockInv, LinkInv, PlaceInv, [Next]_vars PROVE LinkInv'
  BY DEF NotifyInv
<1>1. ASSUME NEW c \in Conns, server = "up", SubscribeLock(c)
     PROVE  LinkInv'
  <2>1. m_next' = m_next /\ m_subscribers' = m_subscribers
    BY <1>1 DEF SubscribeLock, nodes
  <2>2. \A n \in Nodes : Unlinked(n)' => Unlinked(n)
    BY <1>1 DEF SubscribeLock, Acquire, Goto, Unlinked, Making, MakeSteps,
       TypeInv, TypeOK, nodes, locks, conns, history
  <2>3. \A d \in Conns : pc'[d] = "subscribe.link" =>
         pc[d] = "subscribe.link" /\ subscr'[d] = subscr[d] /\ req'[d] = req[d]
    BY <1>1 DEF SubscribeLock, Acquire, Goto, Unlinked, Making, MakeSteps,
       TypeInv, TypeOK, nodes, locks, conns, history
  <2> QED
    BY <2>1, <2>2, <2>3, LinksKept
<1>2. ASSUME NEW c \in Conns, server = "up", SubscribeNext(c)
     PROVE  LinkInv'
  <2> DEFINE s == subscr[c]
  <2>1. /\ s \in Nodes /\ Unlinked(s) /\ id(c) \in Ids
        /\ \A n \in Nodes \cup {Null} : n # s =>
             s \notin Walk(n, m_next, {}) /\ Walk(n, m_next', {}) = Walk(n, m_next, {})
        /\ \A i \in Ids : /\ Listed(i)' = Listed(i)
                          /\ m_subscribers[i] # s /\ s \notin Listed(i)
    BY <1>2, SubscribeNextWalks
  <2>2. /\ m_next' = [m_next EXCEPT ![s] = m_subscribers[id(c)]]
        /\ m_subscribers' = m_subscribers /\ req' = req /\ subscr' = subscr
        /\ allocated' = allocated /\ pc' = [pc EXCEPT ![c] = "subscribe.link"]
        /\ pc[c] = "subscribe.next"
    BY <1>2 DEF SubscribeNext, Goto
  <2>3. /\ m_next \in Links /\ \A i \in Ids : m_subscribers[i] \in Nodes \cup {Null}
    BY DEF TypeInv, TypeOK, Links
  <2> HIDE DEF s
  <2>4. /\ m_next'[s] = m_subscribers[id(c)]
        /\ \A n \in Nodes : n # s => m_next'[n] = m_next[n]
    BY <2>1, <2>2, <2>3 DEF Links
  <2>5. \A n \in Nodes : m_next[n] # s
    BY <2>1 DEF LinkInv, NotYetLinked
  <2>6. NoCircle'
    <3> SUFFICES ASSUME NEW n \in Nodes PROVE n \notin Walk(m_next'[n], m_next', {})
      BY DEF NoCircle
    <3>1. CASE n = s
      BY <2>1, <2>3, <2>4, <3>1
    <3>2. CASE n # s
      BY <2>1, <2>3, <2>4, <2>5, <3>2 DEF LinkInv, NoCircle, Links
    <3> QED BY <3>1, <3>2
  <2>7. NoFork'
    <3>1. \A i \in Ids : Listed(i) \subseteq Nodes
      BY ListedNodes DEF TypeInv
    <3> QED
      BY <2>1, <2>4, <3>1 DEF LinkInv, NoFork
  <2>8. \A n \in Nodes : Unlinked(n)' => Unlinked(n)
    BY <2>2 DEF Unlinked, Making, MakeSteps, TypeInv
  <2>9. NotYetLinked'
    <3>1. \A m \in Nodes : \/ m_next'[m] = m_next[m]
                           \/ m_next'[m] = m_subscribers[id(c)]
      BY <2>4
    <3> QED
      BY <2>1, <2>2, <2>8, <3>1 DEF LinkInv, NotYetLinked
  <2>10. ReadyToLink'
    <3> SUFFICES ASSUME NEW d \in Conns, pc'[d] = "subscribe.link"
                 PROVE  m_next'[subscr'[d]] = m_subscribers'[id(d)']
      BY DEF ReadyToLink
    <3>1. CASE d = c
      BY <2>2, <2>4, <3>1 DEF id, s
    <3>2. CASE d # c
      <4>1. pc[d] = "subscribe.link" /\ Holding(c) /\ Holding(d)
        BY <2>2, <3>2 DEF Holding, MakeSteps, TypeInv
      <4>2. subscr[d] # s /\ subscr[d] \in Nodes
        BY <3>2, <4>1, UnderWay DEF PlaceInv, InOneHand, s, MakeSteps
      <4> QED
        BY <2>2, <2>4, <4>1, <4>2 DEF id, LinkInv, ReadyToLink
    <3> QED BY <3>1, <3>2
  <2> QED
    BY <2>6, <2>7, <2>9, <2>10 DEF LinkInv
<1>3. ASSUME NEW c \in Conns, server = "up", SubscribeLink(c)
     PROVE  LinkInv'
  <2> DEFINE s == subscr[c]
  <2>1. /\ s \in Nodes /\ id(c) \in Ids /\ m_next' = m_next
        /\ m_next[s] = m_subscribers[id(c)]
        /\ m_subscribers' = [m_subscribers EXCEPT ![id(c)] = s]
        /\ \A i \in Ids : Listed(i)' = IF i = id(c) THEN {s} \cup Listed(i)
                                                 ELSE Listed(i)
    BY <1>3, SubscribeLinkWalks
  <2>2. /\ req' = req /\ subscr' = [subscr EXCEPT ![c] = Null]
        /\ allocated' = allocated /\ pc' = [pc EXCEPT ![c] = "status"]
        /\ pc[c] = "subscribe.link"
    BY <1>3 DEF SubscribeLink, Goto
  <2>3. \A i \in Ids : m_subscribers'[i] = IF i = id(c) THEN s ELSE m_subscribers[i]
    BY <2>1 DEF TypeInv, TypeOK
  <2>4. NoCircle'
    BY <2>1 DEF LinkInv, NoCircle
  <2>5. NoFork'
    <3>1. \A i \in Ids : Listed(i) \subseteq Nodes /\ Listed(i) = Walk(m_subscribers[i], m_next, {})
      BY ListedNodes DEF TypeInv, Listed
    <3>2. \A n \in Listed(id(c)) : m_next[n] # m_next[s]
      BY <2>1, <3>1 DEF LinkInv, NoCircle
    <3> HIDE DEF s
    <3> QED
      BY <2>1, <3>1, <3>2 DEF LinkInv, NoFork
  <2>6. \A n \in Nodes : Unlinked(n)' => Unlinked(n) /\ n # s
    <3>1. \A d \in Conns : Making(d)' => d # c /\ Making(d) /\ subscr'[d] = subscr[d]
      BY <2>2 DEF Making, MakeSteps, TypeInv, TypeOK
    <3>2. Making(c) /\ \A d \in Conns : Making(d) => Holding(d)
      BY <2>2 DEF Making, Holding, MakeSteps
    <3>3. ASSUME NEW d \in Conns, Making(d)' PROVE subscr[d] # s
      <4>1. Holding(c) /\ Holding(d) /\ d # c
        BY <3>1, <3>2, <3>3
      <4> QED BY <4>1 DEF PlaceInv, InOneHand
    <3>4. ~ (s > allocated)
      <4>1. s \in 1..allocated
        BY <2>2, UnderWay DEF MakeSteps
      <4>2. allocated \in Nat
        BY NotifyAssumption DEF TypeInv, TypeOK
      <4> QED BY <4>1, <4>2
    <3> QED
      BY <2>2, <3>1, <3>3, <3>4 DEF Unlinked
  <2>7. NotYetLinked'
    BY <2>1, <2>3, <2>6 DEF LinkInv, NotYetLinked
  <2>8. ReadyToLink'
    <3> SUFFICES ASSUME NEW d \in Conns, pc'[d] = "subscribe.link"
                 PROVE  m_next'[subscr'[d]] = m_subscribers'[id(d)']
      BY DEF ReadyToLink
    <3>1. d # c /\ pc[d] = "subscribe.link" /\ subscr'[d] = subscr[d] /\ id(d)' = id(d)
      BY <2>2 DEF id, TypeInv, TypeOK
    <3>2. id(d) \in Ids /\ id(d) # id(c)
      BY <2>1, <2>2, <3>1, UnderWay DEF LockInv, TickHolds
    <3> QED
      BY <2>1, <2>3, <3>1, <3>2 DEF LinkInv, ReadyToLink
  <2> QED
    BY <2>4, <2>5, <2>7, <2>8 DEF LinkInv
<1>4. ASSUME NEW c \in Conns, server = "up", UnsubscribeLock(c)
     PROVE  LinkInv'
  <2>1. m_next' = m_next /\ m_subscribers' = m_subscribers
    BY <1>4 DEF UnsubscribeLock, nodes
  <2>2. \A n \in Nodes : Unlinked(n)' => Unlinked(n)
    BY <1>4 DEF UnsubscribeLock, Acquire, Goto, Unlinked, Making, MakeSteps,
       TypeInv, TypeOK, nodes, locks, conns, history
  <2>3. \A d \in Conns : pc'[d] = "subscribe.link" =>
         pc[d] = "subscribe.link" /\ subscr'[d] = subscr[d] /\ req'[d] = req[d]
    BY <1>4 DEF UnsubscribeLock, Acquire, Goto, Unlinked, Making, MakeSteps,
       TypeInv, TypeOK, nodes, locks, conns, history
  <2> QED
    BY <2>1, <2>2, <2>3, LinksKept
<1>5. ASSUME NEW c \in Conns, server = "up", UnsubscribeUnlink(c)
     PROVE  LinkInv'
  <2> DEFINE n == FirstOf(c)
  <2>1. /\ id(c) \in Ids /\ n \in Listed(id(c)) /\ n \in Nodes /\ m_next' \in Links
        /\ \A x \in Nodes \cup {Null} : Walk(x, m_next', {}) \subseteq Walk(x, m_next, {})
        /\ \A i \in Ids : /\ Listed(i)' = Listed(i) \ {n}
                          /\ i # id(c) => n \notin Listed(i) /\ m_subscribers'[i] = m_subscribers[i]
                          /\ m_subscribers'[i] \in {m_subscribers[i], m_next[n]}
        /\ \A p \in Nodes :
             \/ m_next'[p] = m_next[p]
             \/ p \in Listed(id(c)) /\ m_next[p] = n /\ m_next'[p] = m_next[n]
    BY <1>5, UnlinkWalks
  <2>2. /\ req' = req /\ subscr' = [subscr EXCEPT ![c] = n]
        /\ allocated' = allocated /\ pc' = [pc EXCEPT ![c] = "unsubscribe.free"]
        /\ pc[c] = "unsubscribe.unlink"
    BY <1>5 DEF UnsubscribeUnlink, Goto
  <2> HIDE DEF n
  <2>3. m_next \in Links /\ \A i \in Ids : Listed(i) \subseteq Nodes
    BY ListedNodes DEF TypeInv, TypeOK, Links
  <2>4. NoCircle'
    <3> SUFFICES ASSUME NEW x \in Nodes PROVE x \notin Walk(m_next'[x], m_next', {})
      BY DEF NoCircle
    <3>1. Walk(m_next'[x], m_next', {}) \subseteq Walk(m_next'[x], m_next, {})
      BY <2>1 DEF Links
    <3>2. Walk(n, m_next, {}) = {n} \cup Walk(m_next[n], m_next, {})
      BY <2>1, <2>3, WalkStep
    <3>3. Walk(m_next'[x], m_next, {}) \subseteq Walk(m_next[x], m_next, {})
      BY <2>1, <3>2
    <3> QED
      BY <3>1, <3>3 DEF LinkInv, NoCircle
  <2>5. NoFork'
    <3> SUFFICES ASSUME NEW i \in Ids, NEW k \in Listed(i) \ {n}, NEW m \in Listed(i) \ {n},
                        m_next'[k] = m_next'[m], m_next'[k] # Null
                 PROVE  k = m
      BY <2>1 DEF NoFork
    <3>1. \A p, q \in Listed(i) : m_next[p] = m_next[q] /\ m_next[p] # Null => p = q
      BY DEF LinkInv, NoFork
    <3>2. n # Null
      BY <2>1, NullIsNoNode
    <3>3. CASE i = id(c)
      BY <2>1, <2>3, <3>1, <3>2, <3>3
    <3>4. CASE i # id(c)
      <4>1. Listed(i) \cap Listed(id(c)) = {}
        BY <2>1, <3>4 DEF PlaceInv, InOneList
      <4> QED
        BY <2>1, <2>3, <3>1, <4>1
    <3> QED BY <3>3, <3>4
  <2>6. \A x \in Nodes : Unlinked(x)' => Unlinked(x)
    BY <2>2 DEF Unlinked, Making, MakeSteps, TypeInv, TypeOK
  <2>7. NotYetLinked'
    BY <2>1, <2>6 DEF LinkInv, NotYetLinked
  <2>8. ReadyToLink'
    <3> SUFFICES ASSUME NEW d \in Conns, pc'[d] = "subscribe.link"
                 PROVE  m_next'[subscr'[d]] = m_subscribers'[id(d)']
      BY DEF ReadyToLink
    <3>1. d # c /\ pc[d] = "subscribe.link" /\ subscr'[d] = subscr[d] /\ id(d)' = id(d)
      BY <2>2 DEF id, TypeInv, TypeOK
    <3>2. id(d) \in Ids /\ id(d) # id(c)
      BY <2>1, <2>2, <3>1, UnderWay DEF LockInv, TickHolds
    <3>3. Holding(d) /\ subscr[d] \in Nodes
      BY <3>1, UnderWay DEF Holding, MakeSteps
    <3>4. subscr[d] \notin Listed(id(c))
      BY <2>1, <3>3 DEF PlaceInv, InOneHand
    <3> QED
      BY <2>1, <3>1, <3>2, <3>3, <3>4 DEF LinkInv, ReadyToLink
  <2> QED
    BY <2>4, <2>5, <2>7, <2>8 DEF LinkInv
<1>6. ASSUME NEW c \in Conns, server = "up", UnsubscribeNone(c)
     PROVE  LinkInv'
  <2>1. m_next' = m_next /\ m_subscribers' = m_subscribers
    BY <1>6 DEF UnsubscribeNone, nodes
  <2>2. \A n \in Nodes : Unlinked(n)' => Unlinked(n)
    BY <1>6 DEF UnsubscribeNone, Release, Goto, Unlinked, Making, MakeSteps,
       TypeInv, TypeOK, nodes, locks, conns, history
  <2>3. \A d \in Conns : pc'[d] = "subscribe.link" =>
         pc[d] = "subscribe.link" /\ subscr'[d] = subscr[d] /\ req'[d] = req[d]
    BY <1>6 DEF UnsubscribeNone, Release, Goto, Unlinked, Making, MakeSteps,
       TypeInv, TypeOK, nodes, locks, conns, history
  <2> QED
    BY <2>1, <2>2, <2>3, LinksKept
<1>7. ASSUME NEW c \in Conns, server = "up", UnsubscribeFree(c)
     PROVE  LinkInv'
  <2>1. m_next' = m_next /\ m_subscribers' = m_subscribers
    BY <1>7 DEF UnsubscribeFree, nodes
  <2>2. \A n \in Nodes : Unlinked(n)' => Unlinked(n)
    BY <1>7 DEF UnsubscribeFree, Release, Goto, Unlinked, Making, MakeSteps,
       TypeInv, TypeOK, nodes, locks, conns, history
  <2>3. \A d \in Conns : pc'[d] = "subscribe.link" =>
         pc[d] = "subscribe.link" /\ subscr'[d] = subscr[d] /\ req'[d] = req[d]
    BY <1>7 DEF UnsubscribeFree, Release, Goto, Unlinked, Making, MakeSteps,
       TypeInv, TypeOK, nodes, locks, conns, history
  <2> QED
    BY <2>1, <2>2, <2>3, LinksKept
<1>8. ASSUME NEW c \in Conns, server = "up", PushTick(c)
     PROVE  LinkInv'
  <2>1. m_next' = m_next /\ m_subscribers' = m_subscribers
    BY <1>8 DEF PushTick, nodes
  <2>2. \A n \in Nodes : Unlinked(n)' => Unlinked(n)
    BY <1>8 DEF PushTick, Goto, Unlinked, Making, MakeSteps, TypeInv, TypeOK,
       nodes, locks, conns, history
  <2>3. \A d \in Conns : pc'[d] = "subscribe.link" =>
         pc[d] = "subscribe.link" /\ subscr'[d] = subscr[d] /\ req'[d] = req[d]
    BY <1>8 DEF PushTick, Goto, Unlinked, Making, MakeSteps, TypeInv, TypeOK,
       nodes, locks, conns, history
  <2> QED
    BY <2>1, <2>2, <2>3, LinksKept
<1>9. ASSUME NEW c \in Conns, server = "up", WriteStatus(c)
     PROVE  LinkInv'
  <2>1. /\ pc' = pc /\ req' = req
        \/ /\ pc' = [pc EXCEPT ![c] = IF req[c].op = "push" THEN "notify" ELSE "idle"]
           /\ req' = IF pc'[c] = "idle" THEN [req EXCEPT ![c] = NoReq] ELSE req
    BY <1>9 DEF WriteStatus, Write, Goto, TypeInv
  <2>2. m_next' = m_next /\ m_subscribers' = m_subscribers
    BY <1>9 DEF WriteStatus, nodes
  <2>3. \A n \in Nodes : Unlinked(n)' => Unlinked(n)
    BY <1>9, <2>1 DEF WriteStatus, Unlinked, Making, MakeSteps,
       TypeInv, TypeOK, nodes, locks, conns, history
  <2>4. \A d \in Conns : pc'[d] = "subscribe.link" =>
         pc[d] = "subscribe.link" /\ subscr'[d] = subscr[d] /\ req'[d] = req[d]
    BY <1>9, <2>1 DEF WriteStatus, Unlinked, Making, MakeSteps,
       TypeInv, TypeOK, nodes, locks, conns, history
  <2> QED
    BY <2>2, <2>3, <2>4, LinksKept
<1>10. ASSUME NEW c \in Conns, server = "up", NotifyLock(c)
     PROVE  LinkInv'
  <2>1. m_next' = m_next /\ m_subscribers' = m_subscribers
    BY <1>10 DEF NotifyLock, nodes
  <2>2. \A n \in Nodes : Unlinked(n)' => Unlinked(n)
    BY <1>10 DEF NotifyLock, Acquire, Goto, Unlinked, Making, MakeSteps,
       TypeInv, TypeOK, nodes, locks, conns, history
  <2>3. \A d \in Conns : pc'[d] = "subscribe.link" =>
         pc[d] = "subscribe.link" /\ subscr'[d] = subscr[d] /\ req'[d] = req[d]
    BY <1>10 DEF NotifyLock, Acquire, Goto, Unlinked, Making, MakeSteps,
       TypeInv, TypeOK, nodes, locks, conns, history
  <2> QED
    BY <2>1, <2>2, <2>3, LinksKept
<1>11. ASSUME NEW c \in Conns, server = "up", NotifyHead(c)
     PROVE  LinkInv'
  <2>1. m_next' = m_next /\ m_subscribers' = m_subscribers
    BY <1>11 DEF NotifyHead, nodes
  <2>2. \A n \in Nodes : Unlinked(n)' => Unlinked(n)
    BY <1>11 DEF NotifyHead, Goto, NotifyStep, Unlinked, Making, MakeSteps,
       TypeInv, TypeOK, nodes, locks, conns, history
  <2>3. \A d \in Conns : pc'[d] = "subscribe.link" =>
         pc[d] = "subscribe.link" /\ subscr'[d] = subscr[d] /\ req'[d] = req[d]
    BY <1>11 DEF NotifyHead, Goto, NotifyStep, Unlinked, Making, MakeSteps,
       TypeInv, TypeOK, nodes, locks, conns, history
  <2> QED
    BY <2>1, <2>2, <2>3, LinksKept
<1>12. ASSUME NEW c \in Conns, server = "up", NotifyWrite(c)
     PROVE  LinkInv'
  <2>1. PICK k, step, item, to :
          /\ k \in 1..4 /\ step \in VisitSteps
          /\ pc[c] = NotifyParts[k]
          /\ Write(c, to, item, step)
          /\ UNCHANGED <<nodes, req, subscr>>
    BY <1>12, PartFacts DEF NotifyWrite, VisitSteps
  <2>2. pc[c] \in VisitSteps /\ (pc' = pc \/ pc' = [pc EXCEPT ![c] = step])
    BY <2>1, PartFacts DEF Write, Goto
  <2>3. m_next' = m_next /\ m_subscribers' = m_subscribers
    BY <2>1 DEF nodes
  <2>4. \A n \in Nodes : Unlinked(n)' => Unlinked(n)
    BY <2>1, <2>2 DEF VisitSteps, Unlinked,
       Making, MakeSteps, TypeInv, TypeOK, nodes, locks, conns, history
  <2>5. \A d \in Conns : pc'[d] = "subscribe.link" =>
         pc[d] = "subscribe.link" /\ subscr'[d] = subscr[d] /\ req'[d] = req[d]
    BY <2>1, <2>2 DEF VisitSteps, Unlinked,
       Making, MakeSteps, TypeInv, TypeOK, nodes, locks, conns, history
  <2> QED
    BY <2>3, <2>4, <2>5, LinksKept
<1>13. ASSUME NEW c \in Conns, server = "up", NotifyNext(c)
     PROVE  LinkInv'
  <2>1. m_next' = m_next /\ m_subscribers' = m_subscribers
    BY <1>13 DEF NotifyNext, nodes
  <2>2. \A n \in Nodes : Unlinked(n)' => Unlinked(n)
    BY <1>13 DEF NotifyNext, Goto, NotifyStep, Unlinked, Making, MakeSteps,
       TypeInv, TypeOK, nodes, locks, conns, history
  <2>3. \A d \in Conns : pc'[d] = "subscribe.link" =>
         pc[d] = "subscribe.link" /\ subscr'[d] = subscr[d] /\ req'[d] = req[d]
    BY <1>13 DEF NotifyNext, Goto, NotifyStep, Unlinked, Making, MakeSteps,
       TypeInv, TypeOK, nodes, locks, conns, history
  <2> QED
    BY <2>1, <2>2, <2>3, LinksKept
<1>14. ASSUME NEW c \in Conns, server = "up", NotifyWild(c)
     PROVE  LinkInv'
  <2>1. m_next' = m_next /\ m_subscribers' = m_subscribers
    BY <1>14 DEF NotifyWild, nodes
  <2>2. \A n \in Nodes : Unlinked(n)' => Unlinked(n)
    BY <1>14 DEF NotifyWild, Unlinked, Making, MakeSteps, TypeInv, TypeOK,
       nodes, locks, conns, history
  <2>3. \A d \in Conns : pc'[d] = "subscribe.link" =>
         pc[d] = "subscribe.link" /\ subscr'[d] = subscr[d] /\ req'[d] = req[d]
    BY <1>14 DEF NotifyWild, Unlinked, Making, MakeSteps, TypeInv, TypeOK,
       nodes, locks, conns, history
  <2> QED
    BY <2>1, <2>2, <2>3, LinksKept
<1>15. ASSUME NEW c \in Conns, server = "up", NotifyUnlock(c)
     PROVE  LinkInv'
  <2>1. m_next' = m_next /\ m_subscribers' = m_subscribers
    BY <1>15 DEF NotifyUnlock, nodes
  <2>2. \A n \in Nodes : Unlinked(n)' => Unlinked(n)
    BY <1>15 DEF NotifyUnlock, Release, Goto, Unlinked, Making, MakeSteps,
       TypeInv, TypeOK, nodes, locks, conns, history
  <2>3. \A d \in Conns : pc'[d] = "subscribe.link" =>
         pc[d] = "subscribe.link" /\ subscr'[d] = subscr[d] /\ req'[d] = req[d]
    BY <1>15 DEF NotifyUnlock, Release, Goto, Unlinked, Making, MakeSteps,
       TypeInv, TypeOK, nodes, locks, conns, history
  <2> QED
    BY <2>1, <2>2, <2>3, LinksKept
<1>16. ASSUME NEW c \in Conns, server = "up", Wait(c)
     PROVE  LinkInv'
  <2>1. m_next' = m_next /\ m_subscribers' = m_subscribers
    BY <1>16 DEF Wait, nodes
  <2>2. \A n \in Nodes : Unlinked(n)' => Unlinked(n)
    BY <1>16 DEF Wait, ClientGoto, Unlinked, Making, MakeSteps, TypeInv, TypeOK,
       nodes, locks, conns, history
  <2>3. \A d \in Conns : pc'[d] = "subscribe.link" =>
         pc[d] = "subscribe.link" /\ subscr'[d] = subscr[d] /\ req'[d] = req[d]
    BY <1>16 DEF Wait, ClientGoto, Unlinked, Making, MakeSteps, TypeInv, TypeOK,
       nodes, locks, conns, history
  <2> QED
    BY <2>1, <2>2, <2>3, LinksKept
<1>17. ASSUME NEW c \in Conns, server = "up", ClientRead(c)
     PROVE  LinkInv'
  <2>1. m_next' = m_next /\ m_subscribers' = m_subscribers
    BY <1>17 DEF ClientRead, nodes
  <2>2. \A n \in Nodes : Unlinked(n)' => Unlinked(n)
    BY <1>17 DEF ClientRead, ClientGoto, Unlinked, Making, MakeSteps, TypeInv,
       TypeOK, nodes, locks, conns, history
  <2>3. \A d \in Conns : pc'[d] = "subscribe.link" =>
         pc[d] = "subscribe.link" /\ subscr'[d] = subscr[d] /\ req'[d] = req[d]
    BY <1>17 DEF ClientRead, ClientGoto, Unlinked, Making, MakeSteps, TypeInv,
       TypeOK, nodes, locks, conns, history
  <2> QED
    BY <2>1, <2>2, <2>3, LinksKept
<1>18. ASSUME NEW c \in Conns, server = "up", CloseConnection(c)
     PROVE  LinkInv'
  <2>1. m_next' = m_next /\ m_subscribers' = m_subscribers
    BY <1>18 DEF CloseConnection, nodes
  <2>2. \A n \in Nodes : Unlinked(n)' => Unlinked(n)
    BY <1>18 DEF CloseConnection, ClientGoto, Unlinked, Making, MakeSteps,
       TypeInv, TypeOK, nodes, locks, conns, history
  <2>3. \A d \in Conns : pc'[d] = "subscribe.link" =>
         pc[d] = "subscribe.link" /\ subscr'[d] = subscr[d] /\ req'[d] = req[d]
    BY <1>18 DEF CloseConnection, ClientGoto, Unlinked, Making, MakeSteps,
       TypeInv, TypeOK, nodes, locks, conns, history
  <2> QED
    BY <2>1, <2>2, <2>3, LinksKept
<1>19. ASSUME NEW c \in Conns, NEW r \in Requests(c), server = "up", Ask(c, r)
     PROVE  LinkInv'
  <2>1. r.op \in {"subscribe", "unsubscribe", "push"}
    BY DEF Requests
  <2>2. r.op = "subscribe" => allocated + 1 \in Nodes /\ allocated + 1 > allocated
    BY <1>19, NotifyAssumption DEF Ask, TypeInv, TypeOK, Nodes
  <2>3. \A n \in Nodes : n > allocated + 1 => n > allocated
    BY NotifyAssumption DEF TypeInv, TypeOK, Nodes
  <2>4. m_next' = m_next /\ m_subscribers' = m_subscribers
    BY <1>19 DEF Ask, nodes
  <2>5. \A n \in Nodes : Unlinked(n)' => Unlinked(n)
    BY <1>19, <2>1, <2>2, <2>3 DEF Ask, Goto, ClientGoto, Unlinked, Making,
       MakeSteps, TypeInv, TypeOK, nodes, locks, conns, history
  <2>6. \A d \in Conns : pc'[d] = "subscribe.link" =>
         pc[d] = "subscribe.link" /\ subscr'[d] = subscr[d] /\ req'[d] = req[d]
    BY <1>19, <2>1, <2>2, <2>3 DEF Ask, Goto, ClientGoto, Unlinked, Making,
       MakeSteps, TypeInv, TypeOK, nodes, locks, conns, history
  <2> QED
    BY <2>4, <2>5, <2>6, LinksKept
<1>20. CASE UNCHANGED vars
  <2>1. m_next' = m_next /\ m_subscribers' = m_subscribers
    BY <1>20 DEF vars, nodes
  <2>2. \A n \in Nodes : Unlinked(n)' => Unlinked(n)
    BY <1>20 DEF vars, nodes, Unlinked, Making
  <2>3. pc' = pc /\ subscr' = subscr /\ req' = req
    BY <1>20 DEF vars
  <2> QED
    BY <2>1, <2>2, <2>3, LinksKept
<1> QED
  BY <1>1, <1>2, <1>3, <1>4, <1>5, <1>6, <1>7, <1>8, <1>9, <1>10, <1>11,
     <1>12, <1>13, <1>14, <1>15, <1>16, <1>17, <1>18, <1>19, <1>20 DEF Next,
     Thread

\* Nodes keep their places while no list changes, and no node is allocated, freed,
\* taken in hand or put down.
LEMMA PlacesKept ==
  ASSUME PlaceInv, \A i \in Ids : Listed(i)' = Listed(i),
         freed' = freed, allocated' = allocated, m_connection' = m_connection,
         \A d \in Conns : Holding(d)' <=> Holding(d),
         \A d \in Conns : Holding(d) => subscr'[d] = subscr[d]
  PROVE  PlaceInv'
<1>1. InOneList'
  BY DEF PlaceInv, InOneList
<1>2. InOneHand'
  BY DEF PlaceInv, InOneHand
<1>3. NoneLost'
  BY DEF PlaceInv, NoneLost
<1> QED
  BY <1>1, <1>2, <1>3 DEF PlaceInv

\* No step loses a node, or puts it in two places.
LEMMA PlaceStep == NotifyInv /\ [Next]_vars => PlaceInv'
<1> SUFFICES ASSUME TypeInv, RequestInv, LockInv, LinkInv, PlaceInv, [Next]_vars PROVE PlaceInv'
  BY DEF NotifyInv
<1>1. ASSUME NEW c \in Conns, server = "up", SubscribeLock(c)
     PROVE  PlaceInv'
  <2>1. \A i \in Ids : Listed(i)' = Listed(i)
    BY <1>1 DEF SubscribeLock, nodes, Listed
  <2>2. freed' = freed /\ allocated' = allocated /\ m_connection' = m_connection
    BY <1>1 DEF SubscribeLock, nodes
  <2>3. \A d \in Conns : Holding(d)' <=> Holding(d)
    BY <1>1 DEF SubscribeLock, Acquire, Goto, Holding, MakeSteps, TypeInv,
       TypeOK, nodes, locks, conns, history
  <2>4. \A d \in Conns : Holding(d) => subscr'[d] = subscr[d]
    BY <1>1 DEF SubscribeLock, Acquire, Goto, Holding, MakeSteps, TypeInv,
       TypeOK, nodes, locks, conns, history
  <2> QED
    BY <2>1, <2>2, <2>3, <2>4, PlacesKept
<1>2. ASSUME NEW c \in Conns, server = "up", SubscribeNext(c)
     PROVE  PlaceInv'
  <2>1. \A i \in Ids : Listed(i)' = Listed(i)
    BY <1>2, SubscribeNextWalks
  <2>2. freed' = freed /\ allocated' = allocated /\ m_connection' = m_connection
    BY <1>2 DEF SubscribeNext, nodes
  <2>3. \A d \in Conns : Holding(d)' <=> Holding(d)
    BY <1>2 DEF SubscribeNext, Goto, Holding, MakeSteps, TypeInv, TypeOK,
       nodes, locks, conns, history
  <2>4. \A d \in Conns : Holding(d) => subscr'[d] = subscr[d]
    BY <1>2 DEF SubscribeNext, Goto, Holding, MakeSteps, TypeInv, TypeOK,
       nodes, locks, conns, history
  <2> QED
    BY <2>1, <2>2, <2>3, <2>4, PlacesKept
<1>3. ASSUME NEW c \in Conns, server = "up", SubscribeLink(c)
     PROVE  PlaceInv'
  <2> DEFINE s == subscr[c]
  <2>1. /\ id(c) \in Ids
        /\ \A i \in Ids : Listed(i)' = IF i = id(c) THEN {s} \cup Listed(i)
                                                 ELSE Listed(i)
    BY <1>3, SubscribeLinkWalks
  <2>2. /\ subscr' = [subscr EXCEPT ![c] = Null] /\ pc[c] = "subscribe.link"
        /\ pc' = [pc EXCEPT ![c] = "status"]
        /\ UNCHANGED <<freed, allocated, m_connection>>
    BY <1>3 DEF SubscribeLink, Goto
  <2>3. /\ Holding(c) /\ ~Holding(c)'
        /\ \A d \in Conns : d # c => /\ Holding(d)' <=> Holding(d)
                                     /\ subscr'[d] = subscr[d]
    BY <2>2 DEF Holding, MakeSteps, TypeInv, TypeOK
  <2>4. /\ s \in 1..allocated /\ s \notin freed
        /\ \A i \in Ids : s \notin Listed(i)
        /\ \A d \in Conns : d # c /\ Holding(d) => subscr[d] # s
    BY <2>2, <2>3, UnderWay DEF PlaceInv, InOneHand, MakeSteps
  <2> HIDE DEF s
  <2>5. InOneList'
    BY <2>1, <2>2, <2>4 DEF PlaceInv, InOneList
  <2>6. InOneHand'
    <3>1. ASSUME NEW d \in Conns, Holding(d)'
          PROVE  /\ subscr'[d] \notin freed'
                 /\ \A i \in Ids : subscr'[d] \notin Listed(i)'
      BY <2>1, <2>2, <2>3, <2>4, <3>1 DEF PlaceInv, InOneHand
    <3>2. ASSUME NEW d \in Conns, NEW e \in Conns, Holding(d)', Holding(e)', subscr'[d] = subscr'[e]
          PROVE  d = e
      BY <2>3, <3>2 DEF PlaceInv, InOneHand
    <3> QED BY <3>1, <3>2 DEF InOneHand
  <2>7. NoneLost'
    <3> SUFFICES ASSUME NEW n \in 1..allocated, n \notin freed
                 PROVE  \/ \E i \in Ids : n \in Listed(i)'
                        \/ \E d \in Conns : Holding(d)' /\ subscr'[d] = n
      BY <2>2 DEF PlaceInv, NoneLost
    <3>1. CASE n = s
      BY <2>1, <3>1
    <3>2. CASE \E i \in Ids : n \in Listed(i)
      BY <2>1, <3>2
    <3>3. CASE \E d \in Conns : Holding(d) /\ subscr[d] = n /\ n # s
      BY <2>3, <3>3 DEF s
    <3> QED BY <3>1, <3>2, <3>3 DEF PlaceInv, NoneLost
  <2> QED
    BY <2>5, <2>6, <2>7 DEF PlaceInv
<1>4. ASSUME NEW c \in Conns, server = "up", UnsubscribeLock(c)
     PROVE  PlaceInv'
  <2>1. \A i \in Ids : Listed(i)' = Listed(i)
    BY <1>4 DEF UnsubscribeLock, nodes, Listed
  <2>2. freed' = freed /\ allocated' = allocated /\ m_connection' = m_connection
    BY <1>4 DEF UnsubscribeLock, nodes
  <2>3. \A d \in Conns : Holding(d)' <=> Holding(d)
    BY <1>4 DEF UnsubscribeLock, Acquire, Goto, Holding, MakeSteps, TypeInv,
       TypeOK, nodes, locks, conns, history
  <2>4. \A d \in Conns : Holding(d) => subscr'[d] = subscr[d]
    BY <1>4 DEF UnsubscribeLock, Acquire, Goto, Holding, MakeSteps, TypeInv,
       TypeOK, nodes, locks, conns, history
  <2> QED
    BY <2>1, <2>2, <2>3, <2>4, PlacesKept
<1>5. ASSUME NEW c \in Conns, server = "up", UnsubscribeUnlink(c)
     PROVE  PlaceInv'
  <2> DEFINE s == FirstOf(c)
  <2>1. /\ id(c) \in Ids /\ s \in Listed(id(c))
        /\ \A i \in Ids : Listed(i)' = Listed(i) \ {s}
    BY <1>5, UnlinkWalks
  <2>2. /\ subscr' = [subscr EXCEPT ![c] = s] /\ pc[c] = "unsubscribe.unlink"
        /\ pc' = [pc EXCEPT ![c] = "unsubscribe.free"]
        /\ UNCHANGED <<freed, allocated, m_connection>>
    BY <1>5 DEF UnsubscribeUnlink, Goto
  <2> HIDE DEF s
  <2>3. /\ Holding(c)' /\ ~Holding(c) /\ subscr'[c] = s
        /\ \A d \in Conns : d # c => /\ Holding(d)' <=> Holding(d)
                                     /\ subscr'[d] = subscr[d]
    BY <2>2 DEF Holding, MakeSteps, TypeInv, TypeOK
  <2>4. /\ s \in 1..allocated /\ s \notin freed
        /\ \A d \in Conns : Holding(d) => subscr[d] # s
    BY <2>1 DEF PlaceInv, InOneHand, InOneList
  <2>5. InOneList'
    BY <2>1, <2>2, <2>4 DEF PlaceInv, InOneList
  <2>6. InOneHand'
    <3>1. ASSUME NEW d \in Conns, Holding(d)'
          PROVE  /\ subscr'[d] \notin freed'
                 /\ \A i \in Ids : subscr'[d] \notin Listed(i)'
      BY <2>1, <2>2, <2>3, <2>4, <3>1 DEF PlaceInv, InOneHand
    <3>2. ASSUME NEW d \in Conns, NEW e \in Conns, Holding(d)', Holding(e)', subscr'[d] = subscr'[e]
          PROVE  d = e
      BY <2>3, <2>4, <3>2 DEF PlaceInv, InOneHand
    <3> QED BY <3>1, <3>2 DEF InOneHand
  <2>7. NoneLost'
    <3> SUFFICES ASSUME NEW n \in 1..allocated, n \notin freed
                 PROVE  \/ \E i \in Ids : n \in Listed(i)'
                        \/ \E d \in Conns : Holding(d)' /\ subscr'[d] = n
      BY <2>2 DEF PlaceInv, NoneLost
    <3>1. CASE n = s
      BY <2>3, <3>1
    <3>2. CASE n # s /\ \E i \in Ids : n \in Listed(i)
      BY <2>1, <3>2
    <3>3. CASE \E d \in Conns : Holding(d) /\ subscr[d] = n
      BY <2>3, <3>3
    <3> QED BY <3>1, <3>2, <3>3 DEF PlaceInv, NoneLost
  <2> QED
    BY <2>5, <2>6, <2>7 DEF PlaceInv
<1>6. ASSUME NEW c \in Conns, server = "up", UnsubscribeNone(c)
     PROVE  PlaceInv'
  <2>1. \A i \in Ids : Listed(i)' = Listed(i)
    BY <1>6 DEF UnsubscribeNone, nodes, Listed
  <2>2. freed' = freed /\ allocated' = allocated /\ m_connection' = m_connection
    BY <1>6 DEF UnsubscribeNone, nodes
  <2>3. \A d \in Conns : Holding(d)' <=> Holding(d)
    BY <1>6 DEF UnsubscribeNone, Release, Goto, Holding, MakeSteps, TypeInv,
       TypeOK, nodes, locks, conns, history
  <2>4. \A d \in Conns : Holding(d) => subscr'[d] = subscr[d]
    BY <1>6 DEF UnsubscribeNone, Release, Goto, Holding, MakeSteps, TypeInv,
       TypeOK, nodes, locks, conns, history
  <2> QED
    BY <2>1, <2>2, <2>3, <2>4, PlacesKept
<1>7. ASSUME NEW c \in Conns, server = "up", UnsubscribeFree(c)
     PROVE  PlaceInv'
  <2> DEFINE s == subscr[c]
  <2>1. \A i \in Ids : Listed(i)' = Listed(i)
    BY <1>7 DEF UnsubscribeFree, Listed
  <2>2. /\ subscr' = [subscr EXCEPT ![c] = Null] /\ pc[c] = "unsubscribe.free"
        /\ pc' = [pc EXCEPT ![c] = "status"]
        /\ freed' = freed \cup {s} /\ UNCHANGED <<allocated, m_connection>>
    BY <1>7 DEF UnsubscribeFree, Goto
  <2>3. /\ Holding(c) /\ ~Holding(c)'
        /\ \A d \in Conns : d # c => /\ Holding(d)' <=> Holding(d)
                                     /\ subscr'[d] = subscr[d]
    BY <2>2 DEF Holding, MakeSteps, TypeInv, TypeOK
  <2>4. /\ s \in 1..allocated
        /\ \A i \in Ids : s \notin Listed(i)
        /\ \A d \in Conns : d # c /\ Holding(d) => subscr[d] # s
    BY <2>2, <2>3, UnderWay DEF PlaceInv, InOneHand, MakeSteps
  <2> HIDE DEF s
  <2>5. InOneList'
    BY <2>1, <2>2, <2>4 DEF PlaceInv, InOneList
  <2>6. InOneHand'
    <3>1. ASSUME NEW d \in Conns, Holding(d)'
          PROVE  /\ subscr'[d] \notin freed'
                 /\ \A i \in Ids : subscr'[d] \notin Listed(i)'
      BY <2>1, <2>2, <2>3, <2>4, <3>1 DEF PlaceInv, InOneHand
    <3>2. ASSUME NEW d \in Conns, NEW e \in Conns, Holding(d)', Holding(e)', subscr'[d] = subscr'[e]
          PROVE  d = e
      BY <2>3, <3>2 DEF PlaceInv, InOneHand
    <3> QED BY <3>1, <3>2 DEF InOneHand
  <2>7. NoneLost'
    <3> SUFFICES ASSUME NEW n \in 1..allocated, n \notin freed, n # s
                 PROVE  \/ \E i \in Ids : n \in Listed(i)'
                        \/ \E d \in Conns : Holding(d)' /\ subscr'[d] = n
      BY <2>2 DEF PlaceInv, NoneLost
    <3>1. CASE \E i \in Ids : n \in Listed(i)
      BY <2>1, <3>1
    <3>2. CASE \E d \in Conns : Holding(d) /\ subscr[d] = n
      BY <2>3, <3>2 DEF s
    <3> QED BY <3>1, <3>2 DEF PlaceInv, NoneLost
  <2> QED
    BY <2>5, <2>6, <2>7 DEF PlaceInv
<1>8. ASSUME NEW c \in Conns, server = "up", PushTick(c)
     PROVE  PlaceInv'
  <2>1. \A i \in Ids : Listed(i)' = Listed(i)
    BY <1>8 DEF PushTick, nodes, Listed
  <2>2. freed' = freed /\ allocated' = allocated /\ m_connection' = m_connection
    BY <1>8 DEF PushTick, nodes
  <2>3. \A d \in Conns : Holding(d)' <=> Holding(d)
    BY <1>8 DEF PushTick, Goto, Holding, MakeSteps, TypeInv, TypeOK, nodes,
       locks, conns, history
  <2>4. \A d \in Conns : Holding(d) => subscr'[d] = subscr[d]
    BY <1>8 DEF PushTick, Goto, Holding, MakeSteps, TypeInv, TypeOK, nodes,
       locks, conns, history
  <2> QED
    BY <2>1, <2>2, <2>3, <2>4, PlacesKept
<1>9. ASSUME NEW c \in Conns, server = "up", WriteStatus(c)
     PROVE  PlaceInv'
  <2>1. pc' = pc \/ pc' = [pc EXCEPT ![c] = IF req[c].op = "push" THEN "notify" ELSE "idle"]
    BY <1>9 DEF WriteStatus, Write, Goto, TypeInv
  <2>2. \A i \in Ids : Listed(i)' = Listed(i)
    BY <1>9 DEF WriteStatus, nodes, Listed
  <2>3. freed' = freed /\ allocated' = allocated /\ m_connection' = m_connection
    BY <1>9 DEF WriteStatus, nodes
  <2>4. \A d \in Conns : Holding(d)' <=> Holding(d)
    BY <1>9, <2>1 DEF WriteStatus, Holding, MakeSteps, TypeInv, TypeOK, nodes,
       locks, conns, history
  <2>5. \A d \in Conns : Holding(d) => subscr'[d] = subscr[d]
    BY <1>9, <2>1 DEF WriteStatus, Holding, MakeSteps, TypeInv, TypeOK, nodes,
       locks, conns, history
  <2> QED
    BY <2>2, <2>3, <2>4, <2>5, PlacesKept
<1>10. ASSUME NEW c \in Conns, server = "up", NotifyLock(c)
     PROVE  PlaceInv'
  <2>1. \A i \in Ids : Listed(i)' = Listed(i)
    BY <1>10 DEF NotifyLock, nodes, Listed
  <2>2. freed' = freed /\ allocated' = allocated /\ m_connection' = m_connection
    BY <1>10 DEF NotifyLock, nodes
  <2>3. \A d \in Conns : Holding(d)' <=> Holding(d)
    BY <1>10 DEF NotifyLock, Acquire, Goto, Holding, MakeSteps, TypeInv, TypeOK,
       nodes, locks, conns, history
  <2>4. \A d \in Conns : Holding(d) => subscr'[d] = subscr[d]
    BY <1>10 DEF NotifyLock, Acquire, Goto, Holding, MakeSteps, TypeInv, TypeOK,
       nodes, locks, conns, history
  <2> QED
    BY <2>1, <2>2, <2>3, <2>4, PlacesKept
<1>11. ASSUME NEW c \in Conns, server = "up", NotifyHead(c)
     PROVE  PlaceInv'
  <2>1. \A i \in Ids : Listed(i)' = Listed(i)
    BY <1>11 DEF NotifyHead, nodes, Listed
  <2>2. freed' = freed /\ allocated' = allocated /\ m_connection' = m_connection
    BY <1>11 DEF NotifyHead, nodes
  <2>3. \A d \in Conns : Holding(d)' <=> Holding(d)
    BY <1>11 DEF NotifyHead, Goto, NotifyStep, VisitSteps, Holding, MakeSteps, TypeInv,
       TypeOK, nodes, locks, conns, history
  <2>4. \A d \in Conns : Holding(d) => subscr'[d] = subscr[d]
    BY <1>11 DEF NotifyHead, Goto, NotifyStep, VisitSteps, Holding, MakeSteps, TypeInv,
       TypeOK, nodes, locks, conns, history
  <2> QED
    BY <2>1, <2>2, <2>3, <2>4, PlacesKept
<1>12. ASSUME NEW c \in Conns, server = "up", NotifyWrite(c)
     PROVE  PlaceInv'
  <2>1. PICK k, step, item, to :
          /\ k \in 1..4 /\ step \in VisitSteps
          /\ pc[c] = NotifyParts[k]
          /\ Write(c, to, item, step)
          /\ UNCHANGED <<nodes, req, subscr>>
    BY <1>12, PartFacts DEF NotifyWrite, VisitSteps
  <2>2. pc[c] \in VisitSteps /\ (pc' = pc \/ pc' = [pc EXCEPT ![c] = step])
    BY <2>1, PartFacts DEF Write, Goto
  <2>3. \A i \in Ids : Listed(i)' = Listed(i)
    BY <2>1 DEF nodes, Listed
  <2>4. freed' = freed /\ allocated' = allocated /\ m_connection' = m_connection
    BY <2>1 DEF nodes
  <2>5. \A d \in Conns : Holding(d)' <=> Holding(d)
    BY <2>1, <2>2 DEF VisitSteps, Holding, MakeSteps, TypeInv, TypeOK,
       nodes, locks, conns, history
  <2>6. \A d \in Conns : Holding(d) => subscr'[d] = subscr[d]
    BY <2>1, <2>2 DEF VisitSteps, Holding, MakeSteps, TypeInv, TypeOK,
       nodes, locks, conns, history
  <2> QED
    BY <2>3, <2>4, <2>5, <2>6, PlacesKept
<1>13. ASSUME NEW c \in Conns, server = "up", NotifyNext(c)
     PROVE  PlaceInv'
  <2>1. \A i \in Ids : Listed(i)' = Listed(i)
    BY <1>13 DEF NotifyNext, nodes, Listed
  <2>2. freed' = freed /\ allocated' = allocated /\ m_connection' = m_connection
    BY <1>13 DEF NotifyNext, nodes
  <2>3. \A d \in Conns : Holding(d)' <=> Holding(d)
    BY <1>13 DEF NotifyNext, Goto, NotifyStep, VisitSteps, Holding, MakeSteps, TypeInv,
       TypeOK, nodes, locks, conns, history
  <2>4. \A d \in Conns : Holding(d) => subscr'[d] = subscr[d]
    BY <1>13 DEF NotifyNext, Goto, NotifyStep, VisitSteps, Holding, MakeSteps, TypeInv,
       TypeOK, nodes, locks, conns, history
  <2> QED
    BY <2>1, <2>2, <2>3, <2>4, PlacesKept
<1>14. ASSUME NEW c \in Conns, server = "up", NotifyWild(c)
     PROVE  PlaceInv'
  <2>1. \A i \in Ids : Listed(i)' = Listed(i)
    BY <1>14 DEF NotifyWild, nodes, Listed
  <2>2. freed' = freed /\ allocated' = allocated /\ m_connection' = m_connection
    BY <1>14 DEF NotifyWild, nodes
  <2>3. \A d \in Conns : Holding(d)' <=> Holding(d)
    BY <1>14 DEF NotifyWild, Holding, MakeSteps, TypeInv, TypeOK, nodes, locks,
       conns, history
  <2>4. \A d \in Conns : Holding(d) => subscr'[d] = subscr[d]
    BY <1>14 DEF NotifyWild, Holding, MakeSteps, TypeInv, TypeOK, nodes, locks,
       conns, history
  <2> QED
    BY <2>1, <2>2, <2>3, <2>4, PlacesKept
<1>15. ASSUME NEW c \in Conns, server = "up", NotifyUnlock(c)
     PROVE  PlaceInv'
  <2>1. \A i \in Ids : Listed(i)' = Listed(i)
    BY <1>15 DEF NotifyUnlock, nodes, Listed
  <2>2. freed' = freed /\ allocated' = allocated /\ m_connection' = m_connection
    BY <1>15 DEF NotifyUnlock, nodes
  <2>3. \A d \in Conns : Holding(d)' <=> Holding(d)
    BY <1>15 DEF NotifyUnlock, Release, Goto, Holding, MakeSteps, TypeInv,
       TypeOK, nodes, locks, conns, history
  <2>4. \A d \in Conns : Holding(d) => subscr'[d] = subscr[d]
    BY <1>15 DEF NotifyUnlock, Release, Goto, Holding, MakeSteps, TypeInv,
       TypeOK, nodes, locks, conns, history
  <2> QED
    BY <2>1, <2>2, <2>3, <2>4, PlacesKept
<1>16. ASSUME NEW c \in Conns, server = "up", Wait(c)
     PROVE  PlaceInv'
  <2>1. \A i \in Ids : Listed(i)' = Listed(i)
    BY <1>16 DEF Wait, nodes, Listed
  <2>2. freed' = freed /\ allocated' = allocated /\ m_connection' = m_connection
    BY <1>16 DEF Wait, nodes
  <2>3. \A d \in Conns : Holding(d)' <=> Holding(d)
    BY <1>16 DEF Wait, ClientGoto, Holding, MakeSteps, TypeInv, TypeOK, nodes,
       locks, conns, history
  <2>4. \A d \in Conns : Holding(d) => subscr'[d] = subscr[d]
    BY <1>16 DEF Wait, ClientGoto, Holding, MakeSteps, TypeInv, TypeOK, nodes,
       locks, conns, history
  <2> QED
    BY <2>1, <2>2, <2>3, <2>4, PlacesKept
<1>17. ASSUME NEW c \in Conns, server = "up", ClientRead(c)
     PROVE  PlaceInv'
  <2>1. \A i \in Ids : Listed(i)' = Listed(i)
    BY <1>17 DEF ClientRead, nodes, Listed
  <2>2. freed' = freed /\ allocated' = allocated /\ m_connection' = m_connection
    BY <1>17 DEF ClientRead, nodes
  <2>3. \A d \in Conns : Holding(d)' <=> Holding(d)
    BY <1>17 DEF ClientRead, ClientGoto, Holding, MakeSteps, TypeInv, TypeOK,
       nodes, locks, conns, history
  <2>4. \A d \in Conns : Holding(d) => subscr'[d] = subscr[d]
    BY <1>17 DEF ClientRead, ClientGoto, Holding, MakeSteps, TypeInv, TypeOK,
       nodes, locks, conns, history
  <2> QED
    BY <2>1, <2>2, <2>3, <2>4, PlacesKept
<1>18. ASSUME NEW c \in Conns, server = "up", CloseConnection(c)
     PROVE  PlaceInv'
  <2>1. \A i \in Ids : Listed(i)' = Listed(i)
    BY <1>18 DEF CloseConnection, nodes, Listed
  <2>2. freed' = freed /\ allocated' = allocated /\ m_connection' = m_connection
    BY <1>18 DEF CloseConnection, nodes
  <2>3. \A d \in Conns : Holding(d)' <=> Holding(d)
    BY <1>18 DEF CloseConnection, ClientGoto, Holding, MakeSteps, TypeInv,
       TypeOK, nodes, locks, conns, history
  <2>4. \A d \in Conns : Holding(d) => subscr'[d] = subscr[d]
    BY <1>18 DEF CloseConnection, ClientGoto, Holding, MakeSteps, TypeInv,
       TypeOK, nodes, locks, conns, history
  <2> QED
    BY <2>1, <2>2, <2>3, <2>4, PlacesKept
<1>19. ASSUME NEW c \in Conns, NEW r \in Requests(c), server = "up", Ask(c, r)
     PROVE  PlaceInv'
  <2>1. \A i \in Ids : Listed(i)' = Listed(i)
    BY <1>19 DEF Ask, Listed
  <2>2. r.op \in {"subscribe", "unsubscribe", "push"}
    BY DEF Requests
  <2>3. /\ ~Holding(c) /\ (Holding(c)' <=> r.op = "subscribe")
        /\ \A d \in Conns : d # c => /\ Holding(d)' <=> Holding(d)
                                     /\ subscr'[d] = subscr[d]
    BY <1>19, <2>2 DEF Ask, Goto, Holding, MakeSteps, TypeInv, TypeOK
  <2>4. CASE r.op # "subscribe"
    <3>1. freed' = freed /\ allocated' = allocated /\ m_connection' = m_connection
      BY <1>19, <2>4 DEF Ask
    <3>2. \A d \in Conns : Holding(d)' <=> Holding(d)
      BY <2>3, <2>4
    <3>3. \A d \in Conns : Holding(d) => subscr'[d] = subscr[d]
      BY <2>3
    <3> QED BY <2>1, <3>1, <3>2, <3>3, PlacesKept
  <2>5. CASE r.op = "subscribe"
    <3> DEFINE s == allocated + 1
    <3>1. /\ allocated' = s /\ freed' = freed /\ subscr' = [subscr EXCEPT ![c] = s]
          /\ m_connection' = [m_connection EXCEPT ![s] = c]
          /\ allocated \in Nat /\ s \in Nodes
      BY <1>19, <2>5, NotifyAssumption DEF Ask, TypeInv, TypeOK, Nodes
    <3>2. 1..s = (1..allocated) \cup {s} /\ s \notin 1..allocated
      BY <3>1
    <3>3. subscr'[c] = s /\ m_connection'[s] = c
          /\ \A n \in 1..allocated : m_connection'[n] = m_connection[n]
      BY <3>1, <3>2 DEF TypeInv, TypeOK
    <3>4. \A d \in Conns : Holding(d) => subscr[d] \in 1..allocated
      BY UnderWay DEF Holding, MakeSteps
    <3> HIDE DEF s
    <3>5. InOneList'
      BY <2>1, <3>1, <3>2 DEF PlaceInv, InOneList
    <3>6. InOneHand'
      <4>1. ASSUME NEW d \in Conns, Holding(d)'
            PROVE  /\ subscr'[d] \notin freed'
                   /\ \A i \in Ids : subscr'[d] \notin Listed(i)'
        <5>1. CASE d = c
          BY <2>1, <3>1, <3>2, <3>3, <5>1 DEF PlaceInv, InOneList
        <5>2. CASE d # c
          BY <2>1, <2>3, <3>1, <4>1, <5>2 DEF PlaceInv, InOneHand
        <5> QED BY <5>1, <5>2
      <4>2. ASSUME NEW d \in Conns, NEW e \in Conns, Holding(d)', Holding(e)', subscr'[d] = subscr'[e]
            PROVE  d = e
        BY <2>3, <3>2, <3>3, <3>4, <4>2 DEF PlaceInv, InOneHand
      <4> QED BY <4>1, <4>2 DEF InOneHand
    <3>7. NoneLost'
      <4> SUFFICES ASSUME NEW n \in 1..s
                   PROVE  /\ m_connection'[n] \in Conns
                          /\ \/ n \in freed
                             \/ \E i \in Ids : n \in Listed(i)'
                             \/ \E d \in Conns : Holding(d)' /\ subscr'[d] = n
        BY <3>1 DEF NoneLost
      <4>1. CASE n = s
        BY <2>3, <2>5, <3>3, <4>1
      <4>2. CASE n \in 1..allocated
        <5>1. m_connection'[n] \in Conns
          BY <3>3, <4>2 DEF PlaceInv, NoneLost
        <5>2. CASE n \in freed \/ \E i \in Ids : n \in Listed(i)
          BY <2>1, <5>1, <5>2
        <5>3. CASE \E d \in Conns : Holding(d) /\ subscr[d] = n
          BY <2>3, <5>1, <5>3
        <5> QED BY <4>2, <5>2, <5>3 DEF PlaceInv, NoneLost
      <4> QED BY <3>2, <4>1, <4>2
    <3> QED BY <3>5, <3>6, <3>7 DEF PlaceInv
  <2> QED
    BY <2>4, <2>5
<1>20. CASE UNCHANGED vars
  <2>1. \A i \in Ids : Listed(i)' = Listed(i)
    BY <1>20 DEF vars, nodes, Listed
  <2>2. freed' = freed /\ allocated' = allocated /\ m_connection' = m_connection
    BY <1>20 DEF vars, nodes
  <2>3. \A d \in Conns : Holding(d)' <=> Holding(d)
    BY <1>20 DEF vars, Holding
  <2>4. \A d \in Conns : Holding(d) => subscr'[d] = subscr[d]
    BY <1>20 DEF vars
  <2> QED
    BY <2>1, <2>2, <2>3, <2>4, PlacesKept
<1> QED
  BY <1>1, <1>2, <1>3, <1>4, <1>5, <1>6, <1>7, <1>8, <1>9, <1>10, <1>11,
     <1>12, <1>13, <1>14, <1>15, <1>16, <1>17, <1>18, <1>19, <1>20 DEF Next,
     Thread

-----------------------------------------------------------------------------
(* Walks over the subscribers, notifications and replies                   *)

\* A walk stays as it is while it does not move, what is ahead of it does not
\* change, and no thread begins to make a node.
LEMMA WalksKept ==
  ASSUME WalkInv,
         \A t \in Conns : Walking(t)' => Walking(t),
         \A t \in Conns : Walking(t)' => Ahead(t)' = Ahead(t),
         \A t \in Conns : Walking(t)' => /\ subscr'[t] = subscr[t]
                                       /\ visits'[t] = visits[t] /\ due'[t] = due[t],
         \A d \in Conns : Making(d)' => Making(d) /\ subscr'[d] = subscr[d]
  PROVE  WalkInv'
<1> SUFFICES ASSUME NEW t \in Conns, Walking(t)' PROVE WalkOf(t)'
  BY DEF WalkInv
<1>1. WalkOf(t) /\ Ahead(t)' = Ahead(t) /\ subscr'[t] = subscr[t]
  BY DEF WalkInv
<1>2. visits'[t] = visits[t] /\ due'[t] = due[t]
  OBVIOUS
<1> QED
  BY <1>1, <1>2 DEF WalkOf

\* A walk goes on with what it owes a visit ahead of it, and what it has visited
\* behind it.
LEMMA WalkInvStep == NotifyInv /\ [Next]_vars => WalkInv'
<1> SUFFICES ASSUME TypeInv, RequestInv, LinkInv, PlaceInv, WalkInv, [Next]_vars PROVE WalkInv'
  BY DEF NotifyInv
<1>1. ASSUME NEW c \in Conns, server = "up", SubscribeLock(c)
     PROVE  WalkInv'
  <2>1. \A t \in Conns : Walking(t)' => Walking(t)
    BY <1>1 DEF SubscribeLock, Acquire, Goto, Walking, VisitSteps, Making,
       MakeSteps, TypeInv, TypeOK, nodes, locks, conns, history
  <2>2. \A t \in Conns : Walking(t)' => /\ subscr'[t] = subscr[t]
                                      /\ visits'[t] = visits[t] /\ due'[t] = due[t]
    BY <1>1 DEF SubscribeLock, Acquire, Goto, Walking, VisitSteps, Making,
       MakeSteps, TypeInv, TypeOK, nodes, locks, conns, history
  <2>3. \A d \in Conns : Making(d)' => Making(d) /\ subscr'[d] = subscr[d]
    BY <1>1 DEF SubscribeLock, Acquire, Goto, Walking, VisitSteps, Making,
       MakeSteps, TypeInv, TypeOK, nodes, locks, conns, history
  <2>4. \A t \in Conns : Walking(t)' => Ahead(t)' = Ahead(t)
    BY <1>1, <2>2 DEF SubscribeLock, nodes, Ahead
  <2> QED
    BY <2>1, <2>2, <2>3, <2>4, WalksKept
<1>2. ASSUME NEW c \in Conns, server = "up", SubscribeNext(c)
     PROVE  WalkInv'
  <2>1. \A t \in Conns : Walking(t)' => Walking(t)
    BY <1>2 DEF SubscribeNext, Goto, Walking, VisitSteps, Making, MakeSteps,
       TypeInv, TypeOK, nodes, locks, conns, history
  <2>2. \A t \in Conns : Walking(t)' => /\ subscr'[t] = subscr[t]
                                      /\ visits'[t] = visits[t] /\ due'[t] = due[t]
    BY <1>2 DEF SubscribeNext, Goto, Walking, VisitSteps, Making, MakeSteps,
       TypeInv, TypeOK, nodes, locks, conns, history
  <2>3. \A d \in Conns : Making(d)' => Making(d) /\ subscr'[d] = subscr[d]
    BY <1>2 DEF SubscribeNext, Goto, Walking, VisitSteps, Making, MakeSteps,
       TypeInv, TypeOK, nodes, locks, conns, history
  <2>4. \A t \in Conns : Walking(t)' => Ahead(t)' = Ahead(t)
    <3> SUFFICES ASSUME NEW t \in Conns, Walking(t)' PROVE Ahead(t)' = Ahead(t)
      OBVIOUS
    <3>1. Walking(t) /\ subscr'[t] = subscr[t] /\ Making(c)
      BY <1>2, <2>1, <2>2 DEF SubscribeNext, Making, MakeSteps
    <3>2. subscr[t] # subscr[c] /\ subscr[t] \in Nodes \cup {Null}
      BY <3>1 DEF WalkInv, WalkOf, TypeInv, TypeOK
    <3> QED BY <1>2, <3>1, <3>2, SubscribeNextWalks DEF Ahead
  <2> QED
    BY <2>1, <2>2, <2>3, <2>4, WalksKept
<1>3. ASSUME NEW c \in Conns, server = "up", SubscribeLink(c)
     PROVE  WalkInv'
  <2>1. \A t \in Conns : Walking(t)' => Walking(t)
    BY <1>3 DEF SubscribeLink, Release, Goto, Walking, VisitSteps, Making,
       MakeSteps, TypeInv, TypeOK, nodes, locks, conns, history
  <2>2. \A t \in Conns : Walking(t)' => /\ subscr'[t] = subscr[t]
                                      /\ visits'[t] = visits[t] /\ due'[t] = due[t]
    BY <1>3 DEF SubscribeLink, Release, Goto, Walking, VisitSteps, Making,
       MakeSteps, TypeInv, TypeOK, nodes, locks, conns, history
  <2>3. \A d \in Conns : Making(d)' => Making(d) /\ subscr'[d] = subscr[d]
    BY <1>3 DEF SubscribeLink, Release, Goto, Walking, VisitSteps, Making,
       MakeSteps, TypeInv, TypeOK, nodes, locks, conns, history
  <2>4. \A t \in Conns : Walking(t)' => Ahead(t)' = Ahead(t)
    BY <1>3, <2>2 DEF SubscribeLink, nodes, Ahead
  <2> QED
    BY <2>1, <2>2, <2>3, <2>4, WalksKept
<1>4. ASSUME NEW c \in Conns, server = "up", UnsubscribeLock(c)
     PROVE  WalkInv'
  <2>1. \A t \in Conns : Walking(t)' => Walking(t)
    BY <1>4 DEF UnsubscribeLock, Acquire, Goto, Walking, VisitSteps, Making,
       MakeSteps, TypeInv, TypeOK, nodes, locks, conns, history
  <2>2. \A t \in Conns : Walking(t)' => /\ subscr'[t] = subscr[t]
                                      /\ visits'[t] = visits[t] /\ due'[t] = due[t]
    BY <1>4 DEF UnsubscribeLock, Acquire, Goto, Walking, VisitSteps, Making,
       MakeSteps, TypeInv, TypeOK, nodes, locks, conns, history
  <2>3. \A d \in Conns : Making(d)' => Making(d) /\ subscr'[d] = subscr[d]
    BY <1>4 DEF UnsubscribeLock, Acquire, Goto, Walking, VisitSteps, Making,
       MakeSteps, TypeInv, TypeOK, nodes, locks, conns, history
  <2>4. \A t \in Conns : Walking(t)' => Ahead(t)' = Ahead(t)
    BY <1>4, <2>2 DEF UnsubscribeLock, nodes, Ahead
  <2> QED
    BY <2>1, <2>2, <2>3, <2>4, WalksKept
<1>5. ASSUME NEW c \in Conns, server = "up", UnsubscribeUnlink(c)
     PROVE  WalkInv'
  <2> DEFINE n == FirstOf(c)
  <2>1. \A x \in Nodes \cup {Null} : /\ Walk(x, m_next', {}) \subseteq Walk(x, m_next, {})
                                   /\ Walk(x, m_next, {}) \ {n} \subseteq Walk(x, m_next', {})
    BY <1>5, UnlinkWalks
  <2>2. /\ subscr' = [subscr EXCEPT ![c] = n] /\ pc[c] = "unsubscribe.unlink"
        /\ pc' = [pc EXCEPT ![c] = "unsubscribe.free"]
        /\ due' = [t \in Conns |-> due[t] \ {n}] /\ visits' = visits
    BY <1>5 DEF UnsubscribeUnlink, Goto
  <2> HIDE DEF n
  <2> SUFFICES ASSUME NEW t \in Conns, Walking(t)' PROVE WalkOf(t)'
    BY DEF WalkInv
  <2>3. t # c /\ Walking(t) /\ subscr'[t] = subscr[t]
    BY <2>2 DEF Walking, VisitSteps, TypeInv, TypeOK
  <2>4. Ahead(t)' \subseteq Ahead(t) /\ Ahead(t) \ {n} \subseteq Ahead(t)'
    BY <2>1, <2>3 DEF Ahead, TypeInv, TypeOK
  <2>5. \A d \in Conns : Making(d)' => Making(d) /\ subscr'[d] = subscr[d]
    BY <2>2 DEF Making, MakeSteps, TypeInv, TypeOK
  <2>6. WalkOf(t) /\ due'[t] = due[t] \ {n} /\ visits'[t] = visits[t]
    BY <2>2, <2>3 DEF WalkInv
  <2> QED
    BY <2>3, <2>4, <2>5, <2>6 DEF WalkOf
<1>6. ASSUME NEW c \in Conns, server = "up", UnsubscribeNone(c)
     PROVE  WalkInv'
  <2>1. \A t \in Conns : Walking(t)' => Walking(t)
    BY <1>6 DEF UnsubscribeNone, Release, Goto, Walking, VisitSteps, Making,
       MakeSteps, TypeInv, TypeOK, nodes, locks, conns, history
  <2>2. \A t \in Conns : Walking(t)' => /\ subscr'[t] = subscr[t]
                                      /\ visits'[t] = visits[t] /\ due'[t] = due[t]
    BY <1>6 DEF UnsubscribeNone, Release, Goto, Walking, VisitSteps, Making,
       MakeSteps, TypeInv, TypeOK, nodes, locks, conns, history
  <2>3. \A d \in Conns : Making(d)' => Making(d) /\ subscr'[d] = subscr[d]
    BY <1>6 DEF UnsubscribeNone, Release, Goto, Walking, VisitSteps, Making,
       MakeSteps, TypeInv, TypeOK, nodes, locks, conns, history
  <2>4. \A t \in Conns : Walking(t)' => Ahead(t)' = Ahead(t)
    BY <1>6, <2>2 DEF UnsubscribeNone, nodes, Ahead
  <2> QED
    BY <2>1, <2>2, <2>3, <2>4, WalksKept
<1>7. ASSUME NEW c \in Conns, server = "up", UnsubscribeFree(c)
     PROVE  WalkInv'
  <2>1. \A t \in Conns : Walking(t)' => Walking(t)
    BY <1>7 DEF UnsubscribeFree, Release, Goto, Walking, VisitSteps, Making,
       MakeSteps, TypeInv, TypeOK, nodes, locks, conns, history
  <2>2. \A t \in Conns : Walking(t)' => /\ subscr'[t] = subscr[t]
                                      /\ visits'[t] = visits[t] /\ due'[t] = due[t]
    BY <1>7 DEF UnsubscribeFree, Release, Goto, Walking, VisitSteps, Making,
       MakeSteps, TypeInv, TypeOK, nodes, locks, conns, history
  <2>3. \A d \in Conns : Making(d)' => Making(d) /\ subscr'[d] = subscr[d]
    BY <1>7 DEF UnsubscribeFree, Release, Goto, Walking, VisitSteps, Making,
       MakeSteps, TypeInv, TypeOK, nodes, locks, conns, history
  <2>4. \A t \in Conns : Walking(t)' => Ahead(t)' = Ahead(t)
    BY <1>7, <2>2 DEF UnsubscribeFree, nodes, Ahead
  <2> QED
    BY <2>1, <2>2, <2>3, <2>4, WalksKept
<1>8. ASSUME NEW c \in Conns, server = "up", PushTick(c)
     PROVE  WalkInv'
  <2>1. \A t \in Conns : Walking(t)' => Walking(t)
    BY <1>8 DEF PushTick, Goto, Walking, VisitSteps, Making, MakeSteps,
       TypeInv, TypeOK, nodes, locks, conns, history
  <2>2. \A t \in Conns : Walking(t)' => /\ subscr'[t] = subscr[t]
                                      /\ visits'[t] = visits[t] /\ due'[t] = due[t]
    BY <1>8 DEF PushTick, Goto, Walking, VisitSteps, Making, MakeSteps,
       TypeInv, TypeOK, nodes, locks, conns, history
  <2>3. \A d \in Conns : Making(d)' => Making(d) /\ subscr'[d] = subscr[d]
    BY <1>8 DEF PushTick, Goto, Walking, VisitSteps, Making, MakeSteps,
       TypeInv, TypeOK, nodes, locks, conns, history
  <2>4. \A t \in Conns : Walking(t)' => Ahead(t)' = Ahead(t)
    BY <1>8, <2>2 DEF PushTick, nodes, Ahead
  <2> QED
    BY <2>1, <2>2, <2>3, <2>4, WalksKept
<1>9. ASSUME NEW c \in Conns, server = "up", WriteStatus(c)
     PROVE  WalkInv'
  <2>1. pc' = pc \/ pc' = [pc EXCEPT ![c] = IF req[c].op = "push" THEN "notify" ELSE "idle"]
    BY <1>9 DEF WriteStatus, Write, Goto, TypeInv
  <2>2. \A t \in Conns : Walking(t)' => Walking(t)
    BY <1>9, <2>1 DEF WriteStatus, Walking, VisitSteps, Making, MakeSteps,
       TypeInv, TypeOK, nodes, locks, conns, history
  <2>3. \A t \in Conns : Walking(t)' => /\ subscr'[t] = subscr[t]
                                      /\ visits'[t] = visits[t] /\ due'[t] = due[t]
    BY <1>9, <2>1 DEF WriteStatus, Walking, VisitSteps, Making, MakeSteps,
       TypeInv, TypeOK, nodes, locks, conns, history
  <2>4. \A d \in Conns : Making(d)' => Making(d) /\ subscr'[d] = subscr[d]
    BY <1>9, <2>1 DEF WriteStatus, Walking, VisitSteps, Making, MakeSteps,
       TypeInv, TypeOK, nodes, locks, conns, history
  <2>5. \A t \in Conns : Walking(t)' => Ahead(t)' = Ahead(t)
    BY <1>9, <2>3 DEF WriteStatus, nodes, Ahead
  <2> QED
    BY <2>2, <2>3, <2>4, <2>5, WalksKept
<1>10. ASSUME NEW c \in Conns, server = "up", NotifyLock(c)
     PROVE  WalkInv'
  <2>1. \A t \in Conns : Walking(t)' => Walking(t)
    BY <1>10 DEF NotifyLock, Acquire, Goto, Walking, VisitSteps, Making,
       MakeSteps, TypeInv, TypeOK, nodes, locks, conns, history
  <2>2. \A t \in Conns : Walking(t)' => /\ subscr'[t] = subscr[t]
                                      /\ visits'[t] = visits[t] /\ due'[t] = due[t]
    BY <1>10 DEF NotifyLock, Acquire, Goto, Walking, VisitSteps, Making,
       MakeSteps, TypeInv, TypeOK, nodes, locks, conns, history
  <2>3. \A d \in Conns : Making(d)' => Making(d) /\ subscr'[d] = subscr[d]
    BY <1>10 DEF NotifyLock, Acquire, Goto, Walking, VisitSteps, Making,
       MakeSteps, TypeInv, TypeOK, nodes, locks, conns, history
  <2>4. \A t \in Conns : Walking(t)' => Ahead(t)' = Ahead(t)
    BY <1>10, <2>2 DEF NotifyLock, nodes, Ahead
  <2> QED
    BY <2>1, <2>2, <2>3, <2>4, WalksKept
<1>11. ASSUME NEW c \in Conns, server = "up", NotifyHead(c)
     PROVE  WalkInv'
  <2> DEFINE h == m_subscribers[id(c)]
  <2>1. /\ pc[c] = "notify.head" /\ m_next' = m_next
        /\ subscr' = [subscr EXCEPT ![c] = h]
        /\ due' = [due EXCEPT ![c] = Listed(id(c))]
        /\ visits' = [visits EXCEPT ![c] = <<>>]
        /\ \E step \in VisitSteps \cup {"notify.unlock"} : pc' = [pc EXCEPT ![c] = step]
    BY <1>11 DEF NotifyHead, Goto, NotifyStep, VisitSteps, nodes
  <2>2. id(c) \in Ids /\ Listed(id(c)) = Walk(h, m_next, {})
    BY <2>1, UnderWay DEF Listed
  <2>3. \A d \in Conns : Making(d) => subscr[d] # h
    <3>1. \A d \in Conns : Making(d) => subscr[d] # Null /\ Unlinked(subscr[d])
      BY UnderWay, NullIsNoNode DEF Making, MakeSteps, Unlinked
    <3> QED BY <2>2, <3>1, LedTo
  <2> HIDE DEF h
  <2>4. \A t \in Conns : t # c /\ Walking(t)' => Walking(t) /\ Ahead(t)' = Ahead(t)
    BY <2>1 DEF Walking, Ahead, TypeInv, TypeOK
  <2>5. \A d \in Conns : Making(d)' => d # c /\ Making(d) /\ subscr'[d] = subscr[d]
    BY <2>1 DEF Making, MakeSteps, VisitSteps, TypeInv, TypeOK
  <2>6. ASSUME NEW t \in Conns, Walking(t)', t # c
        PROVE  WalkOf(t)'
    <3>1. WalkOf(t) /\ Ahead(t)' = Ahead(t) /\ subscr'[t] = subscr[t]
      BY <2>1, <2>4, <2>6 DEF WalkInv, TypeInv, TypeOK
    <3>2. visits'[t] = visits[t] /\ due'[t] = due[t]
      BY <2>1, <2>6 DEF TypeInv
    <3> QED BY <2>5, <3>1, <3>2 DEF WalkOf
  <2>7. WalkOf(c)'
    <3>1. subscr'[c] = h /\ due'[c] = Ahead(c)' /\ visits'[c] = <<>>
      BY <2>1, <2>2 DEF Ahead, TypeInv, TypeOK
    <3>2. DOMAIN visits'[c] = {}
      BY <3>1
    <3> QED BY <2>3, <2>5, <3>1, <3>2 DEF WalkOf
  <2> QED
    BY <2>6, <2>7 DEF WalkInv
<1>12. ASSUME NEW c \in Conns, server = "up", NotifyWrite(c)
     PROVE  WalkInv'
  <2>1. PICK k, step, item, to :
          /\ k \in 1..4 /\ step \in VisitSteps
          /\ pc[c] = NotifyParts[k]
          /\ Write(c, to, item, step)
          /\ UNCHANGED <<nodes, req, subscr, due, visits>>
    BY <1>12, PartFacts DEF NotifyWrite, VisitSteps
  <2>2. pc[c] \in VisitSteps /\ (pc' = pc \/ pc' = [pc EXCEPT ![c] = step])
    BY <2>1, PartFacts DEF Write, Goto
  <2>3. \A t \in Conns : Walking(t)' => Walking(t)
    BY <2>1, <2>2 DEF Walking, VisitSteps, Making, MakeSteps, TypeInv,
       TypeOK, nodes, locks, conns, history
  <2>4. \A t \in Conns : Walking(t)' => /\ subscr'[t] = subscr[t]
                                      /\ visits'[t] = visits[t] /\ due'[t] = due[t]
    BY <2>1, <2>2 DEF Walking, VisitSteps, Making, MakeSteps, TypeInv,
       TypeOK, nodes, locks, conns, history
  <2>5. \A d \in Conns : Making(d)' => Making(d) /\ subscr'[d] = subscr[d]
    BY <2>1, <2>2 DEF Walking, VisitSteps, Making, MakeSteps, TypeInv,
       TypeOK, nodes, locks, conns, history
  <2>6. \A t \in Conns : Walking(t)' => Ahead(t)' = Ahead(t)
    BY <2>1, <2>4 DEF nodes, Ahead
  <2> QED
    BY <2>3, <2>4, <2>5, <2>6, WalksKept
<1>13. ASSUME NEW c \in Conns, server = "up", NotifyNext(c)
     PROVE  WalkInv'
  <2> DEFINE n == subscr[c]
  <2>1. /\ pc[c] = "notify.next" /\ m_next' = m_next
        /\ subscr' = [subscr EXCEPT ![c] = m_next[n]]
        /\ due' = [due EXCEPT ![c] = @ \ {n}]
        /\ visits' = [visits EXCEPT ![c] = Append(@, n)]
        /\ \E step \in VisitSteps \cup {"notify.unlock"} : pc' = [pc EXCEPT ![c] = step]
    BY <1>13 DEF NotifyNext, Goto, NotifyStep, VisitSteps, nodes
  <2>2. n \in Nodes /\ m_next \in Links /\ WalkOf(c)
    BY <2>1, UnderWay DEF VisitSteps, TypeInv, TypeOK, Links, WalkInv, Walking
  <2>3. /\ Ahead(c) = {n} \cup Walk(m_next[n], m_next, {})
        /\ n \notin Walk(m_next[n], m_next, {})
    BY <2>2, WalkStep DEF Ahead, LinkInv, NoCircle
  <2>8. \A d \in Conns : Making(d) => subscr[d] # m_next[n]
    <3>1. \A d \in Conns : Making(d) => subscr[d] # Null /\ Unlinked(subscr[d])
      BY UnderWay, NullIsNoNode DEF Making, MakeSteps, Unlinked
    <3> QED BY <2>2, <3>1, LedTo
  <2> HIDE DEF n
  <2>4. \A t \in Conns : t # c /\ Walking(t)' => Walking(t) /\ Ahead(t)' = Ahead(t)
    BY <2>1 DEF Walking, Ahead, TypeInv, TypeOK
  <2>5. \A d \in Conns : Making(d)' => d # c /\ Making(d) /\ subscr'[d] = subscr[d]
    BY <2>1 DEF Making, MakeSteps, VisitSteps, TypeInv, TypeOK
  <2>6. ASSUME NEW t \in Conns, Walking(t)', t # c
        PROVE  WalkOf(t)'
    <3>1. WalkOf(t) /\ Ahead(t)' = Ahead(t) /\ subscr'[t] = subscr[t]
      BY <2>1, <2>4, <2>6 DEF WalkInv, TypeInv, TypeOK
    <3>2. visits'[t] = visits[t] /\ due'[t] = due[t]
      BY <2>1, <2>6 DEF TypeInv
    <3> QED BY <2>5, <3>1, <3>2 DEF WalkOf
  <2>7. WalkOf(c)'
    <3>1. /\ subscr'[c] = m_next[n] /\ due'[c] = due[c] \ {n}
          /\ Ahead(c)' = Walk(m_next[n], m_next, {})
      BY <2>1 DEF Ahead, TypeInv, TypeOK
    <3>2. visits[c] \in Seq(Nodes) /\ visits'[c] = Append(visits[c], n)
      BY <2>1 DEF TypeInv
    <3>3. /\ DOMAIN visits'[c] = 1..(Len(visits[c]) + 1)
          /\ \A k \in DOMAIN visits[c] : visits'[c][k] = visits[c][k]
          /\ visits'[c][Len(visits[c]) + 1] = n
          /\ \A k \in DOMAIN visits'[c] : k \in DOMAIN visits[c] \/ k = Len(visits[c]) + 1
      BY <2>2, <3>2
    <3>4. due'[c] \subseteq Ahead(c)'
      BY <2>2, <2>3, <3>1 DEF WalkOf
    <3>5. \A k \in DOMAIN visits'[c] : visits'[c][k] \notin Ahead(c)'
      BY <2>2, <2>3, <3>1, <3>3 DEF WalkOf
    <3>6. \A k \in DOMAIN visits[c] : visits[c][k] # n
      BY <2>2, <2>3 DEF WalkOf
    <3>7. \A j, k \in DOMAIN visits'[c] : visits'[c][j] = visits'[c][k] => j = k
      BY <2>2, <3>3, <3>6 DEF WalkOf
    <3> QED BY <2>8, <2>5, <3>1, <3>4, <3>5, <3>7 DEF WalkOf
  <2> QED
    BY <2>6, <2>7 DEF WalkInv
<1>14. ASSUME NEW c \in Conns, server = "up", NotifyWild(c)
     PROVE  WalkInv'
  <2>1. \A t \in Conns : Walking(t)' => Walking(t)
    BY <1>14 DEF NotifyWild, Walking, VisitSteps, Making, MakeSteps, TypeInv,
       TypeOK, nodes, locks, conns, history
  <2>2. \A t \in Conns : Walking(t)' => /\ subscr'[t] = subscr[t]
                                      /\ visits'[t] = visits[t] /\ due'[t] = due[t]
    BY <1>14 DEF NotifyWild, Walking, VisitSteps, Making, MakeSteps, TypeInv,
       TypeOK, nodes, locks, conns, history
  <2>3. \A d \in Conns : Making(d)' => Making(d) /\ subscr'[d] = subscr[d]
    BY <1>14 DEF NotifyWild, Walking, VisitSteps, Making, MakeSteps, TypeInv,
       TypeOK, nodes, locks, conns, history
  <2>4. \A t \in Conns : Walking(t)' => Ahead(t)' = Ahead(t)
    BY <1>14, <2>2 DEF NotifyWild, nodes, Ahead
  <2> QED
    BY <2>1, <2>2, <2>3, <2>4, WalksKept
<1>15. ASSUME NEW c \in Conns, server = "up", NotifyUnlock(c)
     PROVE  WalkInv'
  <2>1. \A t \in Conns : Walking(t)' => Walking(t)
    BY <1>15 DEF NotifyUnlock, Release, Goto, Walking, VisitSteps, Making,
       MakeSteps, TypeInv, TypeOK, nodes, locks, conns, history
  <2>2. \A t \in Conns : Walking(t)' => /\ subscr'[t] = subscr[t]
                                      /\ visits'[t] = visits[t] /\ due'[t] = due[t]
    BY <1>15 DEF NotifyUnlock, Release, Goto, Walking, VisitSteps, Making,
       MakeSteps, TypeInv, TypeOK, nodes, locks, conns, history
  <2>3. \A d \in Conns : Making(d)' => Making(d) /\ subscr'[d] = subscr[d]
    BY <1>15 DEF NotifyUnlock, Release, Goto, Walking, VisitSteps, Making,
       MakeSteps, TypeInv, TypeOK, nodes, locks, conns, history
  <2>4. \A t \in Conns : Walking(t)' => Ahead(t)' = Ahead(t)
    BY <1>15, <2>2 DEF NotifyUnlock, nodes, Ahead
  <2> QED
    BY <2>1, <2>2, <2>3, <2>4, WalksKept
<1>16. ASSUME NEW c \in Conns, server = "up", Wait(c)
     PROVE  WalkInv'
  <2>1. \A t \in Conns : Walking(t)' => Walking(t)
    BY <1>16 DEF Wait, ClientGoto, Walking, VisitSteps, Making, MakeSteps,
       TypeInv, TypeOK, nodes, locks, conns, history
  <2>2. \A t \in Conns : Walking(t)' => /\ subscr'[t] = subscr[t]
                                      /\ visits'[t] = visits[t] /\ due'[t] = due[t]
    BY <1>16 DEF Wait, ClientGoto, Walking, VisitSteps, Making, MakeSteps,
       TypeInv, TypeOK, nodes, locks, conns, history
  <2>3. \A d \in Conns : Making(d)' => Making(d) /\ subscr'[d] = subscr[d]
    BY <1>16 DEF Wait, ClientGoto, Walking, VisitSteps, Making, MakeSteps,
       TypeInv, TypeOK, nodes, locks, conns, history
  <2>4. \A t \in Conns : Walking(t)' => Ahead(t)' = Ahead(t)
    BY <1>16, <2>2 DEF Wait, nodes, Ahead
  <2> QED
    BY <2>1, <2>2, <2>3, <2>4, WalksKept
<1>17. ASSUME NEW c \in Conns, server = "up", ClientRead(c)
     PROVE  WalkInv'
  <2>1. \A t \in Conns : Walking(t)' => Walking(t)
    BY <1>17 DEF ClientRead, ClientGoto, Walking, VisitSteps, Making, MakeSteps,
       TypeInv, TypeOK, nodes, locks, conns, history
  <2>2. \A t \in Conns : Walking(t)' => /\ subscr'[t] = subscr[t]
                                      /\ visits'[t] = visits[t] /\ due'[t] = due[t]
    BY <1>17 DEF ClientRead, ClientGoto, Walking, VisitSteps, Making, MakeSteps,
       TypeInv, TypeOK, nodes, locks, conns, history
  <2>3. \A d \in Conns : Making(d)' => Making(d) /\ subscr'[d] = subscr[d]
    BY <1>17 DEF ClientRead, ClientGoto, Walking, VisitSteps, Making, MakeSteps,
       TypeInv, TypeOK, nodes, locks, conns, history
  <2>4. \A t \in Conns : Walking(t)' => Ahead(t)' = Ahead(t)
    BY <1>17, <2>2 DEF ClientRead, nodes, Ahead
  <2> QED
    BY <2>1, <2>2, <2>3, <2>4, WalksKept
<1>18. ASSUME NEW c \in Conns, server = "up", CloseConnection(c)
     PROVE  WalkInv'
  <2>1. \A t \in Conns : Walking(t)' => Walking(t)
    BY <1>18 DEF CloseConnection, ClientGoto, Walking, VisitSteps, Making,
       MakeSteps, TypeInv, TypeOK, nodes, locks, conns, history
  <2>2. \A t \in Conns : Walking(t)' => /\ subscr'[t] = subscr[t]
                                      /\ visits'[t] = visits[t] /\ due'[t] = due[t]
    BY <1>18 DEF CloseConnection, ClientGoto, Walking, VisitSteps, Making,
       MakeSteps, TypeInv, TypeOK, nodes, locks, conns, history
  <2>3. \A d \in Conns : Making(d)' => Making(d) /\ subscr'[d] = subscr[d]
    BY <1>18 DEF CloseConnection, ClientGoto, Walking, VisitSteps, Making,
       MakeSteps, TypeInv, TypeOK, nodes, locks, conns, history
  <2>4. \A t \in Conns : Walking(t)' => Ahead(t)' = Ahead(t)
    BY <1>18, <2>2 DEF CloseConnection, nodes, Ahead
  <2> QED
    BY <2>1, <2>2, <2>3, <2>4, WalksKept
<1>19. ASSUME NEW c \in Conns, NEW r \in Requests(c), server = "up", Ask(c, r)
     PROVE  WalkInv'
  <2>1. r.op \in {"subscribe", "unsubscribe", "push"}
    BY DEF Requests
  <2>2. /\ pc[c] = "idle" /\ pc' = [pc EXCEPT ![c] = r.op] /\ m_next' = m_next
        /\ due' = due /\ visits' = visits
        /\ IF r.op = "subscribe" THEN subscr' = [subscr EXCEPT ![c] = allocated + 1]
                                ELSE subscr' = subscr
    BY <1>19 DEF Ask, Goto, history
  <2> SUFFICES ASSUME NEW t \in Conns, Walking(t)' PROVE WalkOf(t)'
    BY DEF WalkInv
  <2>3. t # c /\ Walking(t) /\ subscr'[t] = subscr[t]
    BY <2>1, <2>2 DEF Walking, VisitSteps, TypeInv, TypeOK
  <2>4. Ahead(t)' = Ahead(t) /\ visits'[t] = visits[t] /\ due'[t] = due[t] /\ WalkOf(t)
    BY <2>2, <2>3 DEF Ahead, WalkInv
  <2>5. subscr[t] # allocated + 1
    <3>1. subscr[t] = Null \/ subscr[t] \in 1..allocated
      BY DEF RequestInv, RequestOf
    <3> QED BY <3>1, NotifyAssumption DEF Null, TypeInv, TypeOK
  <2>6. \A d \in Conns : Making(d)' => \/ Making(d) /\ subscr'[d] = subscr[d]
                                     \/ subscr'[d] = allocated + 1
    BY <2>1, <2>2 DEF Making, MakeSteps, TypeInv, TypeOK
  <2> QED
    BY <2>3, <2>4, <2>5, <2>6 DEF WalkOf
<1>20. CASE UNCHANGED vars
  BY <1>20 DEF vars, nodes, history, Walking, Making, Ahead, WalkInv, WalkOf
<1> QED
  BY <1>1, <1>2, <1>3, <1>4, <1>5, <1>6, <1>7, <1>8, <1>9, <1>10, <1>11,
     <1>12, <1>13, <1>14, <1>15, <1>16, <1>17, <1>18, <1>19, <1>20 DEF Next,
     Thread

\* The last parts written stay right while none is written and no walk that is in
\* the middle of a notification moves.
LEMMA SentKept ==
  ASSUME SentInv, server = "up", sent' = sent,
         \A t \in Conns : pc[t] \in Begun \/ pc'[t] \in Begun => pc'[t] = pc[t],
         \A t \in Conns : pc[t] \in Begun => To(t)' = To(t) /\ id(t)' = id(t)
  PROVE  SentInv'
<1>1. \A k \in 1..3 : NotifyParts[k + 1] \in Begun
  <2>1. \A k \in 1..3 : k = 1 \/ k = 2 \/ k = 3
    OBVIOUS
  <2> QED BY <2>1 DEF NotifyParts, Begun
<1>2. SentBehind'
  <2> SUFFICES ASSUME NEW c \in Conns, NEW k \in 1..3, pc'[c] = NotifyParts[k + 1]
               PROVE  sent'[To(c)'][id(c)'] = [kind |-> Parts[k], by |-> c]
    BY DEF SentBehind, Parts, NotifyParts
  <2>1. pc[c] = NotifyParts[k + 1] /\ To(c)' = To(c) /\ id(c)' = id(c)
    BY <1>1
  <2> QED BY <2>1 DEF SentInv, SentBehind
<1>3. SentUnderWay'
  <2> SUFFICES ASSUME NEW d \in Conns, NEW i \in Ids, sent'[d][i] # NoItem
               PROVE  \E c \in Conns, k \in 1..3 :
                        /\ sent'[d][i] = [kind |-> Parts[k], by |-> c]
                        /\ pc'[c] = NotifyParts[k + 1]
                        /\ id(c)' = i /\ To(c)' = d
    BY DEF SentUnderWay, NoItem, Parts, NotifyParts
  <2>1. PICK c \in Conns, k \in 1..3 : /\ sent[d][i] = [kind |-> Parts[k], by |-> c]
                                     /\ pc[c] = NotifyParts[k + 1]
                                     /\ id(c) = i /\ To(c) = d
    BY DEF SentInv, SentUnderWay
  <2>2. pc'[c] = pc[c] /\ To(c)' = To(c) /\ id(c)' = id(c)
    BY <1>1, <2>1
  <2> QED BY <2>1, <2>2
<1> QED
  BY <1>2, <1>3 DEF SentInv

\* What a walk has written last to the connection it writes to.
LEMMA WrittenBefore ==
  ASSUME TypeInv, RequestInv, LockInv, PlaceInv, SentInv, server = "up",
         NEW c \in Conns, NEW k \in 1..4, pc[c] = NotifyParts[k]
  PROVE  /\ To(c) \in Conns /\ id(c) \in Ids /\ subscr[c] \in 1..allocated
         /\ \A t \in Conns : t # c /\ pc[t] \in WalkSteps => id(t) # id(c)
         /\ k = 1 => sent[To(c)][id(c)] = NoItem
         /\ k > 1 => sent[To(c)][id(c)] = [kind |-> Parts[k - 1], by |-> c]
<1>1. pc[c] \in VisitSteps /\ pc[c] \in WalkSteps
  BY PartFacts DEF VisitSteps, WalkSteps
<1>2. subscr[c] \in 1..allocated /\ id(c) \in Ids
  BY <1>1, UnderWay DEF VisitSteps
<1>3. To(c) \in Conns
  BY <1>2 DEF To, PlaceInv, NoneLost
<1>4. \A t \in Conns : t # c /\ pc[t] \in WalkSteps => id(t) # id(c)
  BY <1>1, <1>2 DEF LockInv
<1>5. CASE k = 1
  <2> SUFFICES ASSUME sent[To(c)][id(c)] # NoItem PROVE FALSE
    BY <1>2, <1>3, <1>4, <1>5
  <2>1. PICK t \in Conns, j \in 1..3 : pc[t] = NotifyParts[j + 1] /\ id(t) = id(c)
    BY ZenonT(60), <1>2, <1>3 DEF SentInv, SentUnderWay
  <2>2. pc[t] \in WalkSteps /\ pc[t] # NotifyParts[1]
    BY <2>1, PartFacts DEF VisitSteps, WalkSteps
  <2> QED BY <1>4, <1>5, <2>1, <2>2
<1>6. CASE k > 1
  <2>1. k - 1 \in 1..3 /\ (k - 1) + 1 = k
    BY <1>6
  <2>2. sent[To(c)][id(c)] = [kind |-> Parts[k - 1], by |-> c]
    BY <2>1 DEF SentInv, SentBehind
  <2> QED BY <1>2, <1>3, <1>4, <1>6, <2>2
<1> QED BY <1>5, <1>6

\* No step mixes the notifications of a ticker to one connection.
LEMMA SentStep == NotifyInv /\ [Next]_vars => SentInv'
<1> SUFFICES ASSUME TypeInv, RequestInv, LockInv, PlaceInv, SentInv, [Next]_vars PROVE SentInv'
  BY DEF NotifyInv
<1>1. ASSUME NEW c \in Conns, server = "up", SubscribeLock(c)
     PROVE  SentInv'
  <2>1. \A t \in Conns : pc[t] \in Begun \/ pc'[t] \in Begun => pc'[t] = pc[t]
    BY <1>1 DEF SubscribeLock, Acquire, Goto, Begun, TypeInv, TypeOK, nodes,
       locks, conns, history
  <2>2. \A t \in Conns : pc[t] \in Begun => To(t)' = To(t) /\ id(t)' = id(t)
    BY <1>1 DEF SubscribeLock, Acquire, Goto, Begun, TypeInv, TypeOK, nodes,
       locks, conns, history, To, id
  <2>3. sent' = sent
    BY <1>1 DEF SubscribeLock, history
  <2> QED
    BY <1>1, <2>1, <2>2, <2>3, SentKept
<1>2. ASSUME NEW c \in Conns, server = "up", SubscribeNext(c)
     PROVE  SentInv'
  <2>1. \A t \in Conns : pc[t] \in Begun \/ pc'[t] \in Begun => pc'[t] = pc[t]
    BY <1>2 DEF SubscribeNext, Goto, Begun, TypeInv, TypeOK, nodes, locks,
       conns, history
  <2>2. \A t \in Conns : pc[t] \in Begun => To(t)' = To(t) /\ id(t)' = id(t)
    BY <1>2 DEF SubscribeNext, Goto, Begun, TypeInv, TypeOK, nodes, locks,
       conns, history, To, id
  <2>3. sent' = sent
    BY <1>2 DEF SubscribeNext, history
  <2> QED
    BY <1>2, <2>1, <2>2, <2>3, SentKept
<1>3. ASSUME NEW c \in Conns, server = "up", SubscribeLink(c)
     PROVE  SentInv'
  <2>1. \A t \in Conns : pc[t] \in Begun \/ pc'[t] \in Begun => pc'[t] = pc[t]
    BY <1>3 DEF SubscribeLink, Release, Goto, Begun, TypeInv, TypeOK, nodes,
       locks, conns, history
  <2>2. \A t \in Conns : pc[t] \in Begun => To(t)' = To(t) /\ id(t)' = id(t)
    BY <1>3 DEF SubscribeLink, Release, Goto, Begun, TypeInv, TypeOK, nodes,
       locks, conns, history, To, id
  <2>3. sent' = sent
    BY <1>3 DEF SubscribeLink, history
  <2> QED
    BY <1>3, <2>1, <2>2, <2>3, SentKept
<1>4. ASSUME NEW c \in Conns, server = "up", UnsubscribeLock(c)
     PROVE  SentInv'
  <2>1. \A t \in Conns : pc[t] \in Begun \/ pc'[t] \in Begun => pc'[t] = pc[t]
    BY <1>4 DEF UnsubscribeLock, Acquire, Goto, Begun, TypeInv, TypeOK, nodes,
       locks, conns, history
  <2>2. \A t \in Conns : pc[t] \in Begun => To(t)' = To(t) /\ id(t)' = id(t)
    BY <1>4 DEF UnsubscribeLock, Acquire, Goto, Begun, TypeInv, TypeOK, nodes,
       locks, conns, history, To, id
  <2>3. sent' = sent
    BY <1>4 DEF UnsubscribeLock, history
  <2> QED
    BY <1>4, <2>1, <2>2, <2>3, SentKept
<1>5. ASSUME NEW c \in Conns, server = "up", UnsubscribeUnlink(c)
     PROVE  SentInv'
  <2>1. \A t \in Conns : pc[t] \in Begun \/ pc'[t] \in Begun => pc'[t] = pc[t]
    BY <1>5 DEF UnsubscribeUnlink, Goto, Begun, TypeInv, TypeOK, nodes, locks,
       conns, history
  <2>2. \A t \in Conns : pc[t] \in Begun => To(t)' = To(t) /\ id(t)' = id(t)
    BY <1>5 DEF UnsubscribeUnlink, Goto, Begun, TypeInv, TypeOK, nodes, locks,
       conns, history, To, id
  <2>3. sent' = sent
    BY <1>5 DEF UnsubscribeUnlink, history
  <2> QED
    BY <1>5, <2>1, <2>2, <2>3, SentKept
<1>6. ASSUME NEW c \in Conns, server = "up", UnsubscribeNone(c)
     PROVE  SentInv'
  <2>1. \A t \in Conns : pc[t] \in Begun \/ pc'[t] \in Begun => pc'[t] = pc[t]
    BY <1>6 DEF UnsubscribeNone, Release, Goto, Begun, TypeInv, TypeOK, nodes,
       locks, conns, history
  <2>2. \A t \in Conns : pc[t] \in Begun => To(t)' = To(t) /\ id(t)' = id(t)
    BY <1>6 DEF UnsubscribeNone, Release, Goto, Begun, TypeInv, TypeOK, nodes,
       locks, conns, history, To, id
  <2>3. sent' = sent
    BY <1>6 DEF UnsubscribeNone, history
  <2> QED
    BY <1>6, <2>1, <2>2, <2>3, SentKept
<1>7. ASSUME NEW c \in Conns, server = "up", UnsubscribeFree(c)
     PROVE  SentInv'
  <2>1. \A t \in Conns : pc[t] \in Begun \/ pc'[t] \in Begun => pc'[t] = pc[t]
    BY <1>7 DEF UnsubscribeFree, Release, Goto, Begun, TypeInv, TypeOK, nodes,
       locks, conns, history
  <2>2. \A t \in Conns : pc[t] \in Begun => To(t)' = To(t) /\ id(t)' = id(t)
    BY <1>7 DEF UnsubscribeFree, Release, Goto, Begun, TypeInv, TypeOK, nodes,
       locks, conns, history, To, id
  <2>3. sent' = sent
    BY <1>7 DEF UnsubscribeFree, history
  <2> QED
    BY <1>7, <2>1, <2>2, <2>3, SentKept
<1>8. ASSUME NEW c \in Conns, server = "up", PushTick(c)
     PROVE  SentInv'
  <2>1. \A t \in Conns : pc[t] \in Begun \/ pc'[t] \in Begun => pc'[t] = pc[t]
    BY <1>8 DEF PushTick, Goto, Begun, TypeInv, TypeOK, nodes, locks, conns,
       history
  <2>2. \A t \in Conns : pc[t] \in Begun => To(t)' = To(t) /\ id(t)' = id(t)
    BY <1>8 DEF PushTick, Goto, Begun, TypeInv, TypeOK, nodes, locks, conns,
       history, To, id
  <2>3. sent' = sent
    BY <1>8 DEF PushTick, history
  <2> QED
    BY <1>8, <2>1, <2>2, <2>3, SentKept
<1>9. ASSUME NEW c \in Conns, server = "up", WriteStatus(c)
     PROVE  SentInv'
  <2>1. pc' = pc \/ pc' = [pc EXCEPT ![c] = IF req[c].op = "push" THEN "notify" ELSE "idle"]
    BY <1>9 DEF WriteStatus, Write, Goto, TypeInv
  <2>2. \A t \in Conns : pc[t] \in Begun \/ pc'[t] \in Begun => pc'[t] = pc[t]
    BY <1>9, <2>1 DEF WriteStatus, Begun, TypeInv, TypeOK, nodes, locks, conns,
       history
  <2>3. \A t \in Conns : pc[t] \in Begun => To(t)' = To(t) /\ id(t)' = id(t)
    BY <1>9 DEF WriteStatus, Begun, TypeInv, nodes, To, id
  <2>4. sent' = sent
    BY <1>9 DEF WriteStatus, history
  <2> QED
    BY <1>9, <2>2, <2>3, <2>4, SentKept
<1>10. ASSUME NEW c \in Conns, server = "up", NotifyLock(c)
     PROVE  SentInv'
  <2>1. \A t \in Conns : pc[t] \in Begun \/ pc'[t] \in Begun => pc'[t] = pc[t]
    BY <1>10 DEF NotifyLock, Acquire, Goto, Begun, TypeInv, TypeOK, nodes,
       locks, conns, history
  <2>2. \A t \in Conns : pc[t] \in Begun => To(t)' = To(t) /\ id(t)' = id(t)
    BY <1>10 DEF NotifyLock, Acquire, Goto, Begun, TypeInv, TypeOK, nodes,
       locks, conns, history, To, id
  <2>3. sent' = sent
    BY <1>10 DEF NotifyLock, history
  <2> QED
    BY <1>10, <2>1, <2>2, <2>3, SentKept
<1>11. ASSUME NEW c \in Conns, server = "up", NotifyHead(c)
     PROVE  SentInv'
  <2>1. \A t \in Conns : pc[t] \in Begun \/ pc'[t] \in Begun => pc'[t] = pc[t]
    BY <1>11 DEF NotifyHead, Goto, NotifyStep, Begun, TypeInv, TypeOK, nodes,
       locks, conns, history
  <2>2. \A t \in Conns : pc[t] \in Begun => To(t)' = To(t) /\ id(t)' = id(t)
    BY <1>11 DEF NotifyHead, Goto, NotifyStep, Begun, TypeInv, TypeOK, nodes,
       locks, conns, history, To, id
  <2>3. sent' = sent
    BY <1>11 DEF NotifyHead, history
  <2> QED
    BY <1>11, <2>1, <2>2, <2>3, SentKept
<1>12. ASSUME NEW c \in Conns, server = "up", NotifyWrite(c)
     PROVE  SentInv'
  <2> SUFFICES ASSUME server' = "up" PROVE SentInv'
    BY DEF SentInv
  <2> DEFINE d == To(c)
             i == id(c)
  <2>1. PICK k \in 1..4 :
          /\ pc[c] = NotifyParts[k]
          /\ sent' = [sent EXCEPT ![d][i] = IF k = 4 THEN NoItem
                                           ELSE [kind |-> Parts[k], by |-> c]]
          /\ pc' = [pc EXCEPT ![c] = IF k = 4 THEN "notify.next" ELSE NotifyParts[k + 1]]
          /\ UNCHANGED <<nodes, req, subscr>>
    BY <1>12, PartFacts DEF NotifyWrite, Write, Goto, To
  <2>2. /\ d \in Conns /\ i \in Ids
        /\ \A t \in Conns : t # c /\ pc[t] \in WalkSteps => id(t) # i
    BY <1>12, <2>1, WrittenBefore
  <2>3. \A t \in Conns : To(t)' = To(t) /\ id(t)' = id(t)
    BY <2>1 DEF To, id, nodes
  <2>4. \A j \in 1..3 : NotifyParts[j + 1] \in WalkSteps /\ NotifyParts[j + 1] # "notify.next"
    BY PartFacts DEF WalkSteps, VisitSteps
  <2>5. /\ pc'[c] = IF k = 4 THEN "notify.next" ELSE NotifyParts[k + 1]
        /\ \A t \in Conns : t # c => pc'[t] = pc[t]
    BY <2>1 DEF TypeInv
  <2> HIDE DEF d, i
  <2>6. /\ sent'[d][i] = IF k = 4 THEN NoItem ELSE [kind |-> Parts[k], by |-> c]
        /\ \A e \in Conns, j \in Ids : e # d \/ j # i => sent'[e][j] = sent[e][j]
    BY <2>1, <2>2 DEF TypeInv
  <2>7. SentBehind'
    <3> SUFFICES ASSUME NEW t \in Conns, NEW j \in 1..3, pc'[t] = NotifyParts[j + 1]
                 PROVE  sent'[To(t)'][id(t)'] = [kind |-> Parts[j], by |-> t]
      BY DEF SentBehind, Parts, NotifyParts
    <3>1. CASE t = c
      <4>1. k \in 1..3 /\ NotifyParts[k + 1] = NotifyParts[j + 1]
        BY <2>4, <2>5, <3>1
      <4>2. k = j
        BY <4>1, PartFacts
      <4> QED BY <2>3, <2>6, <3>1, <4>1, <4>2 DEF d, i
    <3>2. CASE t # c
      <4>1. pc[t] = NotifyParts[j + 1] /\ pc[t] \in WalkSteps
        BY <2>4, <2>5, <3>2
      <4>2. id(t) # i /\ id(t) \in Ids /\ To(t) \in Conns
        <5>1. j + 1 \in 1..4
          OBVIOUS
        <5> QED BY <1>12, <2>2, <3>2, <4>1, <5>1, WrittenBefore
      <4>3. sent[To(t)][id(t)] = [kind |-> Parts[j], by |-> t]
        BY <1>12, <4>1 DEF SentInv, SentBehind
      <4> QED BY <2>3, <2>6, <4>2, <4>3
    <3> QED BY <3>1, <3>2
  <2>8. SentUnderWay'
    <3> SUFFICES ASSUME NEW e \in Conns, NEW j \in Ids, sent'[e][j] # NoItem
                 PROVE  \E t \in Conns, m \in 1..3 :
                          /\ sent'[e][j] = [kind |-> Parts[m], by |-> t]
                          /\ pc'[t] = NotifyParts[m + 1]
                          /\ id(t)' = j /\ To(t)' = e
      BY DEF SentUnderWay, NoItem, Parts, NotifyParts
    <3>1. CASE e = d /\ j = i
      <4>1. k \in 1..3 /\ sent'[e][j] = [kind |-> Parts[k], by |-> c]
        BY <2>6, <3>1
      <4>2. pc'[c] = NotifyParts[k + 1]
        BY <2>5, <4>1
      <4> QED BY <2>3, <3>1, <4>1, <4>2 DEF d, i
    <3>2. CASE e # d \/ j # i
      <4>1. sent'[e][j] = sent[e][j]
        BY <2>6, <3>2
      <4>2. PICK t \in Conns, m \in 1..3 : /\ sent[e][j] = [kind |-> Parts[m], by |-> t]
                                         /\ pc[t] = NotifyParts[m + 1]
                                         /\ id(t) = j /\ To(t) = e
        BY <1>12, <4>1 DEF SentInv, SentUnderWay
      <4>3. t # c
        BY <3>2, <4>2 DEF d, i
      <4> QED BY <2>3, <2>5, <4>1, <4>2, <4>3
    <3> QED BY <3>1, <3>2
  <2> QED
    BY <2>7, <2>8 DEF SentInv
<1>13. ASSUME NEW c \in Conns, server = "up", NotifyNext(c)
     PROVE  SentInv'
  <2>1. \A t \in Conns : pc[t] \in Begun \/ pc'[t] \in Begun => pc'[t] = pc[t]
    BY <1>13 DEF NotifyNext, Goto, NotifyStep, Begun, TypeInv, TypeOK, nodes,
       locks, conns, history
  <2>2. \A t \in Conns : pc[t] \in Begun => To(t)' = To(t) /\ id(t)' = id(t)
    BY <1>13 DEF NotifyNext, Goto, NotifyStep, Begun, TypeInv, TypeOK, nodes,
       locks, conns, history, To, id
  <2>3. sent' = sent
    BY <1>13 DEF NotifyNext, history
  <2> QED
    BY <1>13, <2>1, <2>2, <2>3, SentKept
<1>14. ASSUME NEW c \in Conns, server = "up", NotifyWild(c)
     PROVE  SentInv'
  BY <1>14 DEF NotifyWild, SentInv
<1>15. ASSUME NEW c \in Conns, server = "up", NotifyUnlock(c)
     PROVE  SentInv'
  <2>1. \A t \in Conns : pc[t] \in Begun \/ pc'[t] \in Begun => pc'[t] = pc[t]
    BY <1>15 DEF NotifyUnlock, Release, Goto, Begun, TypeInv, TypeOK, nodes,
       locks, conns, history
  <2>2. \A t \in Conns : pc[t] \in Begun => To(t)' = To(t) /\ id(t)' = id(t)
    BY <1>15 DEF NotifyUnlock, Release, Goto, Begun, TypeInv, TypeOK, nodes,
       locks, conns, history, To, id
  <2>3. sent' = sent
    BY <1>15 DEF NotifyUnlock, history
  <2> QED
    BY <1>15, <2>1, <2>2, <2>3, SentKept
<1>16. ASSUME NEW c \in Conns, server = "up", Wait(c)
     PROVE  SentInv'
  <2>1. \A t \in Conns : pc[t] \in Begun \/ pc'[t] \in Begun => pc'[t] = pc[t]
    BY <1>16 DEF Wait, ClientGoto, Begun, TypeInv, TypeOK, nodes, locks, conns,
       history
  <2>2. \A t \in Conns : pc[t] \in Begun => To(t)' = To(t) /\ id(t)' = id(t)
    BY <1>16 DEF Wait, ClientGoto, Begun, TypeInv, TypeOK, nodes, locks, conns,
       history, To, id
  <2>3. sent' = sent
    BY <1>16 DEF Wait, history
  <2> QED
    BY <1>16, <2>1, <2>2, <2>3, SentKept
<1>17. ASSUME NEW c \in Conns, server = "up", ClientRead(c)
     PROVE  SentInv'
  <2>1. \A t \in Conns : pc[t] \in Begun \/ pc'[t] \in Begun => pc'[t] = pc[t]
    BY <1>17 DEF ClientRead, ClientGoto, Begun, TypeInv, TypeOK, nodes, locks,
       conns, history
  <2>2. \A t \in Conns : pc[t] \in Begun => To(t)' = To(t) /\ id(t)' = id(t)
    BY <1>17 DEF ClientRead, ClientGoto, Begun, TypeInv, TypeOK, nodes, locks,
       conns, history, To, id
  <2>3. sent' = sent
    BY <1>17 DEF ClientRead, history
  <2> QED
    BY <1>17, <2>1, <2>2, <2>3, SentKept
<1>18. ASSUME NEW c \in Conns, server = "up", CloseConnection(c)
     PROVE  SentInv'
  <2>1. \A t \in Conns : pc[t] \in Begun \/ pc'[t] \in Begun => pc'[t] = pc[t]
    BY <1>18 DEF CloseConnection, ClientGoto, Begun, TypeInv, TypeOK, nodes,
       locks, conns, history
  <2>2. \A t \in Conns : pc[t] \in Begun => To(t)' = To(t) /\ id(t)' = id(t)
    BY <1>18 DEF CloseConnection, ClientGoto, Begun, TypeInv, TypeOK, nodes,
       locks, conns, history, To, id
  <2>3. sent' = sent
    BY <1>18 DEF CloseConnection, history
  <2> QED
    BY <1>18, <2>1, <2>2, <2>3, SentKept
<1>19. ASSUME NEW c \in Conns, NEW r \in Requests(c), server = "up", Ask(c, r)
     PROVE  SentInv'
  <2>0. r.op \in {"subscribe", "unsubscribe", "push"}
    BY DEF Requests
  <2>1. \A t \in Conns : pc[t] \in Begun \/ pc'[t] \in Begun => pc'[t] = pc[t]
    BY <1>19, <2>0 DEF Ask, Goto, ClientGoto, Begun, TypeInv, TypeOK, nodes, locks, conns, history
  <2>2. \A t \in Conns : pc[t] \in Begun => To(t)' = To(t) /\ id(t)' = id(t)
    <3> SUFFICES ASSUME NEW t \in Conns, pc[t] \in Begun
                 PROVE  To(t)' = To(t) /\ id(t)' = id(t)
      OBVIOUS
    <3>1. t # c
      BY <1>19 DEF Ask, Begun
    <3>2. subscr[t] \in 1..allocated
      BY UnderWay DEF Begun, VisitSteps
    <3>3. subscr'[t] = subscr[t] /\ id(t)' = id(t)
      BY <1>19, <3>1 DEF Ask, TypeInv, TypeOK, id
    <3>4. m_connection'[subscr[t]] = m_connection[subscr[t]]
      <4>1. subscr[t] # allocated + 1 /\ subscr[t] \in Nodes
        BY <3>2, NotifyAssumption DEF Nodes, TypeInv, TypeOK
      <4> QED BY <1>19, <4>1 DEF Ask, TypeInv, TypeOK
    <3> QED BY <3>3, <3>4 DEF To
  <2>3. sent' = sent
    BY <1>19 DEF Ask, history
  <2> QED
    BY <1>19, <2>1, <2>2, <2>3, SentKept
<1>20. CASE UNCHANGED vars
  <2>1. sent' = sent /\ server' = server
    BY <1>20 DEF vars, history
  <2>2. \A t \in Conns : pc[t] \in Begun \/ pc'[t] \in Begun => pc'[t] = pc[t]
    BY <1>20 DEF vars
  <2>3. \A t \in Conns : pc[t] \in Begun => To(t)' = To(t) /\ id(t)' = id(t)
    BY <1>20 DEF vars, nodes, To, id
  <2>4. CASE server = "up"
    BY <2>1, <2>2, <2>3, <2>4, SentKept
  <2>5. CASE server # "up"
    BY <2>1, <2>5 DEF SentInv
  <2> QED BY <2>4, <2>5
<1> QED
  BY <1>1, <1>2, <1>3, <1>4, <1>5, <1>6, <1>7, <1>8, <1>9, <1>10, <1>11,
     <1>12, <1>13, <1>14, <1>15, <1>16, <1>17, <1>18, <1>19, <1>20 DEF Next,
     Thread

\* Nothing changes for the connections that have never subscribed, while nothing is
\* sent to them and their threads stay before or after the reply.
LEMMA QuietKept ==
  ASSUME QuietInv, server' # "killed", client' = client, closed' = closed,
         m_connection' = m_connection, allocated' = allocated,
         \A t \in Conns : ~Subscribed(t) => down'[t] = down[t],
         \A t \in Conns : ~Subscribed(t) => (Making(t)' => Making(t)),
         \A t \in Conns : ~Subscribed(t) => (Called(t)' <=> Called(t))
  PROVE  QuietInv'
<1>1. \A t \in Conns : t \in closed' <=> client'[t] = "closed"
  BY DEF QuietInv
<1>2. ASSUME NEW t \in Conns, ~Subscribed(t)' PROVE QuietOf(t)'
  <2>1. ~Subscribed(t)
    BY <1>2 DEF Subscribed
  <2>2. QuietOf(t) /\ down'[t] = down[t] /\ client'[t] = client[t]
    BY <2>1 DEF QuietInv
  <2>3. (Making(t)' => Making(t)) /\ (Called(t)' <=> Called(t))
    BY <2>1
  <2> QED BY <2>2, <2>3 DEF QuietOf
<1>3. KilledOnlyBySubscriber'
  BY DEF KilledOnlyBySubscriber
<1> QED
  BY <1>1, <1>2, <1>3 DEF QuietInv

\* The other connections, while one is served.
LEMMA QuietOthers ==
  ASSUME QuietInv, TypeInv, NEW c \in Conns, NEW t \in Conns, t # c, ~Subscribed(t)',
         Subscribed(t) => Subscribed(t)', pc'[t] = pc[t],
         client'[t] = client[t], down'[t] = down[t]
  PROVE  QuietOf(t)'
<1>1. QuietOf(t)
  BY DEF QuietInv
<1> QED
  BY <1>1 DEF QuietOf, Making, Called

\* A connection that has never subscribed gets its replies and nothing else, and no
\* write to it kills the server.
LEMMA QuietStep == NotifyInv /\ [Next]_vars => QuietInv'
<1> SUFFICES ASSUME TypeInv, RequestInv, PlaceInv, QuietInv, [Next]_vars PROVE QuietInv'
  BY DEF NotifyInv
<1>1. ASSUME NEW c \in Conns, server = "up", SubscribeLock(c)
     PROVE  QuietInv'
  <2>1. /\ server' # "killed" /\ client' = client /\ closed' = closed
        /\ m_connection' = m_connection /\ allocated' = allocated
    BY <1>1 DEF SubscribeLock, nodes, conns
  <2>2. \A t \in Conns : ~Subscribed(t) => down'[t] = down[t]
    BY <1>1 DEF SubscribeLock, conns
  <2>3. \A t \in Conns : ~Subscribed(t) => (Making(t)' => Making(t))
    BY <1>1 DEF SubscribeLock, Acquire, Goto, Making, Called, MakeSteps,
       RemoveSteps, VisitSteps, TypeInv, TypeOK, nodes, locks, conns,
       history
  <2>4. \A t \in Conns : ~Subscribed(t) => (Called(t)' <=> Called(t))
    BY <1>1 DEF SubscribeLock, Acquire, Goto, Making, Called, MakeSteps,
       RemoveSteps, VisitSteps, TypeInv, TypeOK, nodes, locks, conns,
       history
  <2> QED
    BY <2>1, <2>2, <2>3, <2>4, QuietKept
<1>2. ASSUME NEW c \in Conns, server = "up", SubscribeNext(c)
     PROVE  QuietInv'
  <2>1. /\ server' # "killed" /\ client' = client /\ closed' = closed
        /\ m_connection' = m_connection /\ allocated' = allocated
    BY <1>2 DEF SubscribeNext, nodes, conns
  <2>2. \A t \in Conns : ~Subscribed(t) => down'[t] = down[t]
    BY <1>2 DEF SubscribeNext, conns
  <2>3. \A t \in Conns : ~Subscribed(t) => (Making(t)' => Making(t))
    BY <1>2 DEF SubscribeNext, Goto, Making, Called, MakeSteps, RemoveSteps,
       VisitSteps, TypeInv, TypeOK, nodes, locks, conns, history
  <2>4. \A t \in Conns : ~Subscribed(t) => (Called(t)' <=> Called(t))
    BY <1>2 DEF SubscribeNext, Goto, Making, Called, MakeSteps, RemoveSteps,
       VisitSteps, TypeInv, TypeOK, nodes, locks, conns, history
  <2> QED
    BY <2>1, <2>2, <2>3, <2>4, QuietKept
<1>3. ASSUME NEW c \in Conns, server = "up", SubscribeLink(c)
     PROVE  QuietInv'
  <2>1. Subscribed(c)
    BY <1>3 DEF SubscribeLink, Making, MakeSteps, QuietInv, QuietOf
  <2>2. /\ server' # "killed" /\ client' = client /\ closed' = closed
        /\ m_connection' = m_connection /\ allocated' = allocated
    BY <1>3 DEF SubscribeLink, nodes, conns
  <2>3. \A t \in Conns : ~Subscribed(t) => down'[t] = down[t]
    BY <1>3 DEF SubscribeLink, conns
  <2>4. \A t \in Conns : ~Subscribed(t) => (Making(t)' => Making(t))
    BY <1>3, <2>1 DEF SubscribeLink, Release, Goto, Making, Called, MakeSteps,
       RemoveSteps, VisitSteps, TypeInv, TypeOK, nodes, locks, conns,
       history
  <2>5. \A t \in Conns : ~Subscribed(t) => (Called(t)' <=> Called(t))
    BY <1>3, <2>1 DEF SubscribeLink, Release, Goto, Making, Called, MakeSteps,
       RemoveSteps, VisitSteps, TypeInv, TypeOK, nodes, locks, conns,
       history
  <2> QED
    BY <2>2, <2>3, <2>4, <2>5, QuietKept
<1>4. ASSUME NEW c \in Conns, server = "up", UnsubscribeLock(c)
     PROVE  QuietInv'
  <2>1. /\ server' # "killed" /\ client' = client /\ closed' = closed
        /\ m_connection' = m_connection /\ allocated' = allocated
    BY <1>4 DEF UnsubscribeLock, nodes, conns
  <2>2. \A t \in Conns : ~Subscribed(t) => down'[t] = down[t]
    BY <1>4 DEF UnsubscribeLock, conns
  <2>3. \A t \in Conns : ~Subscribed(t) => (Making(t)' => Making(t))
    BY <1>4 DEF UnsubscribeLock, Acquire, Goto, Making, Called, MakeSteps,
       RemoveSteps, VisitSteps, TypeInv, TypeOK, nodes, locks, conns,
       history
  <2>4. \A t \in Conns : ~Subscribed(t) => (Called(t)' <=> Called(t))
    BY <1>4 DEF UnsubscribeLock, Acquire, Goto, Making, Called, MakeSteps,
       RemoveSteps, VisitSteps, TypeInv, TypeOK, nodes, locks, conns,
       history
  <2> QED
    BY <2>1, <2>2, <2>3, <2>4, QuietKept
<1>5. ASSUME NEW c \in Conns, server = "up", UnsubscribeUnlink(c)
     PROVE  QuietInv'
  <2>1. /\ server' # "killed" /\ client' = client /\ closed' = closed
        /\ m_connection' = m_connection /\ allocated' = allocated
    BY <1>5 DEF UnsubscribeUnlink, nodes, conns
  <2>2. \A t \in Conns : ~Subscribed(t) => down'[t] = down[t]
    BY <1>5 DEF UnsubscribeUnlink, conns
  <2>3. \A t \in Conns : ~Subscribed(t) => (Making(t)' => Making(t))
    BY <1>5 DEF UnsubscribeUnlink, Goto, Making, Called, MakeSteps,
       RemoveSteps, VisitSteps, TypeInv, TypeOK, nodes, locks, conns,
       history
  <2>4. \A t \in Conns : ~Subscribed(t) => (Called(t)' <=> Called(t))
    BY <1>5 DEF UnsubscribeUnlink, Goto, Making, Called, MakeSteps,
       RemoveSteps, VisitSteps, TypeInv, TypeOK, nodes, locks, conns,
       history
  <2> QED
    BY <2>1, <2>2, <2>3, <2>4, QuietKept
<1>6. ASSUME NEW c \in Conns, server = "up", UnsubscribeNone(c)
     PROVE  QuietInv'
  <2>1. /\ server' # "killed" /\ client' = client /\ closed' = closed
        /\ m_connection' = m_connection /\ allocated' = allocated
    BY <1>6 DEF UnsubscribeNone, nodes, conns
  <2>2. \A t \in Conns : ~Subscribed(t) => down'[t] = down[t]
    BY <1>6 DEF UnsubscribeNone, conns
  <2>3. \A t \in Conns : ~Subscribed(t) => (Making(t)' => Making(t))
    BY <1>6 DEF UnsubscribeNone, Release, Goto, Making, Called, MakeSteps,
       RemoveSteps, VisitSteps, TypeInv, TypeOK, nodes, locks, conns,
       history
  <2>4. \A t \in Conns : ~Subscribed(t) => (Called(t)' <=> Called(t))
    BY <1>6 DEF UnsubscribeNone, Release, Goto, Making, Called, MakeSteps,
       RemoveSteps, VisitSteps, TypeInv, TypeOK, nodes, locks, conns,
       history
  <2> QED
    BY <2>1, <2>2, <2>3, <2>4, QuietKept
<1>7. ASSUME NEW c \in Conns, server = "up", UnsubscribeFree(c)
     PROVE  QuietInv'
  <2>1. /\ server' # "killed" /\ client' = client /\ closed' = closed
        /\ m_connection' = m_connection /\ allocated' = allocated
    BY <1>7 DEF UnsubscribeFree, nodes, conns
  <2>2. \A t \in Conns : ~Subscribed(t) => down'[t] = down[t]
    BY <1>7 DEF UnsubscribeFree, conns
  <2>3. \A t \in Conns : ~Subscribed(t) => (Making(t)' => Making(t))
    BY <1>7 DEF UnsubscribeFree, Release, Goto, Making, Called, MakeSteps,
       RemoveSteps, VisitSteps, TypeInv, TypeOK, nodes, locks, conns,
       history
  <2>4. \A t \in Conns : ~Subscribed(t) => (Called(t)' <=> Called(t))
    BY <1>7 DEF UnsubscribeFree, Release, Goto, Making, Called, MakeSteps,
       RemoveSteps, VisitSteps, TypeInv, TypeOK, nodes, locks, conns,
       history
  <2> QED
    BY <2>1, <2>2, <2>3, <2>4, QuietKept
<1>8. ASSUME NEW c \in Conns, server = "up", PushTick(c)
     PROVE  QuietInv'
  <2>1. /\ server' # "killed" /\ client' = client /\ closed' = closed
        /\ m_connection' = m_connection /\ allocated' = allocated
    BY <1>8 DEF PushTick, nodes, conns
  <2>2. \A t \in Conns : ~Subscribed(t) => down'[t] = down[t]
    BY <1>8 DEF PushTick, conns
  <2>3. \A t \in Conns : ~Subscribed(t) => (Making(t)' => Making(t))
    BY <1>8 DEF PushTick, Goto, Making, Called, MakeSteps, RemoveSteps,
       VisitSteps, TypeInv, TypeOK, nodes, locks, conns, history
  <2>4. \A t \in Conns : ~Subscribed(t) => (Called(t)' <=> Called(t))
    BY <1>8 DEF PushTick, Goto, Making, Called, MakeSteps, RemoveSteps,
       VisitSteps, TypeInv, TypeOK, nodes, locks, conns, history
  <2> QED
    BY <2>1, <2>2, <2>3, <2>4, QuietKept
<1>9. ASSUME NEW c \in Conns, server = "up", WriteStatus(c)
     PROVE  QuietInv'
  <2>1. /\ pc[c] = "status" /\ client' = client /\ closed' = closed
        /\ m_connection' = m_connection /\ allocated' = allocated
        /\ \/ /\ c \notin closed /\ down' = [down EXCEPT ![c] = Append(@, [kind |-> "status"])]
              /\ pc' = [pc EXCEPT ![c] = IF req[c].op = "push" THEN "notify" ELSE "idle"]
              /\ server' = server
           \/ /\ c \in closed /\ down' = down
              /\ \/ pc' = pc
                 \/ pc' = [pc EXCEPT ![c] = IF req[c].op = "push" THEN "notify" ELSE "idle"]
    BY <1>9 DEF WriteStatus, Write, Goto, nodes, conns, TypeInv
  <2>2. ~Subscribed(c) => c \notin closed /\ QuietOf(c) /\ client[c] = "status" /\ down[c] = <<>>
    BY <2>1 DEF QuietInv, QuietOf, Called
  <2>3. \A t \in Conns : t \in closed' <=> client'[t] = "closed"
    BY <2>1 DEF QuietInv
  <2>4. ASSUME NEW t \in Conns, t # c, ~Subscribed(t)'
        PROVE  QuietOf(t)'
    <3>1. pc'[t] = pc[t] /\ down'[t] = down[t] /\ client'[t] = client[t]
      BY <2>1, <2>4 DEF TypeInv, TypeOK
    <3>2. Subscribed(t) => Subscribed(t)'
      BY <2>1 DEF Subscribed
    <3> QED BY <2>4, <3>1, <3>2, QuietOthers
  <2>5. ASSUME ~Subscribed(c)'
        PROVE  QuietOf(c)'
    <3>1. ~Subscribed(c)
      BY <2>1, <2>5 DEF Subscribed
    <3>2. down'[c] = Append(<<>>, [kind |-> "status"]) /\ client'[c] = "status"
      BY <2>1, <2>2, <3>1 DEF TypeInv
    <3>3. pc'[c] \in {"notify", "idle"}
      BY <2>1, <2>2, <3>1 DEF TypeInv
    <3>4. down'[c] = <<[kind |-> "status"]>>
      BY <3>2
    <3>5. ~Making(c)' /\ ~Called(c)'
      BY <3>3 DEF Making, Called, MakeSteps, RemoveSteps
    <3> QED BY <3>2, <3>4, <3>5 DEF QuietOf
  <2>6. KilledOnlyBySubscriber'
    BY <1>9, <2>1, <2>2 DEF KilledOnlyBySubscriber, Subscribed
  <2> QED
    BY <2>3, <2>4, <2>5, <2>6 DEF QuietInv
<1>10. ASSUME NEW c \in Conns, server = "up", NotifyLock(c)
     PROVE  QuietInv'
  <2>1. /\ server' # "killed" /\ client' = client /\ closed' = closed
        /\ m_connection' = m_connection /\ allocated' = allocated
    BY <1>10 DEF NotifyLock, nodes, conns
  <2>2. \A t \in Conns : ~Subscribed(t) => down'[t] = down[t]
    BY <1>10 DEF NotifyLock, conns
  <2>3. \A t \in Conns : ~Subscribed(t) => (Making(t)' => Making(t))
    BY <1>10 DEF NotifyLock, Acquire, Goto, Making, Called, MakeSteps,
       RemoveSteps, VisitSteps, TypeInv, TypeOK, nodes, locks, conns,
       history
  <2>4. \A t \in Conns : ~Subscribed(t) => (Called(t)' <=> Called(t))
    BY <1>10 DEF NotifyLock, Acquire, Goto, Making, Called, MakeSteps,
       RemoveSteps, VisitSteps, TypeInv, TypeOK, nodes, locks, conns,
       history
  <2> QED
    BY <2>1, <2>2, <2>3, <2>4, QuietKept
<1>11. ASSUME NEW c \in Conns, server = "up", NotifyHead(c)
     PROVE  QuietInv'
  <2>1. /\ server' # "killed" /\ client' = client /\ closed' = closed
        /\ m_connection' = m_connection /\ allocated' = allocated
    BY <1>11 DEF NotifyHead, nodes, conns
  <2>2. \A t \in Conns : ~Subscribed(t) => down'[t] = down[t]
    BY <1>11 DEF NotifyHead, conns
  <2>3. \A t \in Conns : ~Subscribed(t) => (Making(t)' => Making(t))
    BY <1>11 DEF NotifyHead, Goto, NotifyStep, Making, Called, MakeSteps,
       RemoveSteps, VisitSteps, TypeInv, TypeOK, nodes, locks, conns,
       history
  <2>4. \A t \in Conns : ~Subscribed(t) => (Called(t)' <=> Called(t))
    BY <1>11 DEF NotifyHead, Goto, NotifyStep, Making, Called, MakeSteps,
       RemoveSteps, VisitSteps, TypeInv, TypeOK, nodes, locks, conns,
       history
  <2> QED
    BY <2>1, <2>2, <2>3, <2>4, QuietKept
<1>12. ASSUME NEW c \in Conns, server = "up", NotifyWrite(c)
     PROVE  QuietInv'
  <2>1. PICK k, step, item :
          /\ k \in 1..4 /\ step \in VisitSteps
          /\ pc[c] = NotifyParts[k]
          /\ Write(c, To(c), item, step)
          /\ UNCHANGED <<nodes, client>>
    BY <1>12, PartFacts DEF NotifyWrite, VisitSteps, To
  <2>2. /\ pc[c] \in VisitSteps /\ step \in VisitSteps
        /\ (pc' = pc \/ pc' = [pc EXCEPT ![c] = step])
        /\ closed' = closed /\ (down' = down \/ \E q : down' = [down EXCEPT ![To(c)] = q])
        /\ server' = server \/ To(c) \in closed
    BY <2>1, PartFacts DEF Write, Goto, conns
  <2>3. subscr[c] \in 1..allocated /\ Subscribed(To(c))
    BY <2>2, UnderWay DEF Subscribed, To, VisitSteps
  <2>4. /\ client' = client /\ closed' = closed
        /\ m_connection' = m_connection /\ allocated' = allocated
    BY <2>1, <2>2 DEF nodes
  <2>5. \A t \in Conns : t \in closed' <=> client'[t] = "closed"
    BY <2>4 DEF QuietInv
  <2>6. ASSUME NEW t \in Conns, ~Subscribed(t)'
        PROVE  QuietOf(t)'
    <3>1. ~Subscribed(t)
      BY <2>4, <2>6 DEF Subscribed
    <3>2. down'[t] = down[t] /\ client'[t] = client[t] /\ QuietOf(t)
      BY <2>2, <2>3, <2>4, <3>1 DEF QuietInv, TypeInv
    <3>3. (Making(t)' <=> Making(t)) /\ (Called(t)' <=> Called(t))
      BY <2>2 DEF Making, Called, MakeSteps, RemoveSteps, VisitSteps, TypeInv
    <3> QED BY <3>2, <3>3 DEF QuietOf
  <2>7. KilledOnlyBySubscriber'
    BY <1>12, <2>2, <2>3, <2>4 DEF KilledOnlyBySubscriber, To
  <2> QED
    BY <2>5, <2>6, <2>7 DEF QuietInv
<1>13. ASSUME NEW c \in Conns, server = "up", NotifyNext(c)
     PROVE  QuietInv'
  <2>1. /\ server' # "killed" /\ client' = client /\ closed' = closed
        /\ m_connection' = m_connection /\ allocated' = allocated
    BY <1>13 DEF NotifyNext, nodes, conns
  <2>2. \A t \in Conns : ~Subscribed(t) => down'[t] = down[t]
    BY <1>13 DEF NotifyNext, conns
  <2>3. \A t \in Conns : ~Subscribed(t) => (Making(t)' => Making(t))
    BY <1>13 DEF NotifyNext, Goto, NotifyStep, Making, Called, MakeSteps,
       RemoveSteps, VisitSteps, TypeInv, TypeOK, nodes, locks, conns,
       history
  <2>4. \A t \in Conns : ~Subscribed(t) => (Called(t)' <=> Called(t))
    BY <1>13 DEF NotifyNext, Goto, NotifyStep, Making, Called, MakeSteps,
       RemoveSteps, VisitSteps, TypeInv, TypeOK, nodes, locks, conns,
       history
  <2> QED
    BY <2>1, <2>2, <2>3, <2>4, QuietKept
<1>14. ASSUME NEW c \in Conns, server = "up", NotifyWild(c)
     PROVE  QuietInv'
  <2>1. /\ server' # "killed" /\ client' = client /\ closed' = closed
        /\ m_connection' = m_connection /\ allocated' = allocated
    BY <1>14 DEF NotifyWild, nodes, conns
  <2>2. \A t \in Conns : ~Subscribed(t) => down'[t] = down[t]
    BY <1>14 DEF NotifyWild, conns
  <2>3. \A t \in Conns : ~Subscribed(t) => (Making(t)' => Making(t))
    BY <1>14 DEF NotifyWild, Making, Called, MakeSteps, RemoveSteps, VisitSteps,
       TypeInv, TypeOK, nodes, locks, conns, history
  <2>4. \A t \in Conns : ~Subscribed(t) => (Called(t)' <=> Called(t))
    BY <1>14 DEF NotifyWild, Making, Called, MakeSteps, RemoveSteps, VisitSteps,
       TypeInv, TypeOK, nodes, locks, conns, history
  <2> QED
    BY <2>1, <2>2, <2>3, <2>4, QuietKept
<1>15. ASSUME NEW c \in Conns, server = "up", NotifyUnlock(c)
     PROVE  QuietInv'
  <2>1. /\ server' # "killed" /\ client' = client /\ closed' = closed
        /\ m_connection' = m_connection /\ allocated' = allocated
    BY <1>15 DEF NotifyUnlock, nodes, conns
  <2>2. \A t \in Conns : ~Subscribed(t) => down'[t] = down[t]
    BY <1>15 DEF NotifyUnlock, conns
  <2>3. \A t \in Conns : ~Subscribed(t) => (Making(t)' => Making(t))
    BY <1>15 DEF NotifyUnlock, Release, Goto, Making, Called, MakeSteps,
       RemoveSteps, VisitSteps, TypeInv, TypeOK, nodes, locks, conns,
       history
  <2>4. \A t \in Conns : ~Subscribed(t) => (Called(t)' <=> Called(t))
    BY <1>15 DEF NotifyUnlock, Release, Goto, Making, Called, MakeSteps,
       RemoveSteps, VisitSteps, TypeInv, TypeOK, nodes, locks, conns,
       history
  <2> QED
    BY <2>1, <2>2, <2>3, <2>4, QuietKept
<1>16. ASSUME NEW c \in Conns, server = "up", Wait(c)
     PROVE  QuietInv'
  <2>1. /\ client[c] = "idle" /\ client' = [client EXCEPT ![c] = "command"]
        /\ pc' = pc /\ down' = down /\ closed' = closed /\ server' = server
        /\ m_connection' = m_connection /\ allocated' = allocated
    BY <1>16 DEF Wait, ClientGoto, nodes, conns
  <2>2. \A t \in Conns : t # c /\ ~Subscribed(t)' => QuietOf(t)'
    <3> SUFFICES ASSUME NEW t \in Conns, t # c, ~Subscribed(t)' PROVE QuietOf(t)'
      OBVIOUS
    <3>1. pc'[t] = pc[t] /\ down'[t] = down[t] /\ client'[t] = client[t]
      BY <2>1 DEF TypeInv, TypeOK
    <3>2. Subscribed(t) => Subscribed(t)'
      BY <2>1 DEF Subscribed
    <3> QED BY <3>1, <3>2, QuietOthers
  <2>3. ~Subscribed(c)' => QuietOf(c)'
    BY <2>1 DEF Subscribed, QuietInv, QuietOf, Making, Called, TypeInv, TypeOK
  <2>4. \A t \in Conns : t \in closed' <=> client'[t] = "closed"
    BY <2>1 DEF QuietInv, TypeInv, TypeOK
  <2>5. KilledOnlyBySubscriber'
    BY <1>16, <2>1 DEF KilledOnlyBySubscriber
  <2> QED
    BY <2>2, <2>3, <2>4, <2>5 DEF QuietInv
<1>17. ASSUME NEW c \in Conns, server = "up", ClientRead(c)
     PROVE  QuietInv'
  <2>1. /\ client[c] \in {"status", "command", "len", "piece", "time"}
        /\ down[c] # <<>> /\ down' = [down EXCEPT ![c] = Tail(@)]
        /\ client' = [client EXCEPT ![c] = AfterRead(client[c], Head(down[c]).kind)]
        /\ AfterRead(client[c], Head(down[c]).kind) # "closed"
        /\ pc' = pc /\ closed' = closed /\ server' = server
        /\ m_connection' = m_connection /\ allocated' = allocated
    BY <1>17 DEF ClientRead, ClientGoto, AfterRead, nodes
  <2>2. \A t \in Conns : t # c /\ ~Subscribed(t)' => QuietOf(t)'
    <3> SUFFICES ASSUME NEW t \in Conns, t # c, ~Subscribed(t)' PROVE QuietOf(t)'
      OBVIOUS
    <3>1. pc'[t] = pc[t] /\ down'[t] = down[t] /\ client'[t] = client[t]
      BY <2>1 DEF TypeInv, TypeOK
    <3>2. Subscribed(t) => Subscribed(t)'
      BY <2>1 DEF Subscribed
    <3> QED BY <3>1, <3>2, QuietOthers
  <2>3. ASSUME ~Subscribed(c)' PROVE QuietOf(c)'
    <3>1. QuietOf(c)
      BY <2>1, <2>3 DEF Subscribed, QuietInv
    <3>2. client[c] = "status" /\ ~Called(c) /\ down[c] = <<[kind |-> "status"]>>
      BY <2>1, <3>1 DEF QuietOf
    <3>3. Head(down[c]).kind = "status" /\ Tail(down[c]) = <<>>
      BY <3>2
    <3>4. client'[c] = "idle" /\ down'[c] = <<>>
      BY <2>1, <3>2, <3>3 DEF AfterRead, TypeInv, TypeOK
    <3>5. (Making(c)' <=> Making(c)) /\ (Called(c)' <=> Called(c))
      BY <2>1 DEF Making, Called
    <3> QED BY <3>1, <3>2, <3>4, <3>5 DEF QuietOf
  <2>4. \A t \in Conns : t \in closed' <=> client'[t] = "closed"
    BY <2>1 DEF QuietInv, TypeInv, TypeOK
  <2>5. KilledOnlyBySubscriber'
    BY <1>17, <2>1 DEF KilledOnlyBySubscriber
  <2> QED
    BY <2>2, <2>3, <2>4, <2>5 DEF QuietInv
<1>18. ASSUME NEW c \in Conns, server = "up", CloseConnection(c)
     PROVE  QuietInv'
  <2>1. /\ client[c] = "idle" /\ client' = [client EXCEPT ![c] = "closed"]
        /\ pc' = pc /\ down' = [down EXCEPT ![c] = <<>>]
        /\ closed' = closed \cup {c} /\ server' = server
        /\ m_connection' = m_connection /\ allocated' = allocated
    BY <1>18 DEF CloseConnection, ClientGoto, nodes
  <2>2. \A t \in Conns : t # c /\ ~Subscribed(t)' => QuietOf(t)'
    <3> SUFFICES ASSUME NEW t \in Conns, t # c, ~Subscribed(t)' PROVE QuietOf(t)'
      OBVIOUS
    <3>1. pc'[t] = pc[t] /\ down'[t] = down[t] /\ client'[t] = client[t]
      BY <2>1 DEF TypeInv, TypeOK
    <3>2. Subscribed(t) => Subscribed(t)'
      BY <2>1 DEF Subscribed
    <3> QED BY <3>1, <3>2, QuietOthers
  <2>3. ~Subscribed(c)' => QuietOf(c)'
    BY <2>1 DEF Subscribed, QuietInv, QuietOf, Making, Called, TypeInv, TypeOK
  <2>4. \A t \in Conns : t \in closed' <=> client'[t] = "closed"
    BY <2>1 DEF QuietInv, TypeInv, TypeOK
  <2>5. KilledOnlyBySubscriber'
    BY <1>18, <2>1 DEF KilledOnlyBySubscriber
  <2> QED
    BY <2>2, <2>3, <2>4, <2>5 DEF QuietInv
<1>19. ASSUME NEW c \in Conns, NEW r \in Requests(c), server = "up", Ask(c, r)
     PROVE  QuietInv'
  <2>0. r.op \in {"subscribe", "unsubscribe", "push"} /\ allocated \in Nat
    BY NotifyAssumption DEF Requests, TypeInv, TypeOK
  <2>1. /\ client[c] = "idle" /\ client' = [client EXCEPT ![c] = "status"]
        /\ pc' = [pc EXCEPT ![c] = r.op] /\ down' = down
        /\ closed' = closed /\ server' = server
        /\ allocated' \in {allocated, allocated + 1}
        /\ \A n \in 1..allocated : n \in 1..allocated' /\ m_connection'[n] = m_connection[n]
        /\ r.op = "subscribe" => allocated + 1 \in 1..allocated' /\ m_connection'[allocated + 1] = c
    <3>1. CASE r.op = "subscribe"
      <4>1. allocated + 1 \in Nodes /\ m_connection' = [m_connection EXCEPT ![allocated + 1] = c]
        BY <1>19, <2>0, <3>1, NotifyAssumption DEF Ask, Nodes
      <4>2. \A n \in 1..allocated : n \in Nodes /\ n # allocated + 1
        BY <2>0, <4>1, NotifyAssumption DEF Nodes
      <4>3. \A n \in 1..allocated : n \in 1..allocated' /\ m_connection'[n] = m_connection[n]
        BY <1>19, <2>0, <3>1, <4>1, <4>2 DEF Ask, TypeInv, TypeOK
      <4>4. allocated + 1 \in 1..allocated' /\ m_connection'[allocated + 1] = c
        BY <1>19, <2>0, <3>1, <4>1 DEF Ask, TypeInv, TypeOK
      <4> QED BY <1>19, <3>1, <4>3, <4>4 DEF Ask, Goto, ClientGoto, conns
    <3>2. CASE r.op # "subscribe"
      BY <1>19, <3>2 DEF Ask, Goto, ClientGoto, conns
    <3> QED BY <3>1, <3>2
  <2>2. \A t \in Conns : t # c /\ ~Subscribed(t)' => QuietOf(t)'
    <3> SUFFICES ASSUME NEW t \in Conns, t # c, ~Subscribed(t)' PROVE QuietOf(t)'
      OBVIOUS
    <3>1. pc'[t] = pc[t] /\ down'[t] = down[t] /\ client'[t] = client[t]
      BY <2>1 DEF TypeInv, TypeOK
    <3>2. Subscribed(t) => Subscribed(t)'
      BY <2>1 DEF Subscribed
    <3> QED BY <3>1, <3>2, QuietOthers
  <2>3. ASSUME ~Subscribed(c)' PROVE QuietOf(c)'
    <3>1. ~Subscribed(c) /\ r.op # "subscribe"
      BY <2>1, <2>3 DEF Subscribed
    <3>2. QuietOf(c) /\ down'[c] = <<>> /\ client'[c] = "status"
      BY <2>1, <3>1 DEF QuietInv, QuietOf, TypeInv, TypeOK
    <3>3. ~Making(c)' /\ Called(c)'
      BY <2>0, <2>1, <3>1 DEF Making, Called, MakeSteps, RemoveSteps, TypeInv
    <3> QED BY <3>2, <3>3 DEF QuietOf
  <2>4. \A t \in Conns : t \in closed' <=> client'[t] = "closed"
    BY <2>1 DEF QuietInv, TypeInv, TypeOK
  <2>5. KilledOnlyBySubscriber'
    BY <1>19, <2>1 DEF KilledOnlyBySubscriber
  <2> QED
    BY <2>2, <2>3, <2>4, <2>5 DEF QuietInv
<1>20. CASE UNCHANGED vars
  <2>1. /\ \A t \in Conns : Subscribed(t)' <=> Subscribed(t)
        /\ \A t \in Conns : QuietOf(t)' <=> QuietOf(t)
    BY <1>20 DEF vars, nodes, conns, Subscribed, QuietOf, Making, Called
  <2>2. KilledOnlyBySubscriber'
    BY <1>20 DEF vars, nodes, conns, QuietInv, KilledOnlyBySubscriber
  <2> QED
    BY <1>20, <2>1, <2>2 DEF vars, conns, QuietInv
<1> QED
  BY <1>1, <1>2, <1>3, <1>4, <1>5, <1>6, <1>7, <1>8, <1>9, <1>10, <1>11,
     <1>12, <1>13, <1>14, <1>15, <1>16, <1>17, <1>18, <1>19, <1>20 DEF Next,
     Thread

-----------------------------------------------------------------------------
(* Theorems                                                                *)

\* NotifyInv holds at the start.
LEMMA NotifyInit == Init => NotifyInv
<1> SUFFICES ASSUME Init PROVE NotifyInv
  OBVIOUS
<1>1. TypeInv
  <2>1. down \in [Conns -> Seq([kind: Kinds])] /\ visits \in [Conns -> Seq(Nodes)]
    BY DEF Init
  <2>2. TypeOK
    BY NotifyAssumption DEF Init, TypeOK, Nodes, Null, Listening
  <2> QED
    BY <2>1, <2>2 DEF Init, TypeInv, Steps
<1>2. RequestInv
  BY DEF Init, RequestInv, RequestOf, MakeSteps, RemoveSteps, PushSteps, WalkSteps,
     VisitSteps
<1>3. LockInv
  BY NotifyAssumption DEF Init, LockInv, TickHolds, WalkSteps, VisitSteps, Conns
<1>4. \A i \in Ids : Listed(i) = {}
  BY WalkNull DEF Init, Listed
<1>5. \A c \in Conns : ~Making(c) /\ ~Holding(c) /\ ~Walking(c) /\ pc[c] # "subscribe.link"
  BY DEF Init, Making, Holding, Walking, MakeSteps, VisitSteps
<1>6. LinkInv
  <2>1. NoCircle
    BY WalkNull DEF Init, NoCircle
  <2>2. NoFork /\ ReadyToLink
    BY <1>4, <1>5 DEF NoFork, ReadyToLink
  <2>3. NotYetLinked
    BY NullIsNoNode DEF Init, NotYetLinked
  <2> QED
    BY <2>1, <2>2, <2>3 DEF LinkInv
<1>7. PlaceInv
  <2>1. 1..allocated = {} /\ freed = {}
    BY DEF Init
  <2> QED
    BY <1>4, <1>5, <2>1 DEF PlaceInv, InOneList, InOneHand, NoneLost
<1>8. WalkInv
  BY <1>5 DEF WalkInv
<1>9. SentInv
  <2>1. \A k \in 1..3 : NotifyParts[k + 1] # "idle"
    <3>1. \A k \in 1..3 : k = 1 \/ k = 2 \/ k = 3
      OBVIOUS
    <3> QED BY <3>1 DEF NotifyParts
  <2> QED
    BY <2>1 DEF Init, SentInv, SentBehind, SentUnderWay
<1>10. QuietInv
  BY <1>5 DEF Init, QuietInv, QuietOf, Called, RemoveSteps, KilledOnlyBySubscriber
<1> QED
  BY <1>1, <1>2, <1>3, <1>6, <1>7, <1>8, <1>9, <1>10 DEF NotifyInv

\* Every step of a thread or client, and a stutter, keeps it.
LEMMA NotifyStepKeeps == NotifyInv /\ [Next]_vars => NotifyInv'
<1> SUFFICES ASSUME NotifyInv, [Next]_vars PROVE NotifyInv'
  OBVIOUS
<1>1. TypeInv' /\ RequestInv' /\ LockInv' /\ LinkInv'
  BY TypeStep, RequestStep, LockStep, LinkStep
<1>2. PlaceInv' /\ WalkInv' /\ SentInv' /\ QuietInv'
  BY PlaceStep, WalkInvStep, SentStep, QuietStep
<1> QED
  BY <1>1, <1>2 DEF NotifyInv

\* In every reachable state, whatever subscribes, unsubscribes, pushes, waits and
\* closes at once, the lists, locks, walks and notifications agree as NotifyInv says.
THEOREM NotifyInvariance == Spec => []NotifyInv
  BY NotifyInit, NotifyStepKeeps, PTL DEF Spec

\* Every subscription is accounted for in exactly one place: the list of one ticker,
\* the hands of the thread that makes or removes it, or freed; and every list that
\* srv_tick_subscribe and srv_tick_unsubscribe leave behind ends.
THEOREM Accounted == Spec => []NodesAccounted
<1>1. NotifyInv => NodesAccounted
  <2> SUFFICES ASSUME NotifyInv PROVE NodesAccounted
    OBVIOUS
  <2>1. TypeInv /\ RequestInv /\ LinkInv /\ InOneList /\ InOneHand /\ NoneLost
    BY DEF NotifyInv, PlaceInv
  <2>2. ASSUME NEW n \in 1..allocated
        PROVE  Cardinality({i \in Ids : n \in Listed(i)}) + Cardinality(Held(n))
                 + (IF n \in freed THEN 1 ELSE 0) = 1
    <3> DEFINE lists == {i \in Ids : n \in Listed(i)}
    <3>1. Held(n) = {c \in Conns : Holding(c) /\ subscr[c] = n}
      BY DEF Held, Holding, MakeSteps
    <3>2. CASE n \in freed
      <4>1. lists = {} /\ Held(n) = {}
        BY <2>1, <3>1, <3>2 DEF InOneList, InOneHand
      <4> QED BY <3>2, <4>1, FS_EmptySet
    <3>3. CASE n \notin freed /\ \E i \in Ids : n \in Listed(i)
      <4>1. PICK i \in Ids : n \in Listed(i)
        BY <3>3
      <4>2. lists = {i} /\ Held(n) = {}
        BY <2>1, <3>1, <4>1 DEF InOneList, InOneHand
      <4> QED BY SMTT(30), <3>3, <4>2, FS_EmptySet, FS_Singleton
    <3>4. CASE n \notin freed /\ ~ \E i \in Ids : n \in Listed(i)
      <4>1. PICK c \in Conns : Holding(c) /\ subscr[c] = n
        BY <2>1, <3>4 DEF NoneLost
      <4>2. lists = {} /\ Held(n) = {c}
        BY <2>1, <3>1, <3>4, <4>1 DEF InOneHand
      <4>3. Cardinality(lists) = 0 /\ Cardinality(Held(n)) = 1
        BY <4>2, FS_EmptySet, FS_Singleton
      <4> QED BY <3>4, <4>3
    <3> QED BY <3>2, <3>3, <3>4
  <2>3. ASSUME NEW i \in Ids, Listed(i) # {}
        PROVE  \E n \in Listed(i) : m_next[n] = Null
    <3> DEFINE h == m_subscribers[i]
               L == Listed(i)
    <3>1. m_next \in Links /\ h \in Nodes \cup {Null} /\ L = Walk(h, m_next, {})
      BY <2>1 DEF TypeInv, TypeOK, Links, Listed
    <3>2. h \in Nodes /\ L \subseteq Nodes
      BY <2>3, <3>1, WalkNull, WalkClosed
    <3>3. \A n \in L : m_next[n] # h
      BY <2>1, <3>1, <3>2 DEF LinkInv, NoCircle
    <3>4. \A m, n \in L : m_next[m] = m_next[n] /\ m_next[m] # Null => m = n
      BY <2>1 DEF LinkInv, NoFork
    <3> HIDE DEF h, L
    <3>5. \E n \in L : m_next[n] = Null
      BY <3>1, <3>2, <3>3, <3>4, ListEnds
    <3> QED BY <3>5 DEF L
  <2> QED
    BY <2>1, <2>2, <2>3 DEF NodesAccounted, TypeInv
<1> QED
  BY <1>1, NotifyInvariance, PTL

\* A walk of the loop over the subscribers that comes to its end has visited every
\* node that was in the list when it began and has not been unsubscribed since, and
\* none twice, although subscribers come and go under another lock.
THEOREM AllNotified == Spec => []EveryoneNotified
<1>1. NotifyInv => EveryoneNotified
  <2> SUFFICES ASSUME NotifyInv, NEW c \in Conns, pc[c] = "notify.unlock"
               PROVE  /\ due[c] = {}
                      /\ \A j, k \in DOMAIN visits[c] : visits[c][j] = visits[c][k] => j = k
    BY DEF EveryoneNotified
  <2>1. WalkOf(c) /\ subscr[c] = Null
    BY DEF NotifyInv, WalkInv, Walking, RequestInv, RequestOf, MakeSteps, VisitSteps
  <2>2. Ahead(c) = {}
    BY <2>1, WalkNull DEF Ahead
  <2> QED
    BY <2>1, <2>2 DEF WalkOf
<1> QED
  BY <1>1, NotifyInvariance, PTL

\* A connection that closes after its calls kills the server, by SIGPIPE, only if it
\* has subscribed to something.
THEOREM OnlySubscribersKill == Spec => []KilledOnlyBySubscriber
<1>1. NotifyInv => KilledOnlyBySubscriber
  BY DEF NotifyInv, QuietInv
<1> QED
  BY <1>1, NotifyInvariance, PTL

\* The notifications of one ticker to one connection are never mixed: every write of
\* one goes on where the same thread's last write ended, since m_subscriblock is held
\* over the walk.
THEOREM InOrder == Spec => OneTickerInOrder
<1> DEFINE Ordered ==
      \A d \in Conns, i \in Ids :
        LET old == sent[d][i]
            new == sent'[d][i]
        IN  new # old =>
              \/ old = NoItem /\ new.kind = "command"
              \/ \E k \in 1..2 : /\ old.kind = Parts[k] /\ new.kind = Parts[k + 1]
                                /\ old.by = new.by
              \/ new = NoItem /\ old.kind = "piece" /\ pc[old.by] = "notify.time"
<1>1. NotifyInv /\ [Next]_vars => [Ordered]_vars
  <2> SUFFICES ASSUME NotifyInv, Next PROVE Ordered
    OBVIOUS
  <2>1. TypeInv /\ RequestInv /\ LockInv /\ PlaceInv /\ SentInv
    BY DEF NotifyInv
  <2>2. CASE \E c \in Conns : server = "up" /\ NotifyWrite(c)
    <3>1. PICK c \in Conns : server = "up" /\ NotifyWrite(c)
      BY <2>2
    <3> DEFINE d == To(c)
               i == id(c)
    <3>2. PICK k \in 1..4 :
            /\ pc[c] = NotifyParts[k]
            /\ sent' = [sent EXCEPT ![d][i] = IF k = 4 THEN NoItem
                                              ELSE [kind |-> Parts[k], by |-> c]]
      BY <3>1, PartFacts DEF NotifyWrite, To
    <3>3. /\ d \in Conns /\ i \in Ids
          /\ k = 1 => sent[d][i] = NoItem
          /\ k > 1 => sent[d][i] = [kind |-> Parts[k - 1], by |-> c]
      BY <2>1, <3>1, <3>2, WrittenBefore
    <3> HIDE DEF d, i
    <3>4. /\ sent'[d][i] = IF k = 4 THEN NoItem ELSE [kind |-> Parts[k], by |-> c]
          /\ \A e \in Conns, j \in Ids : e # d \/ j # i => sent'[e][j] = sent[e][j]
      BY <2>1, <3>2, <3>3 DEF TypeInv
    <3>5. CASE k = 1
      BY <3>3, <3>4, <3>5 DEF Parts
    <3>6. CASE k = 2 \/ k = 3
      <4>1. k - 1 \in 1..2 /\ (k - 1) + 1 = k
        BY <3>6
      <4>2. /\ sent[d][i].kind = Parts[k - 1] /\ sent'[d][i].kind = Parts[(k - 1) + 1]
            /\ sent[d][i].by = sent'[d][i].by
        BY <3>3, <3>4, <3>6, <4>1
      <4> QED BY <3>4, <4>1, <4>2
    <3>7. CASE k = 4
      <4>1. sent'[d][i] = NoItem /\ sent[d][i] = [kind |-> "piece", by |-> c]
        BY <3>3, <3>4, <3>7 DEF Parts
      <4>2. pc[c] = "notify.time"
        BY <3>2, <3>7 DEF NotifyParts
      <4> QED BY <3>4, <4>1, <4>2
    <3> QED BY <3>5, <3>6, <3>7
  <2>3. CASE ~ \E c \in Conns : server = "up" /\ NotifyWrite(c)
    <3>1. sent' = sent
      BY <2>3 DEF Next, Thread, history, SubscribeLock, SubscribeNext, SubscribeLink,
         UnsubscribeLock, UnsubscribeUnlink, UnsubscribeNone, UnsubscribeFree, PushTick,
         WriteStatus, NotifyLock, NotifyHead, NotifyNext, NotifyWild, NotifyUnlock, Ask,
         Wait, ClientRead, CloseConnection
    <3> QED BY <3>1
  <2> QED
    BY <2>2, <2>3
<1> QED
  BY <1>1, NotifyInvariance, PTL DEF Spec, OneTickerInOrder
=============================================================================
