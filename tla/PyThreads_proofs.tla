-------------------------- MODULE PyThreads_proofs --------------------------
(***************************************************************************)
(* The Python extension, for every program, any number of threads,         *)
(* connections and tickers, and all values: a reply reaches the call that  *)
(* asked for it, an error its caller, the elements of a list or a dict     *)
(* come back in their places, and to ask which groups of debug messages    *)
(* pass changes nothing of what passes.                                    *)
(***************************************************************************)
EXTENDS PyThreads, VariantOps_proofs, SequenceTheorems, WellFoundedInduction, TLAPS

Asking == [op: Asked, id: Ids, by: Clients]
Step == [op: Asked \cup {"lock", "walk"}, id: Ids, by: Clients]
Item == {Update} \cup {Reply(t) : t \in Clients}

\* The types of the variables of the threads and the server.
ConnTypes ==
  /\ self \in [Clients -> Conns]
  /\ gil \in Threads \cup {NoThread}
  /\ pc \in [Clients -> {"python", "call", "wait", "woken", "lost"}]
  /\ call \in [Clients -> Asking \cup {NoCall}]
  /\ requests \in [Conns -> Seq(Asking)]
  /\ messages \in [Conns -> Seq(Item)]
  /\ handler \in [Conns -> Step \cup {NoCall}]
  /\ server \in {"up", "down"} /\ true_refs \in Nat

\* Only connections that were subscribed are in the lists of subscribers.
Subscribed ==
  /\ touched \in SUBSET Conns
  /\ m_subscribers \in [Ids -> Seq(touched)]
  /\ left \in [Conns -> Seq(touched)]

\* Processes share no connection, a thread that waits for a reply has the lock,
\* and one that waits for an update, or has waited, calls wait_for_update.
Locking ==
  /\ \A o \in Others, t \in Clients : self[t] = self[o] => t = o
  /\ \A t \in Threads : pc[t] = "call" => gil = t
  /\ \A t \in Clients : pc[t] \in {"wait", "woken"} => Uses(t, "wait_for_update")

\* A connection over which nothing comes but replies.
Clean(c) ==
  /\ c \notin touched
  /\ \A t \in Clients : self[t] = c => ~Uses(t, "wait_for_update")

Caller(t, c) == t \in Clients /\ self[t] = c /\ pc[t] = "call"

\* Of a request, a call under way and a reply there is at most one, and it is that
\* of a thread that waits for its reply.  A server that is down takes no request.
OneCall(c) ==
  /\ messages[c] # <<>> =>
       /\ \E t \in Clients : Caller(t, c) /\ messages[c] = <<Reply(t)>>
       /\ server = "up" => handler[c].op \notin Asked /\ requests[c] = <<>>
  /\ server = "up" /\ handler[c].op \in Asked =>
       Caller(handler[c].by, c) /\ requests[c] = <<>>
  /\ server = "up" /\ requests[c] # <<>> =>
       Len(requests[c]) = 1 /\ Caller(requests[c][1].by, c)

OneCallEach == \A c \in Conns : Clean(c) => OneCall(c)

ThreadsInv == ConnTypes /\ Subscribed /\ Locking /\ OneCallEach /\ RepliesToCallers

-----------------------------------------------------------------------------
(* What the proofs below share                                             *)

\* The order of the naturals is well founded, so a set of them has a least one.
LEMMA LessIsWellFounded ==
  IsWellFoundedOn({p \in Nat \X Nat : p[1] < p[2]}, Nat)
<1>1. OpToRel(<, Nat) = {p \in Nat \X Nat : p[1] < p[2]}
  BY DEF OpToRel
<1> QED BY <1>1, NatLessThanWellFounded, Zenon

\* A set of naturals that has an element has a least one, and Min chooses it.
LEMMA MinOfNat ==
  ASSUME NEW T \in SUBSET Nat, T # {}
  PROVE  Min(T) \in T /\ \A y \in T : Min(T) <= y
<1> DEFINE R == {p \in Nat \X Nat : p[1] < p[2]}
<1>1. \E x \in T : \A y \in T : <<y, x>> \notin R
  <2> HIDE DEF R
  <2>1. IsWellFoundedOn(R, Nat) BY LessIsWellFounded, Zenon DEF R
  <2> QED BY <2>1, WFMin, Zenon
<1>2. PICK x \in T : \A y \in T : <<y, x>> \notin R
  BY <1>1
<1>3. ASSUME NEW y \in T PROVE x <= y
  <2>1. x \in Nat /\ y \in Nat /\ <<y, x>> \notin R
    BY <1>2
  <2>2. ~ (y < x)
    BY <2>1, SMT
  <2> QED BY <2>1, <2>2
<1> QED
  BY <1>3 DEF Min

\* A set of naturals that has an element and a bound has a greatest element,
\* and Max chooses it.
LEMMA MaxOfBounded ==
  ASSUME NEW n \in Nat, NEW T \in SUBSET (0..n), T # {}
  PROVE  Max(T) \in T /\ \A y \in T : Max(T) >= y
<1> DEFINE M == {n - y : y \in T}
<1>1. M \in SUBSET Nat /\ M # {}
  <2>1. \A y \in T : n - y \in Nat
    OBVIOUS
  <2>2. PICK y \in T : TRUE
    OBVIOUS
  <2>3. n - y \in M
    BY <2>2
  <2> QED BY <2>1, <2>3
<1>2. PICK m \in M : \A z \in M : m <= z
  BY <1>1, MinOfNat
<1>3. PICK x \in T : m = n - x
  OBVIOUS
<1>4. ASSUME NEW y \in T PROVE x >= y
  <2>1. n - y \in M
    OBVIOUS
  <2>2. n - x <= n - y
    BY <1>2, <1>3, <2>1
  <2> QED BY <2>2
<1> QED
  BY <1>3, <1>4 DEF Max

\* What is left of a sequence without its first e.
LEMMA RemoveFirstType ==
  ASSUME NEW S, NEW s \in Seq(S), NEW e
  PROVE  RemoveFirst(s, e) \in Seq(S)
<1>1. CASE \E i \in 1..Len(s) : s[i] = e
  <2> DEFINE I == {i \in 1..Len(s) : s[i] = e}
  <2>1. I # {} /\ I \in SUBSET Nat
    BY <1>1
  <2>2. Min(I) \in I
    <3> HIDE DEF I
    <3> QED BY <2>1, MinOfNat
  <2>3. PICK k \in 1..Len(s) : k = Min(I)
    BY <2>2
  <2>4. RemoveFirst(s, e) = SubSeq(s, 1, k - 1) \o SubSeq(s, k + 1, Len(s))
    BY <1>1, <2>1, <2>3 DEF RemoveFirst, RemoveAt, SelectInSeq
  <2>5. SubSeq(s, 1, k - 1) \in Seq(S) /\ SubSeq(s, k + 1, Len(s)) \in Seq(S)
    <3>1. \A i \in 1..Len(s) : s[i] \in S
      BY ElementOfSeq
    <3>2. SubSeq(s, 1, k - 1) \in Seq(S)
      <4>1. \A i \in 1..k - 1 : s[i] \in S BY <3>1
      <4>2. 1 \in Int /\ k - 1 \in Int OBVIOUS
      <4> QED BY <4>1, <4>2, SubSeqProperties
    <3>3. SubSeq(s, k + 1, Len(s)) \in Seq(S)
      <4>1. \A i \in k + 1..Len(s) : s[i] \in S BY <3>1
      <4>2. k + 1 \in Int /\ Len(s) \in Int OBVIOUS
      <4> QED BY <4>1, <4>2, SubSeqProperties
    <3> QED BY <3>2, <3>3
  <2> QED BY <2>4, <2>5
<1>2. CASE ~ \E i \in 1..Len(s) : s[i] = e
  BY <1>2 DEF RemoveFirst
<1> QED BY <1>1, <1>2

\* A connection that is clean was clean.
LEMMA CleanBefore ==
  ASSUME UNCHANGED <<methods, self>>, touched \subseteq touched', NEW c, Clean(c)'
  PROVE  Clean(c)
BY DEF Clean, Uses

\* A connection over which nothing was sent, and whose caller is still calling.
LEMMA OneCallKept ==
  ASSUME NEW c, OneCall(c),
         server' = "up" => requests'[c] = requests[c], messages'[c] = messages[c], handler'[c] = handler[c],
         server' = "up" => server = "up",
         \A t \in Clients : Caller(t, c) => Caller(t, c)'
  PROVE  OneCall(c)'
BY DEF OneCall, Caller

\* A connection has one caller.
LEMMA OneCaller ==
  ASSUME ConnTypes, Locking, NEW c, NEW t, NEW u, Caller(t, c), Caller(u, c)
  PROVE  t = u
BY ThreadsAssumption DEF ConnTypes, Locking, Caller, Clients

\* When a thread calls, no other thread of its connection does.
LEMMA NoOtherCaller ==
  ASSUME ConnTypes, Locking, NEW t \in Clients, CanRun(t), pc[t] # "call", NEW u
  PROVE  ~Caller(u, self[t])
BY ThreadsAssumption DEF ConnTypes, Locking, Caller, CanRun, Clients

LEMMA Calling ==
  ASSUME ThreadsInv, NEW t \in Clients, NEW r \in Asking, r.by = t, Request(t, r)
  PROVE  ThreadsInv'
<1> DEFINE c == self[t]
<1>1. /\ CanRun(t) /\ pc[t] = "python" /\ c \in Conns /\ Take(t)
      /\ pc' = [pc EXCEPT ![t] = "call"] /\ call' = [call EXCEPT ![t] = r]
      /\ requests' = IF server = "up" THEN [requests EXCEPT ![c] = Append(@, r)]
                     ELSE [requests EXCEPT ![c] = <<>>]
      /\ UNCHANGED <<methods, self, messages, handler, left, m_subscribers, server,
                     true_refs, touched>>
  BY DEF Request, Reset, ThreadsInv, ConnTypes
<1>2. ConnTypes'
  BY <1>1 DEF ThreadsInv, ConnTypes, Take, Clients
<1>3. Subscribed'
  BY <1>1 DEF ThreadsInv, Subscribed
<1>4. Locking'
  <2>1. \A o \in Others, u \in Clients : self'[u] = self'[o] => u = o
    BY <1>1 DEF ThreadsInv, Locking
  <2>2. ASSUME NEW u \in Threads, pc'[u] = "call" PROVE gil' = u
    BY <1>1, <2>2, ThreadsAssumption DEF ThreadsInv, ConnTypes, Locking, CanRun, Take, Clients
  <2>3. ASSUME NEW u \in Clients, pc'[u] \in {"wait", "woken"}
        PROVE  Uses(u, "wait_for_update")'
    BY <1>1, <2>3 DEF ThreadsInv, ConnTypes, Locking, Uses
  <2> QED BY <2>1, <2>2, <2>3 DEF Locking
<1>5. ASSUME NEW d \in Conns, Clean(d)' PROVE OneCall(d)'
  <2>1. OneCall(d)
    BY <1>1, <1>5, CleanBefore DEF ThreadsInv, OneCallEach
  <2>2. CASE d = c
    <3>1. \A u : ~Caller(u, c)
      BY <1>1, NoOtherCaller DEF ThreadsInv
    <3>2. messages[c] = <<>> /\ (server = "up" => handler[c].op \notin Asked /\ requests[c] = <<>>)
      <4>1. OneCall(c)
        BY <2>1, <2>2
      <4> HIDE DEF c
      <4> QED BY <3>1, <4>1 DEF OneCall, Caller
    <3>3. messages'[d] = <<>> /\ (server' = "up" => handler'[d].op \notin Asked)
      BY <1>1, <2>2, <3>2
    <3>4. ASSUME server' = "up" PROVE requests'[d] = <<r>>
      BY <1>1, <2>2, <3>2, <3>4 DEF ThreadsInv, ConnTypes
    <3>5. Caller(r.by, d)'
      BY <1>1, <2>2 DEF Caller, ThreadsInv, ConnTypes
    <3>6. (server = "up" => Len(requests[d]) = 1 /\ Caller(requests[d][1].by, d))'
      BY <3>4, <3>5 DEF Caller
    <3> QED BY <3>3, <3>6 DEF OneCall, Caller
  <2>3. CASE d # c
    <3>1. requests'[d] = requests[d]
      BY <1>1, <2>3 DEF ThreadsInv, ConnTypes
    <3>2. \A u \in Clients : Caller(u, d) => Caller(u, d)'
      BY <1>1, <2>3 DEF Caller, ThreadsInv, ConnTypes
    <3> QED BY <1>1, <2>1, <3>1, <3>2, OneCallKept
  <2> QED BY <2>2, <2>3
<1>6. RepliesToCallers'
  BY <1>1 DEF ThreadsInv, RepliesToCallers, ConnTypes, Uses
<1> QED BY <1>2, <1>3, <1>4, <1>5, <1>6 DEF ThreadsInv, OneCallEach

LEMMA Answering ==
  ASSUME ThreadsInv, NEW t \in Clients, Answer(t)
  PROVE  ThreadsInv'
<1> DEFINE c == self[t]
<1>1. /\ pc[t] = "call" /\ c \in Conns /\ Release(t) /\ true_refs \in Nat \ {0}
      /\ call' = [call EXCEPT ![t] = NoCall] /\ true_refs' \in {true_refs, true_refs - 1}
      /\ UNCHANGED <<methods, self, handler, left, m_subscribers, server, touched>>
  BY DEF Answer, ThreadsInv, ConnTypes
<1>2. \/ /\ messages[c] # <<>> /\ messages' = [messages EXCEPT ![c] = Tail(@)]
         /\ pc' = [pc EXCEPT ![t] = IF Head(messages[c]) = Reply(t) THEN "python" ELSE "lost"]
         /\ requests' = requests
      \/ /\ messages[c] = <<>> /\ server = "down" /\ messages' = messages
         /\ pc' = [pc EXCEPT ![t] = "python"] /\ requests' = [requests EXCEPT ![c] = <<>>]
  BY DEF Answer, Reset
<1>3. \A d \in Conns \ {c} : messages'[d] = messages[d] /\ requests'[d] = requests[d]
  BY <1>2 DEF ThreadsInv, ConnTypes
<1>4. /\ \A u \in Clients \ {t} : pc'[u] = pc[u]
      /\ pc'[t] \in {"python", "lost"}
  BY <1>2 DEF ThreadsInv, ConnTypes
<1>5. ConnTypes'
  <2>1. pc' \in [Clients -> {"python", "call", "wait", "woken", "lost"}]
    BY <1>2 DEF ThreadsInv, ConnTypes
  <2>2. messages' \in [Conns -> Seq(Item)]
    <3>1. messages[c] \in Seq(Item) /\ messages \in [Conns -> Seq(Item)]
      BY <1>1 DEF ThreadsInv, ConnTypes
    <3>2. messages[c] # <<>> => Tail(messages[c]) \in Seq(Item)
      BY <3>1
    <3> QED BY <1>2, <3>1, <3>2
  <2>3. true_refs' \in Nat
    BY <1>1
  <2>4. requests' \in [Conns -> Seq(Asking)]
    <3>1. PICK none \in Seq(Asking) : none = <<>>
      BY EmptySeq, Zenon
    <3>2. requests' \in {requests, [requests EXCEPT ![c] = none]}
      BY <1>2, <3>1
    <3> QED BY <3>1, <3>2 DEF ThreadsInv, ConnTypes
  <2> QED BY <1>1, <2>1, <2>2, <2>3, <2>4 DEF ThreadsInv, ConnTypes, Release
<1>6. Subscribed'
  BY <1>1 DEF ThreadsInv, Subscribed
<1>7. Locking'
  <2>1. \A o \in Others, u \in Clients : self'[u] = self'[o] => u = o
    BY <1>1 DEF ThreadsInv, Locking
  <2>2. ASSUME NEW u \in Threads, pc'[u] = "call" PROVE gil' = u
    <3>1. u \in Clients /\ u # t /\ pc[u] = "call" /\ gil = u
      BY <1>4, <2>2 DEF ThreadsInv, Locking, Clients
    <3>2. t \in Threads => gil = t
      BY <1>1 DEF ThreadsInv, Locking
    <3> QED BY <1>1, <3>1, <3>2 DEF Release
  <2>3. ASSUME NEW u \in Clients, pc'[u] \in {"wait", "woken"}
        PROVE  Uses(u, "wait_for_update")'
    BY <1>1, <1>4, <2>3 DEF ThreadsInv, Locking, Uses
  <2> QED BY <2>1, <2>2, <2>3 DEF Locking
<1>8. ASSUME NEW d \in Conns, Clean(d)' PROVE OneCall(d)'
  <2>1. Clean(d) /\ OneCall(d)
    BY <1>1, <1>8, CleanBefore DEF ThreadsInv, OneCallEach
  <2>2. CASE d = c
    <3>1. \/ messages'[d] = <<>> /\ (server = "up" => handler[d].op \notin Asked /\ requests[d] = <<>>)
          \/ messages'[d] = <<>> /\ server = "down"
      <4>1. CASE messages[d] # <<>>
        <5>1. \E u : messages[d] = <<Reply(u)>>
          BY <2>1, <4>1 DEF OneCall
        <5> QED BY <1>2, <2>1, <2>2, <4>1, <5>1 DEF OneCall, ThreadsInv, ConnTypes
      <4>2. CASE messages[d] = <<>>
        BY <1>2, <2>2, <4>2
      <4> QED BY <4>1, <4>2
    <3>2. server = "up" => requests' = requests
      BY <1>2
    <3> QED BY <1>1, <3>1, <3>2 DEF OneCall
  <2>3. CASE d # c
    <3>1. \A u \in Clients : Caller(u, d) => Caller(u, d)'
      BY <1>1, <1>4, <2>3 DEF Caller
    <3> QED BY <1>1, <1>3, <2>1, <2>3, <3>1, OneCallKept
  <2> QED BY <2>2, <2>3
<1>9. RepliesToCallers'
  <2> SUFFICES ASSUME NEW u \in Clients, pc'[u] = "lost", ~Uses(u, "wait_for_update")'
               PROVE  self'[u] \in touched'
    BY DEF RepliesToCallers
  <2>1. ~Uses(u, "wait_for_update")
    BY <1>1 DEF Uses
  <2>2. CASE u # t
    BY <1>1, <1>4, <2>1, <2>2 DEF ThreadsInv, RepliesToCallers
  <2>3. CASE u = t
    <3>1. Caller(t, c)
      BY <1>1 DEF Caller
    <3> SUFFICES ASSUME c \notin touched PROVE FALSE
      BY <1>1, <2>3
    <3>2. \A w \in Clients : self[w] = c => ~Uses(w, "wait_for_update")
      BY <2>1, <2>3, ThreadsAssumption DEF ThreadsInv, Locking, Uses, Clients
    <3>3. OneCall(c)
      BY <1>1, <3>2 DEF Clean, ThreadsInv, OneCallEach
    <3>4. messages[c] # <<>> /\ Head(messages[c]) # Reply(t)
      BY <1>2, <2>3 DEF ThreadsInv, ConnTypes
    <3>5. PICK w \in Clients : Caller(w, c) /\ messages[c] = <<Reply(w)>>
      BY <3>3, <3>4 DEF OneCall
    <3>6. w = t
      BY <3>1, <3>5, OneCaller DEF ThreadsInv
    <3> QED BY <3>4, <3>5, <3>6
  <2> QED BY <2>2, <2>3
<1> QED BY <1>5, <1>6, <1>7, <1>8, <1>9 DEF ThreadsInv, OneCallEach

\* A step of a thread that is in no call before it or after it, and that takes
\* messages of its connection only if it calls wait_for_update.
LEMMA NotCalling ==
  ASSUME ThreadsInv, NEW t \in Clients, NEW next \in {"python", "wait", "woken", "lost"},
         pc[t] # "call", pc' = [pc EXCEPT ![t] = next],
         gil' = gil \/ (t \in Threads /\ gil \in {NoThread, t} /\ gil' = NoThread),
         next # "python" => Uses(t, "wait_for_update"),
         messages' \in [Conns -> Seq(Item)],
         \A d \in Conns : messages'[d] # messages[d] =>
                           d = self[t] /\ Uses(t, "wait_for_update"),
         requests' \in [Conns -> Seq(Asking)], server = "up" => requests' = requests,
         UNCHANGED <<methods, self, call, handler, left, m_subscribers, server, true_refs,
                     touched>>
  PROVE  ThreadsInv'
<1>1. \A u \in Clients \ {t} : pc'[u] = pc[u]
  BY DEF ThreadsInv, ConnTypes
<1>2. pc'[t] = next
  BY DEF ThreadsInv, ConnTypes
<1>3. ConnTypes'
  BY DEF ThreadsInv, ConnTypes
<1>4. Subscribed'
  BY DEF ThreadsInv, Subscribed
<1>5. Locking'
  <2>1. \A o \in Others, u \in Clients : self'[u] = self'[o] => u = o
    BY DEF ThreadsInv, Locking
  <2>2. ASSUME NEW u \in Threads, pc'[u] = "call" PROVE gil' = u
    <3>1. u \in Clients /\ u # t /\ pc[u] = "call" /\ gil = u
      BY <1>1, <1>2, <2>2 DEF ThreadsInv, Locking, Clients
    <3> QED BY <3>1, ThreadsAssumption DEF Clients
  <2>3. ASSUME NEW u \in Clients, pc'[u] \in {"wait", "woken"}
        PROVE  Uses(u, "wait_for_update")'
    BY <1>1, <1>2, <2>3 DEF ThreadsInv, Locking, Uses
  <2> QED BY <2>1, <2>2, <2>3 DEF Locking
<1>6. ASSUME NEW d \in Conns, Clean(d)' PROVE OneCall(d)'
  <2>1. Clean(d) /\ OneCall(d)
    BY <1>6, CleanBefore DEF ThreadsInv, OneCallEach
  <2>2. messages'[d] = messages[d]
    BY <2>1 DEF Clean
  <2>3. \A u \in Clients : Caller(u, d) => Caller(u, d)'
    BY <1>1 DEF Caller
  <2> QED BY <2>1, <2>2, <2>3, OneCallKept
<1>7. RepliesToCallers'
  BY <1>1, <1>2 DEF ThreadsInv, RepliesToCallers, Uses
<1> QED BY <1>3, <1>4, <1>5, <1>6, <1>7 DEF ThreadsInv, OneCallEach

LEMMA Waiting ==
  ASSUME ThreadsInv, NEW t \in Clients, Wait(t) \/ Wake(t) \/ Resume(t)
  PROVE  ThreadsInv'
<1>1. /\ messages \in [Conns -> Seq(Item)] /\ self[t] \in Conns
      /\ requests \in [Conns -> Seq(Asking)]
  BY DEF ThreadsInv, ConnTypes
<1>2. CASE Wait(t)
  <2>1. /\ pc[t] # "call" /\ pc' = [pc EXCEPT ![t] = "wait"] /\ gil' = gil
        /\ Uses(t, "wait_for_update") /\ messages' = messages
        /\ UNCHANGED <<methods, self, call, requests, handler, left, m_subscribers, server,
                       true_refs, touched>>
    BY <1>2 DEF Wait
  <2> QED BY <1>1, <2>1, NotCalling
<1>3. CASE Wake(t)
  <2>1. pc[t] = "wait" /\ Uses(t, "wait_for_update")
    BY <1>3 DEF Wake, ThreadsInv, Locking
  <2>2. PICK next \in {"woken", "lost"} : pc' = [pc EXCEPT ![t] = next]
    <3>1. \/ pc' = [pc EXCEPT ![t] = "woken"]
          \/ pc' = [pc EXCEPT ![t] = "lost"]
      BY <1>3 DEF Wake
    <3> QED BY <3>1
  <2>3. \/ messages' = messages
        \/ /\ messages[self[t]] # <<>>
           /\ messages' = [messages EXCEPT ![self[t]] = Tail(@)]
    BY <1>3 DEF Wake
  <2>4. messages[self[t]] # <<>> => Tail(messages[self[t]]) \in Seq(Item)
    <3>1. messages[self[t]] \in Seq(Item) BY <1>1
    <3> QED BY <3>1
  <2>5. /\ messages' \in [Conns -> Seq(Item)]
        /\ \A d \in Conns : messages'[d] # messages[d] => d = self[t]
    BY <1>1, <2>3, <2>4
  <2>6. UNCHANGED <<methods, self, gil, call, handler, left, m_subscribers, server, true_refs,
                    touched>>
    BY <1>3 DEF Wake
  <2>7. \/ requests' = requests
        \/ server = "down" /\ requests' = [requests EXCEPT ![self[t]] = <<>>]
    BY <1>3 DEF Wake, Reset
  <2>8. requests' \in [Conns -> Seq(Asking)] /\ (server = "up" => requests' = requests)
    <3>1. PICK none \in Seq(Asking) : none = <<>>
      BY EmptySeq, Zenon
    <3>2. requests' \in {requests, [requests EXCEPT ![self[t]] = none]}
      BY <2>7, <3>1
    <3>3. requests' \in [Conns -> Seq(Asking)]
      BY <1>1, <3>1, <3>2
    <3> QED BY <2>7, <3>3
  <2> QED BY <2>1, <2>2, <2>5, <2>6, <2>8, NotCalling
<1>4. CASE Resume(t)
  <2>1. /\ pc[t] # "call" /\ pc' = [pc EXCEPT ![t] = "python"] /\ messages' = messages
        /\ gil' = gil \/ (t \in Threads /\ gil \in {NoThread, t} /\ gil' = NoThread)
        /\ UNCHANGED <<methods, self, call, requests, handler, left, m_subscribers, server,
                       true_refs, touched>>
    BY <1>4 DEF Resume, CanRun, Release
  <2> QED BY <1>1, <2>1, NotCalling
<1> QED BY <1>2, <1>3, <1>4

\* A step of the server, or one that has nothing to do with connections.
LEMMA NoThreadStep ==
  ASSUME ThreadsInv, ConnTypes', Subscribed', UNCHANGED <<methods, self, gil, pc>>,
         touched \subseteq touched',
         \A d \in Conns : Clean(d)' /\ OneCall(d) => OneCall(d)'
  PROVE  ThreadsInv'
<1>1. Locking' /\ RepliesToCallers'
  BY DEF ThreadsInv, Locking, RepliesToCallers, Uses
<1>2. ASSUME NEW d \in Conns, Clean(d)' PROVE OneCall(d)'
  <2>1. OneCall(d)
    BY <1>2, CleanBefore DEF ThreadsInv, OneCallEach
  <2> QED BY <1>2, <2>1
<1> QED BY <1>1, <1>2 DEF ThreadsInv, OneCallEach

LEMMA NothingSent ==
  ASSUME ThreadsInv,
         UNCHANGED <<methods, self, gil, pc, call, requests, messages, handler, left,
                     m_subscribers, server, true_refs, touched>>
  PROVE  ThreadsInv'
<1>1. ConnTypes' /\ Subscribed'
  BY DEF ThreadsInv, ConnTypes, Subscribed
<1>2. \A d \in Conns : OneCall(d) => OneCall(d)'
  BY DEF OneCall, Caller
<1> QED BY <1>1, <1>2, NoThreadStep

LEMMA Serving ==
  ASSUME ThreadsInv, NEW c \in Conns, Serve(c)
  PROVE  ThreadsInv'
<1>1. /\ server = "up" /\ handler[c] = NoCall /\ requests[c] # <<>>
      /\ requests' = [requests EXCEPT ![c] = Tail(@)]
      /\ handler' = [handler EXCEPT ![c] = Head(requests[c])]
      /\ UNCHANGED <<methods, self, gil, pc, call, messages, true_refs>>
  BY DEF Serve, Serves
<1>2. PICK r \in Asking : r = Head(requests[c])
  <2>1. requests[c] \in Seq(Asking)
    BY DEF ThreadsInv, ConnTypes
  <2> QED BY <1>1, <2>1
<1>3. \/ /\ m_subscribers' = [m_subscribers EXCEPT ![r.id] = <<c>> \o @]
         /\ touched' = touched \cup {c} /\ left' = left /\ server' = server
      \/ /\ m_subscribers' = [m_subscribers EXCEPT ![r.id] = RemoveFirst(@, c)]
         /\ left' = [d \in Conns |-> IF handler[d].id = r.id THEN RemoveFirst(left[d], c)
                                     ELSE left[d]]
         /\ server' \in {"up", "down"} /\ touched' = touched
      \/ UNCHANGED <<m_subscribers, left, server, touched>>
  BY <1>1, <1>2 DEF Serve
<1>4. server' \in {"up", "down"} /\ touched \subseteq touched' /\ touched' \in SUBSET Conns
  BY <1>3 DEF ThreadsInv, ConnTypes, Subscribed
<1>5. ConnTypes'
  <2>1. requests' \in [Conns -> Seq(Asking)]
    <3>1. requests[c] \in Seq(Asking) /\ requests \in [Conns -> Seq(Asking)]
      BY DEF ThreadsInv, ConnTypes
    <3>2. Tail(requests[c]) \in Seq(Asking)
      BY <1>1, <3>1
    <3> QED BY <1>1, <3>1, <3>2
  <2>2. handler' \in [Conns -> Step \cup {NoCall}]
    <3>1. r \in Step
      BY DEF Asking, Step
    <3> QED BY <1>1, <1>2, <3>1 DEF ThreadsInv, ConnTypes
  <2> QED BY <1>1, <1>4, <2>1, <2>2 DEF ThreadsInv, ConnTypes
<1>6. Subscribed'
  <2>1. r.id \in Ids /\ \A i \in Ids : m_subscribers[i] \in Seq(touched)
    BY DEF Asking, ThreadsInv, Subscribed
  <2>2. \A d \in Conns : left[d] \in Seq(touched)
    BY DEF ThreadsInv, Subscribed
  <2>3. \A s : s \in Seq(touched) => s \in Seq(touched') /\ RemoveFirst(s, c) \in Seq(touched')
    BY <1>4, RemoveFirstType
  <2>4. \A i \in Ids : m_subscribers'[i] \in Seq(touched')
    <3> SUFFICES ASSUME NEW i \in Ids PROVE m_subscribers'[i] \in Seq(touched')
      OBVIOUS
    <3>1. CASE /\ m_subscribers' = [m_subscribers EXCEPT ![r.id] = <<c>> \o @]
               /\ touched' = touched \cup {c}
      <4>1. m_subscribers[i] \in Seq(touched') /\ <<c>> \in Seq(touched')
        BY <2>1, <2>3, <3>1
      <4>2. <<c>> \o m_subscribers[i] \in Seq(touched')
        BY <4>1
      <4> QED BY <3>1, <4>1, <4>2 DEF ThreadsInv, Subscribed
    <3>2. CASE m_subscribers' = [m_subscribers EXCEPT ![r.id] = RemoveFirst(@, c)]
      BY <2>1, <2>3, <3>2 DEF ThreadsInv, Subscribed
    <3>3. CASE m_subscribers' = m_subscribers
      BY <2>1, <2>3, <3>3
    <3> QED BY <1>3, <3>1, <3>2, <3>3
  <2>5. \A d \in Conns : left'[d] \in Seq(touched')
    BY <1>3, <2>2, <2>3
  <2>6. DOMAIN m_subscribers' = Ids /\ m_subscribers' = [i \in Ids |-> m_subscribers'[i]]
    BY <1>3 DEF ThreadsInv, Subscribed
  <2>7. left' = [d \in Conns |-> left'[d]]
    BY <1>3 DEF ThreadsInv, Subscribed
  <2> QED BY <1>4, <2>4, <2>5, <2>6, <2>7 DEF Subscribed
<1>7. ASSUME NEW d \in Conns, Clean(d)', OneCall(d) PROVE OneCall(d)'
  <2>1. CASE d = c
    <3>1. /\ messages[c] = <<>> /\ Len(requests[c]) = 1 /\ Caller(requests[c][1].by, c)
      BY <1>1, <1>7, <2>1 DEF OneCall
    <3>2. requests[c] = <<r>>
      <4>1. requests[c] \in Seq(Asking)
        BY DEF ThreadsInv, ConnTypes
      <4> QED BY <1>2, <3>1, <4>1
    <3>3. requests'[d] = <<>> /\ handler'[d] = r /\ messages'[d] = <<>>
      BY <1>1, <1>2, <2>1, <3>1, <3>2 DEF ThreadsInv, ConnTypes
    <3>4. Caller(r.by, d)'
      BY <1>1, <2>1, <3>1, <3>2 DEF Caller
    <3> QED BY <3>3, <3>4 DEF OneCall, Caller
  <2>2. CASE d # c
    <3>1. requests'[d] = requests[d] /\ handler'[d] = handler[d] /\ messages'[d] = messages[d]
      BY <1>1, <2>2 DEF ThreadsInv, ConnTypes
    <3>2. \A t \in Clients : Caller(t, d) => Caller(t, d)'
      BY <1>1 DEF Caller
    <3> QED BY <1>1, <1>7, <3>1, <3>2, OneCallKept
  <2> QED BY <2>1, <2>2
<1> QED BY <1>1, <1>4, <1>5, <1>6, <1>7, NoThreadStep

LEMMA Responding ==
  ASSUME ThreadsInv, NEW c \in Conns, Respond(c)
  PROVE  ThreadsInv'
<1>1. PICK r : r = handler[c]
  OBVIOUS
<1>2. PICK next : next = IF r.op = "push_tick" THEN [r EXCEPT !.op = "lock"] ELSE NoCall
  OBVIOUS
<1>3. /\ server = "up" /\ r.op \in Asked
      /\ messages' = [messages EXCEPT ![c] = Append(@, Reply(r.by))]
      /\ handler' = [handler EXCEPT ![c] = next]
      /\ UNCHANGED <<methods, self, gil, pc, call, requests, left, m_subscribers, server,
                     true_refs, touched>>
  BY <1>1, <1>2 DEF Respond, Serves, Send
<1>4. r \in Step
  BY <1>1, <1>3 DEF ThreadsInv, ConnTypes, NoCall, Asked
<1>5. next \in Step \cup {NoCall} /\ next.op \notin Asked
  BY <1>2, <1>4 DEF Step, NoCall, Asked
<1>6. ConnTypes' /\ Subscribed'
  <2>1. Reply(r.by) \in Item
    BY <1>4 DEF Step, Item
  <2>2. messages' \in [Conns -> Seq(Item)]
    <3>1. messages[c] \in Seq(Item) /\ messages \in [Conns -> Seq(Item)]
      BY DEF ThreadsInv, ConnTypes
    <3>2. Append(messages[c], Reply(r.by)) \in Seq(Item)
      BY <2>1, <3>1
    <3> QED BY <1>3, <3>1, <3>2
  <2> QED BY <1>3, <1>5, <2>2 DEF ThreadsInv, ConnTypes, Subscribed
<1>7. ASSUME NEW d \in Conns, Clean(d)', OneCall(d) PROVE OneCall(d)'
  <2>1. CASE d = c
    <3>1. messages[c] = <<>> /\ Caller(r.by, c) /\ requests[c] = <<>>
      BY <1>1, <1>3, <1>7, <2>1 DEF OneCall
    <3>2. /\ messages'[d] = <<Reply(r.by)>> /\ handler'[d] = next /\ requests'[d] = <<>>
      BY <1>3, <2>1, <3>1 DEF ThreadsInv, ConnTypes
    <3>3. Caller(r.by, d)' /\ r.by \in Clients
      BY <1>3, <2>1, <3>1 DEF Caller
    <3> QED BY <1>5, <3>2, <3>3 DEF OneCall
  <2>2. CASE d # c
    <3>1. requests'[d] = requests[d] /\ handler'[d] = handler[d] /\ messages'[d] = messages[d]
      BY <1>3, <2>2 DEF ThreadsInv, ConnTypes
    <3>2. \A t \in Clients : Caller(t, d) => Caller(t, d)'
      BY <1>3 DEF Caller
    <3> QED BY <1>3, <1>7, <3>1, <3>2, OneCallKept
  <2> QED BY <2>1, <2>2
<1> QED BY <1>3, <1>6, <1>7, NoThreadStep

LEMMA Walking ==
  ASSUME ThreadsInv, NEW c \in Conns, LockWalk(c) \/ Notify(c) \/ UnlockWalk(c)
  PROVE  ThreadsInv'
<1>1. /\ handler \in [Conns -> Step \cup {NoCall}] /\ left \in [Conns -> Seq(touched)]
      /\ m_subscribers \in [Ids -> Seq(touched)] /\ messages \in [Conns -> Seq(Item)]
  BY DEF ThreadsInv, ConnTypes, Subscribed
<1>2. CASE LockWalk(c)
  <2>1. PICK r, next : r = handler[c] /\ next = [r EXCEPT !.op = "walk"]
    OBVIOUS
  <2>2. /\ r.op = "lock" /\ left' = [left EXCEPT ![c] = m_subscribers[r.id]]
        /\ handler' = [handler EXCEPT ![c] = next]
        /\ UNCHANGED <<methods, self, gil, pc, call, requests, messages, m_subscribers,
                       server, true_refs, touched>>
    BY <1>2, <2>1 DEF LockWalk
  <2>3. r \in Step /\ next \in Step /\ next.op \notin Asked
    <3>1. r \in Step
      <4>1. r \in Step \cup {NoCall} BY <1>1, <2>1
      <4> QED BY <2>2, <4>1 DEF NoCall
    <3>2. next \in Step /\ next.op = "walk"
      BY <2>1, <3>1 DEF Step
    <3> QED BY <3>1, <3>2 DEF Asked
  <2>4. ConnTypes' /\ Subscribed'
    BY <1>1, <2>2, <2>3 DEF ThreadsInv, ConnTypes, Subscribed, Step
  <2>5. ASSUME NEW d \in Conns, OneCall(d) PROVE OneCall(d)'
    <3>1. handler'[d] = handler[d] \/ handler'[d].op \notin Asked
      BY <1>1, <2>2, <2>3
    <3> QED BY <2>2, <2>5, <3>1 DEF OneCall, Caller
  <2> QED BY <2>2, <2>4, <2>5, NoThreadStep
<1>3. CASE Notify(c)
  <2>1. /\ left[c] # <<>> /\ server = "up"
        /\ \/ /\ messages' = [messages EXCEPT ![Head(left[c])] = Append(@, Update)]
              /\ left' = [left EXCEPT ![c] = Tail(@)] /\ server' = server
           \/ server' = "down" /\ UNCHANGED <<messages, left>>
        /\ UNCHANGED <<methods, self, gil, pc, call, requests, handler, m_subscribers,
                       true_refs, touched>>
    BY <1>3 DEF Notify, Serves, Send
  <2>2. PICK e \in touched : e = Head(left[c])
    <3>1. left[c] \in Seq(touched) BY <1>1
    <3> QED BY <2>1, <3>1
  <2>3. ConnTypes' /\ Subscribed'
    <3>1. messages' \in [Conns -> Seq(Item)]
      <4>1. e \in Conns /\ messages[e] \in Seq(Item) /\ Update \in Item
        BY <1>1, <2>2 DEF ThreadsInv, Subscribed, Item
      <4>2. Append(messages[e], Update) \in Seq(Item)
        BY <4>1
      <4> QED BY <1>1, <2>1, <2>2, <4>2
    <3>2. left' \in [Conns -> Seq(touched)]
      <4>1. left[c] \in Seq(touched) BY <1>1
      <4>2. Tail(left[c]) \in Seq(touched) BY <2>1, <4>1
      <4> QED BY <1>1, <2>1, <4>2
    <3> QED BY <2>1, <3>1, <3>2 DEF ThreadsInv, ConnTypes, Subscribed
  <2>4. ASSUME NEW d \in Conns, Clean(d)', OneCall(d) PROVE OneCall(d)'
    <3>1. d # e
      BY <2>1, <2>2, <2>4 DEF Clean
    <3>2. messages'[d] = messages[d]
      BY <1>1, <2>1, <2>2, <3>1
    <3>3. \A t \in Clients : Caller(t, d) => Caller(t, d)'
      BY <2>1 DEF Caller
    <3> QED BY <2>1, <2>4, <3>2, <3>3, OneCallKept
  <2> QED BY <2>1, <2>3, <2>4, NoThreadStep
<1>4. CASE UnlockWalk(c)
  <2>1. /\ handler' = [handler EXCEPT ![c] = NoCall]
        /\ UNCHANGED <<methods, self, gil, pc, call, requests, messages, left, m_subscribers,
                       server, true_refs, touched>>
    BY <1>4 DEF UnlockWalk
  <2>2. ConnTypes' /\ Subscribed'
    BY <2>1 DEF ThreadsInv, ConnTypes, Subscribed
  <2>3. ASSUME NEW d \in Conns, OneCall(d) PROVE OneCall(d)'
    <3>1. handler'[d] = handler[d] \/ handler'[d].op \notin Asked
      BY <1>1, <2>1 DEF NoCall, Asked
    <3> QED BY <2>1, <2>3, <3>1 DEF OneCall, Caller
  <2> QED BY <2>1, <2>2, <2>3, NoThreadStep
<1> QED BY <1>2, <1>3, <1>4

LEMMA ThreadsInit == Init => ThreadsInv
<1> SUFFICES ASSUME Init PROVE ThreadsInv
  OBVIOUS
<1>1. PICK p \in Programs : methods = p.methods /\ self = p.self
  <2>1. PICK p \in IF script = "connections" THEN Programs ELSE {CHOOSE p \in Programs : TRUE} :
          methods = p.methods /\ self = p.self
    BY DEF Init
  <2>2. (CHOOSE q \in Programs : TRUE) \in Programs
    BY ThreadsAssumption
  <2> QED BY <2>1, <2>2
<1>2. /\ self \in [Clients -> Conns]
      /\ \A o \in Others, t \in Clients : self[t] = self[o] => t = o
  BY <1>1, ThreadsAssumption
<1>3. ConnTypes /\ Subscribed
  BY <1>2, ThreadsAssumption DEF Init, ConnTypes, Subscribed
<1>4. Locking /\ RepliesToCallers
  BY <1>2 DEF Init, Locking, RepliesToCallers, Clients
<1>5. \A c \in Conns : OneCall(c)
  BY DEF Init, OneCall, NoCall, Asked
<1> QED BY <1>3, <1>4, <1>5 DEF ThreadsInv, OneCallEach

LEMMA ThreadsNext == ThreadsInv /\ [Next]_vars => ThreadsInv'
<1> SUFFICES ASSUME ThreadsInv, [Next]_vars PROVE ThreadsInv'
  OBVIOUS
<1>1. ASSUME NEW t \in Clients, Call(t) PROVE ThreadsInv'
  <2>1. PICK op \in Asked, i \in Ids : Request(t, [op |-> op, id |-> i, by |-> t])
    BY <1>1 DEF Call
  <2>2. PICK r : r = [op |-> op, id |-> i, by |-> t]
    OBVIOUS
  <2>3. r \in Asking /\ r.by = t
    BY <2>2 DEF Asking
  <2> QED BY <2>1, <2>2, <2>3, Calling
<1>2. ASSUME NEW t \in Clients, Answer(t) PROVE ThreadsInv'
  BY <1>2, Answering
<1>3. ASSUME NEW t \in Clients, Wait(t) \/ Wake(t) \/ Resume(t) PROVE ThreadsInv'
  BY <1>3, Waiting
<1>4. ASSUME NEW t \in Clients, Drop(t) PROVE ThreadsInv'
  BY <1>4, NothingSent DEF Drop
<1>5. ASSUME NEW c \in Conns, Serve(c) PROVE ThreadsInv'
  BY <1>5, Serving
<1>6. ASSUME NEW c \in Conns, Respond(c) PROVE ThreadsInv'
  BY <1>6, Responding
<1>7. ASSUME NEW c \in Conns, LockWalk(c) \/ Notify(c) \/ UnlockWalk(c) PROVE ThreadsInv'
  BY <1>7, Walking
<1>8. CASE Plain \/ UNCHANGED vars
  BY <1>8, NothingSent DEF Plain, vars, conn_vars
<1> QED BY <1>1, <1>2, <1>3, <1>4, <1>5, <1>6, <1>7, <1>8 DEF Next, ClientNext, ServerNext

\* Threads that share a connection do not take each other's replies: as the
\* interpreter lock is held from a request to its reply, a thread gets what was
\* meant for another, or for nobody, only over a connection that has been
\* subscribed, or when it waits for updates itself.
THEOREM RepliesReachTheirCallers == Spec => []RepliesToCallers
<1>1. ThreadsInv => RepliesToCallers
  BY DEF ThreadsInv
<1> QED BY <1>1, ThreadsInit, ThreadsNext, PTL DEF Spec

-----------------------------------------------------------------------------
(* The functions of PyModule                                               *)

\* A step is one of the functions of PyModule or has nothing to do with them.
LEMMA ModuleOrNot ==
  ASSUME [Next]_vars
  PROVE  ModuleNext \/ UNCHANGED module_vars
<1>1. ASSUME NEW t \in Clients, Call(t) PROVE UNCHANGED module_vars
  BY <1>1 DEF Call, Request
<1>2. ASSUME NEW t \in Clients, Answer(t) \/ Wait(t) \/ Wake(t) \/ Resume(t) \/ Drop(t)
      PROVE  UNCHANGED module_vars
  BY <1>2, SMTT(30) DEF Answer, Wait, Wake, Resume, Drop
<1>3. ASSUME NEW c \in Conns,
             Serve(c) \/ Respond(c) \/ LockWalk(c) \/ Notify(c) \/ UnlockWalk(c)
      PROVE  UNCHANGED module_vars
  BY <1>3 DEF Serve, Respond, LockWalk, Notify, UnlockWalk
<1> QED BY <1>1, <1>2, <1>3 DEF Next, ClientNext, ServerNext, Plain, vars

LEMMA MinOfTwo ==
  ASSUME NEW a \in Nat, NEW b \in Nat
  PROVE  Min({a, b}) \in Nat /\ Min({a, b}) = IF a <= b THEN a ELSE b
<1>1. Min({a, b}) \in {a, b} /\ \A y \in {a, b} : Min({a, b}) <= y
  BY MinOfNat
<1> QED BY <1>1

LEMMA FirstGroupsLength ==
  ASSUME NEW setting \in Seq(Seq(Nat)), NEW n \in Nat,
         n = IF GroupSetSize <= Len(setting) THEN GroupSetSize ELSE Len(setting)
  PROVE  FirstGroups(setting) = [k \in 1..n |-> Kept(setting[k])]
<1>1. n = Min({GroupSetSize, Len(setting)})
  <2>1. PICK a, b \in Nat : a = GroupSetSize /\ b = Len(setting)
    <3>1. GroupSetSize \in Nat
      BY DebugAssumption
    <3>2. Len(setting) \in Nat
      OBVIOUS
    <3> QED BY <3>1, <3>2
  <2>2. Min({a, b}) = IF a <= b THEN a ELSE b
    BY MinOfTwo
  <2> QED BY <2>1, <2>2
<1> QED BY <1>1 DEF FirstGroups

LEMMA NoGroups == <<>> \in Seq(Seq(Nat)) /\ FirstGroups(<<>>) = <<>>
<1>1. PICK none \in Seq(Seq(Nat)) : none = <<>> /\ Len(none) = 0
  <2>1. <<>> \in Seq(Seq(Nat)) /\ Len(<<>>) = 0
    OBVIOUS
  <2> QED BY <2>1
<1>2. 0 = IF GroupSetSize <= Len(none) THEN GroupSetSize ELSE Len(none)
  BY <1>1, DebugAssumption
<1>3. FirstGroups(none) = [k \in 1..0 |-> Kept(none[k])]
  BY <1>2, FirstGroupsLength
<1>4. [k \in 1..0 |-> Kept(none[k])] = <<>>
  OBVIOUS
<1> QED BY <1>1, <1>3, <1>4

\* Of the names that are read, the first is what is left in the environment.
LEMMA FirstOfGroups ==
  ASSUME NEW setting \in Seq(Seq(Nat)), setting # <<>>
  PROVE  LET some == FirstGroups(setting)
             first == FirstGroups(<<setting[1]>>)
         IN  /\ <<setting[1]>> \in Seq(Seq(Nat))
             /\ (some = <<>> => first = <<>>)
             /\ (some # <<>> => first = <<some[1]>>)
<1>1. setting[1] \in Seq(Nat) /\ Len(setting) \in Nat /\ Len(setting) >= 1
  OBVIOUS
<1>2. PICK name \in Seq(Nat) : name = setting[1]
  BY <1>1
<1>3. PICK new \in Seq(Seq(Nat)) : new = <<name>> /\ Len(new) = 1 /\ new[1] = name
  <2>1. <<name>> \in Seq(Seq(Nat)) /\ Len(<<name>>) = 1 /\ <<name>>[1] = name
    OBVIOUS
  <2> QED BY <2>1
<1>4. CASE GroupSetSize = 0
  <2>1. FirstGroups(setting) = [k \in 1..0 |-> Kept(setting[k])]
    <3>1. 0 = IF GroupSetSize <= Len(setting) THEN GroupSetSize ELSE Len(setting)
      BY <1>1, <1>4
    <3> QED BY <3>1, FirstGroupsLength
  <2>2. FirstGroups(new) = [k \in 1..0 |-> Kept(new[k])]
    <3>1. 0 = IF GroupSetSize <= Len(new) THEN GroupSetSize ELSE Len(new)
      BY <1>3, <1>4
    <3> QED BY <3>1, FirstGroupsLength
  <2>3. FirstGroups(setting) = <<>> /\ FirstGroups(new) = <<>>
    BY <2>1, <2>2
  <2> QED BY <1>2, <1>3, <2>3
<1>5. CASE GroupSetSize # 0
  <2>1. GroupSetSize \in Nat /\ GroupSetSize >= 1
    BY <1>5, DebugAssumption
  <2>2. PICK n \in Nat : n = IF GroupSetSize <= Len(setting) THEN GroupSetSize ELSE Len(setting)
    BY <1>1, <2>1
  <2>3. n >= 1 /\ FirstGroups(setting) = [k \in 1..n |-> Kept(setting[k])]
    BY <1>1, <2>1, <2>2, FirstGroupsLength
  <2>4. FirstGroups(new) = [k \in 1..1 |-> Kept(new[k])]
    <3>1. 1 = IF GroupSetSize <= Len(new) THEN GroupSetSize ELSE Len(new)
      BY <1>3, <2>1
    <3> QED BY <3>1, FirstGroupsLength
  <2>5. FirstGroups(setting)[1] = Kept(name) /\ FirstGroups(setting) # <<>>
    <3>1. PICK some : some = [k \in 1..n |-> Kept(setting[k])]
      OBVIOUS
    <3>2. 1 \in DOMAIN some /\ some[1] = Kept(name)
      BY <1>2, <2>3, <3>1
    <3>3. some # <<>>
      BY <3>2
    <3> QED BY <2>3, <3>1, <3>2, <3>3
  <2>6. FirstGroups(new) = <<Kept(name)>>
    BY <1>3, <2>4
  <2> QED BY <1>2, <1>3, <2>5, <2>6
<1> QED BY <1>4, <1>5

\* Of the names that were read from the environment the first is left there.
GroupsInv ==
  /\ DEBUG_GROUP \in Seq(Seq(Nat))
  /\ core_debug_group_env # <<>> => FirstGroups(DEBUG_GROUP) = <<core_debug_group_env[1]>>

\* The names are what they were, or dropped but for the first.
KeptOrDropped ==
  \/ Groups' = Groups
  \/ /\ core_debug_group_env # <<>> /\ core_debug_group_env' = <<>>
     /\ Groups' = <<Groups[1]>>

LEMMA SameNamesPass ==
  ASSUME Groups' = Groups
  PROVE  Passing' = Passing
<1>1. \A g : is_core_debug_group(g)' <=> is_core_debug_group(g)
  BY DEF is_core_debug_group, Kept
<1> QED BY <1>1 DEF Passing, Names, InGroup

LEMMA GroupsKept ==
  ASSUME UNCHANGED <<DEBUG_GROUP, core_debug_group_env>>
  PROVE  KeptOrDropped /\ (GroupsInv => GroupsInv')
<1>1. Groups' = Groups
  BY DEF Groups, FirstGroups, Kept
<1>2. GroupsInv => GroupsInv'
  BY DEF GroupsInv, FirstGroups, Kept
<1> QED BY <1>1, <1>2 DEF KeptOrDropped

LEMMA GroupsForgotten ==
  ASSUME GroupsInv, set_core_debug_group_env(<<>>)
  PROVE  KeptOrDropped /\ GroupsInv'
<1>1. DEBUG_GROUP' = DEBUG_GROUP /\ core_debug_group_env' = <<>>
  BY NoGroups DEF set_core_debug_group_env
<1>2. PICK first : first = FirstGroups(DEBUG_GROUP)
  OBVIOUS
<1>3. FirstGroups(DEBUG_GROUP)' = first
  BY <1>1, <1>2 DEF FirstGroups, Kept
<1>4. Groups' = first
  BY <1>1, <1>3 DEF Groups
<1>5. CASE core_debug_group_env = <<>>
  <2>1. Groups' = Groups
    BY <1>2, <1>4, <1>5 DEF Groups
  <2> QED BY <1>1, <2>1 DEF KeptOrDropped, GroupsInv
<1>6. CASE core_debug_group_env # <<>>
  <2>1. Groups = core_debug_group_env /\ first = <<core_debug_group_env[1]>>
    BY <1>2, <1>6 DEF Groups, GroupsInv
  <2> QED BY <1>1, <1>4, <1>6, <2>1 DEF KeptOrDropped, GroupsInv
<1> QED BY <1>5, <1>6

LEMMA GroupsRead ==
  ASSUME GroupsInv, NEW level, Debug(level)
  PROVE  KeptOrDropped /\ GroupsInv'
<1>1. CASE UNCHANGED <<core_debug_group_env, DEBUG_GROUP>>
  BY <1>1, GroupsKept
<1>2. CASE /\ core_debug_group_env' = Groups
           /\ DEBUG_GROUP' = IF core_debug_group_env = <<>> /\ DEBUG_GROUP # <<>>
                             THEN <<DEBUG_GROUP[1]>> ELSE DEBUG_GROUP
  <2>1. CASE core_debug_group_env # <<>>
    BY <1>2, <2>1, GroupsKept DEF Groups
  <2>2. CASE core_debug_group_env = <<>> /\ DEBUG_GROUP = <<>>
    BY <1>2, <2>2, NoGroups, GroupsKept DEF Groups
  <2>3. CASE core_debug_group_env = <<>> /\ DEBUG_GROUP # <<>>
    <3>1. PICK old \in Seq(Seq(Nat)) : old = DEBUG_GROUP
      BY DEF GroupsInv
    <3>2. PICK new : new = <<old[1]>>
      OBVIOUS
    <3>3. PICK some : some = FirstGroups(old)
      OBVIOUS
    <3>4. PICK first : first = FirstGroups(new)
      OBVIOUS
    <3>5. /\ new \in Seq(Seq(Nat)) /\ (some = <<>> => first = <<>>)
          /\ (some # <<>> => first = <<some[1]>>)
      BY <2>3, <3>1, <3>2, <3>3, <3>4, FirstOfGroups
    <3>6. Groups = some /\ core_debug_group_env' = some /\ DEBUG_GROUP' = new
      BY <1>2, <2>3, <3>1, <3>2, <3>3 DEF Groups
    <3>7. FirstGroups(DEBUG_GROUP)' = first
      BY <3>4, <3>6 DEF FirstGroups, Kept
    <3>8. GroupsInv'
      BY <3>5, <3>6, <3>7 DEF GroupsInv
    <3>9. Groups' = IF some = <<>> THEN first ELSE some
      BY <3>6, <3>7 DEF Groups
    <3>10. Groups' = Groups
      BY <3>5, <3>6, <3>9
    <3> QED BY <3>8, <3>10 DEF KeptOrDropped
  <2> QED BY <2>1, <2>2, <2>3
<1> QED BY <1>1, <1>2 DEF Debug

LEMMA GroupsStep ==
  ASSUME GroupsInv, [Next]_vars
  PROVE  KeptOrDropped /\ GroupsInv'
<1>1. CASE UNCHANGED module_vars
  BY <1>1, GroupsKept DEF module_vars, debug_vars
<1>2. CASE DebugCall
  <2>1. PICK o \in Inputs : \/ set_level(<<o>>) \/ set_group(<<o>>) \/ do_debug(<<o, o>>)
                            \/ WrongArguments(1, <<o, o>>)
    BY <1>2 DEF DebugCall
  <2>2. CASE set_level(<<o>>) \/ WrongArguments(1, <<o, o>>)
    BY <2>2, GroupsKept DEF set_level, WrongArguments, set_core_debug_level_env, debug_vars
  <2>3. CASE set_group(<<o>>)
    BY <2>3, GroupsKept, GroupsForgotten DEF set_group, debug_vars
  <2>4. CASE do_debug(<<o, o>>)
    BY <2>4, GroupsRead DEF do_debug
  <2> QED BY <2>1, <2>2, <2>3, <2>4
<1>3. CASE Echo \/ Columns \/ Fail \/ Lookup
  BY <1>3, GroupsKept DEF Echo, Columns, Fail, Lookup, debug_vars
<1> QED BY <1>1, <1>2, <1>3, ModuleOrNot DEF ModuleNext

\* Whatever a Python program calls, and however often strtok cuts the environment: what
\* passes stays the same, unless the program drops the names that were kept.
THEOREM AskingKeeps == Spec => AskingKeepsGroups
<1>1. Init => GroupsInv
  <2> SUFFICES ASSUME Init PROVE GroupsInv
    OBVIOUS
  <2>1. DEBUG_GROUP \in Settings \cup {<<>>} /\ core_debug_group_env = <<>>
    BY DEF Init, ModuleInit, DebugInit
  <2>2. DEBUG_GROUP \in Seq(Seq(Nat))
    BY <2>1, NoGroups, ModuleAssumption
  <2> QED BY <2>1, <2>2 DEF GroupsInv
<1>2. GroupsInv /\ [Next]_vars =>
        /\ GroupsInv'
        /\ [Passing' # Passing =>
              /\ core_debug_group_env # <<>> /\ core_debug_group_env' = <<>>
              /\ Groups' = <<Groups[1]>>]_module_vars
  BY GroupsStep, SameNamesPass DEF KeptOrDropped
<1> QED BY <1>1, <1>2, PTL DEF Spec, AskingKeepsGroups

-----------------------------------------------------------------------------
(* The errors of a function                                                *)

\* last is where the first word of a text ends that begins with a word.
Ends(s, delims, last) ==
  /\ last \in 1..Len(s) /\ \A k \in 1..last : s[k] \notin delims
  /\ last < Len(s) => s[last + 1] \in delims

LEMMA FirstToken ==
  ASSUME NEW s \in Seq(Nat), s # <<>>, NEW delims, s[1] \notin delims
  PROVE  \E last : /\ Ends(s, delims, last)
                   /\ Strtok(s, delims).token = SubSeq(s, 1, last)
                   /\ Strtok(s, delims).left = SubSeq(s, 1, last)
<1> DEFINE within == {k \in DOMAIN s : s[k] \notin delims}
           ends(n) == {k \in n..Len(s) : s[k] \in delims}
           final(n) == IF ends(n) = {} THEN Len(s) ELSE Min(ends(n)) - 1
<1>1. Len(s) \in Nat /\ Len(s) >= 1 /\ DOMAIN s = 1..Len(s)
  OBVIOUS
<1>2. within # {} /\ Min(within) = 1
  <2>1. 1 \in within /\ within \in SUBSET Nat /\ \A k \in within : k >= 1
    BY <1>1
  <2> HIDE DEF within
  <2>2. Min(within) \in within /\ \A y \in within : Min(within) <= y
    BY <2>1, MinOfNat
  <2>3. Min(within) \in Nat /\ Min(within) >= 1 /\ Min(within) <= 1
    BY <2>1, <2>2
  <2> QED BY <2>1, <2>3
<1>3. PICK last : last = final(1)
  OBVIOUS
<1>4. /\ Strtok(s, delims).token = SubSeq(s, 1, last)
      /\ Strtok(s, delims).left = SubSeq(s, 1, last)
  <2>1. PICK word, rest : word = SubSeq(s, 1, last) /\ rest = SubSeq(s, last + 2, Len(s))
    OBVIOUS
  <2>2. Strtok(s, delims) = [token |-> word, left |-> word, rest |-> rest]
    BY <1>2, <1>3, <2>1 DEF Strtok
  <2>3. Strtok(s, delims).token = word /\ Strtok(s, delims).left = word
    BY <2>2
  <2> QED BY <2>1, <2>3, Zenon
<1>5. Ends(s, delims, last)
  <2>1. CASE ends(1) = {}
    BY <1>1, <1>3, <2>1 DEF Ends
  <2>2. CASE ends(1) # {}
    <3>1. PICK first : first = Min(ends(1))
      OBVIOUS
    <3>2. ends(1) \in SUBSET Nat
      BY <1>1
    <3>3. first \in ends(1) /\ \A y \in ends(1) : first <= y
      <4> HIDE DEF ends
      <4> QED BY <2>2, <3>1, <3>2, MinOfNat
    <3>4. first \in 1..Len(s) /\ s[first] \in delims /\ first # 1
      BY <3>3
    <3>5. last = first - 1
      BY <1>3, <2>2, <3>1
    <3>6. ASSUME NEW k \in 1..last PROVE s[k] \notin delims
      <4>1. k \in 1..Len(s) /\ ~(first <= k)
        BY <1>1, <3>4, <3>5
      <4> QED BY <3>3, <4>1
    <3> QED BY <1>1, <3>4, <3>5, <3>6 DEF Ends
  <2> QED BY <2>1, <2>2
<1> QED BY <1>4, <1>5

\* A text of which nothing is left to cut.
LEMMA NoToken ==
  ASSUME NEW delims
  PROVE  Strtok(<<>>, delims).token = <<>> /\ Strtok(<<>>, delims).left = <<>>
  BY DEF Strtok

LEMMA Cut ==
  ASSUME NEW s \in Seq(Nat), NEW last \in 1..Len(s)
  PROVE  /\ SubSeq(s, 1, last) \in Seq(Nat) /\ Len(SubSeq(s, 1, last)) = last
         /\ SubSeq(s, 1, last) # <<>>
         /\ \A k \in 1..last : SubSeq(s, 1, last)[k] = s[k]
<1>1. last \in Nat /\ last >= 1 /\ Len(s) \in Nat /\ \A k \in 1..last : s[k] \in Nat
  OBVIOUS
<1>2. SubSeq(s, 1, last) \in Seq(Nat) /\ Len(SubSeq(s, 1, last)) = last
  BY <1>1
<1>3. \A k \in 1..last : SubSeq(s, 1, last)[k] = s[k]
  BY <1>1
<1> QED BY <1>1, <1>2, <1>3, SMTT(30)

LEMMA WholeIsPrefix ==
  ASSUME NEW s \in Seq(Nat)
  PROVE  IsPrefix(s, s) /\ SubSeq(s, 1, Len(s)) = s
  BY DEF IsPrefix

\* Whichever of the two functions is called first, the first word of the text is
\* the exception's class, or its message begins with it.
LEMMA WordIsRaised ==
  ASSUME NEW s \in Errors \cup {InvalidLevel, InvalidGroup}, NEW e \in Exceptions(s)
  PROVE  e.set /\ (e.class = FirstWord(s) \/ IsPrefix(FirstWord(s), e.msg))
<1> DEFINE both == {Colon, Space}
           colon == {Colon}
           raise(type, msg, left_) == IF core_error(type) THEN Raised(type, msg)
                                      ELSE Raised(StandardError, left_)
<1>1. s \in Seq(Nat) /\ (s # <<>> => s[1] \notin both)
  BY ModuleAssumption
<1>2. PICK w : w = FirstWord(s)
  BY SMTT(30)
<1>3. \E m \in {w, Strtok(Strtok(s, colon).left, both).token} :
      \E msg :
      \E l \in {Strtok(Strtok(s, colon).left, both).left,
                Strtok(Strtok(s, both).left, colon).left} :
        /\ e = raise(m, msg, l)
        /\ \/ m = w /\ l = Strtok(Strtok(s, both).left, colon).left
           \/ /\ m = Strtok(Strtok(s, colon).left, both).token
              /\ l = Strtok(Strtok(s, colon).left, both).left
  BY <1>2 DEF Exceptions, variant_error_type, variant_error_msg, FirstWord
<1>4. /\ Strtok(Strtok(s, colon).left, both).token = w
      /\ Strtok(Strtok(s, colon).left, both).left = w
      /\ Strtok(Strtok(s, both).left, colon).left = w
      /\ w \in Seq(Nat)
  <2>1. CASE s = <<>>
    <3>1. w = <<>>
      BY <1>2, <2>1, NoToken DEF FirstWord, variant_error_type
    <3>2. w \in Seq(Nat)
      BY <3>1
    <3>3. Strtok(s, colon).left = w /\ Strtok(s, both).left = w
      BY <2>1, <3>1, NoToken
    <3>4. /\ Strtok(w, both).token = w /\ Strtok(w, both).left = w
          /\ Strtok(w, colon).left = w
      BY <3>1, NoToken
    <3> QED BY <3>2, <3>3, <3>4
  <2>2. CASE s # <<>>
    <3>1. PICK n : /\ Ends(s, both, n) /\ Strtok(s, both).token = SubSeq(s, 1, n)
                   /\ Strtok(s, both).left = SubSeq(s, 1, n)
      BY <1>1, <2>2, FirstToken
    <3>2. PICK c : Ends(s, colon, c) /\ Strtok(s, colon).left = SubSeq(s, 1, c)
      BY <1>1, <2>2, FirstToken
    <3>3. w = SubSeq(s, 1, n)
      BY <1>2, <3>1 DEF FirstWord, variant_error_type
    <3>4. n \in 1..Len(s) /\ c \in 1..Len(s) /\ Len(s) \in Nat
      BY <1>1, <3>1, <3>2 DEF Ends
    <3>5. /\ w \in Seq(Nat) /\ Len(w) = n /\ w # <<>> /\ \A k \in 1..n : w[k] = s[k]
      BY <1>1, <3>3, <3>4, Cut
    <3>6. PICK l \in Seq(Nat) : /\ l = SubSeq(s, 1, c) /\ Len(l) = c /\ l # <<>>
                                /\ \A k \in 1..c : l[k] = s[k]
      BY <1>1, <3>4, Cut
    <3>7. n <= c
      BY <3>1, <3>2, <3>4 DEF Ends
    <3>8. PICK v : /\ Ends(l, both, v) /\ Strtok(l, both).token = SubSeq(l, 1, v)
                   /\ Strtok(l, both).left = SubSeq(l, 1, v)
      <4>1. l[1] \notin both
        BY <1>1, <2>2, <3>4, <3>6
      <4> QED BY <3>6, <4>1, FirstToken, ZenonT(40)
    <3>9. v = n
      <4>1. v \in 1..c
        BY <3>6, <3>8 DEF Ends
      <4>2. ASSUME v < n PROVE FALSE
        <5>1. v + 1 \in 1..n /\ v + 1 \in 1..c /\ v < Len(l)
          BY <3>4, <3>6, <3>7, <4>1, <4>2
        <5>2. l[v + 1] \in both /\ l[v + 1] = s[v + 1]
          BY <3>6, <3>8, <5>1 DEF Ends
        <5> QED BY <3>1, <5>1, <5>2 DEF Ends
      <4>3. ASSUME n < v PROVE FALSE
        <5>1. n + 1 \in 1..v /\ n + 1 \in 1..c /\ n < Len(s)
          BY <3>4, <4>1, <4>3
        <5>2. l[n + 1] \notin both /\ l[n + 1] = s[n + 1]
          BY <3>6, <3>8, <5>1 DEF Ends
        <5> QED BY <3>1, <5>1, <5>2 DEF Ends
      <4> QED BY <3>4, <4>1, <4>2, <4>3
    <3>10. SubSeq(l, 1, n) = w
      <4>1. PICK u \in Seq(Nat) : /\ u = SubSeq(l, 1, n) /\ Len(u) = n
                                  /\ \A k \in 1..n : u[k] = l[k]
        <5>1. n \in 1..Len(l)
          BY <3>4, <3>6, <3>7
        <5> QED BY <5>1, Cut
      <4>2. \A k \in 1..n : u[k] = w[k]
        BY <3>4, <3>5, <3>6, <3>7, <4>1
      <4>3. u = w
        BY <3>5, <4>1, <4>2
      <4> QED BY <4>1, <4>3
    <3>11. Strtok(w, colon).left = w
      <4>1. w[1] \notin colon
        BY <1>1, <2>2, <3>4, <3>5
      <4>2. PICK x : Ends(w, colon, x) /\ Strtok(w, colon).left = SubSeq(w, 1, x)
        BY <3>5, <4>1, FirstToken, ZenonT(40)
      <4>3. x \in 1..n
        BY <3>5, <4>2 DEF Ends
      <4>4. ASSUME x < n PROVE FALSE
        <5>1. x + 1 \in 1..n /\ x < Len(w)
          BY <3>4, <3>5, <4>3, <4>4
        <5>2. w[x + 1] \in colon /\ w[x + 1] = s[x + 1]
          BY <3>5, <4>2, <5>1 DEF Ends
        <5> QED BY <3>1, <5>1, <5>2 DEF Ends
      <4>5. x = Len(w)
        BY <3>4, <3>5, <4>3, <4>4
      <4> QED BY <3>5, <4>2, <4>5, WholeIsPrefix
    <3> QED BY <3>1, <3>2, <3>3, <3>5, <3>6, <3>8, <3>9, <3>10, <3>11
  <2> QED BY <2>1, <2>2
<1>5. PICK msg : e = raise(w, msg, w)
  BY <1>3, <1>4
<1>6. e.set /\ (e.class = w \/ e.msg = w)
  BY <1>5 DEF Raised
<1> QED BY <1>2, <1>4, <1>6, WholeIsPrefix

\* Every variant but an error or a function comes out as an object.
LEMMA ObjectNotNull ==
  ASSUME NEW v, v.m_type \in {"EMPTY", "BOOL", "INT", "DOUBLE", "STRING", "MATRIX"},
         NEW object
  PROVE  ToObject(v, object) # NULL
<1>1. NULL.type = "NULL"
  BY DEF NULL, None
<1>2. \A items : PyList(items).type = "list"
  BY DEF PyList, None
<1>3. CASE v.m_type = "MATRIX"
  BY <1>1, <1>2, <1>3 DEF ToObject, core_python_matrix_to_py
<1>4. CASE v.m_type \in {"EMPTY", "BOOL", "INT", "DOUBLE"}
  BY <1>1, <1>4 DEF ToObject, PyNumber, PyTrue, None
<1>5. CASE v.m_type = "STRING"
  BY <1>1, <1>5 DEF ToObject, PyString, None
<1> QED BY <1>3, <1>4, <1>5

\* No object becomes an error or a function.
LEMMA VariantNoError ==
  ASSUME NEW o, NEW variant
  PROVE  ToVariant(o, variant).m_type \in {"EMPTY", "INT", "DOUBLE", "STRING", "MATRIX"}
<1>1. \A t, n : Number(t, n).m_type = t
  BY DEF Number, variant_empty
<1>2. \A s : FromString(s).m_type \in {"INT", "STRING"}
  BY <1>1 DEF FromString, Text, variant_empty
<1>3. \A m : variant_from_matrix(m).m_type = "MATRIX" /\ variant_empty.m_type = "EMPTY"
  BY DEF variant_from_matrix, variant_empty
<1> QED BY <1>1, <1>2, <1>3 DEF ToVariant

LEMMA ReturnReaches ==
  ASSUME NEW v, NEW args, Return(v, args),
         v.m_type \in {"EMPTY", "BOOL", "INT", "DOUBLE", "STRING", "MATRIX", "ERROR", "FUNCTION"},
         v.m_type = "ERROR" => v.m_s \in Errors \cup {InvalidLevel, InvalidGroup}
  PROVE  ErrorsReachCaller'
<1>1. rtn' = v
  BY DEF Return
<1>2. CASE v.m_type = "ERROR"
  <2>1. PICK e \in Exceptions(v.m_s) : raised' = e /\ value' = NULL
    BY <1>2 DEF Return
  <2>2. PICK w : w = FirstWord(v.m_s)
    OBVIOUS
  <2>3. e.set /\ (e.class = w \/ IsPrefix(w, e.msg))
    BY <1>2, <2>2, WordIsRaised
  <2>4. FirstWord(rtn.m_s)' = w
    BY <1>1, <2>2 DEF FirstWord, variant_error_type, Strtok
  <2> QED BY <2>1, <2>3, <2>4 DEF ErrorsReachCaller
<1>3. CASE v.m_type # "ERROR"
  <2>1. value' = ToObject(v, ObjectOf[MaxDepth])
    BY <1>3 DEF Return, core_python_variant_to_py
  <2>2. ASSUME v.m_type # "FUNCTION" PROVE value' # NULL
    <3>1. v.m_type \in {"EMPTY", "BOOL", "INT", "DOUBLE", "STRING", "MATRIX"}
      BY <1>3, <2>2
    <3>2. \A object : ToObject(v, object) # NULL
      BY <3>1, ObjectNotNull
    <3> QED BY <2>1, <3>2
  <2> QED BY <1>1, <1>3, <2>2 DEF ErrorsReachCaller
<1> QED BY <1>2, <1>3

LEMMA TextIsText ==
  ASSUME NEW t, NEW s
  PROVE  Text(t, s).m_type = t /\ Text(t, s).m_s = s
  BY DEF Text, variant_empty

\* The two columns of a matrix are of one height, so that they make a dict.
LEMMA ColumnsMakeDict ==
  ASSUME NEW m
  PROVE  core_python_variants_to_py_dict(
           variant_from_matrix(matrix_get_column(m, 0)),
           variant_from_matrix(matrix_get_column(m, 1))) # NULL
<1> DEFINE keys == variant_from_matrix(matrix_get_column(m, 0))
           vals == variant_from_matrix(matrix_get_column(m, 1))
<1>1. /\ keys.m_type = "MATRIX" /\ vals.m_type = "MATRIX"
      /\ keys.m_m = matrix_get_column(m, 0) /\ vals.m_m = matrix_get_column(m, 1)
  BY DEF variant_from_matrix, variant_empty
<1>2. keys.m_m.m_height = vals.m_m.m_height
  BY <1>1 DEF matrix_get_column, Build
<1>3. \A items : PyDict(items).type = "dict"
  BY DEF PyDict, None
<1>4. NULL.type = "NULL"
  BY DEF NULL, None
<1>5. PICK items : core_python_variants_to_py_dict(keys, vals) = PyDict(items)
  BY <1>1, <1>2 DEF core_python_variants_to_py_dict
<1> QED BY <1>3, <1>4, <1>5

LEMMA ErrorsInit == Init => ErrorsReachCaller
<1> SUFFICES ASSUME Init PROVE ErrorsReachCaller
  OBVIOUS
<1>1. value \in Values \cup {None} /\ rtn = variant_empty
  BY DEF Init, ModuleInit
<1>2. NULL \notin Values
  <2>1. Values \subseteq Nested(Object[MaxDepth])
    BY ModuleAssumption DEF Objects
  <2>2. NULL.type = "NULL"
    BY DEF NULL, None
  <2>3. ASSUME NEW o \in Nested(Object[MaxDepth]) PROVE o.type # "NULL"
    BY <2>3 DEF Nested
  <2> QED BY <2>1, <2>2, <2>3
<1>3. value # NULL
  BY <1>1, <1>2 DEF NULL, None
<1> QED BY <1>1, <1>3 DEF ErrorsReachCaller, variant_empty

LEMMA ErrorsNext == ErrorsReachCaller /\ [Next]_vars => ErrorsReachCaller'
<1> SUFFICES ASSUME ErrorsReachCaller, [Next]_vars PROVE ErrorsReachCaller'
  OBVIOUS
<1>1. CASE UNCHANGED module_vars
  BY <1>1 DEF module_vars, ErrorsReachCaller, FirstWord, variant_error_type, Strtok
<1>2. variant_empty.m_type = "EMPTY"
  BY DEF variant_empty
<1>3. CASE DebugCall
  <2>1. PICK o \in Inputs : \/ set_level(<<o>>) \/ set_group(<<o>>) \/ do_debug(<<o, o>>)
                            \/ WrongArguments(1, <<o, o>>)
    BY <1>3 DEF DebugCall
  <2>2. CASE WrongArguments(1, <<o, o>>)
    BY <1>2, <2>2 DEF WrongArguments, ErrorsReachCaller, Raised
  <2>3. ASSUME NEW v \in {variant_empty, Text("ERROR", InvalidLevel), Text("ERROR", InvalidGroup)},
               NEW args, Return(v, args)
        PROVE  ErrorsReachCaller'
    <3>1. \/ v.m_type = "EMPTY"
          \/ v.m_type = "ERROR" /\ v.m_s \in Errors \cup {InvalidLevel, InvalidGroup}
      BY <1>2, TextIsText
    <3> QED BY <2>3, <3>1, ReturnReaches
  <2>4. CASE set_level(<<o>>) \/ set_group(<<o>>) \/ do_debug(<<o, o>>)
    <3>1. \E v \in {variant_empty, Text("ERROR", InvalidLevel), Text("ERROR", InvalidGroup)},
             args \in {<<o>>, <<o, o>>} : Return(v, args)
      BY <2>4 DEF set_level, set_group, do_debug
    <3> QED BY <2>3, <3>1
  <2> QED BY <2>1, <2>2, <2>4
<1>4. CASE Echo
  <2>1. PICK v, args : Return(v, args) /\ v = ToVariant(value, VariantOf[MaxDepth])
    BY <1>4 DEF Echo, core_python_py_to_variant
  <2>2. v.m_type \in {"EMPTY", "INT", "DOUBLE", "STRING", "MATRIX"}
    BY <2>1, VariantNoError
  <2> QED BY <2>1, <2>2, ReturnReaches
<1>5. CASE Fail
  <2>1. PICK e \in Errors : Return(Text("ERROR", e), <<value>>)
    BY <1>5 DEF Fail
  <2>2. PICK v : v = Text("ERROR", e)
    OBVIOUS
  <2>3. v.m_type = "ERROR" /\ v.m_s = e
    BY <2>2, TextIsText
  <2> QED BY <2>1, <2>2, <2>3, ReturnReaches
<1>6. CASE Lookup
  <2>1. PICK v : v = variant_from_function(<<>>, 1) /\ Return(v, <<value>>)
    BY <1>6 DEF Lookup
  <2>2. v.m_type = "FUNCTION"
    BY <2>1 DEF variant_from_function, Text, variant_empty
  <2> QED BY <2>1, <2>2, ReturnReaches
<1>7. CASE Columns
  <2>1. value' # NULL /\ rtn' = variant_empty
    BY <1>7, ColumnsMakeDict DEF Columns
  <2> QED BY <1>2, <2>1 DEF ErrorsReachCaller
<1> QED BY <1>1, <1>3, <1>4, <1>5, <1>6, <1>7, ModuleOrNot DEF ModuleNext

\* Whatever a function returns, its caller gets an object or an exception, and of an
\* error it gets the first word.
THEOREM ErrorsReachTheirCaller == Spec => []ErrorsReachCaller
BY ErrorsInit, ErrorsNext, PTL DEF Spec

-----------------------------------------------------------------------------
(* The exception that stays behind                                         *)

LEMMA FlattenOne ==
  ASSUME NEW s
  PROVE  FlattenSeq(<<s>>) = s
<1> DEFINE IsFlatten(f) == f = [i \in 1..1 |-> IF i = 1 THEN s ELSE f[i - 1] \o <<s>>[i]]
<1>1. PICK f : IsFlatten(f)
  <2>1. IsFlatten([i \in 1..1 |-> s])
    OBVIOUS
  <2> QED BY <2>1
<1>2. IsFlatten(CHOOSE g : IsFlatten(g))
  BY <1>1
<1>3. \A g : IsFlatten(g) => g[1] = s
  OBVIOUS
<1>4. FlattenSeq(<<s>>) = (CHOOSE g : IsFlatten(g))[1]
  BY DEF FlattenSeq
<1> QED BY <1>2, <1>3, <1>4

LEMMA StraySource ==
  ASSUME NEW o, StrayError(<<o>>)
  PROVE  \E k \in DOMAIN Leaves(o) : Huge(Leaves(o)[k].text)
<1>1. PICK leaves : leaves = Leaves(o)
  OBVIOUS
<1>2. [k \in DOMAIN <<o>> |-> Leaves(<<o>>[k])] = <<leaves>>
  BY <1>1
<1>3. AllLeaves(<<o>>) = leaves
  BY <1>2, FlattenOne DEF AllLeaves
<1> QED BY <1>1, <1>3 DEF StrayError

\* Whatever goes through a function and back, no exception stays behind unless a
\* text of it reads as a number that no long holds.
THEOREM StrayFromHuge == Spec => StrayOnlyFromHuge
<1> DEFINE FromHuge == \E k \in DOMAIN Leaves(value) : Huge(Leaves(value)[k].text)
           Stray == Echo \/ Columns => (value' # NULL /\ raised'.set => FromHuge)
<1>1. ASSUME Echo \/ Columns, value' # NULL, raised'.set PROVE FromHuge
  <2>1. PICK o : o = value
    OBVIOUS
  <2>2. \/ raised' \in Exceptions(core_python_py_to_variant(value).m_s) /\ value' = NULL
        \/ raised' = IF StrayError(<<o>>) THEN OverflowError ELSE NoError
    BY <1>1, <2>1 DEF Echo, Columns, Return
  <2>3. ~NoError.set
    BY DEF NoError
  <2>4. StrayError(<<o>>)
    BY <1>1, <2>2, <2>3
  <2> QED BY <2>1, <2>4, StraySource
<1>2. [Next]_vars => [Stray]_module_vars
  BY <1>1
<1> QED BY <1>2, PTL DEF Spec, StrayOnlyFromHuge

-----------------------------------------------------------------------------
(* The levels of nesting                                                   *)

\* What is true at 0, and at n + 1 when at n, is true at every level.
LEMMA LevelByLevel ==
  ASSUME NEW T \in SUBSET Nat, 0 \in T, \A n \in Nat : n \in T => n + 1 \in T
  PROVE  T = Nat
<1> SUFFICES ASSUME Nat \ T # {} PROVE FALSE
  OBVIOUS
<1>1. PICK m \in Nat \ T : \A y \in Nat \ T : m <= y
  BY MinOfNat
<1>2. m # 0 /\ m - 1 \in Nat /\ ~(m <= m - 1)
  OBVIOUS
<1>3. m - 1 \in T
  BY <1>1, <1>2
<1>4. (m - 1) + 1 = m
  OBVIOUS
<1> QED BY <1>1, <1>2, <1>3, <1>4

\* All that is defined level by level, at level n, from the level below.
Level(n, below) ==
  [object |-> Nested(IF n = 0 THEN {} ELSE below.object),
   variant |-> Holding(IF n = 0 THEN {} ELSE below.variant),
   variantOf |-> [o \in Object[n] |-> ToVariant(o, IF n = 0 THEN <<>> ELSE below.variantOf)],
   objectOf |-> [v \in Variant[n] |-> ToObject(v, IF n = 0 THEN <<>> ELSE below.objectOf)]]

LEMMA LevelsExist ==
  \E F : \A n \in Nat : F[n] = Level(n, IF n = 0 THEN <<>> ELSE F[n - 1])
<1> DEFINE Upto(n, f) == f = [k \in 0..n |-> Level(k, IF k = 0 THEN <<>> ELSE f[k - 1])]
<1>1. ASSUME NEW n \in Nat, NEW m \in Nat, n <= m, NEW f, NEW g, Upto(n, f), Upto(m, g)
      PROVE  \A k \in 0..n : f[k] = g[k]
  <2> DEFINE T == {k \in Nat : k \in 0..n => f[k] = g[k]}
  <2>1. 0 \in T
    <3>1. f[0] = Level(0, <<>>) /\ g[0] = Level(0, <<>>)
      BY <1>1
    <3> QED BY <3>1
  <2>2. ASSUME NEW k \in Nat, k \in T PROVE k + 1 \in T
    <3> SUFFICES ASSUME k + 1 \in 0..n PROVE f[k + 1] = g[k + 1]
      OBVIOUS
    <3>1. k \in 0..n /\ k + 1 \in 0..m /\ k + 1 # 0 /\ (k + 1) - 1 = k
      BY <1>1
    <3>2. f[k + 1] = Level(k + 1, f[k]) /\ g[k + 1] = Level(k + 1, g[k])
      BY <1>1, <3>1
    <3> QED BY <2>2, <3>1, <3>2
  <2>3. T = Nat
    <3> HIDE DEF T
    <3>1. T \in SUBSET Nat
      BY DEF T
    <3> QED BY <2>1, <2>2, <3>1, LevelByLevel
  <2> QED BY <2>3
<1>2. ASSUME NEW n \in Nat PROVE \E f : Upto(n, f)
  <2> DEFINE T == {k \in Nat : \E f : Upto(k, f)}
  <2>1. 0 \in T
    <3>1. Upto(0, [k \in 0..0 |-> Level(0, <<>>)])
      OBVIOUS
    <3> QED BY <3>1
  <2>2. ASSUME NEW k \in Nat, k \in T PROVE k + 1 \in T
    <3>1. PICK f : Upto(k, f)
      BY <2>2
    <3> DEFINE g == [j \in 0..(k + 1) |-> IF j = k + 1 THEN Level(k + 1, f[k]) ELSE f[j]]
    <3>2. Upto(k + 1, g)
      <4>1. ASSUME NEW j \in 0..(k + 1)
            PROVE  g[j] = Level(j, IF j = 0 THEN <<>> ELSE g[j - 1])
        <5>1. CASE j = k + 1
          <6>1. j # 0 /\ j - 1 = k /\ k \in 0..(k + 1) /\ k # k + 1
            BY <5>1
          <6> QED BY <5>1, <6>1
        <5>2. CASE j # k + 1
          <6>1. j \in 0..k /\ (j # 0 => j - 1 \in 0..k /\ j - 1 # k + 1)
            BY <5>2
          <6>2. f[j] = Level(j, IF j = 0 THEN <<>> ELSE f[j - 1])
            BY <3>1, <6>1
          <6> QED BY <5>2, <6>1, <6>2
        <5> QED BY <5>1, <5>2
      <4> QED BY <4>1
    <3> HIDE DEF g, Upto
    <3> QED BY <3>2
  <2>3. T = Nat
    <3> HIDE DEF T
    <3>1. T \in SUBSET Nat
      BY DEF T
    <3> QED BY <2>1, <2>2, <3>1, LevelByLevel
  <2> QED BY <2>3
<1> DEFINE P(n) == CHOOSE f : Upto(n, f)
           F == [n \in Nat |-> P(n)[n]]
<1>3. \A n \in Nat : Upto(n, P(n))
  <2> HIDE DEF Upto
  <2> QED BY <1>2
<1>4. ASSUME NEW n \in Nat PROVE F[n] = Level(n, IF n = 0 THEN <<>> ELSE F[n - 1])
  <2> HIDE DEF P
  <2>1. P(n)[n] = Level(n, IF n = 0 THEN <<>> ELSE P(n)[n - 1])
    BY <1>3
  <2>2. ASSUME n # 0 PROVE P(n)[n - 1] = F[n - 1]
    <3>1. n - 1 \in Nat /\ n - 1 <= n /\ n - 1 \in 0..(n - 1)
      BY <2>2
    <3>2. Upto(n, P(n)) /\ Upto(n - 1, P(n - 1))
      BY <1>3, <3>1
    <3> HIDE DEF Upto
    <3>3. P(n - 1)[n - 1] = P(n)[n - 1]
      BY <1>1, <3>1, <3>2
    <3> QED BY <3>1, <3>3
  <2> QED BY <2>1, <2>2
<1> HIDE DEF F
<1> QED BY <1>4

LEMMA LevelFields ==
  ASSUME NEW n \in Nat, NEW F, F[n] = Level(n, IF n = 0 THEN <<>> ELSE F[n - 1])
  PROVE  /\ F[n].object = Nested(IF n = 0 THEN {} ELSE F[n - 1].object)
         /\ F[n].variant = Holding(IF n = 0 THEN {} ELSE F[n - 1].variant)
         /\ F[n].variantOf = [o \in Object[n] |-> ToVariant(o, IF n = 0 THEN <<>> ELSE F[n - 1].variantOf)]
         /\ F[n].objectOf = [v \in Variant[n] |-> ToObject(v, IF n = 0 THEN <<>> ELSE F[n - 1].objectOf)]
<1>1. CASE n = 0
  <2>1. F[n] = Level(n, <<>>)
    BY <1>1
  <2> QED BY <1>1, <2>1 DEF Level
<1>2. CASE n # 0
  <2>1. F[n] = Level(n, F[n - 1])
    BY <1>2
  <2> QED BY <1>2, <2>1 DEF Level
<1> QED BY <1>1, <1>2

\* What the definitions by recursion say.
LEMMA Levels ==
  /\ Object = [n \in Nat |-> Nested(IF n = 0 THEN {} ELSE Object[n - 1])]
  /\ Variant = [n \in Nat |-> Holding(IF n = 0 THEN {} ELSE Variant[n - 1])]
  /\ VariantOf = [n \in Nat |-> [o \in Object[n] |-> ToVariant(o, IF n = 0 THEN <<>> ELSE VariantOf[n - 1])]]
  /\ ObjectOf = [n \in Nat |-> [v \in Variant[n] |-> ToObject(v, IF n = 0 THEN <<>> ELSE ObjectOf[n - 1])]]
<1>1. PICK F : \A n \in Nat : F[n] = Level(n, IF n = 0 THEN <<>> ELSE F[n - 1])
  BY LevelsExist
<1>2. Object = [n \in Nat |-> Nested(IF n = 0 THEN {} ELSE Object[n - 1])]
  <2> DEFINE G == [n \in Nat |-> F[n].object]
  <2>1. ASSUME NEW n \in Nat PROVE G[n] = Nested(IF n = 0 THEN {} ELSE G[n - 1])
    <3>1. F[n].object = Nested(IF n = 0 THEN {} ELSE F[n - 1].object)
      BY <1>1, LevelFields
    <3>2. G[n] = F[n].object /\ (n # 0 => G[n - 1] = F[n - 1].object)
      OBVIOUS
    <3> HIDE DEF G
    <3>3. CASE n = 0
      BY <3>1, <3>2, <3>3
    <3>4. CASE n # 0
      BY <3>1, <3>2, <3>4
    <3> QED BY <3>3, <3>4
  <2>2. G = [n \in Nat |-> Nested(IF n = 0 THEN {} ELSE G[n - 1])]
    BY <2>1
  <2> HIDE DEF G
  <2> QED BY <2>2 DEF Object
<1>3. Variant = [n \in Nat |-> Holding(IF n = 0 THEN {} ELSE Variant[n - 1])]
  <2> DEFINE G == [n \in Nat |-> F[n].variant]
  <2>1. ASSUME NEW n \in Nat PROVE G[n] = Holding(IF n = 0 THEN {} ELSE G[n - 1])
    <3>1. F[n].variant = Holding(IF n = 0 THEN {} ELSE F[n - 1].variant)
      BY <1>1, LevelFields
    <3>2. G[n] = F[n].variant /\ (n # 0 => G[n - 1] = F[n - 1].variant)
      OBVIOUS
    <3> HIDE DEF G
    <3>3. CASE n = 0
      BY <3>1, <3>2, <3>3
    <3>4. CASE n # 0
      BY <3>1, <3>2, <3>4
    <3> QED BY <3>3, <3>4
  <2>2. G = [n \in Nat |-> Holding(IF n = 0 THEN {} ELSE G[n - 1])]
    BY <2>1
  <2> HIDE DEF G
  <2> QED BY <2>2 DEF Variant
<1>4. VariantOf = [n \in Nat |-> [o \in Object[n] |-> ToVariant(o, IF n = 0 THEN <<>> ELSE VariantOf[n - 1])]]
  <2> DEFINE G == [n \in Nat |-> F[n].variantOf]
  <2>1. ASSUME NEW n \in Nat PROVE G[n] = [o \in Object[n] |-> ToVariant(o, IF n = 0 THEN <<>> ELSE G[n - 1])]
    <3>1. F[n].variantOf = [o \in Object[n] |-> ToVariant(o, IF n = 0 THEN <<>> ELSE F[n - 1].variantOf)]
      BY <1>1, LevelFields, ZenonT(40)
    <3>2. G[n] = F[n].variantOf /\ (n # 0 => G[n - 1] = F[n - 1].variantOf)
      OBVIOUS
    <3> HIDE DEF G
    <3>3. CASE n = 0
      BY <3>1, <3>2, <3>3
    <3>4. CASE n # 0
      BY <3>1, <3>2, <3>4
    <3> QED BY <3>3, <3>4
  <2>2. G = [n \in Nat |-> [o \in Object[n] |-> ToVariant(o, IF n = 0 THEN <<>> ELSE G[n - 1])]]
    BY <2>1
  <2> HIDE DEF G
  <2> QED BY <2>2 DEF VariantOf
<1>5. ObjectOf = [n \in Nat |-> [v \in Variant[n] |-> ToObject(v, IF n = 0 THEN <<>> ELSE ObjectOf[n - 1])]]
  <2> DEFINE G == [n \in Nat |-> F[n].objectOf]
  <2>1. ASSUME NEW n \in Nat PROVE G[n] = [v \in Variant[n] |-> ToObject(v, IF n = 0 THEN <<>> ELSE G[n - 1])]
    <3>1. F[n].objectOf = [v \in Variant[n] |-> ToObject(v, IF n = 0 THEN <<>> ELSE F[n - 1].objectOf)]
      BY <1>1, LevelFields, ZenonT(40)
    <3>2. G[n] = F[n].objectOf /\ (n # 0 => G[n - 1] = F[n - 1].objectOf)
      OBVIOUS
    <3> HIDE DEF G
    <3>3. CASE n = 0
      BY <3>1, <3>2, <3>3
    <3>4. CASE n # 0
      BY <3>1, <3>2, <3>4
    <3> QED BY <3>3, <3>4
  <2>2. G = [n \in Nat |-> [v \in Variant[n] |-> ToObject(v, IF n = 0 THEN <<>> ELSE G[n - 1])]]
    BY <2>1
  <2> HIDE DEF G
  <2> QED BY <2>2 DEF ObjectOf
<1> QED BY <1>2, <1>3, <1>4, <1>5

LEMMA NestedTypes ==
  ASSUME NEW S, NEW o \in Nested(S)
  PROVE  \/ /\ o.type \in {"None", "bool", "int", "long", "float", "str"}
            /\ o.num \in Int /\ o.text \in Seq(Nat) /\ o.items = <<>>
         \/ /\ o.type \in {"list", "dict"} /\ o.items \in Seq(S)
            /\ o.num = 0 /\ o.text = <<>>
            /\ o.type = "dict" =>
                 /\ Len(o.items) % 2 = 0
                 /\ \A k \in DOMAIN o.items : KeyAt(o.items, k) => Hashable(o.items[k])
BY DEF Nested

LEMMA NestedGrows ==
  ASSUME NEW S, NEW T, S \subseteq T
  PROVE  Nested(S) \subseteq Nested(T)
<1>1. Seq(S) \subseteq Seq(T)
  OBVIOUS
<1> QED BY <1>1 DEF Nested

\* An object of a level, and its elements, are objects of the next level too.
LEMMA LevelsGrow ==
  /\ Object[0] = Nested({})
  /\ \A n \in Nat : Object[n + 1] = Nested(Object[n]) /\ Object[n] \subseteq Object[n + 1]
<1>1. Object[0] = Nested({})
  BY Levels
<1>2. ASSUME NEW n \in Nat PROVE Object[n + 1] = Nested(Object[n])
  <2>1. n + 1 \in Nat /\ n + 1 # 0 /\ (n + 1) - 1 = n
    OBVIOUS
  <2> QED BY <2>1, Levels
<1> DEFINE T == {n \in Nat : Object[n] \subseteq Object[n + 1]}
<1>3. 0 \in T
  <2>1. Object[0 + 1] = Nested(Object[0]) /\ {} \subseteq Object[0]
    BY <1>2
  <2>2. Nested({}) \subseteq Nested(Object[0])
    BY <2>1, NestedGrows
  <2> QED BY <1>1, <2>1, <2>2
<1>4. ASSUME NEW n \in Nat, n \in T PROVE n + 1 \in T
  <2>1. n + 1 \in Nat /\ Object[n] \subseteq Object[n + 1]
    BY <1>4
  <2>2. Object[n + 1] = Nested(Object[n]) /\ Object[(n + 1) + 1] = Nested(Object[n + 1])
    BY <1>2, <2>1
  <2>3. Nested(Object[n]) \subseteq Nested(Object[n + 1])
    BY <2>1, NestedGrows
  <2> QED BY <2>1, <2>2, <2>3
<1>5. T = Nat
  <2> HIDE DEF T
  <2>1. T \in SUBSET Nat
    BY DEF T
  <2> QED BY <1>3, <1>4, <2>1, LevelByLevel
<1> QED BY <1>1, <1>2, <1>5

-----------------------------------------------------------------------------
(* The matrix of a list or a dict                                          *)

RowsOf(o) == [i \in DOMAIN o.items |-> Row(o.items[i])]

LEMMA ListRows ==
  ASSUME NEW S, S \subseteq Nested(S), NEW o \in Nested(S), o.type = "list"
  PROVE  RowsOf(o) \in Seq(Seq(S)) /\ Len(RowsOf(o)) = Len(o.items)
<1>1. o.items \in Seq(S)
  BY NestedTypes
<1>2. ASSUME NEW x \in S PROVE Row(x) \in Seq(S)
  <2>1. CASE x.type = "list"
    BY <2>1, NestedTypes DEF Row
  <2>2. CASE x.type # "list"
    BY <2>2 DEF Row
  <2> QED BY <2>1, <2>2
<1>3. \A i \in 1..Len(o.items) : Row(o.items[i]) \in Seq(S)
  BY <1>1, <1>2
<1> QED BY <1>1, <1>3 DEF RowsOf

LEMMA WidthOfRows ==
  ASSUME NEW S, NEW rows \in Seq(Seq(S))
  PROVE  /\ Width(rows) \in Nat /\ Width(rows) >= 1
         /\ \A i \in DOMAIN rows : Len(rows[i]) <= Width(rows)
         /\ Width(rows) = 1 \/ \E i \in DOMAIN rows : Width(rows) = Len(rows[i])
<1>1. Len(rows) \in Nat /\ DOMAIN rows = 1..Len(rows) /\ \A i \in DOMAIN rows : Len(rows[i]) \in Nat
  OBVIOUS
<1> DEFINE T == {n \in Nat : n <= Len(rows) => \E b \in Nat : \A i \in 1..n : Len(rows[i]) <= b}
<1>2. 0 \in T
  OBVIOUS
<1>3. ASSUME NEW n \in Nat, n \in T PROVE n + 1 \in T
  <2> SUFFICES ASSUME n + 1 <= Len(rows)
               PROVE  \E b \in Nat : \A i \in 1..n + 1 : Len(rows[i]) <= b
    OBVIOUS
  <2>1. PICK b \in Nat : \A i \in 1..n : Len(rows[i]) <= b
    BY <1>1, <1>3
  <2>2. PICK l \in Nat : l = Len(rows[n + 1])
    BY <1>1
  <2>3. ASSUME NEW i \in 1..n + 1 PROVE Len(rows[i]) <= b + l
    <3>1. CASE i = n + 1
      BY <2>2, <3>1
    <3>2. CASE i # n + 1
      <4>1. i \in 1..n /\ i \in DOMAIN rows
        BY <1>1, <3>2
      <4>2. Len(rows[i]) \in Nat /\ Len(rows[i]) <= b
        BY <1>1, <2>1, <4>1
      <4> QED BY <4>2
    <3> QED BY <3>1, <3>2
  <2>4. b + l \in Nat
    OBVIOUS
  <2> QED BY <2>3, <2>4
<1>4. PICK b \in Nat : \A i \in DOMAIN rows : Len(rows[i]) <= b
  <2>1. T = Nat
    <3> HIDE DEF T
    <3>1. T \in SUBSET Nat
      BY DEF T
    <3> QED BY <1>2, <1>3, <3>1, LevelByLevel
  <2>2. \A n \in Nat : n <= Len(rows) => \E b \in Nat : \A i \in 1..n : Len(rows[i]) <= b
    BY <2>1
  <2>3. PICK n \in Nat : n = Len(rows) /\ DOMAIN rows = 1..n
    <3>1. Len(rows) \in Nat /\ DOMAIN rows = 1..Len(rows)
      OBVIOUS
    <3> QED BY <3>1
  <2> HIDE DEF T
  <2>4. \E b \in Nat : \A i \in 1..n : Len(rows[i]) <= b
    <3>1. n <= Len(rows)
      BY <2>3
    <3> QED BY <2>2, <3>1, Zenon
  <2> QED BY <2>3, <2>4
<1> DEFINE W == {1} \cup {Len(rows[i]) : i \in DOMAIN rows}
<1>5. W \in SUBSET (0..b + 1) /\ W # {} /\ 1 \in W /\ \A i \in DOMAIN rows : Len(rows[i]) \in W
  BY <1>1, <1>4
<1>6. Width(rows) = Max(W)
  BY DEF Width
<1> HIDE DEF W
<1>7. b + 1 \in Nat
  OBVIOUS
<1>8. Max(W) \in W /\ \A y \in W : Max(W) >= y
  BY <1>5, <1>7, MaxOfBounded
<1>9. PICK w : w = Width(rows)
  OBVIOUS
<1>10. w \in W /\ w \in Nat /\ \A y \in W : w >= y
  <2>1. w \in W /\ \A y \in W : w >= y
    BY <1>6, <1>8, <1>9
  <2> QED BY <1>5, <2>1
<1>11. \A i \in DOMAIN rows : Len(rows[i]) \in Nat /\ w >= Len(rows[i])
  BY <1>1, <1>5, <1>10
<1>12. w = 1 \/ \E i \in DOMAIN rows : w = Len(rows[i])
  BY <1>10 DEF W
<1> QED BY <1>5, <1>9, <1>10, <1>11, <1>12

LEMMA ListMatrix ==
  ASSUME NEW S, S \subseteq Nested(S), NEW o \in Nested(S), o.type = "list", NEW variant
  PROVE  LET m == core_python_py_to_matrix(o, variant)
             rows == RowsOf(o)
         IN  /\ m.m_width = Width(rows) /\ m.m_height = Len(rows)
             /\ m.m_width \in Nat /\ m.m_height \in Nat
             /\ \A i \in 0..Width(rows) - 1, j \in 0..Len(rows) - 1 :
                  matrix_get(m, i, j) = IF i < Len(rows[j + 1])
                                        THEN variant[rows[j + 1][i + 1]] ELSE variant_empty
<1> DEFINE m == core_python_py_to_matrix(o, variant)
           rows == RowsOf(o)
           W == Width(rows)
           H == Len(rows)
           at(i, j) == IF i < Len(rows[j + 1]) THEN variant[rows[j + 1][i + 1]] ELSE variant_empty
<1>1. rows \in Seq(Seq(S)) /\ W \in Nat /\ H \in Nat
  BY ListRows, WidthOfRows
<1>2. m = [m_width |-> W, m_height |-> H,
           m_values |-> [k \in 1..W * H |-> at((k - 1) % W, (k - 1) \div W)]]
  BY DEF core_python_py_to_matrix, Build, RowsOf
<1> HIDE DEF m, W, H, at
<1>3. m.m_width = W /\ m.m_height = H
      /\ m.m_values = [k \in 1..W * H |-> at((k - 1) % W, (k - 1) \div W)]
  BY <1>2
<1>4. ASSUME NEW i \in 0..W - 1, NEW j \in 0..H - 1
      PROVE  matrix_get(m, i, j) = at(i, j)
  <2>1. PICK k \in 1..W * H : k = j * W + i + 1 /\ (k - 1) % W = i /\ (k - 1) \div W = j
    <3>1. j * W + i + 1 \in 1..W * H /\ (j * W + i) % W = i /\ (j * W + i) \div W = j
      BY <1>1, Places
    <3>2. j * W + i \in Int /\ (j * W + i + 1) - 1 = j * W + i
      BY <1>1
    <3> QED BY <3>1, <3>2
  <2>2. matrix_get(m, i, j) = m.m_values[k]
    BY <1>3, <2>1 DEF matrix_get, Index
  <2> QED BY <1>3, <2>1, <2>2
<1> QED BY <1>1, <1>3, <1>4 DEF m, W, H, at

LEMMA Halves ==
  ASSUME NEW l \in Nat, l % 2 = 0
  PROVE  l \div 2 \in Nat /\ l = 2 * (l \div 2)
OBVIOUS

LEMMA DictMatrix ==
  ASSUME NEW S, NEW o \in Nested(S), o.type = "dict", NEW variant
  PROVE  LET m == core_python_py_to_matrix(o, variant)
         IN  /\ m.m_width = 2 /\ m.m_height \in Nat /\ Len(o.items) = 2 * m.m_height
             /\ \A i \in 0..1, j \in 0..m.m_height - 1 :
                  matrix_get(m, i, j) = variant[o.items[2 * j + i + 1]]
<1> DEFINE m == core_python_py_to_matrix(o, variant)
           at(i, j) == variant[o.items[2 * j + i + 1]]
<1>1. o.items \in Seq(S) /\ Len(o.items) % 2 = 0
  BY NestedTypes
<1>2. PICK H \in Nat : H = Len(o.items) \div 2 /\ Len(o.items) = 2 * H
  <2>1. PICK l \in Nat : l = Len(o.items) /\ l % 2 = 0
    <3>1. Len(o.items) \in Nat
      BY <1>1
    <3> QED BY <1>1, <3>1
  <2> QED BY <2>1, Halves
<1>3. m = [m_width |-> 2, m_height |-> H,
           m_values |-> [k \in 1..2 * H |-> at((k - 1) % 2, (k - 1) \div 2)]]
  BY <1>2 DEF core_python_py_to_matrix, Build
<1> HIDE DEF m, at
<1>4. /\ m.m_width = 2 /\ m.m_height = H
      /\ m.m_values = [k \in 1..2 * H |-> at((k - 1) % 2, (k - 1) \div 2)]
  BY <1>3
<1>5. ASSUME NEW i \in 0..1, NEW j \in 0..H - 1
      PROVE  matrix_get(m, i, j) = at(i, j)
  <2>1. PICK k \in 1..2 * H : k = j * 2 + i + 1 /\ (k - 1) % 2 = i /\ (k - 1) \div 2 = j
    OBVIOUS
  <2>2. matrix_get(m, i, j) = m.m_values[k]
    BY <1>4, <2>1 DEF matrix_get, Index
  <2> QED BY <1>4, <2>1, <2>2
<1> QED BY <1>2, <1>4, <1>5 DEF m, at

\* A conversion depends only on what becomes of the elements.
LEMMA ConversionAgrees ==
  ASSUME NEW S, S \subseteq Nested(S), NEW o \in Nested(S), NEW f, NEW g,
         \A x \in S : f[x] = g[x]
  PROVE  ToVariant(o, f) = ToVariant(o, g)
<1>1. CASE o.type = "list"
  <2> DEFINE rows == RowsOf(o)
             W == Width(rows)
             H == Len(rows)
             at(v, i, j) == IF i < Len(rows[j + 1]) THEN v[rows[j + 1][i + 1]] ELSE variant_empty
             matrix(v) == [m_width |-> W, m_height |-> H,
                           m_values |-> [k \in 1..W * H |-> at(v, (k - 1) % W, (k - 1) \div W)]]
  <2>1. rows \in Seq(Seq(S)) /\ W \in Nat /\ H \in Nat
    BY <1>1, ListRows, WidthOfRows
  <2>2. \A v : core_python_py_to_matrix(o, v) = matrix(v)
    BY <1>1 DEF core_python_py_to_matrix, Build, RowsOf
  <2>3. ASSUME NEW i \in 0..W - 1, NEW j \in 0..H - 1 PROVE at(f, i, j) = at(g, i, j)
    <3>1. PICK row \in Seq(S) : row = rows[j + 1]
      <4>1. j + 1 \in 1..H
        BY <2>1
      <4> QED BY <2>1, <4>1
    <3>2. CASE i < Len(row)
      <4>1. row[i + 1] \in S
        BY <2>1, <3>2
      <4> QED BY <3>1, <3>2, <4>1
    <3>3. CASE ~(i < Len(row))
      BY <3>1, <3>3
    <3> QED BY <3>2, <3>3
  <2>4. matrix(f) = matrix(g)
    <3> HIDE DEF W, H, at
    <3>1. ASSUME NEW k \in 1..W * H
          PROVE  at(f, (k - 1) % W, (k - 1) \div W) = at(g, (k - 1) % W, (k - 1) \div W)
      <4>1. (k - 1) % W \in 0..W - 1 /\ (k - 1) \div W \in 0..H - 1
        BY <2>1, PlacesBack
      <4> QED BY <2>3, <4>1
    <3> QED BY <3>1
  <2> HIDE DEF matrix
  <2> QED BY <1>1, <2>2, <2>4 DEF ToVariant
<1>2. CASE o.type = "dict"
  <2> DEFINE H == Len(o.items) \div 2
             at(v, i, j) == v[o.items[2 * j + i + 1]]
             matrix(v) == [m_width |-> 2, m_height |-> H,
                           m_values |-> [k \in 1..2 * H |-> at(v, (k - 1) % 2, (k - 1) \div 2)]]
  <2>1. o.items \in Seq(S) /\ H \in Nat /\ Len(o.items) = 2 * H
    <3>1. o.items \in Seq(S) /\ Len(o.items) % 2 = 0
      BY <1>2, NestedTypes
    <3>2. Len(o.items) \in Nat
      BY <3>1
    <3> QED BY <3>1, <3>2, Halves
  <2>2. \A v : core_python_py_to_matrix(o, v) = matrix(v)
    BY <1>2 DEF core_python_py_to_matrix, Build
  <2>3. ASSUME NEW k \in 1..2 * H
        PROVE  at(f, (k - 1) % 2, (k - 1) \div 2) = at(g, (k - 1) % 2, (k - 1) \div 2)
    <3>1. PICK n \in 1..Len(o.items) : n = 2 * ((k - 1) \div 2) + ((k - 1) % 2) + 1
      <4> HIDE DEF H
      <4>1. 2 * ((k - 1) \div 2) + ((k - 1) % 2) + 1 = k /\ k \in 1..Len(o.items)
        BY <2>1
      <4> QED BY <4>1
    <3>2. o.items[n] \in S
      BY <2>1
    <3> QED BY <3>1, <3>2
  <2>4. matrix(f) = matrix(g)
    <3> HIDE DEF H, at
    <3> QED BY <2>3
  <2> HIDE DEF matrix
  <2> QED BY <1>2, <2>2, <2>4 DEF ToVariant
<1>3. CASE o.type \notin {"list", "dict"}
  BY <1>3 DEF ToVariant
<1> QED BY <1>1, <1>2, <1>3

\* The variant of an object does not depend on the level it is taken from.
LEMMA VariantAnyLevel ==
  \A n \in Nat : \A o \in Object[n] :
    /\ VariantOf[n + 1][o] = VariantOf[n][o]
    /\ VariantOf[n][o] = ToVariant(o, VariantOf[n])
<1>1. ASSUME NEW n \in Nat, NEW o \in Object[n + 1]
      PROVE  VariantOf[n + 1][o] = ToVariant(o, VariantOf[n])
  <2>1. n + 1 \in Nat /\ n + 1 # 0 /\ (n + 1) - 1 = n
    OBVIOUS
  <2> QED BY <2>1, Levels, SMTT(30)
<1>2. ASSUME NEW o \in Object[0] PROVE VariantOf[0][o] = ToVariant(o, <<>>)
  BY Levels
<1> DEFINE T == {n \in Nat : \A o \in Object[n] : VariantOf[n + 1][o] = VariantOf[n][o]}
<1>3. 0 \in T
  <2> SUFFICES ASSUME NEW o \in Object[0] PROVE VariantOf[0 + 1][o] = VariantOf[0][o]
    OBVIOUS
  <2>1. o \in Nested({}) /\ {} \subseteq Nested({}) /\ o \in Object[0 + 1]
    BY LevelsGrow
  <2>2. PICK S, f, g : S = {} /\ f = <<>> /\ g = VariantOf[0]
    OBVIOUS
  <2>3. o \in Nested(S) /\ S \subseteq Nested(S) /\ \A x \in S : f[x] = g[x]
    BY <2>1, <2>2
  <2>4. ToVariant(o, f) = ToVariant(o, g)
    BY <2>3, ConversionAgrees
  <2> QED BY <1>1, <1>2, <2>1, <2>2, <2>4
<1>4. ASSUME NEW n \in Nat, n \in T PROVE n + 1 \in T
  <2> SUFFICES ASSUME NEW o \in Object[n + 1]
               PROVE  VariantOf[(n + 1) + 1][o] = VariantOf[n + 1][o]
    OBVIOUS
  <2>1. n + 1 \in Nat
    OBVIOUS
  <2>2. /\ o \in Nested(Object[n]) /\ Object[n] \subseteq Nested(Object[n])
        /\ o \in Object[(n + 1) + 1]
    BY <2>1, LevelsGrow
  <2>3. \A x \in Object[n] : VariantOf[n][x] = VariantOf[n + 1][x]
    BY <1>4
  <2>4. ToVariant(o, VariantOf[n]) = ToVariant(o, VariantOf[n + 1])
    BY <2>2, <2>3, ConversionAgrees
  <2> QED BY <1>1, <2>1, <2>2, <2>4
<1>5. T = Nat
  <2> HIDE DEF T
  <2>1. T \in SUBSET Nat
    BY DEF T
  <2> QED BY <1>3, <1>4, <2>1, LevelByLevel
<1>6. ASSUME NEW n \in Nat, NEW o \in Object[n]
      PROVE  VariantOf[n + 1][o] = VariantOf[n][o] /\ o \in Object[n + 1]
  BY <1>5, LevelsGrow
<1> QED BY <1>1, <1>6

-----------------------------------------------------------------------------
(* Dicts                                                                   *)

\* The items of a dict of the keys K and the values V.
ItemsOf(K, V, n) ==
  [k \in 1..2 * n |-> IF k % 2 = 1 THEN K[(k + 1) \div 2] ELSE V[k \div 2]]

LEMMA ItemsAt ==
  ASSUME NEW K, NEW V, NEW n \in Nat
  PROVE  /\ DOMAIN ItemsOf(K, V, n) = 1..2 * n /\ Len(ItemsOf(K, V, n)) = 2 * n
         /\ \A j \in 1..n : /\ ItemsOf(K, V, n)[2 * j - 1] = K[j]
                            /\ ItemsOf(K, V, n)[2 * j] = V[j]
<1>1. 2 * n \in Nat
  OBVIOUS
<1>2. DOMAIN ItemsOf(K, V, n) = 1..2 * n /\ Len(ItemsOf(K, V, n)) = 2 * n
  BY <1>1 DEF ItemsOf
<1>3. ASSUME NEW j \in 1..n
      PROVE  ItemsOf(K, V, n)[2 * j - 1] = K[j] /\ ItemsOf(K, V, n)[2 * j] = V[j]
  <2>1. /\ 2 * j - 1 \in 1..2 * n /\ (2 * j - 1) % 2 = 1 /\ ((2 * j - 1) + 1) \div 2 = j
        /\ 2 * j \in 1..2 * n /\ (2 * j) % 2 = 0 /\ (2 * j) \div 2 = j
    OBVIOUS
  <2> QED BY <2>1 DEF ItemsOf
<1> QED BY <1>2, <1>3

LEMMA OddPlaces ==
  ASSUME NEW k \in Nat, k % 2 = 1
  PROVE  \E j \in Nat : k = 2 * j - 1
<1>1. (k + 1) \div 2 \in Nat /\ k = 2 * ((k + 1) \div 2) - 1
  OBVIOUS
<1> QED BY <1>1

\* A key that is new is put after the others.
LEMMA ItemAdded ==
  ASSUME NEW K, NEW V, NEW n \in Nat, Hashable(K[n + 1]),
         \A j \in 1..n : ~SameKey(K[j], K[n + 1])
  PROVE  SetItem(ItemsOf(K, V, n), K[n + 1], V[n + 1]) = ItemsOf(K, V, n + 1)
<1>1. PICK items : items = ItemsOf(K, V, n)
  OBVIOUS
<1>2. DOMAIN items = 1..2 * n /\ Len(items) = 2 * n
  BY <1>1, ItemsAt
<1>3. ASSUME NEW k \in DOMAIN items, KeyAt(items, k) PROVE ~SameKey(items[k], K[n + 1])
  <2>1. k \in 1..2 * n /\ k % 2 = 1
    BY <1>2, <1>3 DEF KeyAt
  <2>2. PICK j \in 1..n : k = 2 * j - 1
    <3>1. PICK j \in Nat : k = 2 * j - 1
      BY <2>1, OddPlaces
    <3>2. j \in 1..n
      BY <2>1, <3>1
    <3> QED BY <3>1, <3>2
  <2>3. items[k] = K[j]
    BY <1>1, <2>2, ItemsAt
  <2> QED BY <2>3
<1>4. SetItem(items, K[n + 1], V[n + 1]) = items \o <<K[n + 1], V[n + 1]>>
  BY <1>3 DEF SetItem
<1>5. PICK more : more = ItemsOf(K, V, n + 1)
  OBVIOUS
<1>6. /\ DOMAIN more = 1..2 * n + 2
      /\ more[2 * n + 1] = K[n + 1] /\ more[2 * n + 2] = V[n + 1]
  <2>1. /\ n + 1 \in Nat /\ 2 * (n + 1) = 2 * n + 2 /\ n + 1 \in 1..n + 1
        /\ 2 * (n + 1) - 1 = 2 * n + 1
    OBVIOUS
  <2> QED BY <1>5, <2>1, ItemsAt
<1>7. ASSUME NEW k \in 1..2 * n PROVE more[k] = items[k]
  <2>1. k \in 1..2 * (n + 1)
    OBVIOUS
  <2> QED BY <1>1, <1>5, <2>1 DEF ItemsOf
<1>8. items \o <<K[n + 1], V[n + 1]>> = more
  <2>1. items \o <<K[n + 1], V[n + 1]>> =
          [k \in 1..2 * n + 2 |-> IF k <= 2 * n THEN items[k]
                                  ELSE <<K[n + 1], V[n + 1]>>[k - 2 * n]]
    BY <1>2, SMTT(30)
  <2>2. ASSUME NEW k \in 1..2 * n + 2
        PROVE  more[k] = IF k <= 2 * n THEN items[k] ELSE <<K[n + 1], V[n + 1]>>[k - 2 * n]
    <3>1. CASE k <= 2 * n
      BY <1>7, <3>1
    <3>2. CASE k = 2 * n + 1
      BY <1>6, <3>2
    <3>3. CASE k = 2 * n + 2
      BY <1>6, <3>3
    <3> QED BY <3>1, <3>2, <3>3
  <2>3. more = [k \in 1..2 * n + 2 |-> more[k]]
    BY <1>5, <1>6 DEF ItemsOf
  <2> QED BY <2>1, <2>2, <2>3
<1> QED BY <1>1, <1>4, <1>5, <1>8

\* Keys of which no two are the same make a dict of all of them.
LEMMA DictBuilt ==
  ASSUME NEW keys, keys.m_type = "MATRIX", NEW vals, vals.m_type = "MATRIX",
         NEW n \in Nat, n = keys.m_m.m_height, n = vals.m_m.m_height,
         NEW K, NEW V,
         \A j \in 1..n : /\ K[j] = core_python_variant_to_py(matrix_get(keys.m_m, 0, j - 1))
                         /\ V[j] = core_python_variant_to_py(matrix_get(vals.m_m, 0, j - 1))
                         /\ Hashable(K[j]),
         \A i, j \in 1..n : SameKey(K[i], K[j]) => i = j
  PROVE  core_python_variants_to_py_dict(keys, vals) = PyDict(ItemsOf(K, V, n))
<1> DEFINE item(m, j) == core_python_variant_to_py(matrix_get(m, 0, j - 1))
           Grown(j, before) == IF j = 0 THEN <<>>
                               ELSE SetItem(before, item(keys.m_m, j), item(vals.m_m, j))
           Built(f) == f = [j \in 0..keys.m_m.m_height |-> Grown(j, f[j - 1])]
           all == [j \in 0..n |-> ItemsOf(K, V, j)]
<1>0. core_python_variants_to_py_dict(keys, vals) =
        PyDict((CHOOSE f : Built(f))[keys.m_m.m_height])
  BY DEF core_python_variants_to_py_dict
<1> HIDE DEF item
<1>1. ItemsOf(K, V, 0) = <<>>
  BY DEF ItemsOf
<1>2. ASSUME NEW j \in 0..n, j # 0
      PROVE  SetItem(ItemsOf(K, V, j - 1), item(keys.m_m, j), item(vals.m_m, j)) = ItemsOf(K, V, j)
  <2>1. PICK i \in Nat : i = j - 1 /\ i + 1 = j /\ j \in 1..n
    BY <1>2
  <2>2. \A k \in 1..i : k \in 1..n /\ k # i + 1
    BY <2>1
  <2>3. Hashable(K[i + 1]) /\ \A k \in 1..i : ~SameKey(K[k], K[i + 1])
    BY <2>1, <2>2
  <2>4. K[j] = item(keys.m_m, j) /\ V[j] = item(vals.m_m, j)
    BY <2>1 DEF item
  <2>5. SetItem(ItemsOf(K, V, i), K[i + 1], V[i + 1]) = ItemsOf(K, V, i + 1)
    BY <2>1, <2>3, ItemAdded
  <2> QED BY <2>1, <2>4, <2>5
<1>3. Built(all)
  <2>1. ASSUME NEW j \in 0..n PROVE all[j] = Grown(j, all[j - 1])
    <3>1. CASE j = 0
      BY <1>1, <3>1
    <3>2. CASE j # 0
      <4>1. j - 1 \in 0..n
        BY <3>2
      <4> QED BY <1>2, <3>2, <4>1
    <3> QED BY <3>1, <3>2
  <2> HIDE DEF Grown
  <2> QED BY <2>1
<1>4. ASSUME NEW f, Built(f) PROVE f[n] = ItemsOf(K, V, n)
  <2> DEFINE T == {j \in Nat : j <= n => f[j] = ItemsOf(K, V, j)}
  <2>1. 0 \in T
    <3>1. 0 \in 0..keys.m_m.m_height
      OBVIOUS
    <3>2. f[0] = <<>>
      BY <1>4, <3>1
    <3> QED BY <1>1, <3>2
  <2>2. ASSUME NEW j \in Nat, j \in T PROVE j + 1 \in T
    <3> SUFFICES ASSUME j + 1 <= n PROVE f[j + 1] = ItemsOf(K, V, j + 1)
      OBVIOUS
    <3>1. j + 1 \in 0..n /\ j + 1 # 0 /\ (j + 1) - 1 = j /\ j <= n
      OBVIOUS
    <3>2. f[j + 1] = SetItem(f[j], item(keys.m_m, j + 1), item(vals.m_m, j + 1))
      BY <1>4, <3>1
    <3>3. f[j] = ItemsOf(K, V, j)
      BY <2>2, <3>1
    <3> QED BY <1>2, <3>1, <3>2, <3>3
  <2>3. T = Nat
    <3> HIDE DEF T
    <3>1. T \in SUBSET Nat
      BY DEF T
    <3> QED BY <2>1, <2>2, <3>1, LevelByLevel
  <2> QED BY <2>3
<1>5. Built(CHOOSE f : Built(f))
  <2> HIDE DEF Built, all
  <2> QED BY <1>3
<1>6. (CHOOSE f : Built(f))[n] = ItemsOf(K, V, n)
  <2> HIDE DEF Built
  <2> QED BY <1>4, <1>5
<1> QED BY <1>0, <1>6

LEMMA KeysStayHashable ==
  ASSUME NEW o, Hashable(o)
  PROVE  Hashable(Converted(o))
<1>1. PICK v : v = core_python_py_to_variant(o)
  OBVIOUS
<1>2. v.m_type \in {"EMPTY", "INT", "DOUBLE", "STRING"}
  BY <1>1 DEF Hashable, core_python_py_to_variant, ToVariant, FromString, Number, Text,
              variant_empty
<1>3. ToObject(v, ObjectOf[MaxDepth]).type \in {"bool", "int", "float", "str"}
  BY <1>2 DEF ToObject, PyNumber, PyString, PyTrue, None
<1> QED BY <1>1, <1>3 DEF Converted, core_python_variant_to_py, Hashable

LEMMA ColumnGot ==
  ASSUME NEW m, NEW w \in Nat, w = m.m_width, NEW h \in Nat, h = m.m_height,
         NEW c \in 0..w - 1, NEW j \in 1..h
  PROVE  matrix_get(matrix_get_column(m, c), 0, j - 1) = matrix_get(m, c, j - 1)
<1> DEFINE at(i, k) == matrix_get_safe(m, c, k)
<1>1. matrix_get_column(m, c) =
        [m_width |-> 1, m_height |-> h,
         m_values |-> [k \in 1..1 * h |-> at((k - 1) % 1, (k - 1) \div 1)]]
  BY DEF matrix_get_column, Build
<1> HIDE DEF at
<1>2. /\ matrix_get_column(m, c).m_width = 1
      /\ matrix_get_column(m, c).m_values =
           [k \in 1..1 * h |-> at((k - 1) % 1, (k - 1) \div 1)]
  BY <1>1
<1>3. /\ (j - 1) * 1 + 0 + 1 = j /\ j \in 1..1 * h /\ (j - 1) % 1 = 0 /\ (j - 1) \div 1 = j - 1
      /\ j - 1 \in 0..h - 1
  OBVIOUS
<1>4. matrix_get(matrix_get_column(m, c), 0, j - 1) = at(0, j - 1)
  BY <1>2, <1>3 DEF matrix_get, Index
<1> QED BY <1>3, <1>4 DEF at, matrix_get_safe, Inside

\* A dict whose keys stay apart is the same dict of what was converted.
LEMMA DictComesBack ==
  ASSUME NEW o \in Objects, o.type = "dict",
         \A j, k \in {i \in DOMAIN o.items : KeyAt(o.items, i)} :
           SameKey(Converted(o.items[j]), Converted(o.items[k])) => j = k,
         NEW m, m = core_python_py_to_matrix(o, VariantOf[MaxDepth])
  PROVE  LET new == core_python_variants_to_py_dict(
                      variant_from_matrix(matrix_get_column(m, 0)),
                      variant_from_matrix(matrix_get_column(m, 1))).items
         IN  /\ Len(new) = Len(o.items) /\ DOMAIN new = DOMAIN o.items
             /\ \A k \in DOMAIN o.items : new[k] = Converted(o.items[k])
<1>1. PICK S : S = Object[MaxDepth] /\ o \in Nested(S)
  BY DEF Objects
<1>2. PICK n \in Nat : /\ m.m_width = 2 /\ n = m.m_height /\ Len(o.items) = 2 * n
                      /\ \A i \in 0..1, j \in 0..n - 1 :
                           matrix_get(m, i, j) = VariantOf[MaxDepth][o.items[2 * j + i + 1]]
  BY <1>1, DictMatrix
<1>3. /\ o.items \in Seq(S) /\ DOMAIN o.items = 1..2 * n
      /\ \A k \in DOMAIN o.items : KeyAt(o.items, k) => Hashable(o.items[k])
  <2>1. o.items \in Seq(S)
    BY <1>1, NestedTypes
  <2>2. \A k \in DOMAIN o.items : KeyAt(o.items, k) => Hashable(o.items[k])
    BY <1>1, NestedTypes
  <2>3. DOMAIN o.items = 1..Len(o.items)
    BY <2>1
  <2> QED BY <1>2, <2>1, <2>2, <2>3
<1>4. ASSUME NEW k \in 1..2 * n
      PROVE  VariantOf[MaxDepth][o.items[k]] = core_python_py_to_variant(o.items[k])
  <2>1. o.items[k] \in Object[MaxDepth]
    BY <1>1, <1>3
  <2> QED BY <2>1, ConvertAssumption, VariantAnyLevel DEF core_python_py_to_variant
<1> DEFINE column(c) == variant_from_matrix(matrix_get_column(m, c))
           K == [j \in 1..n |-> Converted(o.items[2 * j - 1])]
           V == [j \in 1..n |-> Converted(o.items[2 * j])]
<1>5. \A c \in 0..1 : /\ column(c).m_type = "MATRIX" /\ n = column(c).m_m.m_height
                      /\ column(c).m_m = matrix_get_column(m, c)
  BY <1>2 DEF variant_from_matrix, variant_empty, matrix_get_column, Build
<1>6. ASSUME NEW c \in 0..1, NEW j \in 1..n
      PROVE  core_python_variant_to_py(matrix_get(column(c).m_m, 0, j - 1)) =
               Converted(o.items[2 * j - 1 + c])
  <2>1. matrix_get(column(c).m_m, 0, j - 1) = matrix_get(m, c, j - 1)
    <3>1. 2 \in Nat /\ c \in 0..2 - 1
      OBVIOUS
    <3>2. matrix_get(matrix_get_column(m, c), 0, j - 1) = matrix_get(m, c, j - 1)
      BY <1>2, <3>1, ColumnGot
    <3> QED BY <1>5, <3>2
  <2>2. j - 1 \in 0..n - 1 /\ 2 * (j - 1) + c + 1 = 2 * j - 1 + c /\ 2 * j - 1 + c \in 1..2 * n
    OBVIOUS
  <2>3. matrix_get(m, c, j - 1) = core_python_py_to_variant(o.items[2 * j - 1 + c])
    BY <1>2, <1>4, <2>2
  <2> QED BY <2>1, <2>3 DEF Converted
<1>7. ASSUME NEW j \in 1..n
      PROVE  /\ 2 * j - 1 \in 1..2 * n /\ KeyAt(o.items, 2 * j - 1)
             /\ 2 * j - 1 + 0 = 2 * j - 1 /\ 2 * j - 1 + 1 = 2 * j
  BY <1>3 DEF KeyAt
<1>8. \A j \in 1..n : /\ K[j] = core_python_variant_to_py(matrix_get(column(0).m_m, 0, j - 1))
                      /\ V[j] = core_python_variant_to_py(matrix_get(column(1).m_m, 0, j - 1))
                      /\ Hashable(K[j])
  <2> SUFFICES ASSUME NEW j \in 1..n
               PROVE  /\ K[j] = core_python_variant_to_py(matrix_get(column(0).m_m, 0, j - 1))
                      /\ V[j] = core_python_variant_to_py(matrix_get(column(1).m_m, 0, j - 1))
                      /\ Hashable(K[j])
    OBVIOUS
  <2> HIDE DEF column
  <2>1. K[j] = Converted(o.items[2 * j - 1]) /\ V[j] = Converted(o.items[2 * j])
    OBVIOUS
  <2>2. Hashable(o.items[2 * j - 1])
    BY <1>3, <1>7
  <2>3. Hashable(K[j])
    BY <2>1, <2>2, KeysStayHashable
  <2> HIDE DEF K, V
  <2>4. K[j] = core_python_variant_to_py(matrix_get(column(0).m_m, 0, j - 1))
    BY <1>6, <1>7, <2>1
  <2>5. V[j] = core_python_variant_to_py(matrix_get(column(1).m_m, 0, j - 1))
    BY <1>6, <1>7, <2>1
  <2> QED BY <2>3, <2>4, <2>5
<1>9. \A i, j \in 1..n : SameKey(K[i], K[j]) => i = j
  <2> SUFFICES ASSUME NEW i \in 1..n, NEW j \in 1..n, SameKey(K[i], K[j]) PROVE i = j
    OBVIOUS
  <2>1. SameKey(Converted(o.items[2 * i - 1]), Converted(o.items[2 * j - 1]))
    OBVIOUS
  <2>2. 2 * i - 1 = 2 * j - 1
    BY <1>3, <1>7, <2>1
  <2> QED BY <2>2
<1>10. core_python_variants_to_py_dict(column(0), column(1)) = PyDict(ItemsOf(K, V, n))
  <2> HIDE DEF column, K, V
  <2>1. 0 \in 0..1 /\ 1 \in 0..1
    OBVIOUS
  <2> QED BY <1>5, <1>8, <1>9, <2>1, DictBuilt
<1>11. PICK new : new = ItemsOf(K, V, n)
  OBVIOUS
<1>12. core_python_variants_to_py_dict(column(0), column(1)).items = new
  <2> HIDE DEF column, K, V
  <2> QED BY <1>10, <1>11 DEF PyDict, None
<1>13. DOMAIN new = 1..2 * n /\ Len(new) = 2 * n
  <2> HIDE DEF K, V
  <2> QED BY <1>11, ItemsAt
<1>14. ASSUME NEW k \in 1..2 * n PROVE new[k] = Converted(o.items[k])
  <2>1. CASE k % 2 = 1
    <3>1. PICK j \in 1..n : k = 2 * j - 1
      <4>1. PICK j \in Nat : k = 2 * j - 1
        BY <2>1, OddPlaces
      <4> QED BY <4>1
    <3>2. new[k] = K[j]
      <4> HIDE DEF K, V
      <4> QED BY <1>11, <3>1, ItemsAt
    <3> QED BY <3>1, <3>2
  <2>2. CASE k % 2 # 1
    <3>1. PICK j \in 1..n : k = 2 * j
      <4>1. k % 2 = 0
        BY <2>2
      <4>2. k \div 2 \in Nat /\ k = 2 * (k \div 2)
        BY <4>1, Halves
      <4> QED BY <4>2
    <3>2. new[k] = V[j]
      <4> HIDE DEF K, V
      <4> QED BY <1>11, <3>1, ItemsAt
    <3> QED BY <3>1, <3>2
  <2> QED BY <2>1, <2>2
<1> QED BY <1>2, <1>3, <1>12, <1>13, <1>14

\* A dict that is taken apart and put together again has every key with its value.
THEOREM DictsReturn == Spec => DictsComeBack
<1> DEFINE Back == Columns =>
             LET old == value.items
                 new == value'.items
                 keys == {k \in DOMAIN old : KeyAt(old, k)}
             IN  (\A j, k \in keys : SameKey(Converted(old[j]), Converted(old[k])) => j = k) =>
                   /\ Len(new) = Len(old)
                   /\ \A k \in keys : \E j \in DOMAIN new :
                        /\ KeyAt(new, j)
                        /\ new[j] = Converted(old[k]) /\ new[j + 1] = Converted(old[k + 1])
<1>1. Back
  <2> SUFFICES ASSUME Columns, NEW o, o = value, NEW new, new = value'.items,
                      \A j, k \in {i \in DOMAIN o.items : KeyAt(o.items, i)} :
                        SameKey(Converted(o.items[j]), Converted(o.items[k])) => j = k
               PROVE  /\ Len(new) = Len(o.items)
                      /\ \A k \in {i \in DOMAIN o.items : KeyAt(o.items, i)} :
                           \E j \in DOMAIN new :
                             /\ KeyAt(new, j) /\ new[j] = Converted(o.items[k])
                             /\ new[j + 1] = Converted(o.items[k + 1])
    OBVIOUS
  <2>1. o \in Objects /\ o.type = "dict"
    BY DEF Columns
  <2>2. PICK m : m = core_python_py_to_matrix(o, VariantOf[MaxDepth])
    OBVIOUS
  <2>3. new = core_python_variants_to_py_dict(
                variant_from_matrix(matrix_get_column(m, 0)),
                variant_from_matrix(matrix_get_column(m, 1))).items
    BY <2>2 DEF Columns
  <2>4. /\ Len(new) = Len(o.items) /\ DOMAIN new = DOMAIN o.items
        /\ \A k \in DOMAIN o.items : new[k] = Converted(o.items[k])
    BY <2>1, <2>2, <2>3, DictComesBack
  <2>5. ASSUME NEW k \in DOMAIN o.items, KeyAt(o.items, k) PROVE k + 1 \in DOMAIN o.items
    <3>1. PICK S : o \in Nested(S)
      BY <2>1 DEF Objects
    <3>2. o.items \in Seq(S) /\ Len(o.items) % 2 = 0
      BY <2>1, <3>1, NestedTypes
    <3>3. PICK l \in Nat : l = Len(o.items) /\ DOMAIN o.items = 1..l
      <4>1. Len(o.items) \in Nat /\ DOMAIN o.items = 1..Len(o.items)
        BY <3>2
      <4> QED BY <4>1
    <3>4. k \in 1..l /\ k % 2 = 1 /\ l % 2 = 0
      BY <2>5, <3>2, <3>3 DEF KeyAt
    <3>5. k + 1 \in 1..l
      BY <3>4
    <3> QED BY <3>3, <3>5
  <2> QED BY <2>4, <2>5 DEF KeyAt
<1>2. [Next]_vars => [Back]_module_vars
  BY <1>1
<1> QED BY <1>2, PTL DEF Spec, DictsComeBack

-----------------------------------------------------------------------------
(* The places of the elements                                              *)

LEMMA WrapIsInt ==
  ASSUME NEW i \in Int
  PROVE  Wrap(i) \in Int
<1>1. PICK w \in Nat \ {0} : w = 2 * (MaxInt + 1)
  BY OpsAssumption
<1>2. (i + MaxInt + 1) % w \in Int
  BY OpsAssumption
<1> QED BY <1>1, <1>2, OpsAssumption DEF Wrap

LEMMA SimpleVariants ==
  /\ \A t \in {"INT", "DOUBLE"}, i \in Int : Number(t, i) \in Scalar /\ Number(t, i).m_type = t
  /\ \A s \in Seq(Nat) : Text("STRING", s) \in Scalar /\ Text("STRING", s).m_type = "STRING"
  /\ variant_empty \in Scalar /\ variant_empty.m_type = "EMPTY"
<1> DEFINE Made(t, i, s) == [m_type |-> t, m_n |-> i, m_s |-> s, m_m |-> NoMatrix]
<1>1. /\ \A t, i : Number(t, i) = Made(t, i, <<>>)
      /\ \A t, s : Text(t, s) = Made(t, 0, s)
      /\ variant_empty = Made("EMPTY", 0, <<>>)
  <2>1. ASSUME NEW t, NEW i PROVE Number(t, i) = Made(t, i, <<>>)
    <3>1. PICK e : e = <<>>
      OBVIOUS
    <3>2. PICK q, r : q = [m_type |-> "EMPTY", m_n |-> 0, m_s |-> e, m_m |-> NoMatrix] /\ r = [m_type |-> t, m_n |-> 0, m_s |-> e, m_m |-> NoMatrix]
      OBVIOUS
    <3>3. r = [q EXCEPT !.m_type = t]
      BY <3>2
    <3>4. [r EXCEPT !.m_n = i] = [m_type |-> t, m_n |-> i, m_s |-> e, m_m |-> NoMatrix]
      BY <3>2
    <3>5. Number(t, i) = [r EXCEPT !.m_n = i]
      BY <3>1, <3>2, <3>3, Zenon DEF Number, variant_empty
    <3> QED BY <3>1, <3>4, <3>5, Zenon
  <2>2. ASSUME NEW t, NEW s PROVE Text(t, s) = Made(t, 0, s)
    <3>1. PICK e : e = <<>>
      OBVIOUS
    <3>2. PICK q, r : q = [m_type |-> "EMPTY", m_n |-> 0, m_s |-> e, m_m |-> NoMatrix] /\ r = [m_type |-> t, m_n |-> 0, m_s |-> e, m_m |-> NoMatrix]
      OBVIOUS
    <3>3. r = [q EXCEPT !.m_type = t]
      BY <3>2
    <3>4. [r EXCEPT !.m_s = s] = [m_type |-> t, m_n |-> 0, m_s |-> s, m_m |-> NoMatrix]
      BY <3>2
    <3>5. Text(t, s) = [r EXCEPT !.m_s = s]
      BY <3>1, <3>2, <3>3, Zenon DEF Text, variant_empty
    <3> QED BY <3>1, <3>4, <3>5, Zenon
  <2>3. variant_empty = Made("EMPTY", 0, <<>>)
    BY DEF variant_empty
  <2> HIDE DEF Made
  <2> QED BY <2>1, <2>2, <2>3
<1>2. \A t \in {"EMPTY", "INT", "DOUBLE", "STRING"}, i \in Int, s \in Seq(Nat) :
        Made(t, i, s) \in Scalar /\ Made(t, i, s).m_type = t
  BY DEF Scalar
<1>3. <<>> \in Seq(Nat) /\ 0 \in Int
  OBVIOUS
<1> HIDE DEF Made
<1>4. ASSUME NEW t \in {"INT", "DOUBLE"}, NEW i \in Int
      PROVE  Number(t, i) \in Scalar /\ Number(t, i).m_type = t
  <2>1. Number(t, i) = Made(t, i, <<>>)
    BY <1>1
  <2>2. Made(t, i, <<>>) \in Scalar /\ Made(t, i, <<>>).m_type = t
    BY <1>2, <1>3, ZenonT(40)
  <2> QED BY <2>1, <2>2
<1>5. ASSUME NEW s \in Seq(Nat)
      PROVE  Text("STRING", s) \in Scalar /\ Text("STRING", s).m_type = "STRING"
  <2>1. Text("STRING", s) = Made("STRING", 0, s)
    BY <1>1
  <2>2. Made("STRING", 0, s) \in Scalar /\ Made("STRING", 0, s).m_type = "STRING"
    BY <1>2, <1>3
  <2> QED BY <2>1, <2>2
<1>6. variant_empty \in Scalar /\ variant_empty.m_type = "EMPTY"
  <2>1. Made("EMPTY", 0, <<>>) \in Scalar /\ Made("EMPTY", 0, <<>>).m_type = "EMPTY"
    BY <1>2, <1>3
  <2> QED BY <1>1, <2>1
<1> QED BY <1>4, <1>5, <1>6

LEMMA ScalarBecomes ==
  ASSUME NEW n \in Nat, NEW o \in Object[n], o.type \notin {"list", "dict"}
  PROVE  VariantOf[n][o] \in Scalar
<1>1. /\ o.type \in {"None", "bool", "int", "long", "float", "str"}
      /\ o.num \in Int /\ o.text \in Seq(Nat)
  <2>1. o \in Nested(Object[n])
    BY LevelsGrow
  <2> QED BY <2>1, NestedTypes
<1>2. PICK v : v = VariantOf[n][o] /\ v = ToVariant(o, VariantOf[n])
  BY VariantAnyLevel
<1>3. \A i \in Int : Wrap(i) \in Int
  BY WrapIsInt
<1>4. \A t \in {"INT", "DOUBLE"}, i \in Int : Number(t, i) \in Scalar
  BY SimpleVariants
<1>5. CASE o.type \in {"int", "bool"}
  <2>1. v = Number("INT", Wrap(o.num))
    BY <1>2, <1>5 DEF ToVariant
  <2> QED BY <1>1, <1>2, <1>3, <1>4, <2>1
<1>6. CASE o.type = "str"
  <2>1. v = FromString(o.text)
    BY <1>2, <1>6 DEF ToVariant
  <2>2. CASE o.text \in DOMAIN Numerals
    <3>1. (IF Huge(o.text) THEN -1 ELSE Wrap(Numerals[o.text])) \in Int
      BY <1>3, <2>2, ConvertAssumption
    <3>2. PICK i \in Int : v = Number("INT", i)
      BY <2>1, <2>2, <3>1 DEF FromString
    <3> QED BY <1>2, <1>4, <3>2
  <2>3. CASE o.text \notin DOMAIN Numerals
    <3>1. v = Text("STRING", o.text)
      BY <2>1, <2>3 DEF FromString
    <3> QED BY <1>1, <1>2, <3>1, SimpleVariants
  <2> QED BY <2>2, <2>3
<1>7. CASE o.type = "float"
  <2>1. v = Number("DOUBLE", o.num)
    BY <1>2, <1>7 DEF ToVariant
  <2> QED BY <1>1, <1>2, <1>4, <2>1
<1>8. CASE o.type \in {"None", "long"}
  <2>1. v = variant_empty
    BY <1>2, <1>8 DEF ToVariant
  <2> QED BY <1>2, <2>1, SimpleVariants
<1> QED BY <1>1, <1>5, <1>6, <1>7, <1>8

LEMMA NextLevel ==
  ASSUME NEW n \in Nat
  PROVE  /\ Object[n + 1] = Nested(Object[n])
         /\ Variant[n + 1] = Holding(Variant[n])
         /\ \A o \in Object[n + 1] : VariantOf[n + 1][o] = ToVariant(o, VariantOf[n])
         /\ \A v \in Variant[n + 1] : ObjectOf[n + 1][v] = ToObject(v, ObjectOf[n])
<1>1. PICK m \in Nat : m = n + 1 /\ m # 0 /\ m - 1 = n
  OBVIOUS
<1>2. Object[m] = Nested(Object[n])
  BY <1>1, Levels
<1>3. Variant[m] = Holding(Variant[n])
  BY <1>1, Levels
<1>4. \A o \in Object[m] : VariantOf[m][o] = ToVariant(o, VariantOf[n])
  <2>1. PICK f : f = IF m = 0 THEN <<>> ELSE VariantOf[m - 1]
    OBVIOUS
  <2>2. VariantOf[m] = [o \in Object[m] |-> ToVariant(o, f)]
    BY <2>1, Levels, SMTT(30)
  <2>3. f = VariantOf[n]
    BY <1>1, <2>1
  <2> QED BY <2>2, <2>3
<1>5. \A v \in Variant[m] : ObjectOf[m][v] = ToObject(v, ObjectOf[n])
  <2>1. ObjectOf[m] = [v \in Variant[m] |-> ToObject(v, ObjectOf[n])]
    BY <1>1, Levels
  <2> QED BY <2>1
<1> QED BY <1>1, <1>2, <1>3, <1>4, <1>5

LEMMA ScalarLevels ==
  ASSUME NEW n \in Nat, NEW v \in Scalar
  PROVE  v \in Variant[n] /\ \E f : ObjectOf[n][v] = ToObject(v, f)
<1>1. v \in Variant[n]
  BY Levels DEF Holding
<1>2. PICK f : f = IF n = 0 THEN <<>> ELSE ObjectOf[n - 1]
  OBVIOUS
<1>3. ObjectOf[n] = [w \in Variant[n] |-> ToObject(w, f)]
  BY <1>2, Levels, SMTT(30)
<1> QED BY <1>1, <1>3

\* The matrix of a list or a dict has a variant in every place.
LEMMA MatrixType ==
  ASSUME NEW S, S \subseteq Nested(S), NEW o \in Nested(S), o.type \in {"list", "dict"},
         NEW variant, NEW V, variant_empty \in V, \A x \in S : variant[x] \in V
  PROVE  core_python_py_to_matrix(o, variant) \in Matrix(V)
<1> DEFINE Full(W, H, values) == [m_width |-> W, m_height |-> H, m_values |-> values]
<1>1. ASSUME NEW W \in Nat, NEW H \in Nat, NEW values,
             values = [k \in 1..W * H |-> values[k]], \A k \in 1..W * H : values[k] \in V
      PROVE  Full(W, H, values) \in Matrix(V)
  <2>1. W * H \in Nat
    BY <1>1
  <2>2. values \in Seq(V) /\ Len(values) = W * H
    <3>1. PICK n \in Nat : n = W * H
      BY <2>1
    <3>2. values = [k \in 1..n |-> values[k]] /\ \A k \in 1..n : values[k] \in V
      BY <1>1, <3>1
    <3>3. values \in Seq(V) /\ Len(values) = n
      BY <3>2
    <3> QED BY <3>1, <3>3
  <2> QED BY <2>2 DEF Matrix
<1>2. CASE o.type = "list"
  <2> DEFINE rows == RowsOf(o)
             W == Width(rows)
             H == Len(rows)
             at(i, j) == IF i < Len(rows[j + 1]) THEN variant[rows[j + 1][i + 1]] ELSE variant_empty
             values == [k \in 1..W * H |-> at((k - 1) % W, (k - 1) \div W)]
  <2>1. rows \in Seq(Seq(S)) /\ W \in Nat /\ H \in Nat
    BY <1>2, ListRows, WidthOfRows
  <2>2. core_python_py_to_matrix(o, variant) = Full(W, H, values)
    BY <1>2 DEF core_python_py_to_matrix, Build, RowsOf
  <2>3. ASSUME NEW i \in 0..W - 1, NEW j \in 0..H - 1 PROVE at(i, j) \in V
    <3>1. PICK row \in Seq(S) : row = rows[j + 1]
      <4>1. j + 1 \in 1..H
        BY <2>1
      <4> QED BY <2>1, <4>1
    <3>2. CASE i < Len(row)
      <4>1. row[i + 1] \in S
        BY <2>1, <3>2
      <4> QED BY <3>1, <3>2, <4>1
    <3>3. CASE ~(i < Len(row))
      BY <3>1, <3>3
    <3> QED BY <3>2, <3>3
  <2>4. \A k \in 1..W * H : values[k] \in V
    <3> HIDE DEF W, H, at
    <3>1. ASSUME NEW k \in 1..W * H PROVE at((k - 1) % W, (k - 1) \div W) \in V
      <4>1. (k - 1) % W \in 0..W - 1 /\ (k - 1) \div W \in 0..H - 1
        BY <2>1, PlacesBack
      <4> QED BY <2>3, <4>1
    <3> QED BY <3>1
  <2>5. values = [k \in 1..W * H |-> values[k]]
    OBVIOUS
  <2> HIDE DEF values, W, H, Full
  <2> QED BY <1>1, <2>1, <2>2, <2>4, <2>5
<1>3. CASE o.type = "dict"
  <2> DEFINE H == Len(o.items) \div 2
             at(i, j) == variant[o.items[2 * j + i + 1]]
             values == [k \in 1..2 * H |-> at((k - 1) % 2, (k - 1) \div 2)]
  <2>1. o.items \in Seq(S) /\ H \in Nat /\ Len(o.items) = 2 * H
    <3>1. o.items \in Seq(S) /\ Len(o.items) % 2 = 0
      BY <1>3, NestedTypes
    <3>2. Len(o.items) \in Nat
      BY <3>1
    <3> QED BY <3>1, <3>2, Halves
  <2>2. core_python_py_to_matrix(o, variant) = Full(2, H, values)
    BY <1>3 DEF core_python_py_to_matrix, Build
  <2>3. \A k \in 1..2 * H : values[k] \in V
    <3>1. ASSUME NEW k \in 1..2 * H PROVE at((k - 1) % 2, (k - 1) \div 2) \in V
      <4>1. PICK n \in 1..Len(o.items) : n = 2 * ((k - 1) \div 2) + ((k - 1) % 2) + 1
        <5> HIDE DEF H
        <5>1. 2 * ((k - 1) \div 2) + ((k - 1) % 2) + 1 = k /\ k \in 1..Len(o.items)
          BY <2>1
        <5> QED BY <5>1
      <4>2. o.items[n] \in S
        BY <2>1
      <4> QED BY <4>1, <4>2
    <3> HIDE DEF at, H
    <3> QED BY <3>1
  <2>4. values = [k \in 1..2 * H |-> values[k]]
    OBVIOUS
  <2> HIDE DEF values, H, Full
  <2> QED BY <1>1, <2>1, <2>2, <2>3, <2>4
<1> QED BY <1>2, <1>3

LEMMA MatrixIs ==
  \A m : variant_from_matrix(m) = [m_type |-> "MATRIX", m_n |-> 0, m_s |-> <<>>, m_m |-> m]
<1> SUFFICES ASSUME NEW m
             PROVE  variant_from_matrix(m) = [m_type |-> "MATRIX", m_n |-> 0, m_s |-> <<>>, m_m |-> m]
  OBVIOUS
<1>1. PICK e : e = <<>>
  OBVIOUS
<1>2. PICK q, r : /\ q = [m_type |-> "EMPTY", m_n |-> 0, m_s |-> e, m_m |-> NoMatrix]
                  /\ r = [m_type |-> "MATRIX", m_n |-> 0, m_s |-> e, m_m |-> NoMatrix]
  OBVIOUS
<1>3. r = [q EXCEPT !.m_type = "MATRIX"]
  BY <1>2
<1>4. [r EXCEPT !.m_m = m] = [m_type |-> "MATRIX", m_n |-> 0, m_s |-> e, m_m |-> m]
  BY <1>2
<1>5. variant_from_matrix(m) = [r EXCEPT !.m_m = m]
  BY <1>1, <1>2, <1>3, Zenon DEF variant_from_matrix, variant_empty
<1> QED BY <1>1, <1>4, <1>5, Zenon

\* What becomes of an object nests no deeper than the object.
LEMMA VariantInLevel ==
  \A n \in Nat : \A o \in Object[n] : VariantOf[n][o] \in Variant[n]
<1> DEFINE T == {n \in Nat : \A o \in Object[n] : VariantOf[n][o] \in Variant[n]}
<1>1. ASSUME NEW n \in Nat, NEW o \in Object[n], o.type \notin {"list", "dict"}
      PROVE  VariantOf[n][o] \in Variant[n]
  BY <1>1, ScalarBecomes, ScalarLevels
<1>2. 0 \in T
  <2> SUFFICES ASSUME NEW o \in Object[0], o.type \in {"list", "dict"}
               PROVE  VariantOf[0][o] \in Variant[0]
    BY <1>1
  <2>1. PICK variant, V : variant = VariantOf[0] /\ V = {variant_empty}
    OBVIOUS
  <2>2. PICK m : m = core_python_py_to_matrix(o, variant)
    OBVIOUS
  <2>3. o \in Nested({}) /\ o.items = <<>> /\ Len(o.items) = 0
    <3>1. o \in Nested({}) /\ o.items \in Seq({})
      BY LevelsGrow, NestedTypes
    <3> QED BY <3>1
  <2>4. m \in Matrix(V)
    <3>1. {} \subseteq Nested({}) /\ variant_empty \in V /\ \A x \in {} : variant[x] \in V
      BY <2>1
    <3> QED BY <2>2, <2>3, <3>1, MatrixType
  <2>5. m.m_height = 0
    <3>1. CASE o.type = "list"
      <4>1. {} \subseteq Nested({})
        OBVIOUS
      <4>2. Len(RowsOf(o)) = 0
        BY <2>3, <3>1, <4>1, ListRows
      <4> QED BY <2>2, <2>3, <3>1, <4>1, <4>2, ListMatrix
    <3>2. CASE o.type = "dict"
      <4>1. m.m_height \in Nat /\ Len(o.items) = 2 * m.m_height
        BY <2>2, <2>3, <3>2, DictMatrix
      <4> QED BY <2>3, <4>1
    <3> QED BY <3>1, <3>2
  <2>6. m \in Matrix({})
    <3>1. /\ m \in [m_width: Nat, m_height: Nat, m_values: Seq(V)]
          /\ Len(m.m_values) = m.m_width * m.m_height
      BY <2>4 DEF Matrix
    <3>2. PICK w \in Nat : w = m.m_width /\ w * 0 = 0
      BY <3>1
    <3>3. Len(m.m_values) = 0 /\ m.m_values \in Seq(V)
      BY <2>5, <3>1, <3>2
    <3>4. m.m_values \in Seq({})
      BY <3>3
    <3> QED BY <3>1, <3>4 DEF Matrix
  <2>7. VariantOf[0][o] = variant_from_matrix(m)
    <3>1. VariantOf[0][o] = ToVariant(o, variant)
      BY <2>1, VariantAnyLevel
    <3> QED BY <2>2, <3>1 DEF ToVariant
  <2>8. variant_from_matrix(m) \in Holding({})
    <3>1. variant_from_matrix(m) = [m_type |-> "MATRIX", m_n |-> 0, m_s |-> <<>>, m_m |-> m]
      BY MatrixIs
    <3> QED BY <2>6, <3>1 DEF Holding
  <2>9. Variant[0] = Holding({})
    BY Levels
  <2> QED BY <2>7, <2>8, <2>9
<1>3. ASSUME NEW n \in Nat, n \in T PROVE n + 1 \in T
  <2>1. PICK k \in Nat : k = n + 1
    OBVIOUS
  <2> SUFFICES ASSUME NEW o \in Object[k], o.type \in {"list", "dict"}
               PROVE  VariantOf[k][o] \in Variant[k]
    BY <1>1, <2>1
  <2>2. PICK variant, V, S : variant = VariantOf[n] /\ V = Variant[n] /\ S = Object[n]
    OBVIOUS
  <2>3. PICK m : m = core_python_py_to_matrix(o, variant)
    OBVIOUS
  <2>4. m \in Matrix(V)
    <3>1. o \in Nested(S) /\ S \subseteq Nested(S)
      BY <2>1, <2>2, LevelsGrow
    <3>2. variant_empty \in V
      BY <2>2, SimpleVariants, ScalarLevels
    <3>3. \A x \in S : variant[x] \in V
      BY <1>3, <2>2
    <3> QED BY <2>3, <3>1, <3>2, <3>3, MatrixType
  <2>5. VariantOf[k][o] = variant_from_matrix(m)
    <3>1. VariantOf[k][o] = ToVariant(o, variant)
      BY <2>1, <2>2, NextLevel
    <3> QED BY <2>3, <3>1 DEF ToVariant
  <2>6. variant_from_matrix(m) \in Holding(V)
    <3>1. variant_from_matrix(m) = [m_type |-> "MATRIX", m_n |-> 0, m_s |-> <<>>, m_m |-> m]
      BY MatrixIs
    <3> QED BY <2>4, <3>1 DEF Holding
  <2>7. Variant[k] = Holding(V)
    BY <2>1, <2>2, NextLevel
  <2> QED BY <2>5, <2>6, <2>7
<1>4. T = Nat
  <2> HIDE DEF T
  <2>1. T \in SUBSET Nat
    BY DEF T
  <2> QED BY <1>2, <1>3, <2>1, LevelByLevel
<1> QED BY <1>4

LEMMA ElementOf ==
  ASSUME NEW S, NEW m \in Matrix(S), NEW i \in 1..m.m_width, NEW j \in 1..m.m_height
  PROVE  matrix_get(m, i - 1, j - 1) \in S
<1>1. PICK W, H \in Nat : W = m.m_width /\ H = m.m_height
  BY DEF Matrix
<1>2. m.m_values \in Seq(S) /\ Len(m.m_values) = W * H
  BY <1>1 DEF Matrix
<1>3. i - 1 \in 0..W - 1 /\ j - 1 \in 0..H - 1
  BY <1>1
<1>4. PICK k : k = (j - 1) * W + (i - 1) + 1 /\ k \in 1..W * H
  BY <1>3, Places
<1>5. m.m_values[k] \in S
  BY <1>2, <1>4
<1> QED BY <1>1, <1>4, <1>5 DEF matrix_get, Index

\* A conversion back depends only on what becomes of the elements.
LEMMA ObjectAgrees ==
  ASSUME NEW S, NEW v \in Holding(S), NEW f, NEW g, \A x \in S : f[x] = g[x]
  PROVE  ToObject(v, f) = ToObject(v, g)
<1>1. CASE v.m_type # "MATRIX"
  BY <1>1 DEF ToObject
<1>2. CASE v.m_type = "MATRIX"
  <2>1. PICK m \in Matrix(S) : v.m_m = m
    BY <1>2 DEF Holding, Scalar
  <2>2. PICK W, H \in Nat : W = m.m_width /\ H = m.m_height
    BY DEF Matrix
  <2> DEFINE row(h, j) == PyList([i \in 1..W |-> h[matrix_get(m, i - 1, j)]])
  <2>3. \A j \in 1..H : row(f, j - 1) = row(g, j - 1)
    <3> SUFFICES ASSUME NEW j \in 1..H PROVE row(f, j - 1) = row(g, j - 1)
      OBVIOUS
    <3>1. \A i \in 1..W : matrix_get(m, i - 1, j - 1) \in S
      BY <2>2, ElementOf
    <3>2. [i \in 1..W |-> f[matrix_get(m, i - 1, j - 1)]]
            = [i \in 1..W |-> g[matrix_get(m, i - 1, j - 1)]]
      BY <3>1
    <3> QED BY <3>2
  <2>4. \A h : core_python_matrix_to_py(m, h) =
                 IF H = 1 THEN row(h, 0) ELSE PyList([j \in 1..H |-> row(h, j - 1)])
    BY <2>2 DEF core_python_matrix_to_py
  <2> HIDE DEF row
  <2>5. CASE H = 1
    <3>1. 1 \in 1..H /\ 1 - 1 = 0
      BY <2>5
    <3>2. row(f, 0) = row(g, 0)
      BY <2>3, <3>1
    <3>3. core_python_matrix_to_py(m, f) = core_python_matrix_to_py(m, g)
      BY <2>4, <2>5, <3>2
    <3> QED BY <1>2, <2>1, <3>3 DEF ToObject
  <2>6. CASE H # 1
    <3>1. [j \in 1..H |-> row(f, j - 1)] = [j \in 1..H |-> row(g, j - 1)]
      BY <2>3
    <3>2. core_python_matrix_to_py(m, f) = core_python_matrix_to_py(m, g)
      BY <2>4, <2>6, <3>1
    <3> QED BY <1>2, <2>1, <3>2 DEF ToObject
  <2> QED BY <2>5, <2>6
<1> QED BY <1>1, <1>2

LEMMA HoldingGrows ==
  ASSUME NEW S, NEW T, S \subseteq T
  PROVE  Holding(S) \subseteq Holding(T)
<1>1. Seq(S) \subseteq Seq(T)
  OBVIOUS
<1>2. Matrix(S) \subseteq Matrix(T)
  BY <1>1 DEF Matrix
<1> QED BY <1>2 DEF Holding

\* The object of a variant does not depend on the level it is taken from.
LEMMA ObjectAnyLevel ==
  \A n \in Nat : \A v \in Variant[n] :
    /\ v \in Variant[n + 1]
    /\ ObjectOf[n][v] = ToObject(v, ObjectOf[n])
<1>1. Variant[0] = Holding({}) /\ \A v \in Variant[0] : ObjectOf[0][v] = ToObject(v, <<>>)
  BY Levels
<1> DEFINE T == {n \in Nat : \A v \in Variant[n] :
                   v \in Variant[n + 1] /\ ObjectOf[n + 1][v] = ObjectOf[n][v]}
<1>2. 0 \in T
  <2> SUFFICES ASSUME NEW v \in Variant[0]
               PROVE  v \in Variant[0 + 1] /\ ObjectOf[0 + 1][v] = ObjectOf[0][v]
    OBVIOUS
  <2>1. PICK S, f, g : S = {} /\ f = <<>> /\ g = ObjectOf[0]
    OBVIOUS
  <2>2. v \in Holding(S) /\ \A x \in S : f[x] = g[x]
    BY <1>1, <2>1
  <2>3. ToObject(v, f) = ToObject(v, g)
    BY <2>2, ObjectAgrees
  <2>4. v \in Holding(Variant[0])
    <3>1. S \subseteq Variant[0]
      BY <2>1
    <3> QED BY <2>2, <3>1, HoldingGrows
  <2>5. v \in Variant[0 + 1]
    BY <2>4, NextLevel
  <2> QED BY <1>1, <2>1, <2>3, <2>5, NextLevel
<1>3. ASSUME NEW n \in Nat, n \in T PROVE n + 1 \in T
  <2>1. PICK k \in Nat : k = n + 1
    OBVIOUS
  <2> SUFFICES ASSUME NEW v \in Variant[k]
               PROVE  v \in Variant[k + 1] /\ ObjectOf[k + 1][v] = ObjectOf[k][v]
    BY <2>1
  <2>2. PICK S, f, g : S = Variant[n] /\ f = ObjectOf[n] /\ g = ObjectOf[k]
    OBVIOUS
  <2>3. v \in Holding(S) /\ ObjectOf[k][v] = ToObject(v, f)
    BY <2>1, <2>2, NextLevel
  <2>4. S \subseteq Variant[k] /\ \A x \in S : f[x] = g[x]
    BY <1>3, <2>1, <2>2
  <2>5. ToObject(v, f) = ToObject(v, g)
    BY <2>3, <2>4, ObjectAgrees
  <2>6. v \in Holding(Variant[k])
    BY <2>3, <2>4, HoldingGrows
  <2>7. v \in Variant[k + 1]
    BY <2>6, NextLevel
  <2>8. ObjectOf[k + 1][v] = ToObject(v, g)
    BY <2>2, <2>7, NextLevel
  <2> QED BY <2>3, <2>5, <2>7, <2>8
<1>4. T = Nat
  <2> HIDE DEF T
  <2>1. T \in SUBSET Nat
    BY DEF T
  <2> QED BY <1>2, <1>3, <2>1, LevelByLevel
<1>5. ASSUME NEW n \in Nat, NEW v \in Variant[n]
      PROVE  v \in Variant[n + 1] /\ ObjectOf[n][v] = ToObject(v, ObjectOf[n])
  <2>1. v \in Variant[n + 1] /\ ObjectOf[n + 1][v] = ObjectOf[n][v]
    BY <1>4
  <2> QED BY <2>1, NextLevel
<1> QED BY <1>5

\* What stands for an element, on the way in and on the way out, is what the element
\* becomes by itself; what fills a row up is True.
LEMMA ElementConverted ==
  /\ \A x \in Object[MaxDepth] : ObjectOf[MaxDepth][VariantOf[MaxDepth][x]] = Converted(x)
  /\ ObjectOf[MaxDepth][variant_empty] = PyTrue
<1>1. PICK n \in Nat : n = MaxDepth
  BY ConvertAssumption
<1>2. ASSUME NEW x \in Object[n] PROVE ObjectOf[n][VariantOf[n][x]] = Converted(x)
  <2>1. PICK v : v = VariantOf[n][x]
    OBVIOUS
  <2>2. v \in Variant[n] /\ v = ToVariant(x, VariantOf[n])
    BY <2>1, VariantInLevel, VariantAnyLevel
  <2>3. ObjectOf[n][v] = ToObject(v, ObjectOf[n])
    BY <2>2, ObjectAnyLevel
  <2>4. v = core_python_py_to_variant(x)
    BY <1>1, <2>2 DEF core_python_py_to_variant
  <2> QED BY <1>1, <2>1, <2>3, <2>4 DEF Converted, core_python_variant_to_py
<1>3. ObjectOf[n][variant_empty] = PyTrue
  <2>1. variant_empty \in Scalar /\ variant_empty.m_type = "EMPTY"
    BY SimpleVariants
  <2>2. PICK f : ObjectOf[n][variant_empty] = ToObject(variant_empty, f)
    BY <2>1, ScalarLevels
  <2> QED BY <2>1, <2>2 DEF ToObject
<1> QED BY <1>1, <1>2, <1>3

\* How the elements of a list or a dict lie in its matrix, row by row.
LaidOut(old, m, W, S) ==
  /\ old \in Seq(Seq(S)) /\ m.m_width = W /\ m.m_height = Len(old)
  /\ W \in Nat /\ \A j \in DOMAIN old : Len(old[j]) <= W
  /\ DOMAIN old # {} /\ W > 1 => \E k \in DOMAIN old : Len(old[k]) = W
  /\ \A j \in DOMAIN old, i \in 1..W :
       matrix_get(m, i - 1, j - 1) =
         IF i \in DOMAIN old[j] THEN VariantOf[MaxDepth][old[j][i]] ELSE variant_empty

LEMMA ListLaidOut ==
  ASSUME NEW S, S \subseteq Nested(S), NEW o \in Nested(S), o.type = "list",
         NEW m, m = core_python_py_to_matrix(o, VariantOf[MaxDepth])
  PROVE  LaidOut(Rows(o), m, m.m_width, S)
<1>1. PICK old, variant : old = Rows(o) /\ variant = VariantOf[MaxDepth]
  OBVIOUS
<1>2. old = RowsOf(o)
  BY <1>1 DEF Rows, RowsOf
<1>3. old \in Seq(Seq(S))
  BY <1>2, ListRows
<1>4. PICK W : W = Width(old)
  OBVIOUS
<1>5. /\ W \in Nat /\ \A j \in DOMAIN old : Len(old[j]) <= W
      /\ W > 1 => \E k \in DOMAIN old : Len(old[k]) = W
  BY <1>3, <1>4, WidthOfRows
<1>6. /\ m.m_width = W /\ m.m_height = Len(old)
      /\ \A i \in 0..W - 1, j \in 0..Len(old) - 1 :
           matrix_get(m, i, j) = IF i < Len(old[j + 1])
                                 THEN variant[old[j + 1][i + 1]] ELSE variant_empty
  BY <1>1, <1>2, <1>4, ListMatrix
<1>7. ASSUME NEW j \in DOMAIN old, NEW i \in 1..W
      PROVE  matrix_get(m, i - 1, j - 1) =
               IF i \in DOMAIN old[j] THEN variant[old[j][i]] ELSE variant_empty
  <2>1. PICK row \in Seq(S) : row = old[j]
    BY <1>3
  <2>2. /\ i - 1 \in 0..W - 1 /\ j - 1 \in 0..Len(old) - 1 /\ (i - 1) + 1 = i /\ (j - 1) + 1 = j
    BY <1>3, <1>5
  <2>3. matrix_get(m, i - 1, j - 1) = IF i - 1 < Len(row) THEN variant[row[i]] ELSE variant_empty
    BY <1>6, <2>1, <2>2
  <2>4. i - 1 < Len(row) <=> i \in DOMAIN row
    BY <1>5, <2>1
  <2> QED BY <2>1, <2>3, <2>4
<1> QED BY <1>1, <1>3, <1>5, <1>6, <1>7 DEF LaidOut

LEMMA DictLaidOut ==
  ASSUME NEW S, NEW o \in Nested(S), o.type = "dict",
         NEW m, m = core_python_py_to_matrix(o, VariantOf[MaxDepth])
  PROVE  LaidOut(Rows(o), m, 2, S) /\ m.m_width = 2
<1>1. PICK old, variant, items : /\ old = Rows(o) /\ variant = VariantOf[MaxDepth]
                                 /\ items = o.items
  OBVIOUS
<1>2. items \in Seq(S)
  BY <1>1, NestedTypes
<1>3. PICK H \in Nat : /\ m.m_width = 2 /\ H = m.m_height /\ Len(items) = 2 * H
                       /\ \A i \in 0..1, j \in 0..H - 1 :
                            matrix_get(m, i, j) = variant[items[2 * j + i + 1]]
  BY <1>1, DictMatrix
<1>4. old = [j \in 1..H |-> <<items[2 * j - 1], items[2 * j]>>]
  <2>1. (2 * H) \div 2 = H
    OBVIOUS
  <2> QED BY <1>1, <1>3, <2>1 DEF Rows
<1>5. ASSUME NEW j \in 1..H
      PROVE  /\ old[j] \in Seq(S) /\ Len(old[j]) = 2 /\ DOMAIN old[j] = 1..2
             /\ old[j][1] = items[2 * j - 1] /\ old[j][2] = items[2 * j]
  <2>1. 2 * j - 1 \in 1..2 * H /\ 2 * j \in 1..2 * H
    OBVIOUS
  <2>2. PICK x, y \in S : x = items[2 * j - 1] /\ y = items[2 * j]
    BY <1>2, <1>3, <2>1
  <2>3. old[j] = <<x, y>>
    BY <1>4, <2>2
  <2> QED BY <2>2, <2>3
<1>6. old \in Seq(Seq(S)) /\ Len(old) = H /\ DOMAIN old = 1..H
  BY <1>4, <1>5
<1>7. ASSUME NEW j \in 1..H, NEW i \in 1..2
      PROVE  matrix_get(m, i - 1, j - 1) = variant[old[j][i]]
  <2>1. i - 1 \in 0..1 /\ j - 1 \in 0..H - 1 /\ (i = 1 \/ i = 2)
    OBVIOUS
  <2>2. 2 * (j - 1) + (i - 1) + 1 = IF i = 1 THEN 2 * j - 1 ELSE 2 * j
    BY <2>1
  <2>3. matrix_get(m, i - 1, j - 1) = variant[items[2 * (j - 1) + (i - 1) + 1]]
    BY <1>3, <2>1
  <2> QED BY <1>5, <2>1, <2>2, <2>3
<1>8. DOMAIN old # {} => \E k \in DOMAIN old : Len(old[k]) = 2
  BY <1>5, <1>6
<1>9. \A j \in DOMAIN old : Len(old[j]) <= 2
  <2>1. ASSUME NEW j \in DOMAIN old PROVE Len(old[j]) <= 2
    <3>1. Len(old[j]) = 2
      BY <1>5, <1>6
    <3> QED BY <3>1
  <2> QED BY <2>1
<1>10. \A j \in DOMAIN old, i \in 1..2 :
         matrix_get(m, i - 1, j - 1) =
           IF i \in DOMAIN old[j] THEN VariantOf[MaxDepth][old[j][i]] ELSE variant_empty
  BY <1>1, <1>5, <1>6, <1>7
<1>11. LaidOut(old, m, 2, S)
  BY <1>3, <1>6, <1>8, <1>9, <1>10 DEF LaidOut
<1> QED BY <1>1, <1>3, <1>11

\* What a matrix of such rows is made into.
LEMMA RowsBack ==
  ASSUME NEW S, S = Object[MaxDepth], NEW old, NEW m, NEW W, LaidOut(old, m, W, S),
         NEW w, w = core_python_matrix_to_py(m, ObjectOf[MaxDepth]),
         NEW new, new = IF Len(old) = 1 THEN <<w>> ELSE w.items
  PROVE  /\ w.type = "list" /\ Len(new) = Len(old) /\ DOMAIN new = DOMAIN old
         /\ \A j \in DOMAIN old :
              /\ new[j].type = "list" /\ Len(new[j].items) = W /\ Filled(old[j], new[j].items)
<1>1. /\ old \in Seq(Seq(S)) /\ m.m_width = W /\ m.m_height = Len(old)
      /\ W \in Nat /\ \A j \in DOMAIN old : Len(old[j]) <= W
      /\ \A j \in DOMAIN old, i \in 1..W :
           matrix_get(m, i - 1, j - 1) =
             IF i \in DOMAIN old[j] THEN VariantOf[MaxDepth][old[j][i]] ELSE variant_empty
  BY DEF LaidOut
<1>2. PICK H \in Nat : H = Len(old) /\ DOMAIN old = 1..H
  BY <1>1
<1>3. \A s : PyList(s).type = "list" /\ PyList(s).items = s
  BY DEF PyList, None
<1>4. PICK object : object = ObjectOf[MaxDepth]
  OBVIOUS
<1> DEFINE items(j) == [i \in 1..W |-> object[matrix_get(m, i - 1, j - 1)]]
<1>5. ASSUME NEW j \in 1..H
      PROVE  Len(items(j)) = W /\ Filled(old[j], items(j))
  <2>1. PICK row \in Seq(S) : row = old[j] /\ Len(row) <= W
    <3>1. old[j] \in Seq(S)
      BY <1>1, <1>2
    <3>2. Len(old[j]) <= W
      BY <1>1, <1>2
    <3> QED BY <3>1, <3>2
  <2>2. items(j) = [i \in 1..W |-> IF i \in DOMAIN row THEN Converted(row[i]) ELSE PyTrue]
    <3> SUFFICES ASSUME NEW i \in 1..W
                 PROVE  object[matrix_get(m, i - 1, j - 1)]
                          = IF i \in DOMAIN row THEN Converted(row[i]) ELSE PyTrue
      OBVIOUS
    <3>1. CASE i \in DOMAIN row
      <4>1. matrix_get(m, i - 1, j - 1) = VariantOf[MaxDepth][row[i]]
        BY <1>1, <1>2, <2>1, <3>1
      <4>2. row[i] \in Object[MaxDepth]
        BY <2>1, <3>1
      <4> QED BY <1>4, <3>1, <4>1, <4>2, ElementConverted
    <3>2. CASE i \notin DOMAIN row
      <4>1. matrix_get(m, i - 1, j - 1) = variant_empty
        BY <1>1, <1>2, <2>1, <3>2
      <4> QED BY <1>4, <3>2, <4>1, ElementConverted
    <3> QED BY <3>1, <3>2
  <2>3. PICK t : t = items(j)
    OBVIOUS
  <2>4. DOMAIN t = 1..W /\ Len(t) = W
    BY <1>1, <2>2, <2>3
  <2>5. Filled(row, t)
    BY <2>1, <2>2, <2>3, <2>4 DEF Filled
  <2> QED BY <2>1, <2>3, <2>4, <2>5
<1>6. w = IF H = 1 THEN PyList(items(1)) ELSE PyList([j \in 1..H |-> PyList(items(j))])
  <2>1. 1 - 1 = 0
    OBVIOUS
  <2> QED BY <1>1, <1>2, <1>4, <2>1 DEF core_python_matrix_to_py
<1> HIDE DEF items
<1>7. w.type = "list"
  BY <1>3, <1>6
<1>8. new = [j \in 1..H |-> PyList(items(j))]
  <2>1. CASE H = 1
    <3>1. new = <<PyList(items(1))>>
      BY <1>2, <1>6, <2>1
    <3>2. PICK x : x = PyList(items(1))
      OBVIOUS
    <3>3. [j \in 1..1 |-> PyList(items(j))] = [j \in 1..1 |-> x]
      BY <3>2
    <3>4. <<x>> = [j \in 1..1 |-> x]
      OBVIOUS
    <3> QED BY <2>1, <3>1, <3>2, <3>3, <3>4
  <2>2. CASE H # 1
    BY <1>2, <1>3, <1>6, <2>2
  <2> QED BY <2>1, <2>2
<1>9. Len(new) = H /\ DOMAIN new = 1..H
  BY <1>8
<1>10. \A j \in 1..H : new[j].type = "list" /\ new[j].items = items(j)
  BY <1>3, <1>8
<1> QED BY <1>2, <1>5, <1>7, <1>9, <1>10

\* A function that returns its argument returns the rows of a list or a dict with
\* every element, converted, in its place.
THEOREM PlacesReturn == Spec => PlacesKept
<1> DEFINE Back == Echo /\ value.type \in {"list", "dict"} =>
             LET old == Rows(value)
                 new == IF Len(old) = 1 THEN <<value'>> ELSE value'.items
             IN  /\ value'.type = "list" /\ Len(new) = Len(old)
                 /\ \A j \in DOMAIN old : new[j].type = "list" /\ Filled(old[j], new[j].items)
                 /\ \A j, k \in DOMAIN old : Len(new[j].items) = Len(new[k].items)
                 /\ \A j \in DOMAIN old :
                      Len(new[j].items) > 1 =>
                        \E k \in DOMAIN old : Len(old[k]) = Len(new[j].items)
<1>1. Back
  <2> SUFFICES ASSUME Echo, value.type \in {"list", "dict"}, NEW old, old = Rows(value),
                      NEW w, w = value',
                      NEW new, new = IF Len(old) = 1 THEN <<w>> ELSE w.items
               PROVE  /\ w.type = "list" /\ Len(new) = Len(old)
                      /\ \A j \in DOMAIN old : new[j].type = "list" /\ Filled(old[j], new[j].items)
                      /\ \A j, k \in DOMAIN old : Len(new[j].items) = Len(new[k].items)
                      /\ \A j \in DOMAIN old :
                           Len(new[j].items) > 1 =>
                             \E k \in DOMAIN old : Len(old[k]) = Len(new[j].items)
    OBVIOUS
  <2>1. PICK v : v = core_python_py_to_variant(value)
    OBVIOUS
  <2>2. value \in Objects /\ Return(v, <<value>>)
    BY <2>1 DEF Echo
  <2>3. w = ToObject(v, ObjectOf[MaxDepth])
    <3>1. v.m_type # "ERROR"
      BY <2>1, VariantNoError DEF core_python_py_to_variant
    <3> QED BY <2>2, <3>1 DEF Return, core_python_variant_to_py
  <2>4. PICK m : m = core_python_py_to_matrix(value, VariantOf[MaxDepth])
    OBVIOUS
  <2>5. v = variant_from_matrix(m)
    BY <2>1, <2>4 DEF core_python_py_to_variant, ToVariant
  <2>6. w = core_python_matrix_to_py(m, ObjectOf[MaxDepth])
    <3>1. v.m_type = "MATRIX" /\ v.m_m = m
      BY <2>5, MatrixIs
    <3> QED BY <2>3, <3>1 DEF ToObject
  <2>7. PICK S : S = Object[MaxDepth] /\ value \in Nested(S) /\ S \subseteq Nested(S)
    BY <2>2, ConvertAssumption, LevelsGrow DEF Objects
  <2>8. PICK W : LaidOut(old, m, W, S)
    BY <2>4, <2>7, ListLaidOut, DictLaidOut
  <2>9. /\ w.type = "list" /\ Len(new) = Len(old)
        /\ \A j \in DOMAIN old :
             /\ new[j].type = "list" /\ Len(new[j].items) = W /\ Filled(old[j], new[j].items)
    BY <2>6, <2>7, <2>8, RowsBack
  <2>10. DOMAIN old # {} /\ W > 1 => \E k \in DOMAIN old : Len(old[k]) = W
    BY <2>8 DEF LaidOut
  <2> QED BY <2>9, <2>10
<1>2. [Next]_vars => [Back]_module_vars
  BY <1>1
<1> QED BY <1>2, PTL DEF Spec, PlacesKept

=============================================================================
