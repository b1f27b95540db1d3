------------------------------ MODULE PyThreads ------------------------------
(***************************************************************************)
(* The threads of a Python program that uses arnovich._core: the methods   *)
(* of Connection (pylib/core_srv.c), and the functions of PyModule.  All   *)
(* of them run with the interpreter lock held, also while they wait for    *)
(* the server; only wait_for_update gives it up.  Others are clients in    *)
(* processes of their own, which need no lock of this one.                 *)
(*                                                                         *)
(* A request, a reply and a notification are one message each; SrvWire and *)
(* SrvNotify take them apart.  The tickers are registered.                 *)
(***************************************************************************)
EXTENDS PyModule

CONSTANTS Threads, Others,  \* of the program; of other processes
          NoThread,
          Conns,            \* the connections
          Programs,         \* the methods that a program calls, and over which connections
          Elsewhere,        \* the methods that the others call
          Ids,              \* the tickers
          Capacity,         \* the messages that a connection holds
          TrueRefs          \* the references to Py_True that Python itself holds

Clients == Threads \cup Others

\* Processes share no connection.
ASSUME ThreadsAssumption ==
  /\ Threads \cap Others = {} /\ NoThread \notin Clients \cup Conns \cup Ids
  /\ TrueRefs \in Nat
  /\ Programs # {}
  /\ \A p \in Programs :
       /\ p.self \in [Clients -> Conns]
       /\ \A o \in Others, t \in Clients : p.self[t] = p.self[o] => t = o

Asked == {"add_ticker", "get_ticker", "push_tick", "pull_tick", "pull_tick_update",
          "subscribe", "unsubscribe"}

VARIABLES
  methods,      \* those that the program calls
  self,         \* per thread, its connection
  gil,          \* the thread that holds the interpreter lock
  pc,           \* per thread: in Python, in a call, waiting, woken, or lost
  call,         \* per thread, the request of its call
  requests,     \* per connection, those sent to the server
  messages,     \* per connection, those sent to the client
  handler,      \* per connection, what the server's thread does
  left,         \* per connection, the subscribers that its walk has yet to notify
  m_subscriblock, m_subscribers,  \* per ticker
  open,         \* the connections that are not closed
  server,       \* "up" or "down"
  true_refs,    \* the references to Py_True
  touched       \* history: the connections ever subscribed

conn_vars == <<methods, self, gil, pc, call, requests, messages, handler, left,
               m_subscriblock, m_subscribers, open, server, true_refs, touched>>
vars == <<module_vars, conn_vars>>

NoCall == [op |-> "none", id |-> NoThread, by |-> NoThread]
Update == [kind |-> "update", by |-> NoThread]
Reply(t) == [kind |-> "reply", by |-> t]

Init ==
  /\ ModuleInit
  /\ LET all == IF script = "connections" THEN Programs ELSE {CHOOSE p \in Programs : TRUE}
     IN  \E p \in all : methods = p.methods /\ self = p.self
  /\ gil = NoThread
  /\ pc = [t \in Clients |-> "python"] /\ call = [t \in Clients |-> NoCall]
  /\ requests = [c \in Conns |-> <<>>] /\ messages = [c \in Conns |-> <<>>]
  /\ handler = [c \in Conns |-> NoCall] /\ left = [c \in Conns |-> <<>>]
  /\ m_subscriblock = [i \in Ids |-> NoThread] /\ m_subscribers = [i \in Ids |-> <<>>]
  /\ open = Conns /\ server = "up" /\ true_refs = TrueRefs /\ touched = {}

-----------------------------------------------------------------------------
(* The interpreter lock                                                    *)

\* t may run Python code; it does so in its own process.
CanRun(t) == /\ true_refs > 0 /\ script = "connections"
             /\ t \in Threads => gil \in {NoThread, t}
Uses(t, op) == op \in IF t \in Threads THEN methods ELSE Elsewhere
Take(t) == gil' = IF t \in Threads THEN t ELSE gil
Release(t) == gil' = IF t \in Threads THEN NoThread ELSE gil

-----------------------------------------------------------------------------
(* The client                                                              *)

\* A server that ends with a request unread resets the connection: the error is the
\* next thing that a write or, after what had been sent, a read finds there.
Reset(c) == requests' = [requests EXCEPT ![c] = <<>>]

\* Mutant: a call gives the lock up while it waits, like wait_for_update.
RequestUnlocked(t, r) ==
  LET c == self[t]
  IN  /\ CanRun(t) /\ pc[t] = "python" /\ c \in open
      /\ UNCHANGED gil /\ pc' = [pc EXCEPT ![t] = "call"]
      /\ call' = [call EXCEPT ![t] = r]
      /\ IF server = "up" THEN requests' = [requests EXCEPT ![c] = Append(@, r)]
                         ELSE Reset(c)
      /\ UNCHANGED <<module_vars, methods, self, messages, handler, left, m_subscriblock,
                     m_subscribers, open, server, true_refs, touched>>

\* A call writes its request and waits for the reply with the lock held.
Request(t, r) ==
  LET c == self[t]
  IN  /\ CanRun(t) /\ pc[t] = "python" /\ c \in open
      /\ Take(t) /\ pc' = [pc EXCEPT ![t] = "call"]
      /\ call' = [call EXCEPT ![t] = r]
      /\ IF server = "up" THEN requests' = [requests EXCEPT ![c] = Append(@, r)]
                         ELSE Reset(c)
      /\ UNCHANGED <<module_vars, methods, self, messages, handler, left, m_subscriblock,
                     m_subscribers, open, server, true_refs, touched>>

\* A program subscribes a connection once to a ticker.
Call(t) ==
  \E op \in Asked, i \in Ids :
    /\ Uses(t, op)
    /\ op = "subscribe" => self[t] \notin Range(m_subscribers[i])
    /\ Request(t, [op |-> op, id |-> i, by |-> t])

\* What returns Py_True without a reference of its own.
Borrowed == {"subscribe", "unsubscribe"}

\* The call reads its reply, or that there is none to come: of no bytes it makes an
\* error, but of -1, which escapes its check, its initial SUCCESS.  A notification in
\* place of the reply leaves the thread out of step with the connection.
Answer(t) ==
  LET c == self[t]
      item == Head(messages[c])
      success == IF messages[c] # <<>> THEN item = Reply(t) ELSE requests[c] # <<>>
  IN  /\ pc[t] = "call" /\ true_refs > 0
      /\ \/ /\ messages[c] # <<>>
            /\ messages' = [messages EXCEPT ![c] = Tail(@)]
            /\ pc' = [pc EXCEPT ![t] = IF item = Reply(t) THEN "python" ELSE "lost"]
            /\ UNCHANGED requests
         \/ /\ messages[c] = <<>> /\ server = "down" /\ Reset(c)
            /\ pc' = [pc EXCEPT ![t] = "python"]
            /\ UNCHANGED messages
      /\ true_refs' = IF success /\ t \in Threads /\ call[t].op \in Borrowed
                      THEN true_refs - 1 ELSE true_refs
      /\ Release(t) /\ call' = [call EXCEPT ![t] = NoCall]
      /\ UNCHANGED <<module_vars, methods, self, handler, left, m_subscriblock,
                     m_subscribers, open, server, touched>>

\* Mutant: wait_for_update keeps the lock.
WaitLocked(t) ==
  /\ CanRun(t) /\ pc[t] = "python" /\ Uses(t, "wait_for_update") /\ self[t] \in open
  /\ Take(t)
  /\ pc' = [pc EXCEPT ![t] = "wait"]
  /\ UNCHANGED <<module_vars, methods, self, call, requests, messages, handler, left,
                 m_subscriblock, m_subscribers, open, server, true_refs, touched>>

\* wait_for_update begins: it needs the lock only to be called.
Wait(t) ==
  /\ CanRun(t) /\ pc[t] = "python" /\ Uses(t, "wait_for_update") /\ self[t] \in open
  /\ UNCHANGED gil
  /\ pc' = [pc EXCEPT ![t] = "wait"]
  /\ UNCHANGED <<module_vars, methods, self, call, requests, messages, handler, left,
                 m_subscriblock, m_subscribers, open, server, true_refs, touched>>

\* It reads a notification, or fails,
Wake(t) ==
  LET c == self[t]
  IN  /\ pc[t] = "wait" /\ true_refs > 0
      /\ \/ /\ messages[c] # <<>>
            /\ messages' = [messages EXCEPT ![c] = Tail(@)]
            /\ pc' = [pc EXCEPT ![t] = IF Head(messages[c]) = Update THEN "woken" ELSE "lost"]
            /\ UNCHANGED requests
         \/ /\ messages[c] = <<>> /\ server = "down" /\ Reset(c)
            /\ pc' = [pc EXCEPT ![t] = "woken"]
            /\ UNCHANGED messages
      /\ UNCHANGED <<module_vars, methods, self, gil, call, handler, left, m_subscriblock,
                     m_subscribers, open, server, true_refs, touched>>

\* and returns when it has the lock again.
Resume(t) ==
  /\ CanRun(t) /\ pc[t] = "woken"
  /\ Release(t) /\ pc' = [pc EXCEPT ![t] = "python"]
  /\ UNCHANGED <<module_vars, methods, self, call, requests, messages, handler, left,
                 m_subscriblock, m_subscribers, open, server, true_refs, touched>>

\* The last thread that has a connection lets it go, which closes it.
Drop(t) ==
  LET c == self[t]
  IN  /\ CanRun(t) /\ pc[t] = "python" /\ c \in open
      /\ Uses(t, "del") /\ \A u \in Clients \ {t} : self[u] # c
      /\ open' = open \ {c}
      /\ UNCHANGED <<module_vars, methods, self, gil, pc, call, requests, messages, handler,
                     left, m_subscriblock, m_subscribers, server, true_refs, touched>>

-----------------------------------------------------------------------------
(* The server                                                              *)

Room(c) == Len(messages[c]) < Capacity
Send(c, item) == messages' = [messages EXCEPT ![c] = Append(@, item)]
Serves(c) == server = "up" /\ (c \in open \/ handler[c] # NoCall)

\* The thread of a connection takes a request and does what it asks for; a push is
\* walked only after its reply.
Serve(c) ==
  LET r == Head(requests[c])
  IN  /\ Serves(c) /\ handler[c] = NoCall /\ requests[c] # <<>>
      /\ requests' = [requests EXCEPT ![c] = Tail(@)]
      /\ handler' = [handler EXCEPT ![c] = r]
      /\ IF r.op = "subscribe"
         THEN /\ m_subscribers' = [m_subscribers EXCEPT ![r.id] = <<c>> \o @]
              /\ touched' = touched \cup {c} /\ UNCHANGED <<left, server>>
         ELSE IF r.op = "unsubscribe"
         THEN /\ m_subscribers' = [m_subscribers EXCEPT ![r.id] = RemoveFirst(@, c)]
              /\ left' = [d \in Conns |-> IF handler[d].id = r.id THEN RemoveFirst(left[d], c)
                                          ELSE left[d]]
              \* the node that a walk is at is freed under it
              /\ server' \in IF \E d \in Conns : /\ handler[d].id = r.id
                                                 /\ left[d] # <<>> /\ Head(left[d]) = c
                             THEN {"up", "down"} ELSE {server}
              /\ UNCHANGED touched
         ELSE UNCHANGED <<m_subscribers, left, server, touched>>
      /\ UNCHANGED <<module_vars, methods, self, gil, pc, call, messages, m_subscriblock,
                     open, true_refs>>

\* The reply is written; for a push the subscribers are next.
Respond(c) ==
  LET r == handler[c]
  IN  /\ Serves(c) /\ r.op \in Asked /\ Room(c)
      /\ Send(c, Reply(r.by))
      /\ handler' = [handler EXCEPT ![c] = IF r.op = "push_tick" THEN [r EXCEPT !.op = "lock"]
                                           ELSE NoCall]
      /\ UNCHANGED <<module_vars, methods, self, gil, pc, call, requests, left, m_subscriblock,
                     m_subscribers, open, server, true_refs, touched>>

LockWalk(c) ==
  LET r == handler[c]
  IN  /\ Serves(c) /\ r.op = "lock" /\ m_subscriblock[r.id] = NoThread
      /\ m_subscriblock' = [m_subscriblock EXCEPT ![r.id] = c]
      /\ left' = [left EXCEPT ![c] = m_subscribers[r.id]]
      /\ handler' = [handler EXCEPT ![c].op = "walk"]
      /\ UNCHANGED <<module_vars, methods, self, gil, pc, call, requests, messages,
                     m_subscribers, open, server, true_refs, touched>>

\* A write to a connection that its client has closed ends the server.
Notify(c) ==
  LET d == Head(left[c])
  IN  /\ Serves(c) /\ handler[c].op = "walk" /\ left[c] # <<>>
      /\ IF d \in open
         THEN /\ Room(d) /\ Send(d, Update)
              /\ left' = [left EXCEPT ![c] = Tail(@)] /\ UNCHANGED server
         ELSE server' = "down" /\ UNCHANGED <<messages, left>>
      /\ UNCHANGED <<module_vars, methods, self, gil, pc, call, requests, handler,
                     m_subscriblock, m_subscribers, open, true_refs, touched>>

UnlockWalk(c) ==
  /\ Serves(c) /\ handler[c].op = "walk" /\ left[c] = <<>>
  /\ m_subscriblock' = [m_subscriblock EXCEPT ![handler[c].id] = NoThread]
  /\ handler' = [handler EXCEPT ![c] = NoCall]
  /\ UNCHANGED <<module_vars, methods, self, gil, pc, call, requests, messages, left,
                 m_subscribers, open, server, true_refs, touched>>

-----------------------------------------------------------------------------
\* The functions of PyModule neither wait nor give the lock up.
Plain == gil = NoThread /\ ModuleNext /\ UNCHANGED conn_vars

ClientNext == \E t \in Clients : Call(t) \/ Answer(t) \/ Wait(t) \/ Wake(t) \/ Resume(t) \/ Drop(t)
ServerNext == \E c \in Conns :
                Serve(c) \/ Respond(c) \/ LockWalk(c) \/ Notify(c) \/ UnlockWalk(c)

Next == Plain \/ ClientNext \/ ServerNext
Spec == Init /\ [][Next]_vars

\* A thread that has what it waits for goes on, the server's threads run, and a
\* program that calls Echo calls it again.
FairSpec ==
  /\ Spec
  /\ WF_vars(gil = NoThread /\ Echo /\ UNCHANGED conn_vars)
  /\ \A t \in Clients : WF_vars(Answer(t)) /\ WF_vars(Wake(t)) /\ WF_vars(Resume(t))
  /\ \A c \in Conns : WF_vars(Serve(c)) /\ WF_vars(Respond(c)) /\ WF_vars(LockWalk(c))
                      /\ WF_vars(Notify(c)) /\ WF_vars(UnlockWalk(c))

-----------------------------------------------------------------------------
(* Properties                                                              *)

\* Threads may share a connection: as the lock is held from a request to its
\* reply, every reply is read by the call that asked for it, unless the connection
\* has ever been subscribed, or a thread waits for updates over it.
RepliesToCallers ==
  \A t \in Clients : pc[t] = "lost" =>
    self[t] \in touched \/ Uses(t, "wait_for_update")

\* A thread keeps the others of its program from running only for as long as a
\* walk is held up, by a connection that is full or by another walk, or a reply is,
\* by a connection that is full; a wait for
\* an update, which may never come, holds nobody up unless it takes a reply that
\* is meant for another thread.
HeldUp(c) ==
  \/ handler[c].op = "walk" /\ left[c] # <<>> /\ ~Room(Head(left[c]))
  \/ handler[c].op = "lock" /\ m_subscriblock[handler[c].id] # NoThread
  \/ handler[c].op \in Asked /\ ~Room(c)
SomeoneRuns ==
  \A t \in Threads : 
    gil = t ~> \/ gil # t \/ true_refs = 0
               \/ \E c \in Conns : HeldUp(c)
               \/ \E u \in Clients : pc[u] = "lost"
=============================================================================
