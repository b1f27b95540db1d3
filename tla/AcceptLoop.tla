----------------------------- MODULE AcceptLoop ------------------------------
(***************************************************************************)
(* srv_run_server: the loop that accepts connections and starts a thread   *)
(* for each.  The thread is handed the address of ns, the variable that    *)
(* the next accept writes, and copies it when it begins to run.  A thread  *)
(* that ends leaves its descriptor open, so that the process runs out of   *)
(* them; accept then fails, whoever waits, and the server returns.         *)
(*                                                                         *)
(* Clients are numbered in the order in which they connect, threads in the *)
(* order of the accepts that they are started for.                         *)
(***************************************************************************)
EXTENDS Naturals, FiniteSets

CONSTANTS MaxFiles,   \* the descriptors that the process has for connections
          MaxClients  \* bound: clients that connect

ASSUME AcceptAssumption == MaxFiles \in Nat \ {0} /\ MaxClients \in Nat

Files == 1..MaxFiles
Clients == 1..MaxClients
Null == 0

VARIABLES
  connected,   \* the clients 1..connected have connected,
  closed,      \* those in closed have closed their connection since,
  accepted,    \* and 1..accepted have been accepted
  peer,        \* per descriptor: the client at the other end; Null: not open
  ns,          \* the variable of the loop
  main,        \* what the loop does next
  thread,      \* per accept: the state of its thread
  connection   \* per thread: its copy of ns

vars == <<connected, closed, accepted, peer, ns, main, thread, connection>>

Init ==
  /\ connected = 0 /\ closed = {} /\ accepted = 0
  /\ peer = [f \in Files |-> Null]
  /\ ns = Null /\ main = "accept"
  /\ thread = [t \in Files |-> "none"]
  /\ connection = [t \in Files |-> Null]

\* A client connects; the kernel queues it.
Connect ==
  /\ connected < MaxClients
  /\ connected' = connected + 1
  /\ UNCHANGED <<closed, accepted, peer, ns, main, thread, connection>>

Close(c) ==
  /\ c \in (1..connected) \ closed
  /\ closed' = closed \cup {c}
  /\ UNCHANGED <<connected, accepted, peer, ns, main, thread, connection>>

\* Mutant: ns keeps the first descriptor.
AcceptStale ==
  /\ main = "accept" /\ accepted < connected
  /\ \E f \in Files :
       /\ peer[f] = Null
       /\ \A g \in Files : peer[g] = Null => f <= g
       /\ peer' = [peer EXCEPT ![f] = accepted + 1]
       /\ ns' = IF ns = Null THEN f ELSE ns
  /\ accepted' = accepted + 1
  /\ main' = "create"
  /\ UNCHANGED <<connected, closed, thread, connection>>

\* accept takes the client that has waited longest, and the lowest descriptor.
Accept ==
  /\ main = "accept" /\ accepted < connected
  /\ \E f \in Files :
       /\ peer[f] = Null
       /\ \A g \in Files : peer[g] = Null => f <= g
       /\ peer' = [peer EXCEPT ![f] = accepted + 1]
       /\ ns' = f
  /\ accepted' = accepted + 1
  /\ main' = "create"
  /\ UNCHANGED <<connected, closed, thread, connection>>

\* Without a free descriptor accept fails at once: the loop and main return, and
\* with them the process and its threads end.
AcceptFails ==
  /\ main = "accept"
  /\ \A f \in Files : peer[f] # Null
  /\ main' = "returned"
  /\ UNCHANGED <<connected, closed, accepted, peer, ns, thread, connection>>

\* What pthread_create returns is not looked at.
Create ==
  /\ main = "create"
  /\ \E outcome \in {"started", "failed"} :
       thread' = [thread EXCEPT ![accepted] = outcome]
  /\ main' = "accept"
  /\ UNCHANGED <<connected, closed, accepted, peer, ns, connection>>

\* The thread copies ns.
Start(t) ==
  /\ thread[t] = "started"
  /\ thread' = [thread EXCEPT ![t] = "running"]
  /\ connection' = [connection EXCEPT ![t] = ns]
  /\ UNCHANGED <<connected, closed, accepted, peer, ns, main>>

\* Mutant: the thread closes its descriptor.
EndCloses(t) ==
  /\ thread[t] = "running" /\ peer[connection[t]] \in closed
  /\ thread' = [thread EXCEPT ![t] = "ended"]
  /\ peer' = [peer EXCEPT ![connection[t]] = Null]
  /\ UNCHANGED <<connected, closed, accepted, ns, main, connection>>

\* The thread reads CLOSE_CONNECTION, or the end of the stream, and returns.
End(t) ==
  /\ thread[t] = "running" /\ peer[connection[t]] \in closed
  /\ thread' = [thread EXCEPT ![t] = "ended"]
  /\ UNCHANGED <<connected, closed, accepted, peer, ns, main, connection>>

Main == Accept \/ AcceptFails \/ Create
Thread(t) == main # "returned" /\ (Start(t) \/ End(t))

Next ==
  \/ Main
  \/ \E t \in Files : Thread(t)
  \/ main # "returned" /\ (Connect \/ \E c \in Clients : Close(c))

Spec == Init /\ [][Next]_vars

\* The loop and the threads run as long as they can.
FairSpec == Spec /\ WF_vars(Main) /\ \A t \in Files : WF_vars(Thread(t))

-----------------------------------------------------------------------------
(* Properties                                                              *)

TypeOK ==
  /\ connected \in 0..MaxClients /\ closed \subseteq Clients
  /\ accepted \in 0..MaxFiles /\ accepted <= connected
  /\ peer \in [Files -> {Null} \cup Clients]
  /\ ns \in {Null} \cup Files
  /\ main \in {"accept", "create", "returned"}
  /\ thread \in [Files -> {"none", "started", "failed", "running", "ended"}]
  /\ connection \in [Files -> {Null} \cup Files]

Served(f) == \E t \in Files : connection[t] = f

\* Descriptors are not used twice: the one of the n-th accept is n, ns holds the
\* last, and each accept has one thread, which has a connection once it runs.
AcceptInv ==
  /\ TypeOK
  /\ \A f \in Files : peer[f] = IF f <= accepted THEN f ELSE Null
  /\ ns = accepted
  /\ \A t \in Files :
       /\ thread[t] = "none" <=> (t > accepted \/ (t = accepted /\ main = "create"))
       /\ (connection[t] # Null) <=> thread[t] \in {"running", "ended"}
       /\ connection[t] # Null => connection[t] \in t..accepted
  /\ main = "create" => accepted > 0

\* What the race on ns may do: a thread takes its own connection or one accepted
\* later, never an older one.  So a connection that no thread takes has lost its
\* thread to a later one, or never got one; and the connection accepted last is
\* still there to be taken as long as a thread is to start.
LostOnlyWhenOvertaken ==
  /\ \A f \in 1..accepted :
       \/ Served(f)
       \/ thread[f] \in {"started", "failed"} \/ connection[f] > f
       \/ f = accepted /\ main = "create"
  /\ accepted > 0 =>
       \/ \E t \in Files : thread[t] = "started"
       \/ Served(accepted) \/ main = "create" \/ thread[accepted] = "failed"

\* When no more clients come, the one accepted last is served, unless its thread
\* could not be created or the server has returned.
NewestIsServed ==
  \A n \in Files :
    accepted = n ~> \/ accepted > n \/ main = "returned"
                    \/ Served(n) \/ thread[n] = "failed"

\* The server wears out: when it has accepted as many connections as it has
\* descriptors it returns, even if all their clients have closed them.
WearsOut == (accepted = MaxFiles) ~> (main = "returned")
=============================================================================
