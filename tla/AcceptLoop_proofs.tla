-------------------------- MODULE AcceptLoop_proofs -------------------------
(***************************************************************************)
(* What the race on ns can and cannot do, for any number of descriptors    *)
(* and clients.                                                            *)
(***************************************************************************)
EXTENDS AcceptLoop, TLAPS

USE DEF Files, Clients, Null

\* AcceptInv says which descriptor belongs to which accept, and where the thread
\* of an accept is; it is inductive on its own.
LEMMA InitAccept == Init => AcceptInv
  BY AcceptAssumption DEF Init, AcceptInv, TypeOK

LEMMA StepAccept ==
  ASSUME AcceptInv, [Next]_vars
  PROVE  AcceptInv'
<1> USE AcceptAssumption DEF AcceptInv, TypeOK
<1>1. CASE Connect BY <1>1 DEF Connect
<1>2. ASSUME NEW c \in Clients, Close(c) PROVE AcceptInv'
  BY <1>2 DEF Close
<1>3. CASE Accept
  <2>1. PICK f \in Files :
          /\ peer[f] = Null
          /\ \A g \in Files : peer[g] = Null => f <= g
          /\ peer' = [peer EXCEPT ![f] = accepted + 1] /\ ns' = f
    BY <1>3 DEF Accept
  <2>2. f = accepted + 1
    <3>1. f > accepted BY <2>1
    <3>2. accepted + 1 \in Files /\ peer[accepted + 1] = Null BY <3>1
    <3> QED BY <3>1, <3>2, <2>1
  <2>3. accepted + 1 \in Clients
    BY <1>3, <2>1 DEF Accept
  <2> QED BY <1>3, <2>1, <2>2, <2>3 DEF Accept
<1>4. CASE AcceptFails BY <1>4 DEF AcceptFails
<1>5. CASE Create BY <1>5 DEF Create
<1>6. ASSUME NEW t \in Files, Start(t) PROVE AcceptInv'
  BY <1>6 DEF Start
<1>7. ASSUME NEW t \in Files, End(t) PROVE AcceptInv'
  BY <1>7 DEF End
<1>8. CASE UNCHANGED vars BY <1>8 DEF vars
<1> QED BY <1>1, <1>2, <1>3, <1>4, <1>5, <1>6, <1>7, <1>8
        DEF Next, Main, Thread

\* AcceptInv is an invariant: descriptors and threads are paired in the order of
\* the accepts, whoever connects and closes.
THEOREM AcceptInvariance == Spec => []AcceptInv
<1>1. Init => AcceptInv BY InitAccept
<1>2. AcceptInv /\ [Next]_vars => AcceptInv' BY StepAccept
<1> QED BY <1>1, <1>2, PTL DEF Spec

LEMMA StepLost ==
  ASSUME AcceptInv, LostOnlyWhenOvertaken, [Next]_vars
  PROVE  LostOnlyWhenOvertaken'
<1> USE AcceptAssumption DEF AcceptInv, TypeOK, LostOnlyWhenOvertaken, Served
<1>1. CASE Connect BY <1>1 DEF Connect
<1>2. ASSUME NEW c \in Clients, Close(c) PROVE LostOnlyWhenOvertaken'
  BY <1>2 DEF Close
<1>3. CASE Accept BY <1>3 DEF Accept
<1>4. CASE AcceptFails BY <1>4 DEF AcceptFails
<1>5. CASE Create BY <1>5 DEF Create
<1>6. ASSUME NEW t \in Files, Start(t) PROVE LostOnlyWhenOvertaken'
  BY <1>6 DEF Start
<1>7. ASSUME NEW t \in Files, End(t) PROVE LostOnlyWhenOvertaken'
  BY <1>7 DEF End
<1>8. CASE UNCHANGED vars BY <1>8 DEF vars
<1> QED BY <1>1, <1>2, <1>3, <1>4, <1>5, <1>6, <1>7, <1>8
        DEF Next, Main, Thread

\* A connection that no thread serves was overtaken by a later one or never got a
\* thread, and the last one is never lost to the race.
THEOREM OnlyOvertakenAreLost == Spec => []LostOnlyWhenOvertaken
<1>1. Init => LostOnlyWhenOvertaken
  BY DEF Init, LostOnlyWhenOvertaken
<1>2. AcceptInv /\ LostOnlyWhenOvertaken /\ [Next]_vars => LostOnlyWhenOvertaken'
  BY StepLost
<1> QED BY <1>1, <1>2, AcceptInvariance, PTL DEF Spec
=============================================================================
