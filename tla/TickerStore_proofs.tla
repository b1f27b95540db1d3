-------------------------- MODULE TickerStore_proofs ------------------------
(***************************************************************************)
(* StoreInv is an inductive invariant of TickerStore, for every set of     *)
(* threads, names, payloads, times and calls and every bound.  It gives    *)
(* the type invariant, that ticker histories only grow, that ids are       *)
(* stable and which reads of the ticker array can be undefined.            *)
(***************************************************************************)
EXTENDS TickerStore, FiniteSetTheorems, WellFoundedInduction, TLAPS

\* The order of the naturals is well founded, so a set of them has a least one.
LEMMA LessIsWellFounded ==
  IsWellFoundedOn({p \in Nat \X Nat : p[1] < p[2]}, Nat)
<1>1. OpToRel(<, Nat) = {p \in Nat \X Nat : p[1] < p[2]}
  BY DEF OpToRel
<1> QED BY <1>1, NatLessThanWellFounded, Zenon

\* A set of naturals that has an element has a least one, and Min chooses it.
LEMMA MinOfNat ==
  ASSUME NEW T \in SUBSET Nat, T # {}
  PROVE  Min(T) \in T /\ \A y \in T : Min(T) <= y
<1> DEFINE R == {p \in Nat \X Nat : p[1] < p[2]}
<1>1. \E x \in T : \A y \in T : <<y, x>> \notin R
  <2> HIDE DEF R
  <2>1. IsWellFoundedOn(R, Nat) BY LessIsWellFounded, Zenon DEF R
  <2> QED BY <2>1, WFMin, Zenon
<1>2. PICK x \in T : \A y \in T : <<y, x>> \notin R
  BY <1>1
<1>3. ASSUME NEW y \in T PROVE x <= y
  <2>1. x \in Nat /\ y \in Nat /\ <<y, x>> \notin R
    BY <1>2
  <2>2. ~ (y < x)
    BY <2>1, SMT
  <2> QED BY <2>1, <2>2
<1> QED
  BY <1>3 DEF Min

\* A set of naturals that has an element and a bound has a greatest element,
\* and Max chooses it.
LEMMA MaxOfBounded ==
  ASSUME NEW n \in Nat, NEW T \in SUBSET (0..n), T # {}
  PROVE  Max(T) \in T /\ \A y \in T : Max(T) >= y
<1> DEFINE M == {n - y : y \in T}
<1>1. M \in SUBSET Nat /\ M # {}
  <2>1. \A y \in T : n - y \in Nat
    OBVIOUS
  <2>2. PICK y \in T : TRUE
    OBVIOUS
  <2>3. n - y \in M
    BY <2>2
  <2> QED BY <2>1, <2>3
<1>2. PICK m \in M : \A z \in M : m <= z
  BY <1>1, MinOfNat
<1>3. PICK x \in T : m = n - x
  OBVIOUS
<1>4. ASSUME NEW y \in T PROVE x >= y
  <2>1. n - y \in M
    OBVIOUS
  <2>2. n - x <= n - y
    BY <1>2, <1>3, <2>1
  <2> QED BY <2>2
<1> QED
  BY <1>3, <1>4 DEF Max

\* A selection from a list that is not empty returns a tick of the list, or the
\* status NO_TICKDATA.
LEMMA SelectionType ==
  ASSUME NEW S, NEW D, NEW T, T \subseteq Timeval,
         NEW list \in Seq(Tick(D, T)), list # <<>>,
         NEW r, r.op \in PullOps
  PROVE  Selection(r, list) \in Results(S, Tick(D, T))
<1> DEFINE hits == {k \in DOMAIN list : ~Later(list[k].time, r.at)}
           walk == {k \in DOMAIN list : \A j \in 2..k : Later(list[j].time, r.at)}
<1>1. Status("NO_TICKDATA") \in Results(S, Tick(D, T))
  BY DEF Results, StoreErrors
<1>2. \A k \in DOMAIN list : Pulled(list[k]) \in Results(S, Tick(D, T))
  BY DEF Results
<1>3. CASE r.op = "pull_tick"
  BY <1>1, <1>2, <1>3 DEF Selection, PullTick
<1>4. CASE r.op = "pull_tick_by_datetime"
  <2>1. hits # {} => Min(hits) \in DOMAIN list
    <3>1. hits \in SUBSET Nat
      OBVIOUS
    <3>2. hits # {} => Min(hits) \in hits
      <4> HIDE DEF hits
      <4> QED BY <3>1, MinOfNat
    <3> QED BY <3>2
  <2>2. Selection(r, list) = PullByDatetime(list, r.at)
    BY <1>4 DEF Selection
  <2> QED BY <1>1, <1>2, <2>1, <2>2 DEF PullByDatetime
<1>5. CASE r.op = "pull_tick_update"
  <2>1. Max(walk) \in DOMAIN list
    <3>1. walk \in SUBSET (0..Len(list)) /\ 1 \in walk /\ Len(list) \in Nat
      OBVIOUS
    <3>2. Max(walk) \in walk
      <4> HIDE DEF walk
      <4> QED BY <3>1, MaxOfBounded
    <3> QED BY <3>2
  <2>2. Selection(r, list) = PullUpdate(list, r.at)
    BY <1>5 DEF Selection
  <2> QED BY <1>1, <1>2, <2>1, <2>2 DEF PullUpdate
<1> QED BY <1>3, <1>4, <1>5 DEF PullOps, DatedOps

-----------------------------------------------------------------------------
\* A call of Calls has the arguments that its operation takes.
LEMMA CallType ==
  ASSUME NEW r \in Calls
  PROVE  /\ r.op \in NameOps \cup PullOps \cup {"push_tick"}
         /\ r.op \in NameOps => r.name \in Names
         /\ r.op \in PullOps \cup {"push_tick"} => r.id \in Ids
         /\ r.op = "push_tick" => r.data \in Data
         /\ r.op \in DatedOps => r.at \in Times
  BY StoreAssumption DEF Requests, NameOps, PullOps, DatedOps, Ids

\* The parts of TypeOK that say a call under way is one of Calls.
LEMMA CallUnderWay ==
  ASSUME TypeOK, CallInv, NEW t \in Threads,
         pc[t] \in AddSteps \cup AccessSteps \cup {"get", "check"}
  PROVE  req[t] \in Calls
<1>1. req[t] \in Calls \cup {NoCall}
  BY DEF TypeOK
<1>2. req[t].op \in {"add_ticker", "get_ticker", "push_tick"} \cup PullOps
  BY DEF CallInv, AccessSteps
<1>3. NoCall.op \notin {"add_ticker", "get_ticker", "push_tick"} \cup PullOps
  BY DEF NoCall, PullOps, DatedOps
<1> QED
  BY <1>1, <1>2, <1>3

\* No step breaks the agreement of the mutexes with the control points: each
\* lock is taken only when it is free and given back by its owner.
LEMMA LockInvStep == StoreInv /\ [Next]_vars => LockInv'
<1> SUFFICES ASSUME TypeOK, LockInv, CallInv, [Next]_vars PROVE LockInv'
  BY DEF StoreInv
<1> USE StoreAssumption
<1> USE DEF LockInv
<1>1. ASSUME NEW t \in Threads, NEW r \in Calls, Begin(t, r) PROVE LockInv'
  BY <1>1 DEF Begin, Goto, TypeOK, CallInv, array, tickers, Ids, AddSteps,
     AddHolds, AccessSteps, PushSteps, PullSteps, TickHolds
<1>2. ASSUME NEW t \in Threads, Finish(t) PROVE LockInv'
  BY <1>2 DEF Finish, Goto, TypeOK, CallInv, array, tickers, Ids, AddSteps,
     AddHolds, AccessSteps, PushSteps, PullSteps, TickHolds
<1>3. ASSUME NEW t \in Threads, AddLock(t) PROVE LockInv'
  BY <1>3 DEF AddLock, Goto, TypeOK, CallInv, locals, array, tickers, Ids,
     AddSteps, AddHolds, AccessSteps, PushSteps, PullSteps, TickHolds
<1>4. ASSUME NEW t \in Threads, AddGrow(t) PROVE LockInv'
  BY <1>4 DEF AddGrow, Goto, TypeOK, CallInv, locals, tickers, Ids, AddSteps,
     AddHolds, AccessSteps, PushSteps, PullSteps, TickHolds
<1>5. ASSUME NEW t \in Threads, AddCopy(t) PROVE LockInv'
  BY <1>5 DEF AddCopy, Goto, TypeOK, CallInv, locals, tickers, Ids, AddSteps,
     AddHolds, AccessSteps, PushSteps, PullSteps, TickHolds
<1>6. ASSUME NEW t \in Threads, AddFree(t) PROVE LockInv'
  BY <1>6 DEF AddFree, Goto, TypeOK, CallInv, locals, tickers, Ids, AddSteps,
     AddHolds, AccessSteps, PushSteps, PullSteps, TickHolds
<1>7. ASSUME NEW t \in Threads, AddEntry(t) PROVE LockInv'
  BY <1>7 DEF AddEntry, Goto, TypeOK, CallInv, locals, Ids, AddSteps,
     AddHolds, AccessSteps, PushSteps, PullSteps, TickHolds
<1>8. ASSUME NEW t \in Threads, AddPublish(t) PROVE LockInv'
  BY <1>8 DEF AddPublish, Goto, ReturnWith, TypeOK, CallInv, locals, tickers,
     Ids, AddSteps, AddHolds, AccessSteps, PushSteps, PullSteps, TickHolds
<1>9. ASSUME NEW t \in Threads, GetTicker(t) PROVE LockInv'
  BY <1>9 DEF GetTicker, Goto, ReturnWith, TypeOK, CallInv, locals, array,
     tickers, Ids, AddSteps, AddHolds, AccessSteps, PushSteps, PullSteps,
     TickHolds
<1>10. ASSUME NEW t \in Threads, Check(t) PROVE LockInv'
  <2>1. \A u \in Threads : /\ pc[u]' \in AddHolds <=> pc[u] \in AddHolds
                           /\ pc[u]' \in TickHolds <=> pc[u] \in TickHolds
    BY <1>10 DEF Check, Goto, ReturnWith, TypeOK, AddHolds, TickHolds
  <2> QED BY <1>10, <2>1 DEF Check, Goto, ReturnWith
<1>11. ASSUME NEW t \in Threads, Load(t) PROVE LockInv'
  BY <1>11 DEF Load, TypeOK, CallInv, locals, array, tickers, Ids, AddSteps,
     AddHolds, AccessSteps, PushSteps, PullSteps, TickHolds
<1>12. ASSUME NEW t \in Threads, Wild(t) PROVE LockInv'
  BY <1>12 DEF Wild, TypeOK, CallInv, locals, array, tickers, Ids, AddSteps,
     AddHolds, AccessSteps, PushSteps, PullSteps, TickHolds
<1>13. ASSUME NEW t \in Threads, PushLock(t) PROVE LockInv'
  <2>1. \A u \in Threads : /\ pc[u]' \in AddHolds <=> pc[u] \in AddHolds
                           /\ pc[u]' \in TickHolds <=> pc[u] \in TickHolds \/ u = t
    BY <1>13 DEF PushLock, Access, LockTicks, Goto, TypeOK, AddHolds,
       TickHolds
  <2>2. req[t].id \in Ids
    BY <1>13, CallUnderWay, CallType DEF PushLock, Access, LockTicks, Goto,
       CallInv, AddSteps, AddHolds, AccessSteps, PushSteps, PullSteps, TickHolds
  <2>3. m_tickslock \in [Ids -> Threads \cup {NoThread}]
    BY DEF TypeOK
  <2> QED BY <1>13, <2>1, <2>2, <2>3 DEF PushLock, Access, LockTicks, Goto,
       AddHolds, TickHolds
<1>14. ASSUME NEW t \in Threads, PushNext(t) PROVE LockInv'
  <2>1. \A u \in Threads : /\ pc[u]' \in AddHolds <=> pc[u] \in AddHolds
                           /\ pc[u]' \in TickHolds <=> pc[u] \in TickHolds
    BY <1>14 DEF PushNext, Access, Goto, TypeOK, AddHolds, TickHolds
  <2> QED BY <1>14, <2>1 DEF PushNext, Access, Goto
<1>15. ASSUME NEW t \in Threads, PushLink(t) PROVE LockInv'
  <2>1. \A u \in Threads : /\ pc[u]' \in AddHolds <=> pc[u] \in AddHolds
                           /\ pc[u]' \in TickHolds <=> pc[u] \in TickHolds
    BY <1>15 DEF PushLink, Access, Goto, TypeOK, AddHolds, TickHolds
  <2> QED BY <1>15, <2>1 DEF PushLink, Access, Goto
<1>16. ASSUME NEW t \in Threads, PushUnlock(t) PROVE LockInv'
  <2>1. \A u \in Threads : /\ pc[u]' \in AddHolds <=> pc[u] \in AddHolds
                           /\ pc[u]' \in TickHolds <=> pc[u] \in TickHolds /\ u # t
    BY <1>16 DEF PushUnlock, Access, UnlockTicks, Goto, TypeOK, AddHolds,
       TickHolds
  <2>2. req[t].id \in Ids
    BY <1>16, CallUnderWay, CallType DEF PushUnlock, Access, UnlockTicks,
       Goto, CallInv, AddSteps, AddHolds, AccessSteps, PushSteps, PullSteps,
       TickHolds
  <2>3. m_tickslock \in [Ids -> Threads \cup {NoThread}]
    BY DEF TypeOK
  <2> QED BY <1>16, <2>1, <2>2, <2>3 DEF PushUnlock, Access, UnlockTicks, Goto,
       AddHolds, TickHolds
<1>17. ASSUME NEW t \in Threads, PullEmpty(t) PROVE LockInv'
  <2>1. \A u \in Threads : /\ pc[u]' \in AddHolds <=> pc[u] \in AddHolds
                           /\ pc[u]' \in TickHolds <=> pc[u] \in TickHolds
    BY <1>17 DEF PullEmpty, Access, Goto, ReturnWith, TypeOK, AddHolds,
       TickHolds
  <2> QED BY <1>17, <2>1 DEF PullEmpty, Access, Goto, ReturnWith
<1>18. ASSUME NEW t \in Threads, PullLock(t) PROVE LockInv'
  <2>1. \A u \in Threads : /\ pc[u]' \in AddHolds <=> pc[u] \in AddHolds
                           /\ pc[u]' \in TickHolds <=> pc[u] \in TickHolds \/ u = t
    BY <1>18 DEF PullLock, Access, LockTicks, Goto, TypeOK, AddHolds,
       TickHolds
  <2>2. req[t].id \in Ids
    BY <1>18, CallUnderWay, CallType DEF PullLock, Access, LockTicks, Goto,
       CallInv, AddSteps, AddHolds, AccessSteps, PushSteps, PullSteps, TickHolds
  <2>3. m_tickslock \in [Ids -> Threads \cup {NoThread}]
    BY DEF TypeOK
  <2> QED BY <1>18, <2>1, <2>2, <2>3 DEF PullLock, Access, LockTicks, Goto,
       AddHolds, TickHolds
<1>19. ASSUME NEW t \in Threads, PullHead(t) PROVE LockInv'
  <2>1. \A u \in Threads : /\ pc[u]' \in AddHolds <=> pc[u] \in AddHolds
                           /\ pc[u]' \in TickHolds <=> pc[u] \in TickHolds
    BY <1>19 DEF PullHead, Access, Goto, TypeOK, AddHolds, TickHolds
  <2> QED BY <1>19, <2>1 DEF PullHead, Access, Goto
<1>20. ASSUME NEW t \in Threads, PullUnlock(t) PROVE LockInv'
  <2>1. \A u \in Threads : /\ pc[u]' \in AddHolds <=> pc[u] \in AddHolds
                           /\ pc[u]' \in TickHolds <=> pc[u] \in TickHolds /\ u # t
    BY <1>20 DEF PullUnlock, Access, UnlockTicks, Goto, TypeOK, AddHolds,
       TickHolds
  <2>2. req[t].id \in Ids
    BY <1>20, CallUnderWay, CallType DEF PullUnlock, Access, UnlockTicks,
       Goto, CallInv, AddSteps, AddHolds, AccessSteps, PushSteps, PullSteps,
       TickHolds
  <2>3. m_tickslock \in [Ids -> Threads \cup {NoThread}]
    BY DEF TypeOK
  <2> QED BY <1>20, <2>1, <2>2, <2>3 DEF PullUnlock, Access, UnlockTicks, Goto,
       AddHolds, TickHolds
<1>21. ASSUME Advance PROVE LockInv'
  BY <1>21 DEF Advance, TypeOK, CallInv, locals, array, tickers, Ids,
     AddSteps, AddHolds, AccessSteps, PushSteps, PullSteps, TickHolds
<1>22. CASE UNCHANGED vars
  BY <1>22 DEF vars, TypeOK, CallInv, locals, array, tickers, Ids, AddSteps,
     AddHolds, AccessSteps, PushSteps, PullSteps, TickHolds
<1> QED
  BY <1>1, <1>2, <1>3, <1>4, <1>5, <1>6, <1>7, <1>8, <1>9, <1>10, <1>11,
     <1>12, <1>13, <1>14, <1>15, <1>16, <1>17, <1>18, <1>19, <1>20, <1>21, <1>22
     DEF Next, Run, AddStep, PushStep, PullStep

\* No step breaks what a thread knows of its call; in particular a registered
\* id stays registered, because m_ntickers only grows.
LEMMA CallInvStep == StoreInv /\ [Next]_vars => CallInv'
<1> SUFFICES ASSUME TypeOK, LockInv, ArrayInv, CallInv, [Next]_vars PROVE CallInv'
  BY DEF StoreInv
<1> USE StoreAssumption
<1> USE DEF CallInv
<1>1. ASSUME NEW t \in Threads, NEW r \in Calls, Begin(t, r) PROVE CallInv'
  <2>1. /\ pc \in [Threads -> Steps] /\ req \in [Threads -> Calls \cup {NoCall}]
        /\ ptr \in [Threads -> Arrays \cup {NotLoaded}]
        /\ m_ntickers \in Nat /\ m_tickers \in Arrays
    BY DEF TypeOK
  <2> QED BY <1>1, <2>1, CallType DEF Begin, Goto, array, NotLoaded, Arrays,
       AddSteps, AddHolds, AccessSteps, PushSteps, PullSteps, PullOps, DatedOps,
       NameOps
<1>2. ASSUME NEW t \in Threads, Finish(t) PROVE CallInv'
  BY <1>2, CallType DEF Finish, Goto, TypeOK, array, tickers, NotLoaded,
     AddSteps, AddHolds, AccessSteps, PushSteps, PullSteps
<1>3. ASSUME NEW t \in Threads, AddLock(t) PROVE CallInv'
  BY <1>3, CallType DEF AddLock, Goto, TypeOK, locals, array, tickers,
     NotLoaded, AddSteps, AddHolds, AccessSteps, PushSteps, PullSteps
<1>4. ASSUME NEW t \in Threads, AddGrow(t) PROVE CallInv'
  <2>1. /\ pc \in [Threads -> Steps] /\ req \in [Threads -> Calls \cup {NoCall}]
        /\ ptr \in [Threads -> Arrays \cup {NotLoaded}]
        /\ m_ntickers \in Nat /\ m_tickers \in Arrays
    BY DEF TypeOK
  <2>2. m_tickers' >= m_tickers
    BY <1>4, <2>1 DEF AddGrow, Goto, ArrayInv, LockInv, Stage, Arrays,
       AddHolds
  <2> QED BY <1>4, <2>1, <2>2 DEF AddGrow, Goto, locals, NotLoaded, Arrays,
       AddSteps, AddHolds, AccessSteps, PushSteps, PullSteps
<1>5. ASSUME NEW t \in Threads, AddCopy(t) PROVE CallInv'
  BY <1>5, CallType DEF AddCopy, Goto, TypeOK, locals, tickers, NotLoaded,
     AddSteps, AddHolds, AccessSteps, PushSteps, PullSteps
<1>6. ASSUME NEW t \in Threads, AddFree(t) PROVE CallInv'
  BY <1>6, CallType DEF AddFree, Goto, TypeOK, locals, tickers, NotLoaded,
     AddSteps, AddHolds, AccessSteps, PushSteps, PullSteps
<1>7. ASSUME NEW t \in Threads, AddEntry(t) PROVE CallInv'
  BY <1>7, CallType DEF AddEntry, Goto, TypeOK, locals, NotLoaded, AddSteps,
     AddHolds, AccessSteps, PushSteps, PullSteps
<1>8. ASSUME NEW t \in Threads, AddPublish(t) PROVE CallInv'
  <2>1. /\ pc \in [Threads -> Steps] /\ req \in [Threads -> Calls \cup {NoCall}]
        /\ ptr \in [Threads -> Arrays \cup {NotLoaded}]
        /\ m_ntickers \in Nat /\ m_tickers \in Arrays
    BY DEF TypeOK
  <2>2. \A u \in Threads : pc[u] \in AccessSteps => req[u].id \in Nat
    BY CallUnderWay, CallType DEF Ids, CallInv, AccessSteps
  <2> QED BY <1>8, <2>1, <2>2 DEF AddPublish, Goto, ReturnWith, locals,
       NotLoaded, Arrays, AddSteps, AddHolds, AccessSteps, PushSteps, PullSteps
<1>9. ASSUME NEW t \in Threads, GetTicker(t) PROVE CallInv'
  BY <1>9, CallType DEF GetTicker, Goto, ReturnWith, TypeOK, locals, array,
     tickers, NotLoaded, AddSteps, AddHolds, AccessSteps, PushSteps, PullSteps
<1>10. ASSUME NEW t \in Threads, Check(t) PROVE CallInv'
  <2>1. /\ pc \in [Threads -> Steps] /\ req \in [Threads -> Calls \cup {NoCall}]
        /\ ptr \in [Threads -> Arrays \cup {NotLoaded}]
        /\ m_ntickers \in Nat /\ m_tickers \in Arrays
    BY DEF TypeOK
  <2>2. req[t].id \in Nat
    BY <1>10, CallUnderWay, CallType DEF Check, Goto, ReturnWith, Ids, CallInv
  <2>3. ptr[t] = NotLoaded
    BY <1>10 DEF Check, Goto, ReturnWith, AddSteps, AddHolds, AccessSteps,
       PushSteps, PullSteps
  <2> QED BY <1>10, <2>1, <2>2, <2>3 DEF Check, Goto, ReturnWith, array,
       NotLoaded, Arrays, AddSteps, AddHolds, AccessSteps, PushSteps, PullSteps
<1>11. ASSUME NEW t \in Threads, Load(t) PROVE CallInv'
  <2>1. /\ pc \in [Threads -> Steps] /\ req \in [Threads -> Calls \cup {NoCall}]
        /\ ptr \in [Threads -> Arrays \cup {NotLoaded}]
        /\ m_ntickers \in Nat /\ m_tickers \in Arrays
    BY DEF TypeOK
  <2> QED BY <1>11, <2>1, CallType DEF Load, locals, array, NotLoaded, Arrays,
       AddSteps, AddHolds, AccessSteps, PushSteps, PullSteps, PullOps, DatedOps,
       NameOps
<1>12. ASSUME NEW t \in Threads, Wild(t) PROVE CallInv'
  BY <1>12, CallType DEF Wild, TypeOK, locals, array, tickers, NotLoaded,
     AddSteps, AddHolds, AccessSteps, PushSteps, PullSteps
<1>13. ASSUME NEW t \in Threads, PushLock(t) PROVE CallInv'
  BY <1>13, CallType DEF PushLock, Access, LockTicks, Goto, TypeOK, array,
     NotLoaded, AddSteps, AddHolds, AccessSteps, PushSteps, PullSteps
<1>14. ASSUME NEW t \in Threads, PushNext(t) PROVE CallInv'
  BY <1>14, CallType DEF PushNext, Access, Goto, TypeOK, array, NotLoaded,
     AddSteps, AddHolds, AccessSteps, PushSteps, PullSteps
<1>15. ASSUME NEW t \in Threads, PushLink(t) PROVE CallInv'
  BY <1>15, CallType DEF PushLink, Access, Goto, TypeOK, array, NotLoaded,
     AddSteps, AddHolds, AccessSteps, PushSteps, PullSteps
<1>16. ASSUME NEW t \in Threads, PushUnlock(t) PROVE CallInv'
  BY <1>16, CallType DEF PushUnlock, Access, UnlockTicks, Goto, TypeOK, array,
     NotLoaded, AddSteps, AddHolds, AccessSteps, PushSteps, PullSteps
<1>17. ASSUME NEW t \in Threads, PullEmpty(t) PROVE CallInv'
  BY <1>17, CallType DEF PullEmpty, Access, Goto, ReturnWith, TypeOK, array,
     NotLoaded, AddSteps, AddHolds, AccessSteps, PushSteps, PullSteps
<1>18. ASSUME NEW t \in Threads, PullLock(t) PROVE CallInv'
  BY <1>18, CallType DEF PullLock, Access, LockTicks, Goto, TypeOK, array,
     NotLoaded, AddSteps, AddHolds, AccessSteps, PushSteps, PullSteps
<1>19. ASSUME NEW t \in Threads, PullHead(t) PROVE CallInv'
  BY <1>19, CallType DEF PullHead, Access, Goto, TypeOK, array, NotLoaded,
     AddSteps, AddHolds, AccessSteps, PushSteps, PullSteps
<1>20. ASSUME NEW t \in Threads, PullUnlock(t) PROVE CallInv'
  BY <1>20, CallType DEF PullUnlock, Access, UnlockTicks, Goto, TypeOK, array,
     NotLoaded, AddSteps, AddHolds, AccessSteps, PushSteps, PullSteps
<1>21. ASSUME Advance PROVE CallInv'
  BY <1>21, CallType DEF Advance, TypeOK, locals, array, tickers, NotLoaded,
     AddSteps, AddHolds, AccessSteps, PushSteps, PullSteps
<1>22. CASE UNCHANGED vars
  BY <1>22 DEF vars, TypeOK, locals, array, tickers, NotLoaded, AddSteps,
     AddHolds, AccessSteps, PushSteps, PullSteps
<1> QED
  BY <1>1, <1>2, <1>3, <1>4, <1>5, <1>6, <1>7, <1>8, <1>9, <1>10, <1>11,
     <1>12, <1>13, <1>14, <1>15, <1>16, <1>17, <1>18, <1>19, <1>20, <1>21, <1>22
     DEF Next, Run, AddStep, PushStep, PullStep

\* Outside srv_add_ticker nothing moves the registration under way.
LEMMA ArrayFrame ==
  ASSUME TypeOK, LockInv, ArrayInv, NEW t \in Threads, UNCHANGED array,
         UNCHANGED m_tickerslock, pc[t] \notin AddHolds, NEW s,
         \/ UNCHANGED pc
         \/ pc' = [pc EXCEPT ![t] = s]
  PROVE  ArrayInv'
<1>1. Stage' = Stage
  BY DEF Stage, LockInv, TypeOK
<1> QED BY <1>1 DEF ArrayInv, array

\* No step breaks the description of the arrays: only the registration that
\* holds m_tickerslock replaces, copies, frees and fills them.
LEMMA ArrayInvStep == StoreInv /\ [Next]_vars => ArrayInv'
<1> SUFFICES ASSUME TypeOK, LockInv, ArrayInv, CallInv, [Next]_vars PROVE ArrayInv'
  BY DEF StoreInv
<1> USE StoreAssumption
<1>1. ASSUME NEW t \in Threads, NEW r \in Calls, Begin(t, r) PROVE ArrayInv'
  BY <1>1, ArrayFrame DEF Begin, Goto, AddHolds, AccessSteps, PushSteps,
     PullSteps, array, CallInv
<1>2. ASSUME NEW t \in Threads, Finish(t) PROVE ArrayInv'
  BY <1>2, ArrayFrame DEF Finish, Goto, AddHolds, AccessSteps, PushSteps,
     PullSteps, array, CallInv
<1>3. ASSUME NEW t \in Threads, AddLock(t) PROVE ArrayInv'
  <2>1. Stage = "idle" /\ Stage' = "add.grow"
    BY <1>3 DEF AddLock, Goto, Stage, LockInv, TypeOK, AddHolds
  <2>2. /\ m_ntickers \in Nat /\ m_tickers \in Arrays
        /\ slots \in [Arrays -> 0..MaxTickers]
    BY DEF TypeOK
  <2> QED BY <1>3, <2>1, <2>2 DEF ArrayInv, AddLock, Goto, array, Arrays
<1>4. ASSUME NEW t \in Threads, AddGrow(t) PROVE ArrayInv'
  <2>1. Stage = "add.grow" /\ Stage' = "add.copy"
    BY <1>4 DEF AddGrow, Goto, Stage, LockInv, TypeOK, AddHolds
  <2>2. /\ m_ntickers \in Nat /\ m_tickers \in Arrays
        /\ slots \in [Arrays -> 0..MaxTickers]
    BY DEF TypeOK
  <2> QED BY <1>4, <2>1, <2>2 DEF ArrayInv, AddGrow, Goto, Arrays
<1>5. ASSUME NEW t \in Threads, AddCopy(t) PROVE ArrayInv'
  <2>1. Stage = "add.copy" /\ Stage' = "add.free"
    BY <1>5 DEF AddCopy, Goto, Stage, LockInv, TypeOK, AddHolds
  <2>2. /\ m_ntickers \in Nat /\ m_tickers \in Arrays
        /\ slots \in [Arrays -> 0..MaxTickers]
    BY DEF TypeOK
  <2> QED BY <1>5, <2>1, <2>2 DEF ArrayInv, AddCopy, Goto, Arrays
<1>6. ASSUME NEW t \in Threads, AddFree(t) PROVE ArrayInv'
  <2>1. Stage = "add.free" /\ Stage' = "add.entry"
    BY <1>6 DEF AddFree, Goto, Stage, LockInv, TypeOK, AddHolds
  <2>2. /\ m_ntickers \in Nat /\ m_tickers \in Arrays
        /\ slots \in [Arrays -> 0..MaxTickers]
    BY DEF TypeOK
  <2> QED BY <1>6, <2>1, <2>2 DEF ArrayInv, AddFree, Goto, Arrays
<1>7. ASSUME NEW t \in Threads, AddEntry(t) PROVE ArrayInv'
  <2>1. Stage = "add.entry" /\ Stage' = "add.publish"
    BY <1>7 DEF AddEntry, Goto, Stage, LockInv, TypeOK, AddHolds
  <2>2. /\ m_ntickers \in Nat /\ m_tickers \in Arrays
        /\ slots \in [Arrays -> 0..MaxTickers]
    BY DEF TypeOK
  <2> QED BY SMTT(30), <1>7, <2>1, <2>2 DEF ArrayInv, AddEntry, Goto, Arrays
<1>8. ASSUME NEW t \in Threads, AddPublish(t) PROVE ArrayInv'
  <2>1. Stage = "add.publish" /\ Stage' = "idle"
    BY <1>8 DEF AddPublish, Goto, ReturnWith, Stage, LockInv, TypeOK, AddHolds
  <2>2. /\ m_ntickers \in Nat /\ m_tickers \in Arrays
        /\ slots \in [Arrays -> 0..MaxTickers]
    BY DEF TypeOK
  <2> QED BY <1>8, <2>1, <2>2 DEF ArrayInv, AddPublish, Goto, ReturnWith, Arrays
<1>9. ASSUME NEW t \in Threads, GetTicker(t) PROVE ArrayInv'
  BY <1>9, ArrayFrame DEF GetTicker, Goto, ReturnWith, AddHolds, AccessSteps,
     PushSteps, PullSteps, array, CallInv
<1>10. ASSUME NEW t \in Threads, Check(t) PROVE ArrayInv'
  BY <1>10, ArrayFrame DEF Check, Goto, ReturnWith, AddHolds, AccessSteps,
     PushSteps, PullSteps, array, CallInv
<1>11. ASSUME NEW t \in Threads, Load(t) PROVE ArrayInv'
  BY <1>11, ArrayFrame DEF Load, AddHolds, AccessSteps, PushSteps, PullSteps,
     array, CallInv
<1>12. ASSUME NEW t \in Threads, Wild(t) PROVE ArrayInv'
  BY <1>12, ArrayFrame DEF Wild, AddHolds, AccessSteps, PushSteps, PullSteps,
     array, CallInv
<1>13. ASSUME NEW t \in Threads, PushLock(t) PROVE ArrayInv'
  BY <1>13, ArrayFrame DEF PushLock, Access, LockTicks, Goto, AddHolds,
     AccessSteps, PushSteps, PullSteps, array, CallInv
<1>14. ASSUME NEW t \in Threads, PushNext(t) PROVE ArrayInv'
  BY <1>14, ArrayFrame DEF PushNext, Access, Goto, AddHolds, AccessSteps,
     PushSteps, PullSteps, array, CallInv
<1>15. ASSUME NEW t \in Threads, PushLink(t) PROVE ArrayInv'
  BY <1>15, ArrayFrame DEF PushLink, Access, Goto, AddHolds, AccessSteps,
     PushSteps, PullSteps, array, CallInv
<1>16. ASSUME NEW t \in Threads, PushUnlock(t) PROVE ArrayInv'
  BY <1>16, ArrayFrame DEF PushUnlock, Access, UnlockTicks, Goto, AddHolds,
     AccessSteps, PushSteps, PullSteps, array, CallInv
<1>17. ASSUME NEW t \in Threads, PullEmpty(t) PROVE ArrayInv'
  BY <1>17, ArrayFrame DEF PullEmpty, Access, Goto, ReturnWith, AddHolds,
     AccessSteps, PushSteps, PullSteps, array, CallInv
<1>18. ASSUME NEW t \in Threads, PullLock(t) PROVE ArrayInv'
  BY <1>18, ArrayFrame DEF PullLock, Access, LockTicks, Goto, AddHolds,
     AccessSteps, PushSteps, PullSteps, array, CallInv
<1>19. ASSUME NEW t \in Threads, PullHead(t) PROVE ArrayInv'
  BY <1>19, ArrayFrame DEF PullHead, Access, Goto, AddHolds, AccessSteps,
     PushSteps, PullSteps, array, CallInv
<1>20. ASSUME NEW t \in Threads, PullUnlock(t) PROVE ArrayInv'
  BY <1>20, ArrayFrame DEF PullUnlock, Access, UnlockTicks, Goto, AddHolds,
     AccessSteps, PushSteps, PullSteps, array, CallInv
<1>21. ASSUME Advance PROVE ArrayInv'
  BY <1>21 DEF ArrayInv, Advance, array, Stage
<1>22. CASE UNCHANGED vars
  BY <1>22 DEF ArrayInv, vars, array, Stage
<1> QED
  BY <1>1, <1>2, <1>3, <1>4, <1>5, <1>6, <1>7, <1>8, <1>9, <1>10, <1>11,
     <1>12, <1>13, <1>14, <1>15, <1>16, <1>17, <1>18, <1>19, <1>20, <1>21, <1>22
     DEF Next, Run, AddStep, PushStep, PullStep

\* The threads inside srv_add_ticker are a finite set, so they can be counted.
LEMMA AddingFinite ==
  /\ IsFiniteSet(Adding) /\ Cardinality(Adding) \in Nat
  BY StoreAssumption, FS_Subset, FS_CardinalityType DEF Adding

\* A step that leaves every thread inside or outside srv_add_ticker.
LEMMA AddingFrame ==
  ASSUME TypeOK, NEW t \in Threads, NEW s,
         s \in AddSteps <=> pc[t] \in AddSteps,
         \/ UNCHANGED pc
         \/ pc' = [pc EXCEPT ![t] = s]
  PROVE  Adding' = Adding
  BY DEF Adding, TypeOK

\* A step that keeps the registrations, the lists and the locks keeps RoomInv.
LEMMA RoomFrame ==
  ASSUME RoomInv, UNCHANGED <<m_ntickers, m_ticks, m_tickslock>>, Adding' = Adding
  PROVE  RoomInv'
  BY DEF RoomInv

\* No step breaks RoomInv: pushes and locks touch registered tickers only, and
\* each registration under way still has a slot.
LEMMA RoomInvStep == StoreInv /\ [Next]_vars => RoomInv'
<1> SUFFICES ASSUME TypeOK, CallInv, RoomInv, [Next]_vars PROVE RoomInv'
  BY DEF StoreInv
<1> USE StoreAssumption
<1>1. ASSUME NEW t \in Threads, NEW r \in Calls, Begin(t, r) PROVE RoomInv'
  <2>1. m_ntickers \in Nat /\ pc \in [Threads -> Steps]
    BY DEF TypeOK
  <2>2. CASE r.op = "add_ticker"
    <3>1. Adding' = Adding \cup {t} /\ t \notin Adding
      BY <1>1, <2>1, <2>2 DEF Begin, Goto, Adding, AddSteps, AddHolds
    <3>2. Cardinality(Adding') = Cardinality(Adding) + 1
      BY <3>1, AddingFinite, FS_AddElement
    <3>3. m_ntickers + Cardinality(Adding) < MaxTickers
      BY <1>1, <2>2 DEF Begin, InBounds
    <3>4. m_ntickers + Cardinality(Adding') <= MaxTickers
      BY <2>1, <3>2, <3>3, AddingFinite
    <3> QED BY <1>1, <3>4 DEF Begin, Goto, RoomInv, array, tickers
  <2>3. CASE r.op # "add_ticker"
    <3>1. Adding' = Adding
      BY <1>1, <2>1, <2>3 DEF Begin, Goto, Adding, AddSteps, AddHolds
    <3> QED BY <1>1, <3>1, RoomFrame DEF Begin, Goto, array, tickers
  <2> QED BY <2>2, <2>3
<1>2. ASSUME NEW t \in Threads, Finish(t) PROVE RoomInv'
  <2>1. Adding' = Adding
    BY <1>2, AddingFrame DEF Finish, Goto, AddSteps, AddHolds
  <2> QED BY <1>2, <2>1, RoomFrame DEF Finish, Goto, array, tickers
<1>3. ASSUME NEW t \in Threads, AddLock(t) PROVE RoomInv'
  <2>1. Adding' = Adding
    BY <1>3, AddingFrame DEF AddLock, Goto, AddSteps, AddHolds
  <2> QED BY <1>3, <2>1, RoomFrame DEF AddLock, Goto, array, tickers
<1>4. ASSUME NEW t \in Threads, AddGrow(t) PROVE RoomInv'
  <2>1. Adding' = Adding
    BY <1>4, AddingFrame DEF AddGrow, Goto, AddSteps, AddHolds
  <2> QED BY <1>4, <2>1, RoomFrame DEF AddGrow, Goto, tickers
<1>5. ASSUME NEW t \in Threads, AddCopy(t) PROVE RoomInv'
  <2>1. Adding' = Adding
    BY <1>5, AddingFrame DEF AddCopy, Goto, AddSteps, AddHolds
  <2> QED BY <1>5, <2>1, RoomFrame DEF AddCopy, Goto, tickers
<1>6. ASSUME NEW t \in Threads, AddFree(t) PROVE RoomInv'
  <2>1. Adding' = Adding
    BY <1>6, AddingFrame DEF AddFree, Goto, AddSteps, AddHolds
  <2> QED BY <1>6, <2>1, RoomFrame DEF AddFree, Goto, tickers
<1>7. ASSUME NEW t \in Threads, AddEntry(t) PROVE RoomInv'
  <2>1. Adding' = Adding
    BY <1>7, AddingFrame DEF AddEntry, Goto, AddSteps, AddHolds
  <2>2. m_ticks \in [Ids -> Seq(Ticks)] /\ m_tickslock \in [Ids -> Threads \cup {NoThread}]
    BY DEF TypeOK
  <2> QED BY <1>7, <2>1, <2>2 DEF AddEntry, Goto, RoomInv
<1>8. ASSUME NEW t \in Threads, AddPublish(t) PROVE RoomInv'
  <2>1. m_ntickers \in Nat /\ pc \in [Threads -> Steps]
    BY DEF TypeOK
  <2>2. Adding' = Adding \ {t} /\ t \in Adding
    BY <1>8, <2>1 DEF AddPublish, Goto, ReturnWith, Adding, AddSteps, AddHolds
  <2>3. Cardinality(Adding') = Cardinality(Adding) - 1
    BY <2>2, AddingFinite, FS_RemoveElement
  <2>4. m_ntickers' + Cardinality(Adding') <= MaxTickers
    BY <1>8, <2>1, <2>3, AddingFinite DEF AddPublish, RoomInv
  <2>5. \A j \in Ids : j >= m_ntickers' => j >= m_ntickers
    BY <1>8, <2>1 DEF AddPublish, Ids
  <2> QED BY <1>8, <2>4, <2>5 DEF AddPublish, Goto, ReturnWith, RoomInv, tickers
<1>9. ASSUME NEW t \in Threads, GetTicker(t) PROVE RoomInv'
  <2>1. Adding' = Adding
    BY <1>9, AddingFrame DEF GetTicker, Goto, ReturnWith, AddSteps, AddHolds
  <2> QED BY <1>9, <2>1, RoomFrame DEF GetTicker, Goto, ReturnWith, array, tickers
<1>10. ASSUME NEW t \in Threads, Check(t) PROVE RoomInv'
  <2>1. pc[t] \notin AddSteps /\ pc'[t] \notin AddSteps
    BY <1>10 DEF Check, Goto, ReturnWith, TypeOK, AddSteps, AddHolds
  <2>2. Adding' = Adding
    BY <1>10, <2>1 DEF Check, Goto, ReturnWith, TypeOK, Adding
  <2> QED BY <1>10, <2>2, RoomFrame DEF Check, Goto, ReturnWith, array, tickers
<1>11. ASSUME NEW t \in Threads, Load(t) PROVE RoomInv'
  <2>1. Adding' = Adding
    BY <1>11, AddingFrame DEF Load, AddSteps, AddHolds
  <2> QED BY <1>11, <2>1, RoomFrame DEF Load, array, tickers
<1>12. ASSUME NEW t \in Threads, Wild(t) PROVE RoomInv'
  <2>1. Adding' = Adding
    BY <1>12, AddingFrame DEF Wild, AddSteps, AddHolds
  <2> QED BY <1>12, <2>1, RoomFrame DEF Wild, array, tickers
<1>13. ASSUME NEW t \in Threads, PushLock(t) PROVE RoomInv'
  <2>1. Adding' = Adding
    BY <1>13, AddingFrame DEF PushLock, Access, LockTicks, Goto, AddSteps,
       AddHolds
  <2>2. req[t].id \in Ids /\ req[t].id < m_ntickers
    BY <1>13, CallUnderWay, CallType DEF PushLock, Access, LockTicks, Goto,
       CallInv, AddSteps, AddHolds, AccessSteps, PushSteps, PullSteps
  <2>3. m_ticks \in [Ids -> Seq(Ticks)] /\ m_tickslock \in [Ids -> Threads \cup {NoThread}]
    BY DEF TypeOK
  <2>4. m_ntickers \in Nat
    BY DEF TypeOK
  <2>5. \A j \in Ids : j >= m_ntickers =>
          m_ticks'[j] = m_ticks[j] /\ m_tickslock'[j] = m_tickslock[j]
    BY <1>13, <2>2, <2>3, <2>4 DEF PushLock, Access, LockTicks, Goto, Ids
  <2> QED BY <1>13, <2>1, <2>5 DEF PushLock, Access, LockTicks, Goto, RoomInv, array
<1>14. ASSUME NEW t \in Threads, PushNext(t) PROVE RoomInv'
  <2>1. Adding' = Adding
    BY <1>14, AddingFrame DEF PushNext, Access, Goto, AddSteps, AddHolds
  <2> QED BY <1>14, <2>1, RoomFrame DEF PushNext, Access, Goto, array
<1>15. ASSUME NEW t \in Threads, PushLink(t) PROVE RoomInv'
  <2>1. Adding' = Adding
    BY <1>15, AddingFrame DEF PushLink, Access, Goto, AddSteps, AddHolds
  <2>2. req[t].id \in Ids /\ req[t].id < m_ntickers
    BY <1>15, CallUnderWay, CallType DEF PushLink, Access, Goto, CallInv,
       AddSteps, AddHolds, AccessSteps, PushSteps, PullSteps
  <2>3. m_ticks \in [Ids -> Seq(Ticks)] /\ m_tickslock \in [Ids -> Threads \cup {NoThread}]
    BY DEF TypeOK
  <2>4. m_ntickers \in Nat
    BY DEF TypeOK
  <2>5. \A j \in Ids : j >= m_ntickers =>
          m_ticks'[j] = m_ticks[j] /\ m_tickslock'[j] = m_tickslock[j]
    BY <1>15, <2>2, <2>3, <2>4 DEF PushLink, Access, Goto, Ids
  <2> QED BY <1>15, <2>1, <2>5 DEF PushLink, Access, Goto, RoomInv, array
<1>16. ASSUME NEW t \in Threads, PushUnlock(t) PROVE RoomInv'
  <2>1. Adding' = Adding
    BY <1>16, AddingFrame DEF PushUnlock, Access, UnlockTicks, Goto, AddSteps,
       AddHolds
  <2>2. req[t].id \in Ids /\ req[t].id < m_ntickers
    BY <1>16, CallUnderWay, CallType DEF PushUnlock, Access, UnlockTicks,
       Goto, CallInv, AddSteps, AddHolds, AccessSteps, PushSteps, PullSteps
  <2>3. m_ticks \in [Ids -> Seq(Ticks)] /\ m_tickslock \in [Ids -> Threads \cup {NoThread}]
    BY DEF TypeOK
  <2>4. m_ntickers \in Nat
    BY DEF TypeOK
  <2>5. \A j \in Ids : j >= m_ntickers =>
          m_ticks'[j] = m_ticks[j] /\ m_tickslock'[j] = m_tickslock[j]
    BY <1>16, <2>2, <2>3, <2>4 DEF PushUnlock, Access, UnlockTicks, Goto, Ids
  <2> QED BY <1>16, <2>1, <2>5 DEF PushUnlock, Access, UnlockTicks, Goto,
       RoomInv, array
<1>17. ASSUME NEW t \in Threads, PullEmpty(t) PROVE RoomInv'
  <2>1. pc[t] \notin AddSteps /\ pc'[t] \notin AddSteps
    BY <1>17 DEF PullEmpty, Access, Goto, ReturnWith, TypeOK, AddSteps,
       AddHolds
  <2>2. Adding' = Adding
    BY <1>17, <2>1 DEF PullEmpty, Access, Goto, ReturnWith, TypeOK, Adding
  <2> QED BY <1>17, <2>2, RoomFrame DEF PullEmpty, Access, Goto, ReturnWith, array
<1>18. ASSUME NEW t \in Threads, PullLock(t) PROVE RoomInv'
  <2>1. Adding' = Adding
    BY <1>18, AddingFrame DEF PullLock, Access, LockTicks, Goto, AddSteps,
       AddHolds
  <2>2. req[t].id \in Ids /\ req[t].id < m_ntickers
    BY <1>18, CallUnderWay, CallType DEF PullLock, Access, LockTicks, Goto,
       CallInv, AddSteps, AddHolds, AccessSteps, PushSteps, PullSteps
  <2>3. m_ticks \in [Ids -> Seq(Ticks)] /\ m_tickslock \in [Ids -> Threads \cup {NoThread}]
    BY DEF TypeOK
  <2>4. m_ntickers \in Nat
    BY DEF TypeOK
  <2>5. \A j \in Ids : j >= m_ntickers =>
          m_ticks'[j] = m_ticks[j] /\ m_tickslock'[j] = m_tickslock[j]
    BY <1>18, <2>2, <2>3, <2>4 DEF PullLock, Access, LockTicks, Goto, Ids
  <2> QED BY <1>18, <2>1, <2>5 DEF PullLock, Access, LockTicks, Goto, RoomInv, array
<1>19. ASSUME NEW t \in Threads, PullHead(t) PROVE RoomInv'
  <2>1. Adding' = Adding
    BY <1>19, AddingFrame DEF PullHead, Access, Goto, AddSteps, AddHolds
  <2> QED BY <1>19, <2>1, RoomFrame DEF PullHead, Access, Goto, array
<1>20. ASSUME NEW t \in Threads, PullUnlock(t) PROVE RoomInv'
  <2>1. Adding' = Adding
    BY <1>20, AddingFrame DEF PullUnlock, Access, UnlockTicks, Goto, AddSteps,
       AddHolds
  <2>2. req[t].id \in Ids /\ req[t].id < m_ntickers
    BY <1>20, CallUnderWay, CallType DEF PullUnlock, Access, UnlockTicks,
       Goto, CallInv, AddSteps, AddHolds, AccessSteps, PushSteps, PullSteps
  <2>3. m_ticks \in [Ids -> Seq(Ticks)] /\ m_tickslock \in [Ids -> Threads \cup {NoThread}]
    BY DEF TypeOK
  <2>4. m_ntickers \in Nat
    BY DEF TypeOK
  <2>5. \A j \in Ids : j >= m_ntickers =>
          m_ticks'[j] = m_ticks[j] /\ m_tickslock'[j] = m_tickslock[j]
    BY <1>20, <2>2, <2>3, <2>4 DEF PullUnlock, Access, UnlockTicks, Goto, Ids
  <2> QED BY <1>20, <2>1, <2>5 DEF PullUnlock, Access, UnlockTicks, Goto,
       RoomInv, array
<1>21. ASSUME Advance PROVE RoomInv'
  BY <1>21, RoomFrame DEF Advance, Adding, array, tickers
<1>22. CASE UNCHANGED vars
  BY <1>22, RoomFrame DEF vars, Adding, array, tickers
<1> QED
  BY <1>1, <1>2, <1>3, <1>4, <1>5, <1>6, <1>7, <1>8, <1>9, <1>10, <1>11,
     <1>12, <1>13, <1>14, <1>15, <1>16, <1>17, <1>18, <1>19, <1>20, <1>21, <1>22
     DEF Next, Run, AddStep, PushStep, PullStep

\* A step that moves no list and does not bring a thread to a linking step.
LEMMA LinkFrame ==
  ASSUME LinkInv, UNCHANGED m_ticks,
         \A t \in Threads : pc'[t] \in {"push.lock", "push.next", "push.link",
                                     "pull.lock", "pull.head"} =>
           pc'[t] = pc[t] /\ new_tick'[t] = new_tick[t] /\ req'[t] = req[t]
  PROVE  LinkInv'
  BY DEF LinkInv

\* No step breaks LinkInv: between the read of a list's head and the store of
\* the new one, the lock of the ticker keeps every other push away.
LEMMA LinkInvStep == StoreInv /\ [Next]_vars => LinkInv'
<1> SUFFICES ASSUME TypeOK, LockInv, CallInv, RoomInv, LinkInv, [Next]_vars PROVE LinkInv'
  BY DEF StoreInv
<1> USE StoreAssumption
<1>1. ASSUME NEW t \in Threads, NEW r \in Calls, Begin(t, r) PROVE LinkInv'
  BY <1>1, LinkFrame DEF Begin, Goto, tickers, TypeOK
<1>2. ASSUME NEW t \in Threads, Finish(t) PROVE LinkInv'
  BY <1>2, LinkFrame DEF Finish, Goto, tickers, TypeOK
<1>3. ASSUME NEW t \in Threads, AddLock(t) PROVE LinkInv'
  BY <1>3, LinkFrame DEF AddLock, Goto, tickers, locals, TypeOK
<1>4. ASSUME NEW t \in Threads, AddGrow(t) PROVE LinkInv'
  BY <1>4, LinkFrame DEF AddGrow, Goto, tickers, locals, TypeOK
<1>5. ASSUME NEW t \in Threads, AddCopy(t) PROVE LinkInv'
  BY <1>5, LinkFrame DEF AddCopy, Goto, tickers, locals, TypeOK
<1>6. ASSUME NEW t \in Threads, AddFree(t) PROVE LinkInv'
  BY <1>6, LinkFrame DEF AddFree, Goto, tickers, locals, TypeOK
<1>7. ASSUME NEW t \in Threads, AddEntry(t) PROVE LinkInv'
  <2>1. UNCHANGED m_ticks
    BY <1>7 DEF AddEntry, TypeOK, RoomInv, Ids
  <2> QED BY <1>7, <2>1, LinkFrame DEF AddEntry, Goto, locals, TypeOK
<1>8. ASSUME NEW t \in Threads, AddPublish(t) PROVE LinkInv'
  BY <1>8, LinkFrame DEF AddPublish, Goto, ReturnWith, tickers, locals, TypeOK
<1>9. ASSUME NEW t \in Threads, GetTicker(t) PROVE LinkInv'
  BY <1>9, LinkFrame DEF GetTicker, Goto, ReturnWith, tickers, locals, TypeOK
<1>10. ASSUME NEW t \in Threads, Check(t) PROVE LinkInv'
  <2>1. \A u \in Threads \ {t} : pc'[u] = pc[u] /\ new_tick'[u] = new_tick[u]
    BY <1>10 DEF Check, Goto, ReturnWith, TypeOK
  <2>2. pc'[t] = "push.lock" => \E k \in Ticks : new_tick'[t] = <<k>>
    <3>1. ASSUME pc'[t] = "push.lock"
          PROVE  [data |-> req[t].data, time |-> now] \in Ticks
      <4>1. req[t] \in Calls /\ req[t].op = "push_tick"
        BY <1>10, <3>1, CallUnderWay DEF Check, Goto, ReturnWith, TypeOK
      <4> QED BY <4>1, CallType DEF TypeOK, Ticks, Tick
    <3> QED BY <1>10, <3>1 DEF Check, Goto, ReturnWith, TypeOK
  <2>3. pc'[t] \in {"push.lock", "pull.empty", "return"}
    BY <1>10 DEF Check, Goto, ReturnWith, TypeOK
  <2> QED BY ZenonT(60), <1>10, <2>1, <2>2, <2>3 DEF LinkInv, Check, tickers
<1>11. ASSUME NEW t \in Threads, Load(t) PROVE LinkInv'
  BY <1>11, LinkFrame DEF Load, tickers, locals
<1>12. ASSUME NEW t \in Threads, Wild(t) PROVE LinkInv'
  BY <1>12, LinkFrame DEF Wild, tickers, locals
<1>13. ASSUME NEW t \in Threads, PushLock(t) PROVE LinkInv'
  BY <1>13 DEF LinkInv, PushLock, Access, LockTicks, Goto, TypeOK
<1>14. ASSUME NEW t \in Threads, PushNext(t) PROVE LinkInv'
  <2>1. PICK k \in Ticks : new_tick[t] = <<k>>
    BY <1>14 DEF PushNext, Access, Goto, LinkInv
  <2>2. new_tick'[t] = <<k>> \o m_ticks[req[t].id]
    BY <1>14, <2>1 DEF PushNext, Access, Goto, TypeOK
  <2> QED BY <1>14, <2>2 DEF LinkInv, PushNext, Access, Goto, TypeOK
<1>15. ASSUME NEW t \in Threads, PushLink(t) PROVE LinkInv'
  <2>1. PICK k \in Ticks : new_tick[t] = <<k>> \o m_ticks[req[t].id]
    BY <1>15 DEF PushLink, Access, Goto, LinkInv
  <2>2. req[t].id \in Ids /\ m_ticks \in [Ids -> Seq(Ticks)]
    BY <1>15, CallUnderWay, CallType DEF PushLink, Access, Goto, TypeOK,
       CallInv, AddSteps, AddHolds, AccessSteps, PushSteps, PullSteps
  <2>3. <<k>> \o m_ticks[req[t].id] # <<>>
    BY <2>2
  <2>4. m_ticks' = [m_ticks EXCEPT ![req[t].id] = <<k>> \o m_ticks[req[t].id]]
    BY <1>15, <2>1 DEF PushLink
  <2>5. \A u \in Threads \ {t} : pc'[u] = pc[u] /\ new_tick'[u] = new_tick[u]
    BY <1>15 DEF PushLink, Access, Goto, TypeOK
  <2>6. pc'[t] = "push.unlock" /\ req' = req
    BY <1>15 DEF PushLink, Access, Goto, TypeOK
  <2>7. \A u \in Threads \ {t} : pc[u] \in TickHolds => req[u].id # req[t].id
    BY <1>15, <2>2 DEF PushLink, Access, Goto, LockInv, TickHolds
  <2>8. \A u \in Threads : pc[u] \in AccessSteps => req[u].id \in Ids
    BY CallUnderWay, CallType DEF CallInv, AccessSteps
  <2>9. ASSUME NEW u \in Threads \ {t} PROVE
          /\ pc[u] \in {"push.lock", "push.next"} =>
               \E j \in Ticks : new_tick[u] = <<j>>
          /\ pc[u] = "push.link" =>
               \E j \in Ticks : new_tick[u] = <<j>> \o m_ticks'[req[u].id]
          /\ pc[u] \in {"pull.head", "pull.lock"} => m_ticks'[req[u].id] # <<>>
    <3>1. pc[u] \in {"push.link", "pull.head"} =>
            m_ticks'[req[u].id] = m_ticks[req[u].id]
      BY <2>2, <2>4, <2>7, <2>8 DEF AccessSteps, PushSteps, PullSteps,
         TickHolds
    <3>2. pc[u] = "pull.lock" => m_ticks'[req[u].id] # <<>>
      BY <2>2, <2>3, <2>4, <2>8 DEF LinkInv, AccessSteps, PushSteps,
         PullSteps, TickHolds
    <3> QED BY <3>1, <3>2 DEF LinkInv
  <2>10. ASSUME NEW u \in Threads PROVE
           /\ pc'[u] \in {"push.lock", "push.next"} =>
                \E j \in Ticks : new_tick'[u] = <<j>>
           /\ pc'[u] = "push.link" =>
                \E j \in Ticks : new_tick'[u] = <<j>> \o m_ticks'[req'[u].id]
           /\ pc'[u] \in {"pull.head", "pull.lock"} => m_ticks'[req'[u].id] # <<>>
    BY ZenonT(60), <2>5, <2>6, <2>9
  <2> QED BY <2>10 DEF LinkInv
<1>16. ASSUME NEW t \in Threads, PushUnlock(t) PROVE LinkInv'
  BY <1>16, LinkFrame DEF PushUnlock, Access, UnlockTicks, Goto, TypeOK
<1>17. ASSUME NEW t \in Threads, PullEmpty(t) PROVE LinkInv'
  BY ZenonT(60), <1>17 DEF LinkInv, PullEmpty, Access, Goto, ReturnWith, TypeOK
<1>18. ASSUME NEW t \in Threads, PullLock(t) PROVE LinkInv'
  BY <1>18 DEF LinkInv, PullLock, Access, LockTicks, Goto, TypeOK
<1>19. ASSUME NEW t \in Threads, PullHead(t) PROVE LinkInv'
  BY <1>19, LinkFrame DEF PullHead, Access, Goto, TypeOK
<1>20. ASSUME NEW t \in Threads, PullUnlock(t) PROVE LinkInv'
  BY <1>20, LinkFrame DEF PullUnlock, Access, UnlockTicks, Goto, TypeOK
<1>21. ASSUME Advance PROVE LinkInv'
  BY <1>21, LinkFrame DEF Advance, tickers, locals
<1>22. CASE UNCHANGED vars
  BY <1>22, LinkFrame DEF vars, tickers, locals
<1> QED
  BY <1>1, <1>2, <1>3, <1>4, <1>5, <1>6, <1>7, <1>8, <1>9, <1>10, <1>11,
     <1>12, <1>13, <1>14, <1>15, <1>16, <1>17, <1>18, <1>19, <1>20, <1>21, <1>22
     DEF Next, Run, AddStep, PushStep, PullStep

\* There is room for the registration that a thread is making.
LEMMA RoomForOne ==
  ASSUME TypeOK, RoomInv, NEW t \in Threads, pc[t] \in AddSteps
  PROVE  m_ntickers < MaxTickers
<1>1. Adding # {}
  BY DEF Adding
<1>2. Cardinality(Adding) # 0
  BY <1>1, AddingFinite, FS_EmptySet
<1> QED BY <1>2, AddingFinite, StoreAssumption DEF RoomInv, TypeOK

\* No step breaks the types.
LEMMA TypeStep == StoreInv /\ [Next]_vars => TypeOK'
<1> SUFFICES ASSUME TypeOK, CallInv, RoomInv, LinkInv, [Next]_vars PROVE TypeOK'
  BY DEF StoreInv
<1> USE StoreAssumption
<1>1. ASSUME NEW t \in Threads, NEW r \in Calls, Begin(t, r) PROVE TypeOK'
  <2>1. pc' \in [Threads -> Steps]
    BY <1>1 DEF Begin, Goto, TypeOK, Steps, AddSteps, AddHolds, AccessSteps,
       PushSteps, PullSteps
  <2> QED BY <1>1, <2>1 DEF Begin, Goto, TypeOK, array, tickers
<1>2. ASSUME NEW t \in Threads, Finish(t) PROVE TypeOK'
  <2>1. pc' \in [Threads -> Steps]
    BY <1>2 DEF Finish, Goto, TypeOK, Steps, AddSteps, AddHolds, AccessSteps,
       PushSteps, PullSteps
  <2>2. NoResult \in Results(Ids, Ticks)
    BY DEF NoResult, Results, StoreErrors
  <2>3. <<>> \in Seq(Ticks)
    OBVIOUS
  <2> QED BY <1>2, <2>1, <2>2, <2>3 DEF Finish, Goto, TypeOK, array, tickers
<1>3. ASSUME NEW t \in Threads, AddLock(t) PROVE TypeOK'
  <2>1. pc' \in [Threads -> Steps]
    BY <1>3 DEF AddLock, Goto, TypeOK, Steps, AddSteps, AddHolds, AccessSteps,
       PushSteps, PullSteps
  <2> QED BY <1>3, <2>1 DEF AddLock, Goto, TypeOK, array, tickers, locals
<1>4. ASSUME NEW t \in Threads, AddGrow(t) PROVE TypeOK'
  <2>1. pc' \in [Threads -> Steps]
    BY <1>4 DEF AddGrow, Goto, TypeOK, Steps, AddSteps, AddHolds, AccessSteps,
       PushSteps, PullSteps
  <2>2. m_ntickers < MaxTickers /\ m_ntickers \in Nat
    BY <1>4, RoomForOne DEF AddGrow, Goto, AddHolds, AddSteps, TypeOK
  <2> QED BY <1>4, <2>1, <2>2 DEF AddGrow, Goto, Arrays, TypeOK, tickers, locals
<1>5. ASSUME NEW t \in Threads, AddCopy(t) PROVE TypeOK'
  <2>1. pc' \in [Threads -> Steps]
    BY <1>5 DEF AddCopy, Goto, TypeOK, Steps, AddSteps, AddHolds, AccessSteps,
       PushSteps, PullSteps
  <2>2. m_ntickers < MaxTickers /\ m_ntickers \in Nat
    BY <1>5, RoomForOne DEF AddCopy, Goto, AddHolds, AddSteps, TypeOK
  <2> QED BY <1>5, <2>1, <2>2 DEF AddCopy, Goto, Arrays, TypeOK, tickers, locals
<1>6. ASSUME NEW t \in Threads, AddFree(t) PROVE TypeOK'
  <2>1. pc' \in [Threads -> Steps]
    BY <1>6 DEF AddFree, Goto, TypeOK, Steps, AddSteps, AddHolds, AccessSteps,
       PushSteps, PullSteps
  <2>2. m_ntickers < MaxTickers /\ m_ntickers \in Nat
    BY <1>6, RoomForOne DEF AddFree, Goto, AddHolds, AddSteps, TypeOK
  <2>3. 0 \in 0..MaxTickers
    OBVIOUS
  <2> QED BY <1>6, <2>1, <2>2, <2>3 DEF AddFree, Goto, TypeOK, tickers, locals
<1>7. ASSUME NEW t \in Threads, AddEntry(t) PROVE TypeOK'
  <2>1. pc' \in [Threads -> Steps]
    BY <1>7 DEF AddEntry, Goto, TypeOK, Steps, AddSteps, AddHolds,
       AccessSteps, PushSteps, PullSteps
  <2>2. m_ntickers < MaxTickers /\ m_ntickers \in Nat
    BY <1>7, RoomForOne DEF AddEntry, Goto, AddHolds, AddSteps, TypeOK
  <2>3. req[t].name \in Names
    BY <1>7, CallUnderWay, CallType DEF AddEntry, Goto, CallInv, AddSteps,
       AddHolds, NameOps
  <2>4. <<>> \in Seq(Ticks) /\ m_ntickers \in Ids
    BY <2>2 DEF Ids
  <2> QED BY <1>7, <2>1, <2>2, <2>3, <2>4 DEF AddEntry, Goto, TypeOK, locals
<1>8. ASSUME NEW t \in Threads, AddPublish(t) PROVE TypeOK'
  <2>1. pc' \in [Threads -> Steps]
    BY <1>8 DEF AddPublish, Goto, ReturnWith, TypeOK, Steps, AddSteps,
       AddHolds, AccessSteps, PushSteps, PullSteps
  <2>2. m_ntickers < MaxTickers /\ m_ntickers \in Nat
    BY <1>8, RoomForOne DEF AddPublish, Goto, ReturnWith, AddHolds, AddSteps,
       TypeOK
  <2>3. Found(m_ntickers) \in Results(Ids, Ticks)
    BY <2>2 DEF Results, Ids
  <2> QED BY <1>8, <2>1, <2>2, <2>3 DEF AddPublish, Goto, ReturnWith, TypeOK,
       tickers, locals
<1>9. ASSUME NEW t \in Threads, GetTicker(t) PROVE TypeOK'
  <2>1. pc' \in [Threads -> Steps]
    BY <1>9 DEF GetTicker, Goto, ReturnWith, TypeOK, Steps, AddSteps,
       AddHolds, AccessSteps, PushSteps, PullSteps
  <2> DEFINE hits == Matches(req[t].name)
  <2>2. hits # {} => Min(hits) \in Ids
    <3>1. hits \in SUBSET Nat /\ hits \subseteq Ids
      BY DEF Matches, Ids
    <3> HIDE DEF hits
    <3> QED BY <3>1, MinOfNat
  <2>3. Status("UNKNOWN") \in Results(Ids, Ticks)
    BY DEF Results, StoreErrors
  <2>4. hits # {} => Found(Min(hits)) \in Results(Ids, Ticks)
    BY <2>2 DEF Results
  <2>5. res' \in [Threads -> Results(Ids, Ticks)]
    <3> HIDE DEF hits
    <3>1. res' = [res EXCEPT ![t] = IF hits = {} THEN Status("UNKNOWN") ELSE Found(Min(hits))]
      BY <1>9 DEF GetTicker, ReturnWith, hits
    <3> QED BY <2>3, <2>4, <3>1 DEF TypeOK
  <2> QED BY <1>9, <2>1, <2>5 DEF GetTicker, Goto, ReturnWith, TypeOK, array,
       tickers, locals
<1>10. ASSUME NEW t \in Threads, Check(t) PROVE TypeOK'
  <2>1. pc' \in [Threads -> Steps]
    BY ZenonT(60), <1>10 DEF Check, Goto, ReturnWith, TypeOK, Steps, AddSteps, AddHolds,
       AccessSteps, PushSteps, PullSteps
  <2>2. Status("UNKNOWN_TICKER") \in Results(Ids, Ticks)
    BY DEF Results, StoreErrors
  <2>3. req[t].op = "push_tick" =>
          <<[data |-> req[t].data, time |-> now]>> \in Seq(Ticks)
    <3>1. ASSUME req[t].op = "push_tick"
          PROVE  [data |-> req[t].data, time |-> now] \in Ticks
      <4>1. req[t] \in Calls
        BY <1>10, CallUnderWay DEF Check
      <4> QED BY <3>1, <4>1, CallType DEF TypeOK, Ticks, Tick
    <3> QED BY <3>1
  <2>4. res' \in [Threads -> Results(Ids, Ticks)]
    BY <1>10, <2>2 DEF Check, Goto, ReturnWith, TypeOK
  <2>5. new_tick' \in [Threads -> Seq(Ticks)]
    BY <1>10, <2>3 DEF Check, Goto, ReturnWith, TypeOK
  <2>6. UNCHANGED <<array, tickers, m_tickerslock, m_tickslock, now, req, ptr,
                    crashed>>
    BY <1>10 DEF Check
  <2> QED BY <2>1, <2>4, <2>5, <2>6 DEF TypeOK, array, tickers
<1>11. ASSUME NEW t \in Threads, Load(t) PROVE TypeOK'
  BY <1>11 DEF Load, TypeOK, array, tickers, locals
<1>12. ASSUME NEW t \in Threads, Wild(t) PROVE TypeOK'
  BY <1>12 DEF Wild, TypeOK, array, tickers, locals
<1>13. ASSUME NEW t \in Threads, PushLock(t) PROVE TypeOK'
  <2>1. pc' \in [Threads -> Steps]
    BY <1>13 DEF PushLock, Access, LockTicks, Goto, TypeOK, Steps, AddSteps,
       AddHolds, AccessSteps, PushSteps, PullSteps
  <2>2. req[t].id \in Ids
    BY <1>13, CallUnderWay, CallType DEF PushLock, Access, LockTicks, Goto,
       CallInv, AddSteps, AddHolds, AccessSteps, PushSteps, PullSteps
  <2> QED BY <1>13, <2>1, <2>2 DEF PushLock, Access, LockTicks, Goto, TypeOK, array
<1>14. ASSUME NEW t \in Threads, PushNext(t) PROVE TypeOK'
  <2>1. pc' \in [Threads -> Steps]
    BY <1>14 DEF PushNext, Access, Goto, TypeOK, Steps, AddSteps, AddHolds,
       AccessSteps, PushSteps, PullSteps
  <2>2. req[t].id \in Ids
    BY <1>14, CallUnderWay, CallType DEF PushNext, Access, Goto, CallInv,
       AddSteps, AddHolds, AccessSteps, PushSteps, PullSteps
  <2>3. new_tick[t] \o m_ticks[req[t].id] \in Seq(Ticks)
    BY <2>2 DEF TypeOK
  <2> QED BY <1>14, <2>1, <2>2, <2>3 DEF PushNext, Access, Goto, TypeOK, array
<1>15. ASSUME NEW t \in Threads, PushLink(t) PROVE TypeOK'
  <2>1. pc' \in [Threads -> Steps]
    BY <1>15 DEF PushLink, Access, Goto, TypeOK, Steps, AddSteps, AddHolds,
       AccessSteps, PushSteps, PullSteps
  <2>2. req[t].id \in Ids
    BY <1>15, CallUnderWay, CallType DEF PushLink, Access, Goto, CallInv,
       AddSteps, AddHolds, AccessSteps, PushSteps, PullSteps
  <2>3. Status("SUCCESS") \in Results(Ids, Ticks)
    BY DEF Results, StoreErrors
  <2> QED BY <1>15, <2>1, <2>2, <2>3 DEF PushLink, Access, Goto, TypeOK, array
<1>16. ASSUME NEW t \in Threads, PushUnlock(t) PROVE TypeOK'
  <2>1. pc' \in [Threads -> Steps]
    BY <1>16 DEF PushUnlock, Access, UnlockTicks, Goto, TypeOK, Steps,
       AddSteps, AddHolds, AccessSteps, PushSteps, PullSteps
  <2>2. req[t].id \in Ids
    BY <1>16, CallUnderWay, CallType DEF PushUnlock, Access, UnlockTicks,
       Goto, CallInv, AddSteps, AddHolds, AccessSteps, PushSteps, PullSteps
  <2> QED BY <1>16, <2>1, <2>2 DEF PushUnlock, Access, UnlockTicks, Goto,
       TypeOK, array
<1>17. ASSUME NEW t \in Threads, PullEmpty(t) PROVE TypeOK'
  <2>1. pc' \in [Threads -> Steps]
    BY <1>17 DEF PullEmpty, Access, Goto, ReturnWith, TypeOK, Steps, AddSteps,
       AddHolds, AccessSteps, PushSteps, PullSteps
  <2>2. Status("NO_TICKDATA") \in Results(Ids, Ticks)
    BY DEF Results, StoreErrors
  <2> QED BY <1>17, <2>1, <2>2 DEF PullEmpty, Access, Goto, ReturnWith, TypeOK,
       array
<1>18. ASSUME NEW t \in Threads, PullLock(t) PROVE TypeOK'
  <2>1. pc' \in [Threads -> Steps]
    BY <1>18 DEF PullLock, Access, LockTicks, Goto, TypeOK, Steps, AddSteps,
       AddHolds, AccessSteps, PushSteps, PullSteps
  <2>2. req[t].id \in Ids
    BY <1>18, CallUnderWay, CallType DEF PullLock, Access, LockTicks, Goto,
       CallInv, AddSteps, AddHolds, AccessSteps, PushSteps, PullSteps
  <2> QED BY <1>18, <2>1, <2>2 DEF PullLock, Access, LockTicks, Goto, TypeOK, array
<1>19. ASSUME NEW t \in Threads, PullHead(t) PROVE TypeOK'
  <2>1. pc' \in [Threads -> Steps]
    BY <1>19 DEF PullHead, Access, Goto, TypeOK, Steps, AddSteps, AddHolds,
       AccessSteps, PushSteps, PullSteps
  <2>2. req[t].id \in Ids
    BY <1>19, CallUnderWay, CallType DEF PullHead, Access, Goto, CallInv,
       AddSteps, AddHolds, AccessSteps, PushSteps, PullSteps
  <2>3. m_ticks[req[t].id] \in Seq(Ticks) /\ m_ticks[req[t].id] # <<>>
    BY <1>19, <2>2 DEF PullHead, Access, Goto, LinkInv, TypeOK
  <2>4. req[t].op \in PullOps /\ (req[t].op \in DatedOps => req[t].at \in Times)
    BY <1>19, CallUnderWay, CallType DEF PullHead, Access, Goto, CallInv,
       AddSteps, AddHolds, AccessSteps, PushSteps, PullSteps
  <2>5. Selection(req[t], m_ticks[req[t].id]) \in Results(Ids, Ticks)
    BY <2>3, <2>4, SelectionType, Zenon DEF Ticks, StoreAssumption
  <2> QED BY <1>19, <2>1, <2>2, <2>5 DEF PullHead, Access, Goto, TypeOK, array
<1>20. ASSUME NEW t \in Threads, PullUnlock(t) PROVE TypeOK'
  <2>1. pc' \in [Threads -> Steps]
    BY <1>20 DEF PullUnlock, Access, UnlockTicks, Goto, TypeOK, Steps,
       AddSteps, AddHolds, AccessSteps, PushSteps, PullSteps
  <2>2. req[t].id \in Ids
    BY <1>20, CallUnderWay, CallType DEF PullUnlock, Access, UnlockTicks,
       Goto, CallInv, AddSteps, AddHolds, AccessSteps, PushSteps, PullSteps
  <2> QED BY <1>20, <2>1, <2>2 DEF PullUnlock, Access, UnlockTicks, Goto,
       TypeOK, array
<1>21. ASSUME Advance PROVE TypeOK'
  BY <1>21 DEF Advance, TypeOK, array, tickers, locals
<1>22. CASE UNCHANGED vars
  BY <1>22 DEF vars, TypeOK, array, tickers, locals
<1> QED
  BY <1>1, <1>2, <1>3, <1>4, <1>5, <1>6, <1>7, <1>8, <1>9, <1>10, <1>11,
     <1>12, <1>13, <1>14, <1>15, <1>16, <1>17, <1>18, <1>19, <1>20, <1>21, <1>22
     DEF Next, Run, AddStep, PushStep, PullStep

\* No step changes the name in the entry that a registration is making.
LEMMA EntryInvStep == StoreInv /\ [Next]_vars => EntryInv'
<1> SUFFICES ASSUME TypeOK, LockInv, RoomInv, EntryInv, [Next]_vars PROVE EntryInv'
  BY DEF StoreInv
<1> USE StoreAssumption
<1>1. ASSUME NEW t \in Threads, NEW r \in Calls, Begin(t, r) PROVE EntryInv'
  BY <1>1 DEF Begin, Goto, EntryInv, TypeOK, array, tickers
<1>2. ASSUME NEW t \in Threads, Finish(t) PROVE EntryInv'
  BY <1>2 DEF Finish, Goto, EntryInv, TypeOK, array, tickers
<1>3. ASSUME NEW t \in Threads, AddLock(t) PROVE EntryInv'
  BY <1>3 DEF AddLock, Goto, EntryInv, TypeOK, array, tickers, locals
<1>4. ASSUME NEW t \in Threads, AddGrow(t) PROVE EntryInv'
  BY <1>4 DEF AddGrow, Goto, EntryInv, TypeOK, tickers, locals
<1>5. ASSUME NEW t \in Threads, AddCopy(t) PROVE EntryInv'
  BY <1>5 DEF AddCopy, Goto, EntryInv, TypeOK, tickers, locals
<1>6. ASSUME NEW t \in Threads, AddFree(t) PROVE EntryInv'
  BY <1>6 DEF AddFree, Goto, EntryInv, TypeOK, tickers, locals
<1>7. ASSUME NEW t \in Threads, AddEntry(t) PROVE EntryInv'
  <2>1. m_ntickers \in Ids
    BY <1>7, RoomForOne DEF AddEntry, TypeOK, Ids, AddSteps, AddHolds
  <2>2. \A u \in Threads \ {t} : pc[u] # "add.publish"
    BY <1>7 DEF AddEntry, LockInv, AddHolds
  <2> QED BY <1>7, <2>1, <2>2 DEF AddEntry, Goto, EntryInv, TypeOK, locals
<1>8. ASSUME NEW t \in Threads, AddPublish(t) PROVE EntryInv'
  <2>1. \A u \in Threads \ {t} : pc[u] # "add.publish"
    BY <1>8 DEF AddPublish, LockInv, AddHolds
  <2> QED BY <1>8, <2>1 DEF AddPublish, Goto, ReturnWith, EntryInv, TypeOK
<1>9. ASSUME NEW t \in Threads, GetTicker(t) PROVE EntryInv'
  BY <1>9 DEF GetTicker, Goto, ReturnWith, EntryInv, TypeOK, array, tickers,
     locals
<1>10. ASSUME NEW t \in Threads, Check(t) PROVE EntryInv'
  <2>1. \A u \in Threads : pc'[u] = "add.publish" => pc[u] = "add.publish"
    BY <1>10 DEF Check, Goto, ReturnWith, TypeOK
  <2> QED BY <1>10, <2>1 DEF Check, EntryInv, array, tickers
<1>11. ASSUME NEW t \in Threads, Load(t) PROVE EntryInv'
  BY <1>11 DEF Load, EntryInv, TypeOK, array, tickers, locals
<1>12. ASSUME NEW t \in Threads, Wild(t) PROVE EntryInv'
  BY <1>12 DEF Wild, EntryInv, TypeOK, array, tickers, locals
<1>13. ASSUME NEW t \in Threads, PushLock(t) PROVE EntryInv'
  BY <1>13 DEF PushLock, Access, LockTicks, Goto, EntryInv, TypeOK, array
<1>14. ASSUME NEW t \in Threads, PushNext(t) PROVE EntryInv'
  BY <1>14 DEF PushNext, Access, Goto, EntryInv, TypeOK, array
<1>15. ASSUME NEW t \in Threads, PushLink(t) PROVE EntryInv'
  BY <1>15 DEF PushLink, Access, Goto, EntryInv, TypeOK, array
<1>16. ASSUME NEW t \in Threads, PushUnlock(t) PROVE EntryInv'
  BY <1>16 DEF PushUnlock, Access, UnlockTicks, Goto, EntryInv, TypeOK, array
<1>17. ASSUME NEW t \in Threads, PullEmpty(t) PROVE EntryInv'
  BY <1>17 DEF PullEmpty, Access, Goto, ReturnWith, EntryInv, TypeOK, array
<1>18. ASSUME NEW t \in Threads, PullLock(t) PROVE EntryInv'
  BY <1>18 DEF PullLock, Access, LockTicks, Goto, EntryInv, TypeOK, array
<1>19. ASSUME NEW t \in Threads, PullHead(t) PROVE EntryInv'
  BY <1>19 DEF PullHead, Access, Goto, EntryInv, TypeOK, array
<1>20. ASSUME NEW t \in Threads, PullUnlock(t) PROVE EntryInv'
  BY <1>20 DEF PullUnlock, Access, UnlockTicks, Goto, EntryInv, TypeOK, array
<1>21. ASSUME Advance PROVE EntryInv'
  BY <1>21 DEF Advance, EntryInv, TypeOK, array, tickers, locals
<1>22. CASE UNCHANGED vars
  BY <1>22 DEF EntryInv, vars, array, tickers, locals
<1> QED
  BY <1>1, <1>2, <1>3, <1>4, <1>5, <1>6, <1>7, <1>8, <1>9, <1>10, <1>11,
     <1>12, <1>13, <1>14, <1>15, <1>16, <1>17, <1>18, <1>19, <1>20, <1>21, <1>22
     DEF Next, Run, AddStep, PushStep, PullStep

\* No step changes the payload of the tick that a push carries.
LEMMA StampInvStep == StoreInv /\ [Next]_vars => StampInv'
<1> SUFFICES ASSUME TypeOK, CallInv, LinkInv, StampInv, [Next]_vars PROVE StampInv'
  BY DEF StoreInv
<1> USE StoreAssumption
<1>1. ASSUME NEW t \in Threads, NEW r \in Calls, Begin(t, r) PROVE StampInv'
  BY <1>1 DEF Begin, Goto, StampInv, TypeOK
<1>2. ASSUME NEW t \in Threads, Finish(t) PROVE StampInv'
  BY <1>2 DEF Finish, Goto, StampInv, TypeOK
<1>3. ASSUME NEW t \in Threads, AddLock(t) PROVE StampInv'
  BY <1>3 DEF AddLock, Goto, StampInv, TypeOK, locals
<1>4. ASSUME NEW t \in Threads, AddGrow(t) PROVE StampInv'
  BY <1>4 DEF AddGrow, Goto, StampInv, TypeOK, locals
<1>5. ASSUME NEW t \in Threads, AddCopy(t) PROVE StampInv'
  BY <1>5 DEF AddCopy, Goto, StampInv, TypeOK, locals
<1>6. ASSUME NEW t \in Threads, AddFree(t) PROVE StampInv'
  BY <1>6 DEF AddFree, Goto, StampInv, TypeOK, locals
<1>7. ASSUME NEW t \in Threads, AddEntry(t) PROVE StampInv'
  BY <1>7 DEF AddEntry, Goto, StampInv, TypeOK, locals
<1>8. ASSUME NEW t \in Threads, AddPublish(t) PROVE StampInv'
  BY <1>8 DEF AddPublish, Goto, ReturnWith, StampInv, TypeOK, locals
<1>9. ASSUME NEW t \in Threads, GetTicker(t) PROVE StampInv'
  BY <1>9 DEF GetTicker, Goto, ReturnWith, StampInv, TypeOK, locals
<1>10. ASSUME NEW t \in Threads, Check(t) PROVE StampInv'
  <2>1. \A u \in Threads \ {t} : pc'[u] = pc[u] /\ new_tick'[u] = new_tick[u]
    BY <1>10 DEF Check, Goto, ReturnWith, TypeOK
  <2>2. pc'[t] = "push.lock" => new_tick'[t][1].data = req[t].data
    BY <1>10 DEF Check, Goto, ReturnWith, TypeOK
  <2>3. pc'[t] \notin {"push.next", "push.link"} /\ req' = req
    BY <1>10 DEF Check, Goto, ReturnWith, TypeOK
  <2> QED BY <1>10, <2>1, <2>2, <2>3 DEF StampInv
<1>11. ASSUME NEW t \in Threads, Load(t) PROVE StampInv'
  BY <1>11 DEF Load, StampInv, TypeOK, locals
<1>12. ASSUME NEW t \in Threads, Wild(t) PROVE StampInv'
  BY <1>12 DEF Wild, StampInv, TypeOK, locals
<1>13. ASSUME NEW t \in Threads, PushLock(t) PROVE StampInv'
  BY <1>13 DEF PushLock, Access, LockTicks, Goto, StampInv, TypeOK
<1>14. ASSUME NEW t \in Threads, PushNext(t) PROVE StampInv'
  <2>1. PICK k \in Ticks : new_tick[t] = <<k>>
    BY <1>14 DEF PushNext, Access, Goto, LinkInv
  <2>2. req[t].id \in Ids
    BY <1>14, CallUnderWay, CallType DEF PushNext, Access, Goto, CallInv,
       AddSteps, AddHolds, AccessSteps, PushSteps, PullSteps
  <2>3. new_tick'[t] = <<k>> \o m_ticks[req[t].id] /\ m_ticks[req[t].id] \in Seq(Ticks)
    BY <1>14, <2>1, <2>2 DEF PushNext, Access, Goto, TypeOK
  <2>4. new_tick'[t][1] = new_tick[t][1]
    BY <2>1, <2>3
  <2> QED BY <1>14, <2>4 DEF PushNext, Access, Goto, StampInv, TypeOK
<1>15. ASSUME NEW t \in Threads, PushLink(t) PROVE StampInv'
  BY <1>15 DEF PushLink, Access, Goto, StampInv, TypeOK
<1>16. ASSUME NEW t \in Threads, PushUnlock(t) PROVE StampInv'
  BY <1>16 DEF PushUnlock, Access, UnlockTicks, Goto, StampInv, TypeOK
<1>17. ASSUME NEW t \in Threads, PullEmpty(t) PROVE StampInv'
  <2>1. \A u \in Threads \ {t} : pc'[u] = pc[u] /\ new_tick'[u] = new_tick[u]
    BY <1>17 DEF PullEmpty, Access, Goto, ReturnWith, TypeOK
  <2>2. pc'[t] = "push.lock" => new_tick'[t][1].data = req[t].data
    BY <1>17 DEF PullEmpty, Access, Goto, ReturnWith, TypeOK
  <2>3. pc'[t] \notin {"push.next", "push.link"} /\ req' = req
    BY <1>17 DEF PullEmpty, Access, Goto, ReturnWith, TypeOK
  <2> QED BY <1>17, <2>1, <2>2, <2>3 DEF StampInv
<1>18. ASSUME NEW t \in Threads, PullLock(t) PROVE StampInv'
  BY <1>18 DEF PullLock, Access, LockTicks, Goto, StampInv, TypeOK
<1>19. ASSUME NEW t \in Threads, PullHead(t) PROVE StampInv'
  BY <1>19 DEF PullHead, Access, Goto, StampInv, TypeOK
<1>20. ASSUME NEW t \in Threads, PullUnlock(t) PROVE StampInv'
  BY <1>20 DEF PullUnlock, Access, UnlockTicks, Goto, StampInv, TypeOK
<1>21. ASSUME Advance PROVE StampInv'
  BY <1>21 DEF Advance, StampInv, TypeOK, locals
<1>22. CASE UNCHANGED vars
  BY <1>22 DEF StampInv, vars, locals
<1> QED
  BY <1>1, <1>2, <1>3, <1>4, <1>5, <1>6, <1>7, <1>8, <1>9, <1>10, <1>11,
     <1>12, <1>13, <1>14, <1>15, <1>16, <1>17, <1>18, <1>19, <1>20, <1>21, <1>22
     DEF Next, Run, AddStep, PushStep, PullStep

\* A step that moves neither the lists nor the clock, and no stamp.
LEMMA PastFrame ==
  ASSUME PastInv, UNCHANGED <<m_ticks, now>>,
         \A t \in Threads : pc'[t] \in {"push.lock", "push.next", "push.link"} =>
           /\ pc[t] \in {"push.lock", "push.next", "push.link"}
           /\ new_tick'[t] = new_tick[t]
  PROVE  PastInv'
BY DEF PastInv

\* No step breaks PastInv: a stamp is read from a clock that never goes back.
LEMMA PastInvStep == StoreInv /\ [Next]_vars => PastInv'
<1> SUFFICES ASSUME TypeOK, CallInv, RoomInv, LinkInv, PastInv, [Next]_vars
    PROVE  PastInv'
  BY DEF StoreInv
<1> USE StoreAssumption
<1>1. ASSUME NEW t \in Threads, NEW r \in Calls, Begin(t, r) PROVE PastInv'
  BY <1>1, PastFrame DEF Begin, Goto, tickers, TypeOK
<1>2. ASSUME NEW t \in Threads, Finish(t) PROVE PastInv'
  BY <1>2, PastFrame DEF Finish, Goto, ReturnWith, tickers, locals, TypeOK
<1>3. ASSUME NEW t \in Threads, AddLock(t) PROVE PastInv'
  BY <1>3, PastFrame DEF AddLock, Goto, ReturnWith, tickers, locals, TypeOK
<1>4. ASSUME NEW t \in Threads, AddGrow(t) PROVE PastInv'
  BY <1>4, PastFrame DEF AddGrow, Goto, ReturnWith, tickers, locals, TypeOK
<1>5. ASSUME NEW t \in Threads, AddCopy(t) PROVE PastInv'
  BY <1>5, PastFrame DEF AddCopy, Goto, ReturnWith, tickers, locals, TypeOK
<1>6. ASSUME NEW t \in Threads, AddFree(t) PROVE PastInv'
  BY <1>6, PastFrame DEF AddFree, Goto, ReturnWith, tickers, locals, TypeOK
<1>7. ASSUME NEW t \in Threads, AddEntry(t) PROVE PastInv'
  <2>1. UNCHANGED m_ticks
    BY <1>7 DEF AddEntry, TypeOK, RoomInv, Ids
  <2> QED BY <1>7, <2>1, PastFrame DEF AddEntry, Goto, locals, TypeOK
<1>8. ASSUME NEW t \in Threads, AddPublish(t) PROVE PastInv'
  BY <1>8, PastFrame DEF AddPublish, Goto, ReturnWith, tickers, locals, TypeOK
<1>9. ASSUME NEW t \in Threads, GetTicker(t) PROVE PastInv'
  BY <1>9, PastFrame DEF GetTicker, Goto, ReturnWith, tickers, locals, TypeOK
<1>10. ASSUME NEW t \in Threads, Check(t) PROVE PastInv'
  <2>1. \A u \in Threads \ {t} : pc'[u] = pc[u] /\ new_tick'[u] = new_tick[u]
    BY <1>10 DEF Check, Goto, ReturnWith, TypeOK
  <2>2. pc'[t] = "push.lock" => new_tick'[t][1].time = now
    BY <1>10 DEF Check, Goto, ReturnWith, TypeOK
  <2>3. pc'[t] \notin {"push.next", "push.link"} /\ UNCHANGED <<m_ticks, now>>
    BY <1>10 DEF Check, Goto, ReturnWith, TypeOK, tickers
  <2>4. ~Later(now, now)
    BY DEF TypeOK, Timeval, Later
  <2> QED BY <2>1, <2>2, <2>3, <2>4 DEF PastInv
<1>11. ASSUME NEW t \in Threads, Load(t) PROVE PastInv'
  BY <1>11, PastFrame DEF Load, tickers, locals
<1>12. ASSUME NEW t \in Threads, Wild(t) PROVE PastInv'
  BY <1>12, PastFrame DEF Wild, tickers, locals
<1>13. ASSUME NEW t \in Threads, PushLock(t) PROVE PastInv'
  BY <1>13, PastFrame DEF PushLock, Access, LockTicks, Goto, TypeOK
<1>14. ASSUME NEW t \in Threads, PushNext(t) PROVE PastInv'
  <2>1. PICK k \in Ticks : new_tick[t] = <<k>>
    BY <1>14 DEF PushNext, Access, Goto, LinkInv
  <2>2. req[t].id \in Ids
    BY <1>14, CallUnderWay, CallType DEF PushNext, Access, Goto, CallInv,
       AddSteps, AddHolds, AccessSteps, PushSteps, PullSteps
  <2>3. new_tick'[t] = <<k>> \o m_ticks[req[t].id] /\ m_ticks[req[t].id] \in Seq(Ticks)
    BY <1>14, <2>1, <2>2 DEF PushNext, Access, Goto, TypeOK
  <2>4. new_tick'[t][1] = new_tick[t][1]
    BY <2>1, <2>3
  <2> QED BY <1>14, <2>4 DEF PushNext, Access, Goto, PastInv, TypeOK
<1>15. ASSUME NEW t \in Threads, PushLink(t) PROVE PastInv'
  <2>1. PICK k \in Ticks : new_tick[t] = <<k>> \o m_ticks[req[t].id]
    BY <1>15 DEF PushLink, Access, Goto, LinkInv
  <2>2. req[t].id \in Ids /\ m_ticks \in [Ids -> Seq(Ticks)]
    BY <1>15, CallUnderWay, CallType DEF PushLink, Access, Goto, TypeOK,
       CallInv, AddSteps, AddHolds, AccessSteps, PushSteps, PullSteps
  <2> DEFINE list == m_ticks[req[t].id]
  <2>3. list \in Seq(Ticks) /\ new_tick[t] = <<k>> \o list
    BY <2>1, <2>2
  <2>4. m_ticks' = [m_ticks EXCEPT ![req[t].id] = <<k>> \o list]
    BY <1>15, <2>1 DEF PushLink
  <2>5. ~Later(k.time, now)
    <3>1. new_tick[t][1] = k
      BY <2>3
    <3> QED BY <1>15, <3>1 DEF PushLink, Access, PastInv
  <2>6. \A j \in DOMAIN (<<k>> \o list) : ~Later((<<k>> \o list)[j].time, now)
    <3>1. \A j \in DOMAIN list : ~Later(list[j].time, now)
      BY <2>2 DEF PastInv
    <3> TAKE j \in DOMAIN (<<k>> \o list)
    <3>2. CASE j = 1
      BY <2>3, <2>5, <3>2
    <3>3. CASE j # 1
      <4>1. j - 1 \in DOMAIN list /\ (<<k>> \o list)[j] = list[j - 1]
        BY <2>3, <3>3
      <4> QED BY <3>1, <4>1
    <3> QED BY <3>2, <3>3
  <2>7. \A i \in Ids : \A j \in DOMAIN m_ticks'[i] : ~Later(m_ticks'[i][j].time, now)
    <3> HIDE DEF list
    <3> TAKE i \in Ids
    <3>1. CASE i = req[t].id
      BY <2>2, <2>4, <2>6, <3>1
    <3>2. CASE i # req[t].id
      BY <2>2, <2>4, <3>2 DEF PastInv
    <3> QED BY <3>1, <3>2
  <2>8. /\ now' = now /\ new_tick' = new_tick
        /\ \A u \in Threads : pc'[u] = pc[u] \/ pc'[u] = "push.unlock"
    BY <1>15 DEF PushLink, Access, Goto, TypeOK
  <2> QED BY <2>7, <2>8 DEF PastInv
<1>16. ASSUME NEW t \in Threads, PushUnlock(t) PROVE PastInv'
  BY <1>16, PastFrame DEF PushUnlock, Access, UnlockTicks, Goto, TypeOK
<1>17. ASSUME NEW t \in Threads, PullEmpty(t) PROVE PastInv'
  BY <1>17, PastFrame DEF PullEmpty, Access, Goto, ReturnWith, TypeOK
<1>18. ASSUME NEW t \in Threads, PullLock(t) PROVE PastInv'
  BY <1>18, PastFrame DEF PullLock, Access, LockTicks, Goto, TypeOK
<1>19. ASSUME NEW t \in Threads, PullHead(t) PROVE PastInv'
  BY <1>19, PastFrame DEF PullHead, Access, Goto, ReturnWith, TypeOK
<1>20. ASSUME NEW t \in Threads, PullUnlock(t) PROVE PastInv'
  BY <1>20, PastFrame DEF PullUnlock, Access, UnlockTicks, Goto, TypeOK
<1>21. ASSUME Advance PROVE PastInv'
  <2>1. now \in Timeval /\ now' \in Timeval /\ Later(now', now)
    BY <1>21 DEF Advance, TypeOK
  <2>2. ASSUME NEW at \in Times, ~Later(at, now) PROVE ~Later(at, now')
    BY <2>1, <2>2 DEF Later, Timeval
  <2>3. \A i \in Ids : \A k \in DOMAIN m_ticks[i] : m_ticks[i][k].time \in Times
    <3> TAKE i \in Ids
    <3>1. m_ticks[i] \in Seq(Ticks)
      BY DEF TypeOK
    <3> TAKE k \in DOMAIN m_ticks[i]
    <3>2. m_ticks[i][k] \in Ticks
      BY <3>1
    <3> QED BY <3>2 DEF Ticks, Tick
  <2>4. \A t \in Threads : pc[t] \in {"push.lock", "push.next", "push.link"} =>
          new_tick[t][1].time \in Times
    <3> TAKE t \in Threads
    <3>1. ASSUME pc[t] \in {"push.lock", "push.next", "push.link"}
          PROVE  \E k \in Ticks : new_tick[t][1] = k
      <4>1. CASE pc[t] # "push.link"
        BY <3>1, <4>1 DEF LinkInv
      <4>2. CASE pc[t] = "push.link"
        <5>1. PICK k \in Ticks : new_tick[t] = <<k>> \o m_ticks[req[t].id]
          BY <4>2 DEF LinkInv
        <5>2. m_ticks[req[t].id] \in Seq(Ticks)
          BY <4>2, CallUnderWay, CallType DEF TypeOK, CallInv, AddSteps,
             AddHolds, AccessSteps, PushSteps, PullSteps
        <5> QED BY <5>1, <5>2
      <4> QED BY <4>1, <4>2
    <3> QED BY <3>1 DEF Ticks, Tick
  <2>5. UNCHANGED <<m_ticks, new_tick, pc>>
    BY <1>21 DEF Advance, tickers, locals
  <2> QED BY <2>2, <2>3, <2>4, <2>5 DEF PastInv
<1>22. CASE UNCHANGED vars
  BY <1>22, PastFrame DEF vars, tickers, locals
<1> QED
  BY <1>1, <1>2, <1>3, <1>4, <1>5, <1>6, <1>7, <1>8, <1>9, <1>10, <1>11,
     <1>12, <1>13, <1>14, <1>15, <1>16, <1>17, <1>18, <1>19, <1>20, <1>21, <1>22
     DEF Next, Run, AddStep, PushStep, PullStep

\* StoreInv holds when the server starts.
THEOREM StoreInvInit == Init => StoreInv
<1> SUFFICES ASSUME Init PROVE StoreInv
  OBVIOUS
<1> USE StoreAssumption DEF Init
<1>1. TypeOK
  <2>1. NoResult \in Results(Ids, Ticks)
    BY DEF NoResult, Results, StoreErrors
  <2>2. <<>> \in Seq(Ticks) /\ 0 \in Arrays /\ "idle" \in Steps
    BY DEF Arrays, Steps
  <2>3. NoCall \in Calls \cup {NoCall} /\ NotLoaded \in Arrays \cup {NotLoaded}
    OBVIOUS
  <2>4. /\ m_ntickers \in 0..MaxTickers /\ m_tickers \in Arrays
        /\ slots \in [Arrays -> 0..MaxTickers]
        /\ m_ticker \in [Ids -> Names \cup {NoName}]
        /\ m_ticks \in [Ids -> Seq(Ticks)]
    BY <2>2
  <2>5. /\ pc \in [Threads -> Steps]
        /\ req \in [Threads -> Calls \cup {NoCall}]
        /\ ptr \in [Threads -> Arrays \cup {NotLoaded}]
        /\ new_tick \in [Threads -> Seq(Ticks)]
        /\ res \in [Threads -> Results(Ids, Ticks)]
    BY <2>1, <2>2, <2>3
  <2>6. /\ m_tickerslock \in Threads \cup {NoThread}
        /\ m_tickslock \in [Ids -> Threads \cup {NoThread}]
        /\ now \in Times /\ crashed \in BOOLEAN
    OBVIOUS
  <2> QED BY <2>4, <2>5, <2>6 DEF TypeOK
<1>2. LockInv
  BY DEF LockInv, AddHolds, TickHolds
<1>3. ArrayInv
  BY DEF ArrayInv, Stage, Arrays
<1>4. CallInv
  BY DEF CallInv, AddSteps, AddHolds, AccessSteps, PushSteps, PullSteps
<1>5. RoomInv
  <2>1. Adding = {}
    BY DEF Adding, AddSteps, AddHolds
  <2> QED BY <2>1, FS_EmptySet DEF RoomInv
<1>6. LinkInv
  BY DEF LinkInv
<1>7. EntryInv
  BY DEF EntryInv
<1>8. StampInv
  BY DEF StampInv
<1>9. PastInv
  BY DEF PastInv
<1> QED BY <1>1, <1>2, <1>3, <1>4, <1>5, <1>6, <1>7, <1>8, <1>9 DEF StoreInv

\* StoreInv is inductive: every reachable state of the store satisfies it.
THEOREM StoreInvariance == Spec => []StoreInv
<1>1. StoreInv /\ [Next]_vars => StoreInv'
  BY TypeStep, LockInvStep, ArrayInvStep, CallInvStep, RoomInvStep,
     LinkInvStep, EntryInvStep, StampInvStep, PastInvStep DEF StoreInv
<1> QED BY <1>1, StoreInvInit, PTL DEF Spec

\* Type correctness (the part of StoreInv that each variable has its type).
THEOREM TypeCorrect == Spec => []TypeOK
<1>1. StoreInv => TypeOK
  BY DEF StoreInv
<1> QED BY <1>1, StoreInvariance, PTL

\* An undefined read of the ticker array needs a registration that is replacing
\* that array.
THEOREM UndefinedReads == Spec => []UndefinedOnlyWhileReplaced
<1>1. StoreInv => UndefinedOnlyWhileReplaced
  <2> SUFFICES ASSUME StoreInv, NEW t \in Threads, ptr[t] # NotLoaded,
                      ptr[t] = m_tickers, \A u \in Threads : pc[u] # "add.copy"
               PROVE  Defined(t)
    BY DEF UndefinedOnlyWhileReplaced
  <2>1. /\ req[t].id \in Nat /\ req[t].id < m_ntickers
    BY CallUnderWay, CallType DEF StoreInv, CallInv, Ids, AccessSteps
  <2>2. /\ m_ntickers \in Nat /\ m_tickers \in Arrays
        /\ slots \in [Arrays -> 0..MaxTickers]
    BY DEF StoreInv, TypeOK
  <2>3. Stage \in {"idle"} \cup (AddHolds \ {"add.copy"})
    BY DEF Stage, StoreInv, TypeOK, LockInv
  <2>4. slots[m_tickers] >= m_ntickers
    <3>1. ArrayInv
      BY DEF StoreInv
    <3> HIDE DEF Stage
    <3> QED BY SMTT(30), <2>2, <2>3, <3>1, StoreAssumption DEF ArrayInv, AddHolds, Arrays
  <2> QED BY SMTT(30), <2>1, <2>2, <2>4, StoreAssumption DEF Defined, Arrays
<1> QED BY <1>1, StoreInvariance, PTL

\* The lists of ticks only grow, and only at the head.
THEOREM HistoriesGrow == Spec => HistoryAppendOnly
<1> DEFINE Grows == \A i \in Ids : m_ticks'[i] # m_ticks[i] =>
                      \E k \in Ticks : m_ticks'[i] = <<k>> \o m_ticks[i]
<1>1. StoreInv /\ [Next]_vars => [Grows]_vars
  <2> SUFFICES ASSUME StoreInv, Next PROVE Grows
    OBVIOUS
  <2>1. ASSUME NEW t \in Threads, PushLink(t) PROVE Grows
    <3>1. PICK k \in Ticks : new_tick[t] = <<k>> \o m_ticks[req[t].id]
      BY <2>1 DEF StoreInv, LinkInv, PushLink, Access
    <3>2. m_ticks' = [m_ticks EXCEPT ![req[t].id] = <<k>> \o m_ticks[req[t].id]]
      BY <2>1, <3>1 DEF PushLink
    <3>3. m_ticks \in [Ids -> Seq(Ticks)]
      BY DEF StoreInv, TypeOK
    <3> QED BY <3>2, <3>3
  <2>2. ASSUME NEW t \in Threads, AddEntry(t) PROVE Grows
    <3>1. m_ntickers \in Ids => m_ticks[m_ntickers] = <<>>
      BY DEF StoreInv, RoomInv, TypeOK, Ids
    <3> QED BY <2>2, <3>1 DEF AddEntry, StoreInv, TypeOK
  <2>3. CASE UNCHANGED m_ticks
    BY <2>3
  <2>4. \/ \E t \in Threads : PushLink(t) \/ AddEntry(t)
        \/ UNCHANGED m_ticks
    BY DEF Next, Run, AddStep, PushStep, PullStep, Begin, Finish, AddLock,
       AddGrow, AddCopy, AddFree, AddPublish, GetTicker, Check, Load, Wild,
       PushLock, PushNext, PushUnlock, PullEmpty, PullLock, PullHead, PullUnlock,
       Advance, tickers
  <2> QED BY <2>1, <2>2, <2>3, <2>4
<1> QED BY <1>1, StoreInvariance, PTL DEF Spec, HistoryAppendOnly

\* Only pushes that overlap get the list out of the order of its stamps.
THEOREM DisorderNeedsOverlap == Spec => OnlyOverlapReorders
<1> DEFINE InOrder ==
      \A t \in Threads : pc[t] = "check" /\ pc'[t] = "push.lock" =>
        \A k \in DOMAIN m_ticks[req[t].id] :
          ~Later(m_ticks[req[t].id][k].time, new_tick'[t][1].time)
<1>1. StoreInv /\ [Next]_vars => [InOrder]_vars
  <2> SUFFICES ASSUME StoreInv, Next, NEW t \in Threads,
                      pc[t] = "check", pc'[t] = "push.lock"
               PROVE  \A k \in DOMAIN m_ticks[req[t].id] :
                        ~Later(m_ticks[req[t].id][k].time, new_tick'[t][1].time)
    OBVIOUS
  <2>1. Check(t)
    <3>1. ASSUME NEW u \in Threads, u # t, Run(u) PROVE pc'[t] = pc[t]
      BY <3>1 DEF Run, AddStep, PushStep, PullStep, Finish, AddLock, AddGrow,
         AddCopy, AddFree, AddEntry, AddPublish, GetTicker, Check, Load,
         PushLock, PushNext, PushLink, PushUnlock, PullEmpty, PullLock,
         PullHead, PullUnlock, Access, Goto, ReturnWith, StoreInv, TypeOK
    <3>2. PICK u \in Threads : Run(u)
      BY DEF Next, Begin, Wild, Advance, Goto, StoreInv, TypeOK
    <3>3. u = t
      BY <3>1, <3>2
    <3> QED BY <3>2, <3>3 DEF Run, AddStep, PushStep, PullStep, Finish,
         AddLock, AddGrow, AddCopy, AddFree, AddEntry, AddPublish, GetTicker,
         Load, PushLock, PushNext, PushLink, PushUnlock, PullEmpty, PullLock,
         PullHead, PullUnlock, Access
  <2>2. new_tick'[t][1].time = now
    BY <2>1 DEF Check, Goto, ReturnWith, StoreInv, TypeOK
  <2>3. req[t].id \in Ids
    BY CallUnderWay, CallType, StoreAssumption DEF StoreInv, CallInv
  <2> QED BY <2>2, <2>3 DEF StoreInv, PastInv
<1> QED BY <1>1, StoreInvariance, PTL DEF Spec, OnlyOverlapReorders

\* A least element stays the least when what is added is greater.
LEMMA MinStays ==
  ASSUME NEW T \in SUBSET Nat, T # {}, NEW U \in SUBSET Nat, T \subseteq U,
         \A u \in U \ T : \A x \in T : x < u
  PROVE  Min(U) = Min(T)
<1>1. Min(T) \in T /\ (\A y \in T : Min(T) <= y)
  BY MinOfNat
<1>2. Min(U) \in U /\ (\A y \in U : Min(U) <= y)
  BY MinOfNat
<1>3. Min(T) \in Nat /\ Min(U) \in Nat /\ Min(U) <= Min(T)
  BY <1>1, <1>2
<1>4. CASE Min(U) \in T
  BY <1>1, <1>3, <1>4
<1>5. CASE Min(U) \notin T
  <2>1. Min(T) < Min(U)
    BY <1>1, <1>2, <1>5
  <2> QED BY <1>3, <2>1
<1> QED BY <1>4, <1>5

\* The id of a name never changes.
THEOREM IdsAreStable == Spec => StableIds
<1> DEFINE Stays == \A n \in Names : Matches(n) # {} =>
                      Matches(n)' # {} /\ Min(Matches(n)') = Min(Matches(n))
<1>1. StoreInv /\ [Next]_vars => [Stays]_vars
  <2> SUFFICES ASSUME StoreInv, Next, NEW n \in Names, Matches(n) # {}
               PROVE  Matches(n)' # {} /\ Min(Matches(n)') = Min(Matches(n))
    OBVIOUS
  <2>1. m_ntickers \in Nat /\ m_ticker \in [Ids -> Names \cup {NoName}]
    BY DEF StoreInv, TypeOK
  <2>2. CASE UNCHANGED <<m_ntickers, m_ticker>>
    BY <2>2 DEF Matches
  <2>3. ASSUME NEW t \in Threads, AddEntry(t) PROVE Matches(n)' = Matches(n)
    BY <2>1, <2>3 DEF AddEntry, Matches, Ids
  <2>4. ASSUME NEW t \in Threads, AddPublish(t)
        PROVE  Matches(n)' # {} /\ Min(Matches(n)') = Min(Matches(n))
    <3>1. Matches(n) \subseteq Matches(n)' /\ Matches(n)' \in SUBSET Nat
      BY <2>1, <2>4 DEF AddPublish, tickers, Matches, Ids
    <3>2. \A u \in Matches(n)' \ Matches(n) : \A x \in Matches(n) : x < u
      BY <2>1, <2>4 DEF AddPublish, tickers, Matches, Ids
    <3>3. Matches(n) \in SUBSET Nat
      BY <3>1
    <3> QED BY <3>1, <3>2, <3>3, MinStays
  <2>5. \/ \E t \in Threads : AddEntry(t) \/ AddPublish(t)
        \/ UNCHANGED <<m_ntickers, m_ticker>>
    BY ZenonT(60) DEF Next, Run, AddStep, PushStep, PullStep, Begin, Finish, AddLock,
       AddGrow, AddCopy, AddFree, GetTicker, Check, Load, Wild, PushLock,
       PushNext, PushLink, PushUnlock, PullEmpty, PullLock, PullHead, PullUnlock,
       Access, Advance, array, tickers
  <2> QED BY <2>2, <2>3, <2>4, <2>5
<1> QED BY <1>1, StoreInvariance, PTL DEF Spec, StableIds

-----------------------------------------------------------------------------
(* The store implements TickStore.                                         *)

View(t) == IF pc[t] = "idle" THEN [at |-> "idle"]
           ELSE IF pc[t] \in Settled THEN [at |-> "done", res |-> res[t]]
           ELSE [at |-> "pending", req |-> req[t]]

\* A step of thread t changes the view of its own call only.
LEMMA ViewOfOne ==
  ASSUME NEW t \in Threads,
         \A u \in Threads \ {t} :
           pc'[u] = pc[u] /\ req'[u] = req[u] /\ res'[u] = res[u]
  PROVE  CallView' = [CallView EXCEPT ![t] = View(t)']
  BY DEF CallView, View

\* A step that moves no thread's control, call or result keeps every view.
LEMMA ViewStays ==
  ASSUME NEW t \in Threads,
         \A u \in Threads \ {t} :
           pc'[u] = pc[u] /\ req'[u] = req[u] /\ res'[u] = res[u],
         View(t)' = View(t)
  PROVE  CallView' = CallView
  BY DEF CallView, View

\* The abstract catalog has one name per registered ticker.
LEMMA PublishedLen ==
  ASSUME TypeOK PROVE Published \in Seq(Names \cup {NoName}) /\ Len(Published) = m_ntickers
<1>1. \A i \in 1..m_ntickers : i - 1 \in Ids
  BY StoreAssumption DEF TypeOK, Ids
<1>2. Published \in [1..m_ntickers -> Names \cup {NoName}]
  BY <1>1 DEF Published, TypeOK
<1> QED BY <1>2 DEF TypeOK

\* TickStore's own copies of the operators of SrvTypes are those operators.
LEMMA SameResults ==
  /\ \A s : Atomic!Status(s) = Status(s)
  /\ \A i : Atomic!Found(i) = Found(i)
  /\ Atomic!NameOps = NameOps
  /\ Atomic!PullOps = PullOps
  /\ \A T : Atomic!Min(T) = Min(T) /\ Atomic!Max(T) = Max(T)
  BY DEF Atomic!Min, Min, Atomic!Max, Max, Atomic!Status, Status,
     Atomic!Found, Found, Atomic!NameOps, NameOps, Atomic!PullOps, PullOps,
     Atomic!DatedOps, DatedOps

LEMMA SameSelection ==
  \A r, list : Atomic!Selection(r, list) = Selection(r, list)
<1>1. \A a, b : Atomic!Later(a, b) = Later(a, b)
  BY DEF Atomic!Later, Later
<1>2. \A k : Atomic!Pulled(k) = Pulled(k)
  BY DEF Atomic!Pulled, Pulled
<1>3. \A list : Atomic!PullTick(list) = PullTick(list)
  BY <1>2, SameResults DEF Atomic!PullTick, PullTick
<1>4. ASSUME NEW list, NEW at
      PROVE  Atomic!PullByDatetime(list, at) = PullByDatetime(list, at)
  <2> DEFINE hits == {k \in DOMAIN list : ~Later(list[k].time, at)}
  <2>1. {k \in DOMAIN list : ~Atomic!Later(list[k].time, at)} = hits
    BY <1>1
  <2> HIDE DEF hits
  <2> QED BY <1>2, <2>1, SameResults DEF Atomic!PullByDatetime, PullByDatetime, hits
<1>5. ASSUME NEW list, NEW at
      PROVE  Atomic!PullUpdate(list, at) = PullUpdate(list, at)
  <2> DEFINE walk == {k \in DOMAIN list :
                        \A j \in 2..k : Later(list[j].time, at)}
  <2>1. {k \in DOMAIN list : \A j \in 2..k : Atomic!Later(list[j].time, at)} = walk
    BY <1>1
  <2>2. Atomic!Earlier(list[1].time, at) = Earlier(list[1].time, at)
    BY <1>1 DEF Atomic!Earlier, Earlier
  <2> HIDE DEF walk
  <2> QED BY <1>2, <2>1, <2>2, SameResults DEF Atomic!PullUpdate, PullUpdate, walk
<1> QED BY <1>3, <1>4, <1>5 DEF Atomic!Selection, Selection

\* Every selection from an empty list says that there is no data.
LEMMA SelectionOfEmpty ==
  ASSUME NEW r, r.op \in PullOps
  PROVE  Selection(r, <<>>) = Status("NO_TICKDATA")
<1>1. PullTick(<<>>) = Status("NO_TICKDATA")
  BY DEF PullTick
<1>2. \A at : PullByDatetime(<<>>, at) = Status("NO_TICKDATA")
  BY DEF PullByDatetime
<1>3. \A at : PullUpdate(<<>>, at) = Status("NO_TICKDATA")
  BY DEF PullUpdate
<1> QED BY <1>1, <1>2, <1>3 DEF Selection, PullOps, DatedOps

\* Every step of the store is a step of TickStore or leaves its state alone:
\* AddPublish, GetTicker, Check (of an unknown id), PullEmpty (of no ticks),
\* PullHead and PushLink are where the calls take effect.
LEMMA Simulation == StoreInv /\ [Next]_vars => [Atomic!Next]_(Atomic!vars)
<1> SUFFICES ASSUME TypeOK, LockInv, CallInv, RoomInv, LinkInv, StampInv, EntryInv, [Next]_vars PROVE [Atomic!Next]_(Atomic!vars)
  BY DEF StoreInv
<1> USE StoreAssumption
<1>1. ASSUME NEW t \in Threads, NEW r \in Calls, Begin(t, r) PROVE [Atomic!Next]_(Atomic!vars)
  <2>1. \A u \in Threads \ {t} :
          pc'[u] = pc[u] /\ req'[u] = req[u] /\ res'[u] = res[u]
    BY <1>1 DEF Begin, Goto, TypeOK
  <2>2. View(t)' = Atomic!Pending(r)
    BY <1>1 DEF Begin, Goto, ReturnWith, View, Settled, TypeOK, Atomic!Pending
  <2>3. UNCHANGED <<Published, m_ticks>>
    BY <1>1 DEF Begin, Goto, Published, array, tickers
  <2>4. CallView[t] = Atomic!Idle
    BY <1>1 DEF Begin, CallView, Atomic!Idle
  <2>5. Atomic!Invoke(t, r)
    BY <2>1, <2>2, <2>3, <2>4, ViewOfOne DEF Atomic!Invoke
  <2> QED BY <2>5 DEF Atomic!Next
<1>2. ASSUME NEW t \in Threads, Finish(t) PROVE [Atomic!Next]_(Atomic!vars)
  <2>1. \A u \in Threads \ {t} :
          pc'[u] = pc[u] /\ req'[u] = req[u] /\ res'[u] = res[u]
    BY <1>2 DEF Finish, Goto, TypeOK
  <2>2. View(t)' = Atomic!Idle
    BY <1>2 DEF Finish, Goto, ReturnWith, View, TypeOK, Atomic!Idle
  <2>3. UNCHANGED <<Published, m_ticks>>
    BY <1>2 DEF Finish, Goto, Published, array, tickers
  <2>4. CallView[t].at = "done"
    BY <1>2 DEF Finish, CallView, Settled
  <2>5. Atomic!Return(t)
    BY <2>1, <2>2, <2>3, <2>4, ViewOfOne DEF Atomic!Return
  <2> QED BY <2>5 DEF Atomic!Next
<1>3. ASSUME NEW t \in Threads, AddLock(t) PROVE [Atomic!Next]_(Atomic!vars)
  <2>1. \A u \in Threads \ {t} :
          pc'[u] = pc[u] /\ req'[u] = req[u] /\ res'[u] = res[u]
    BY <1>3 DEF AddLock, Goto, TypeOK, locals
  <2>2. View(t)' = View(t)
    BY <1>3 DEF AddLock, Goto, ReturnWith, View, Settled, TypeOK, locals,
       AddSteps, AddHolds, AccessSteps, PushSteps, PullSteps, TickHolds
  <2>3. UNCHANGED <<Published, m_ticks>>
    BY <1>3 DEF AddLock, Goto, Published, array, tickers
  <2> QED BY <2>1, <2>2, <2>3, ViewStays DEF Atomic!vars
<1>4. ASSUME NEW t \in Threads, AddGrow(t) PROVE [Atomic!Next]_(Atomic!vars)
  <2>1. \A u \in Threads \ {t} :
          pc'[u] = pc[u] /\ req'[u] = req[u] /\ res'[u] = res[u]
    BY <1>4 DEF AddGrow, Goto, TypeOK, locals
  <2>2. View(t)' = View(t)
    BY <1>4 DEF AddGrow, Goto, ReturnWith, View, Settled, TypeOK, locals,
       AddSteps, AddHolds, AccessSteps, PushSteps, PullSteps, TickHolds
  <2>3. UNCHANGED <<Published, m_ticks>>
    BY <1>4 DEF AddGrow, Goto, Published, tickers
  <2> QED BY <2>1, <2>2, <2>3, ViewStays DEF Atomic!vars
<1>5. ASSUME NEW t \in Threads, AddCopy(t) PROVE [Atomic!Next]_(Atomic!vars)
  <2>1. \A u \in Threads \ {t} :
          pc'[u] = pc[u] /\ req'[u] = req[u] /\ res'[u] = res[u]
    BY <1>5 DEF AddCopy, Goto, TypeOK, locals
  <2>2. View(t)' = View(t)
    BY <1>5 DEF AddCopy, Goto, ReturnWith, View, Settled, TypeOK, locals,
       AddSteps, AddHolds, AccessSteps, PushSteps, PullSteps, TickHolds
  <2>3. UNCHANGED <<Published, m_ticks>>
    BY <1>5 DEF AddCopy, Goto, Published, tickers
  <2> QED BY <2>1, <2>2, <2>3, ViewStays DEF Atomic!vars
<1>6. ASSUME NEW t \in Threads, AddFree(t) PROVE [Atomic!Next]_(Atomic!vars)
  <2>1. \A u \in Threads \ {t} :
          pc'[u] = pc[u] /\ req'[u] = req[u] /\ res'[u] = res[u]
    BY <1>6 DEF AddFree, Goto, TypeOK, locals
  <2>2. View(t)' = View(t)
    BY <1>6 DEF AddFree, Goto, ReturnWith, View, Settled, TypeOK, locals,
       AddSteps, AddHolds, AccessSteps, PushSteps, PullSteps, TickHolds
  <2>3. UNCHANGED <<Published, m_ticks>>
    BY <1>6 DEF AddFree, Goto, Published, tickers
  <2> QED BY <2>1, <2>2, <2>3, ViewStays DEF Atomic!vars
<1>7. ASSUME NEW t \in Threads, AddEntry(t) PROVE [Atomic!Next]_(Atomic!vars)
  <2>1. \A u \in Threads \ {t} :
          pc'[u] = pc[u] /\ req'[u] = req[u] /\ res'[u] = res[u]
    BY <1>7 DEF AddEntry, Goto, TypeOK, locals
  <2>2. View(t)' = View(t)
    BY <1>7 DEF AddEntry, Goto, ReturnWith, View, Settled, TypeOK, locals,
       AddSteps, AddHolds, AccessSteps, PushSteps, PullSteps, TickHolds
  <2>3. Published' = Published
    <3>1. \A j \in 1..m_ntickers : m_ticker'[j - 1] = m_ticker[j - 1]
      BY <1>7, StoreAssumption DEF AddEntry, TypeOK, Ids
    <3>2. m_ntickers' = m_ntickers
      BY <1>7 DEF AddEntry
    <3> QED BY <3>1, <3>2 DEF Published
  <2>4. m_ticks' = m_ticks
    BY <1>7 DEF AddEntry, RoomInv, TypeOK, Ids
  <2> QED BY <2>1, <2>2, <2>3, <2>4, ViewStays DEF Atomic!vars
<1>8. ASSUME NEW t \in Threads, AddPublish(t) PROVE [Atomic!Next]_(Atomic!vars)
  <2>1. \A u \in Threads \ {t} :
          pc'[u] = pc[u] /\ req'[u] = req[u] /\ res'[u] = res[u]
    BY <1>8 DEF AddPublish, Goto, ReturnWith, TypeOK, locals
  <2>2. View(t)' = Atomic!Done(Found(m_ntickers))
    BY <1>8 DEF AddPublish, Goto, ReturnWith, View, Settled, TypeOK,
       Atomic!Done
  <2>3. Atomic!Answer(t, Found(m_ntickers))
    BY <2>1, <2>2, ViewOfOne DEF Atomic!Answer
  <2>4. CallView[t].at = "pending" /\ CallView[t].req = req[t]
    BY <1>8 DEF AddPublish, Goto, ReturnWith, CallView, Settled
  <2>5. Published \in Seq(Names \cup {NoName}) /\ Len(Published) = m_ntickers
    BY PublishedLen
  <2>6. req[t].op = "add_ticker" /\ m_ntickers \in Nat
    BY <1>8 DEF AddPublish, CallInv, TypeOK, AddSteps, AddHolds
  <2>7. Published' = Append(Published, req[t].name)
    <3>1. m_ticker' = m_ticker /\ m_ntickers' = m_ntickers + 1
      BY <1>8 DEF AddPublish, tickers
    <3>2. m_ticker[m_ntickers] = req[t].name
      BY <1>8 DEF AddPublish, EntryInv
    <3> QED BY <2>5, <2>6, <3>1, <3>2 DEF Published
  <2>8. m_ticks' = m_ticks
    BY <1>8 DEF AddPublish, tickers
  <2>9. Atomic!Add(t, req[t].name)
    <3>1. Len(Published) \in Ids
      BY <1>8, <2>5, RoomForOne DEF AddPublish, TypeOK, Ids, AddSteps,
         AddHolds
    <3>2. Atomic!Found(Len(Published)) = Found(m_ntickers)
      BY <2>5, SameResults
    <3>3. Atomic!Answer(t, Atomic!Found(Len(Published)))
      BY <2>3, <3>2
    <3> QED BY <2>7, <2>8, <3>1, <3>3 DEF Atomic!Add
  <2>10. Atomic!Effect(t)
    BY <2>4, <2>9, <2>6, SameResults DEF Atomic!Effect
  <2> QED BY <2>10 DEF Atomic!Next
<1>9. ASSUME NEW t \in Threads, GetTicker(t) PROVE [Atomic!Next]_(Atomic!vars)
  <2>1. \A u \in Threads \ {t} :
          pc'[u] = pc[u] /\ req'[u] = req[u] /\ res'[u] = res[u]
    BY <1>9 DEF GetTicker, Goto, ReturnWith, TypeOK, locals
  <2>2. View(t)' = Atomic!Done((IF Matches(req[t].name) = {} THEN Status("UNKNOWN")
                            ELSE Found(Min(Matches(req[t].name)))))
    BY <1>9 DEF GetTicker, Goto, ReturnWith, View, Settled, TypeOK,
       Atomic!Done
  <2>3. Atomic!Answer(t, (IF Matches(req[t].name) = {} THEN Status("UNKNOWN")
                            ELSE Found(Min(Matches(req[t].name)))))
    BY <2>1, <2>2, ViewOfOne DEF Atomic!Answer
  <2>4. CallView[t].at = "pending" /\ CallView[t].req = req[t]
    BY <1>9 DEF GetTicker, Goto, ReturnWith, CallView, Settled
  <2>5. Published \in Seq(Names \cup {NoName}) /\ Len(Published) = m_ntickers
    BY PublishedLen
  <2>6. req[t].op = "get_ticker"
    BY <1>9 DEF GetTicker, CallInv
  <2>7. Atomic!Resolve(req[t].name) = Matches(req[t].name)
    BY SMTT(30), <2>5 DEF Atomic!Resolve, Atomic!Known, Matches, Published, TypeOK, Ids
  <2>8. UNCHANGED <<Published, m_ticks>>
    BY <1>9 DEF GetTicker, Published, array, tickers
  <2>9. Atomic!Get(t, req[t].name)
    BY <2>3, <2>7, <2>8, SameResults, Zenon DEF Atomic!Get
  <2>10. Atomic!Effect(t)
    BY <2>4, <2>9, <2>6, SameResults DEF Atomic!Effect
  <2> QED BY <2>10 DEF Atomic!Next
<1>10. ASSUME NEW t \in Threads, Check(t) PROVE [Atomic!Next]_(Atomic!vars)
  <2>1. CASE req[t].id >= m_ntickers
    <3>1. \A u \in Threads \ {t} :
            pc'[u] = pc[u] /\ req'[u] = req[u] /\ res'[u] = res[u]
      BY <1>10, <2>1 DEF Check, Goto, ReturnWith, TypeOK
    <3>2. View(t)' = Atomic!Done(Status("UNKNOWN_TICKER"))
      BY <1>10, <2>1 DEF Check, Goto, ReturnWith, View, Settled, TypeOK,
         Atomic!Done
    <3>3. Atomic!Answer(t, Status("UNKNOWN_TICKER"))
      BY <3>1, <3>2, ViewOfOne DEF Atomic!Answer
    <3>4. CallView[t].at = "pending" /\ CallView[t].req = req[t]
      BY <1>10, <2>1 DEF Check, Goto, ReturnWith, CallView, Settled
    <3>5. Published \in Seq(Names \cup {NoName}) /\ Len(Published) = m_ntickers
      BY PublishedLen
    <3>6. req[t].op \notin NameOps
      BY <1>10 DEF Check, CallInv, NameOps, PullOps, DatedOps
    <3>7. UNCHANGED <<Published, m_ticks>>
      BY <1>10 DEF Check, Published, array, tickers
    <3>8. req[t].id \in Nat /\ m_ntickers \in Nat
      BY <1>10, CallUnderWay, CallType DEF Check, CallInv, TypeOK, Ids
    <3>9. Atomic!Refuse(t, req[t].id)
      BY <2>1, <3>3, <3>5, <3>7, <3>8, SameResults DEF Atomic!Refuse,
         Atomic!Known
    <3>10. Atomic!Effect(t)
      BY <3>4, <3>9, <3>6, SameResults DEF Atomic!Effect
    <3> QED BY <3>10 DEF Atomic!Next
  <2>2. CASE ~(req[t].id >= m_ntickers)
    <3>1. \A u \in Threads \ {t} :
            pc'[u] = pc[u] /\ req'[u] = req[u] /\ res'[u] = res[u]
      BY <1>10 DEF Check, Goto, ReturnWith, TypeOK
    <3>2. View(t)' = View(t)
      BY <1>10, <2>2 DEF Check, Goto, ReturnWith, View, Settled, TypeOK
    <3>3. UNCHANGED <<Published, m_ticks>>
      BY <1>10 DEF Check, Published, array, tickers
    <3> QED BY <3>1, <3>2, <3>3, ViewStays DEF Atomic!vars
  <2> QED BY <2>1, <2>2
<1>11. ASSUME NEW t \in Threads, Load(t) PROVE [Atomic!Next]_(Atomic!vars)
  <2>1. \A u \in Threads \ {t} :
          pc'[u] = pc[u] /\ req'[u] = req[u] /\ res'[u] = res[u]
    BY <1>11 DEF Load, TypeOK, locals
  <2>2. View(t)' = View(t)
    BY <1>11 DEF Load, Goto, ReturnWith, View, Settled, TypeOK, locals,
       AddSteps, AddHolds, AccessSteps, PushSteps, PullSteps, TickHolds
  <2>3. UNCHANGED <<Published, m_ticks>>
    BY <1>11 DEF Load, Published, array, tickers
  <2> QED BY <2>1, <2>2, <2>3, ViewStays DEF Atomic!vars
<1>12. ASSUME NEW t \in Threads, Wild(t) PROVE [Atomic!Next]_(Atomic!vars)
  <2>1. \A u \in Threads \ {t} :
          pc'[u] = pc[u] /\ req'[u] = req[u] /\ res'[u] = res[u]
    BY <1>12 DEF Wild, TypeOK, locals
  <2>2. View(t)' = View(t)
    BY <1>12 DEF Wild, Goto, ReturnWith, View, Settled, TypeOK, locals,
       AddSteps, AddHolds, AccessSteps, PushSteps, PullSteps, TickHolds
  <2>3. UNCHANGED <<Published, m_ticks>>
    BY <1>12 DEF Wild, Published, array, tickers
  <2> QED BY <2>1, <2>2, <2>3, ViewStays DEF Atomic!vars
<1>13. ASSUME NEW t \in Threads, PushLock(t) PROVE [Atomic!Next]_(Atomic!vars)
  <2>1. \A u \in Threads \ {t} :
          pc'[u] = pc[u] /\ req'[u] = req[u] /\ res'[u] = res[u]
    BY <1>13 DEF PushLock, Access, LockTicks, Goto, TypeOK
  <2>2. View(t)' = View(t)
    BY <1>13 DEF PushLock, Access, LockTicks, Goto, ReturnWith, View, Settled,
       TypeOK, locals, AddSteps, AddHolds, AccessSteps, PushSteps, PullSteps,
       TickHolds
  <2>3. UNCHANGED <<Published, m_ticks>>
    BY <1>13 DEF PushLock, Access, LockTicks, Goto, Published, array
  <2> QED BY <2>1, <2>2, <2>3, ViewStays DEF Atomic!vars
<1>14. ASSUME NEW t \in Threads, PushNext(t) PROVE [Atomic!Next]_(Atomic!vars)
  <2>1. \A u \in Threads \ {t} :
          pc'[u] = pc[u] /\ req'[u] = req[u] /\ res'[u] = res[u]
    BY <1>14 DEF PushNext, Access, Goto, TypeOK
  <2>2. View(t)' = View(t)
    BY <1>14 DEF PushNext, Access, Goto, ReturnWith, View, Settled, TypeOK,
       locals, AddSteps, AddHolds, AccessSteps, PushSteps, PullSteps, TickHolds
  <2>3. UNCHANGED <<Published, m_ticks>>
    BY <1>14 DEF PushNext, Access, Goto, Published, array
  <2> QED BY <2>1, <2>2, <2>3, ViewStays DEF Atomic!vars
<1>15. ASSUME NEW t \in Threads, PushLink(t) PROVE [Atomic!Next]_(Atomic!vars)
  <2>1. \A u \in Threads \ {t} :
          pc'[u] = pc[u] /\ req'[u] = req[u] /\ res'[u] = res[u]
    BY <1>15 DEF PushLink, Access, Goto, TypeOK
  <2>2. View(t)' = Atomic!Done(Status("SUCCESS"))
    BY <1>15 DEF PushLink, Access, Goto, ReturnWith, View, Settled, TypeOK,
       Atomic!Done
  <2>3. Atomic!Answer(t, Status("SUCCESS"))
    BY <2>1, <2>2, ViewOfOne DEF Atomic!Answer
  <2>4. CallView[t].at = "pending" /\ CallView[t].req = req[t]
    BY <1>15 DEF PushLink, Access, Goto, CallView, Settled
  <2>5. Published \in Seq(Names \cup {NoName}) /\ Len(Published) = m_ntickers
    BY PublishedLen
  <2>6. req[t].op = "push_tick" /\ req[t].id \in Ids /\ req[t].id < m_ntickers
    BY <1>15, CallUnderWay, CallType DEF PushLink, Access, Goto, CallInv,
       AddSteps, AddHolds, AccessSteps, PushSteps, PullSteps
  <2>7. PICK k \in Ticks : new_tick[t] = <<k>> \o m_ticks[req[t].id]
    BY <1>15 DEF PushLink, Access, Goto, LinkInv
  <2>8. k = [data |-> req[t].data, time |-> k.time] /\ k.time \in Times
    BY <1>15, <2>7 DEF StampInv, PushLink, Access, Goto, Ticks, Tick
  <2>9. m_ticks' = [m_ticks EXCEPT ![req[t].id] =
                      <<[data |-> req[t].data, time |-> k.time]>> \o @]
    BY <1>15, <2>7, <2>8 DEF PushLink
  <2>10. Published' = Published
    BY <1>15 DEF PushLink, Access, Goto, Published, array
  <2>11. Atomic!Push(t, req[t].id, req[t].data)
    BY <2>3, <2>5, <2>6, <2>8, <2>9, <2>10, SameResults DEF Atomic!Push,
       Atomic!Known
  <2>12. Atomic!Effect(t)
    BY <2>4, <2>11, <2>6, SameResults DEF Atomic!Effect
  <2> QED BY <2>12 DEF Atomic!Next
<1>16. ASSUME NEW t \in Threads, PushUnlock(t) PROVE [Atomic!Next]_(Atomic!vars)
  <2>1. \A u \in Threads \ {t} :
          pc'[u] = pc[u] /\ req'[u] = req[u] /\ res'[u] = res[u]
    BY <1>16 DEF PushUnlock, Access, UnlockTicks, Goto, TypeOK
  <2>2. View(t)' = View(t)
    BY <1>16 DEF PushUnlock, Access, UnlockTicks, Goto, ReturnWith, View,
       Settled, TypeOK, locals, AddSteps, AddHolds, AccessSteps, PushSteps,
       PullSteps, TickHolds
  <2>3. UNCHANGED <<Published, m_ticks>>
    BY <1>16 DEF PushUnlock, Access, UnlockTicks, Goto, Published, array
  <2> QED BY <2>1, <2>2, <2>3, ViewStays DEF Atomic!vars
<1>17. ASSUME NEW t \in Threads, PullEmpty(t) PROVE [Atomic!Next]_(Atomic!vars)
  <2>1. CASE m_ticks[req[t].id] = <<>>
    <3>1. \A u \in Threads \ {t} :
            pc'[u] = pc[u] /\ req'[u] = req[u] /\ res'[u] = res[u]
      BY <1>17, <2>1 DEF PullEmpty, Access, Goto, ReturnWith, TypeOK
    <3>2. View(t)' = Atomic!Done(Status("NO_TICKDATA"))
      BY <1>17, <2>1 DEF PullEmpty, Access, Goto, ReturnWith, View, Settled,
         TypeOK, Atomic!Done
    <3>3. Atomic!Answer(t, Status("NO_TICKDATA"))
      BY <3>1, <3>2, ViewOfOne DEF Atomic!Answer
    <3>4. CallView[t].at = "pending" /\ CallView[t].req = req[t]
      BY <1>17, <2>1 DEF PullEmpty, Access, Goto, ReturnWith, CallView,
         Settled
    <3>5. Published \in Seq(Names \cup {NoName}) /\ Len(Published) = m_ntickers
      BY PublishedLen
    <3>6. req[t].op \in PullOps /\ req[t].id < m_ntickers
      BY <1>17 DEF PullEmpty, Access, Goto, ReturnWith, CallInv, AddSteps,
         AddHolds, AccessSteps, PushSteps, PullSteps
    <3>7. Selection(req[t], m_ticks[req[t].id]) = Status("NO_TICKDATA")
      BY <2>1, <3>6, SelectionOfEmpty
    <3>8. UNCHANGED <<Published, m_ticks>>
      BY <1>17 DEF PullEmpty, Access, Goto, ReturnWith, Published, array
    <3>9. Atomic!Pull(t, req[t])
      BY <3>3, <3>5, <3>6, <3>7, <3>8, SameSelection DEF Atomic!Pull,
         Atomic!Known
    <3>10. Atomic!Effect(t)
      BY <3>4, <3>9, <3>6, SameResults DEF Atomic!Effect
    <3> QED BY <3>10 DEF Atomic!Next
  <2>2. CASE m_ticks[req[t].id] # <<>>
    <3>1. \A u \in Threads \ {t} :
            pc'[u] = pc[u] /\ req'[u] = req[u] /\ res'[u] = res[u]
      BY <1>17 DEF PullEmpty, Access, Goto, ReturnWith, TypeOK
    <3>2. View(t)' = View(t)
      BY <1>17, <2>2 DEF PullEmpty, Access, Goto, ReturnWith, View, Settled,
         TypeOK
    <3>3. UNCHANGED <<Published, m_ticks>>
      BY <1>17 DEF PullEmpty, Access, Goto, ReturnWith, Published, array
    <3> QED BY <3>1, <3>2, <3>3, ViewStays DEF Atomic!vars
  <2> QED BY <2>1, <2>2
<1>18. ASSUME NEW t \in Threads, PullLock(t) PROVE [Atomic!Next]_(Atomic!vars)
  <2>1. \A u \in Threads \ {t} :
          pc'[u] = pc[u] /\ req'[u] = req[u] /\ res'[u] = res[u]
    BY <1>18 DEF PullLock, Access, LockTicks, Goto, TypeOK
  <2>2. View(t)' = View(t)
    BY <1>18 DEF PullLock, Access, LockTicks, Goto, ReturnWith, View, Settled,
       TypeOK, locals, AddSteps, AddHolds, AccessSteps, PushSteps, PullSteps,
       TickHolds
  <2>3. UNCHANGED <<Published, m_ticks>>
    BY <1>18 DEF PullLock, Access, LockTicks, Goto, Published, array
  <2> QED BY <2>1, <2>2, <2>3, ViewStays DEF Atomic!vars
<1>19. ASSUME NEW t \in Threads, PullHead(t) PROVE [Atomic!Next]_(Atomic!vars)
  <2>1. \A u \in Threads \ {t} :
          pc'[u] = pc[u] /\ req'[u] = req[u] /\ res'[u] = res[u]
    BY <1>19 DEF PullHead, Access, Goto, TypeOK
  <2>2. View(t)' = Atomic!Done(Selection(req[t], m_ticks[req[t].id]))
    BY <1>19 DEF PullHead, Access, Goto, ReturnWith, View, Settled, TypeOK,
       Atomic!Done
  <2>3. Atomic!Answer(t, Selection(req[t], m_ticks[req[t].id]))
    BY <2>1, <2>2, ViewOfOne DEF Atomic!Answer
  <2>4. CallView[t].at = "pending" /\ CallView[t].req = req[t]
    BY <1>19 DEF PullHead, Access, Goto, CallView, Settled
  <2>5. Published \in Seq(Names \cup {NoName}) /\ Len(Published) = m_ntickers
    BY PublishedLen
  <2>6. req[t].op \in PullOps /\ req[t].id < m_ntickers
    BY <1>19 DEF PullHead, Access, Goto, CallInv, AddSteps, AddHolds,
       AccessSteps, PushSteps, PullSteps
  <2>7. UNCHANGED <<Published, m_ticks>>
    BY <1>19 DEF PullHead, Access, Goto, Published, array
  <2>8. Atomic!Pull(t, req[t])
    BY <2>3, <2>5, <2>6, <2>7, SameSelection DEF Atomic!Pull, Atomic!Known
  <2>9. Atomic!Effect(t)
    BY <2>4, <2>8, <2>6, SameResults DEF Atomic!Effect
  <2> QED BY <2>9 DEF Atomic!Next
<1>20. ASSUME NEW t \in Threads, PullUnlock(t) PROVE [Atomic!Next]_(Atomic!vars)
  <2>1. \A u \in Threads \ {t} :
          pc'[u] = pc[u] /\ req'[u] = req[u] /\ res'[u] = res[u]
    BY <1>20 DEF PullUnlock, Access, UnlockTicks, Goto, TypeOK
  <2>2. View(t)' = View(t)
    BY <1>20 DEF PullUnlock, Access, UnlockTicks, Goto, ReturnWith, View,
       Settled, TypeOK, locals, AddSteps, AddHolds, AccessSteps, PushSteps,
       PullSteps, TickHolds
  <2>3. UNCHANGED <<Published, m_ticks>>
    BY <1>20 DEF PullUnlock, Access, UnlockTicks, Goto, Published, array
  <2> QED BY <2>1, <2>2, <2>3, ViewStays DEF Atomic!vars
<1>21. ASSUME Advance PROVE [Atomic!Next]_(Atomic!vars)
  BY <1>21 DEF Advance, Atomic!vars, Published, CallView, array, tickers,
     locals
<1>22. CASE UNCHANGED vars
  BY <1>22 DEF vars, Atomic!vars, Published, CallView, array, tickers, locals
<1> QED
  BY <1>1, <1>2, <1>3, <1>4, <1>5, <1>6, <1>7, <1>8, <1>9, <1>10, <1>11,
     <1>12, <1>13, <1>14, <1>15, <1>16, <1>17, <1>18, <1>19, <1>20, <1>21, <1>22
     DEF Next, Run, AddStep, PushStep, PullStep

\* Every behaviour of the store is a behaviour of TickStore.
THEOREM StoreImplements == Spec => Implements
<1>1. Init => Atomic!Init
  BY StoreAssumption DEF Init, Atomic!Init, Published, CallView, Atomic!Idle
<1>2. StoreInv /\ [Next]_vars => [Atomic!Next]_(Atomic!vars)
  BY Simulation
<1> QED BY <1>1, <1>2, StoreInvariance, PTL DEF Spec, Implements, Atomic!Spec
=============================================================================
