---------------------------- MODULE TickerStore -----------------------------
(***************************************************************************)
(* core_srv_data.c: the tickers of the server and their ticks, shared by   *)
(* the connection threads, one access to shared memory at a time.          *)
(*                                                                         *)
(*   m_tickerslock  is held by srv_add_ticker and srv_get_ticker only;     *)
(*   m_tickslock    one per ticker, is held around each list access;       *)
(*   m_tickers      the array of tickers, is replaced by srv_add_ticker,   *)
(*                  while every other operation reads it WITHOUT a lock.   *)
(*                                                                         *)
(* An array is named by its number of slots (0 is NULL), so each           *)
(* registration makes a new one.  slots[a] counts the slots of a that hold *)
(* a ticker: none while the array is raw memory and none once it is freed. *)
(* Reading a slot outside that count is undefined behaviour; a build reads *)
(* either what the slot held before (the access works) or something else   *)
(* (the process crashes, or nothing more can be said of it).               *)
(*                                                                         *)
(* Steps that only touch the caller's own memory, and an unlock that       *)
(* follows the last access of its critical section, belong to the step     *)
(* before them.  The walk of a pull, done after the unlock, belongs to the *)
(* read of the list head: the links it follows never change.               *)
(***************************************************************************)
EXTENDS SrvTypes

CONSTANTS Threads,      \* connection threads; each makes one call at a time
          NoThread,     \* the owner of a free mutex
          Names,        \* ticker names
          NoName,       \* the name of a slot without a ticker
          Data,         \* payloads
          Times,        \* the readings of gettimeofday
          Calls,        \* the calls the clients may make
          MaxTickers,   \* bound: registrations
          MaxTicks      \* bound: ticks pushed altogether

ASSUME StoreAssumption ==
  /\ IsFiniteSet(Threads)
  /\ NoThread \notin Threads
  /\ NoName \notin Names
  /\ Times # {} /\ Times \subseteq Timeval
  /\ MaxTickers \in Nat /\ MaxTicks \in Nat
  /\ Calls \subseteq Requests(Names, 0..MaxTickers, Data, Times)

\* The ids a client may send; MaxTickers itself is never registered.
Ids == 0..MaxTickers
Arrays == 0..MaxTickers
NotLoaded == MaxTickers + 1         \* ptr of a thread that has not read m_tickers
Ticks == Tick(Data, Times)
NoCall == [op |-> "none"]
NoResult == Status("UNKNOWN")

VARIABLES
  m_ntickers,     \* number of registered tickers
  m_tickers,      \* the current array
  slots,          \* per array: the number of its slots that hold a ticker
  m_ticker,       \* per id: the name in its struct srv_ticker
  m_ticks,        \* per id: the tick list, newest first
  m_tickerslock,  \* owner of the lock of the tickers
  m_tickslock,    \* per id: owner of the lock of its ticks
  now,            \* the clock
  pc,             \* per thread: what it does next
  req,            \* per thread: its call
  ptr,            \* per thread: the array it has loaded from m_tickers
  new_tick,       \* per thread: new_tick of srv_push_tick, as the list it heads
  res,            \* per thread: what its call returns
  crashed         \* the process has used memory that is not its own

array == <<m_ntickers, m_tickers, slots>>
tickers == <<m_ticker, m_ticks>>
locals == <<req, new_tick>>
vars == <<array, tickers, m_tickerslock, m_tickslock, now, pc, locals, ptr,
          res, crashed>>

-----------------------------------------------------------------------------
(* The control points: of srv_add_ticker, of the operations on one ticker, *)
(* and the return of any of them.                                          *)
AddHolds == {"add.grow", "add.copy", "add.free", "add.entry", "add.publish"}
AddSteps == {"add.lock"} \cup AddHolds
\* the steps that evaluate tickers->m_tickers[id]
PushSteps == {"push.lock", "push.next", "push.link", "push.unlock"}
PullSteps == {"pull.empty", "pull.lock", "pull.head", "pull.unlock"}
AccessSteps == PushSteps \cup PullSteps
\* those made holding the lock of the ticker's ticks
TickHolds == {"push.next", "push.link", "push.unlock", "pull.head", "pull.unlock"}
Steps == AddSteps \cup AccessSteps \cup {"idle", "get", "check", "return"}

Adding == {t \in Threads : pc[t] \in AddSteps}
Pushing == {t \in Threads : /\ pc[t] \in {"check"} \cup PushSteps
                            /\ req[t].op = "push_tick"}

Init ==
  /\ m_ntickers = 0
  /\ m_tickers = 0
  /\ slots = [a \in Arrays |-> 0]
  /\ m_ticker = [i \in Ids |-> NoName]
  /\ m_ticks = [i \in Ids |-> <<>>]
  /\ m_tickerslock = NoThread
  /\ m_tickslock = [i \in Ids |-> NoThread]
  /\ now \in Times
  /\ pc = [t \in Threads |-> "idle"]
  /\ req = [t \in Threads |-> NoCall]
  /\ ptr = [t \in Threads |-> NotLoaded]
  /\ new_tick = [t \in Threads |-> <<>>]
  /\ res = [t \in Threads |-> NoResult]
  /\ crashed = FALSE

Goto(t, step) == pc' = [pc EXCEPT ![t] = step]
ReturnWith(t, v) == Goto(t, "return") /\ res' = [res EXCEPT ![t] = v]

-----------------------------------------------------------------------------
(* A connection thread calls an operation, and has its result.             *)

\* Not in the code: the bounds on what the clients ask for.
InBounds(r) ==
  /\ r.op = "add_ticker" => m_ntickers + Cardinality(Adding) < MaxTickers
  /\ r.op = "push_tick" =>
       Cardinality(Pushing)
         + MapThenSumSet(LAMBDA i : Len(m_ticks[i]), Ids) < MaxTicks

Begin(t, r) ==
  /\ pc[t] = "idle"
  /\ InBounds(r)
  /\ req' = [req EXCEPT ![t] = r]
  /\ Goto(t, IF r.op = "add_ticker" THEN "add.lock"
             ELSE IF r.op = "get_ticker" THEN "get" ELSE "check")
  /\ UNCHANGED <<array, tickers, m_tickerslock, m_tickslock, now, new_tick,
                 ptr, res, crashed>>

Finish(t) ==
  /\ pc[t] = "return"
  /\ Goto(t, "idle")
  /\ req' = [req EXCEPT ![t] = NoCall]
  /\ new_tick' = [new_tick EXCEPT ![t] = <<>>]
  /\ res' = [res EXCEPT ![t] = NoResult]
  /\ UNCHANGED <<array, tickers, m_tickerslock, m_tickslock, now, ptr, crashed>>

-----------------------------------------------------------------------------
(* srv_add_ticker                                                          *)

AddLock(t) ==
  /\ pc[t] = "add.lock"
  /\ m_tickerslock = NoThread
  /\ m_tickerslock' = t
  /\ Goto(t, "add.grow")
  /\ UNCHANGED <<array, tickers, m_tickslock, now, locals, ptr, res, crashed>>

\* The new array replaces the old one while it is still raw memory.
AddGrow(t) ==
  /\ pc[t] = "add.grow"
  /\ m_tickers' = m_ntickers + 1
  /\ Goto(t, "add.copy")
  /\ UNCHANGED <<m_ntickers, slots, tickers, m_tickerslock, m_tickslock, now,
                 locals, ptr, res, crashed>>

AddCopy(t) ==
  /\ pc[t] = "add.copy"
  /\ slots' = [slots EXCEPT ![m_tickers] = m_ntickers]
  /\ Goto(t, "add.free")
  /\ UNCHANGED <<m_ntickers, m_tickers, tickers, m_tickerslock, m_tickslock,
                 now, locals, ptr, res, crashed>>

\* Mutant: the new array is freed instead of the old one.
AddFreeNew(t) ==
  /\ pc[t] = "add.free"
  /\ slots' = [slots EXCEPT ![m_tickers] = 0]
  /\ Goto(t, "add.entry")
  /\ UNCHANGED <<m_ntickers, m_tickers, tickers, m_tickerslock, m_tickslock,
                 now, locals, ptr, res, crashed>>

\* tmp is the array of one slot less.
AddFree(t) ==
  /\ pc[t] = "add.free"
  /\ slots' = [slots EXCEPT ![m_tickers - 1] = 0]
  /\ Goto(t, "add.entry")
  /\ UNCHANGED <<m_ntickers, m_tickers, tickers, m_tickerslock, m_tickslock,
                 now, locals, ptr, res, crashed>>

\* Mutant: the entry of the last registered ticker is reused.
AddEntryReuse(t) ==
  LET last == IF m_ntickers = 0 THEN 0 ELSE m_ntickers - 1
  IN  /\ pc[t] = "add.entry"
      /\ slots' = [slots EXCEPT ![m_tickers] = m_ntickers + 1]
      /\ m_ticker' = [m_ticker EXCEPT ![last] = req[t].name]
      /\ Goto(t, "add.publish")
      /\ UNCHANGED <<m_ntickers, m_tickers, m_ticks, m_tickerslock, m_tickslock,
                     now, locals, ptr, res, crashed>>

AddEntry(t) ==
  /\ pc[t] = "add.entry"
  /\ slots' = [slots EXCEPT ![m_tickers] = m_ntickers + 1]
  /\ m_ticker' = [m_ticker EXCEPT ![m_ntickers] = req[t].name]
  /\ m_ticks' = [m_ticks EXCEPT ![m_ntickers] = <<>>]
  /\ m_tickslock' = [m_tickslock EXCEPT ![m_ntickers] = NoThread]
  /\ Goto(t, "add.publish")
  /\ UNCHANGED <<m_ntickers, m_tickers, m_tickerslock, now, locals, ptr, res,
                 crashed>>

AddPublish(t) ==
  /\ pc[t] = "add.publish"
  /\ m_ntickers' = m_ntickers + 1
  /\ ReturnWith(t, Found(m_ntickers))
  /\ m_tickerslock' = NoThread
  /\ UNCHANGED <<m_tickers, slots, tickers, m_tickslock, now, locals, ptr,
                 crashed>>

-----------------------------------------------------------------------------
(* srv_get_ticker: one critical section, so one step.                      *)

Matches(n) == {i \in Ids : i < m_ntickers /\ m_ticker[i] = n}

GetTicker(t) ==
  /\ pc[t] = "get"
  /\ m_tickerslock = NoThread
  /\ LET hits == Matches(req[t].name)
     IN  ReturnWith(t, IF hits = {} THEN Status("UNKNOWN") ELSE Found(Min(hits)))
  /\ UNCHANGED <<array, tickers, m_tickerslock, m_tickslock, now, locals, ptr,
                 crashed>>

-----------------------------------------------------------------------------
(* The operations on one ticker begin alike: the id is compared with the   *)
(* number of tickers, without a lock.  A push then makes its tick, and     *)
(* stamps it with the time of day, before it asks for the lock.            *)

\* Mutant: the comparison lets the number of tickers itself pass.
CheckOffByOne(t) ==
  /\ pc[t] = "check"
  /\ IF req[t].id > m_ntickers
     THEN ReturnWith(t, Status("UNKNOWN_TICKER")) /\ UNCHANGED new_tick
     ELSE /\ IF req[t].op = "push_tick"
             THEN /\ new_tick' = [new_tick EXCEPT
                       ![t] = <<[data |-> req[t].data, time |-> now]>>]
                  /\ Goto(t, "push.lock")
             ELSE Goto(t, "pull.empty") /\ UNCHANGED new_tick
          /\ UNCHANGED res
  /\ UNCHANGED <<array, tickers, m_tickerslock, m_tickslock, now, req, ptr,
                 crashed>>

\* Mutant: the seconds of the clock are those of the server's start.
CheckOldSeconds(t) ==
  /\ pc[t] = "check"
  /\ IF req[t].id >= m_ntickers
     THEN ReturnWith(t, Status("UNKNOWN_TICKER")) /\ UNCHANGED new_tick
     ELSE /\ IF req[t].op = "push_tick"
             THEN /\ new_tick' = [new_tick EXCEPT
                       ![t] = <<[data |-> req[t].data, time |->
                         [now EXCEPT !.sec = Min({x.sec : x \in Times})]]>>]
                  /\ Goto(t, "push.lock")
             ELSE Goto(t, "pull.empty") /\ UNCHANGED new_tick
          /\ UNCHANGED res
  /\ UNCHANGED <<array, tickers, m_tickerslock, m_tickslock, now, req, ptr,
                 crashed>>

Check(t) ==
  /\ pc[t] = "check"
  /\ IF req[t].id >= m_ntickers
     THEN ReturnWith(t, Status("UNKNOWN_TICKER")) /\ UNCHANGED new_tick
     ELSE /\ IF req[t].op = "push_tick"
             THEN /\ new_tick' = [new_tick EXCEPT
                       ![t] = <<[data |-> req[t].data, time |-> now]>>]
                  /\ Goto(t, "push.lock")
             ELSE Goto(t, "pull.empty") /\ UNCHANGED new_tick
          /\ UNCHANGED res
  /\ UNCHANGED <<array, tickers, m_tickerslock, m_tickslock, now, req, ptr,
                 crashed>>

\* Evaluating tickers->m_tickers[id]: the array is loaded in one step, its
\* slot read in a later one, together with the access it serves.
Load(t) ==
  /\ pc[t] \in AccessSteps
  /\ ptr[t] = NotLoaded
  /\ ptr' = [ptr EXCEPT ![t] = m_tickers]
  /\ UNCHANGED <<array, tickers, m_tickerslock, m_tickslock, now, pc, locals,
                 res, crashed>>

Defined(t) == req[t].id < slots[ptr[t]]

Wild(t) ==
  /\ ptr[t] # NotLoaded
  /\ ~Defined(t)
  /\ crashed' = TRUE
  /\ UNCHANGED <<array, tickers, m_tickerslock, m_tickslock, now, pc, locals,
                 ptr, res>>

\* A defined access, or an undefined one that happens to work.
Access(t, step) ==
  /\ pc[t] = step
  /\ ptr[t] # NotLoaded
  /\ ptr' = [ptr EXCEPT ![t] = NotLoaded]
  /\ UNCHANGED <<array, m_ticker, m_tickerslock, now, req, crashed>>

LockTicks(t) == /\ m_tickslock[req[t].id] = NoThread
                /\ m_tickslock' = [m_tickslock EXCEPT ![req[t].id] = t]

UnlockTicks(t) == m_tickslock' = [m_tickslock EXCEPT ![req[t].id] = NoThread]

-----------------------------------------------------------------------------
(* srv_push_tick                                                           *)

\* Mutant: a push does not wait for the lock of the ticks.
PushLockFree(t) == /\ Access(t, "push.lock")
                   /\ Goto(t, "push.next")
                   /\ UNCHANGED <<m_ticks, m_tickslock, new_tick, res>>

PushLock(t) == /\ Access(t, "push.lock")
               /\ LockTicks(t)
               /\ Goto(t, "push.next")
               /\ UNCHANGED <<m_ticks, new_tick, res>>

PushNext(t) == /\ Access(t, "push.next")
               /\ new_tick' = [new_tick EXCEPT ![t] = @ \o m_ticks[req[t].id]]
               /\ Goto(t, "push.link")
               /\ UNCHANGED <<m_ticks, m_tickslock, res>>

PushLink(t) == /\ Access(t, "push.link")
               /\ m_ticks' = [m_ticks EXCEPT ![req[t].id] = new_tick[t]]
               /\ res' = [res EXCEPT ![t] = Status("SUCCESS")]
               /\ Goto(t, "push.unlock")
               /\ UNCHANGED <<m_tickslock, new_tick>>

\* Mutant: a push returns without unlocking.
PushUnlockForgotten(t) == /\ Access(t, "push.unlock")
                          /\ Goto(t, "return")
                          /\ UNCHANGED <<m_ticks, m_tickslock, new_tick, res>>

PushUnlock(t) == /\ Access(t, "push.unlock")
                 /\ UnlockTicks(t)
                 /\ Goto(t, "return")
                 /\ UNCHANGED <<m_ticks, new_tick, res>>

-----------------------------------------------------------------------------
(* srv_pull_tick, srv_pull_tick_by_datetime, srv_pull_tick_update          *)

\* The emptiness of the list is tested without the lock.
PullEmpty(t) ==
  /\ Access(t, "pull.empty")
  /\ IF m_ticks[req[t].id] = <<>>
     THEN ReturnWith(t, Status("NO_TICKDATA"))
     ELSE Goto(t, "pull.lock") /\ UNCHANGED res
  /\ UNCHANGED <<m_ticks, m_tickslock, new_tick>>

PullLock(t) == /\ Access(t, "pull.lock")
               /\ LockTicks(t)
               /\ Goto(t, "pull.head")
               /\ UNCHANGED <<m_ticks, new_tick, res>>

PullHead(t) ==
  /\ Access(t, "pull.head")
  /\ res' = [res EXCEPT ![t] = Selection(req[t], m_ticks[req[t].id])]
  /\ Goto(t, "pull.unlock")
  /\ UNCHANGED <<m_ticks, m_tickslock, new_tick>>

PullUnlock(t) == /\ Access(t, "pull.unlock")
                 /\ UnlockTicks(t)
                 /\ Goto(t, "return")
                 /\ UNCHANGED <<m_ticks, new_tick, res>>

-----------------------------------------------------------------------------
Advance ==
  /\ now' \in Times
  /\ Later(now', now)
  /\ UNCHANGED <<array, tickers, m_tickerslock, m_tickslock, pc, locals, ptr,
                 res, crashed>>

AddStep(t) == \/ AddLock(t) \/ AddGrow(t) \/ AddCopy(t)
              \/ AddFree(t) \/ AddEntry(t) \/ AddPublish(t)
PushStep(t) == PushLock(t) \/ PushNext(t) \/ PushLink(t) \/ PushUnlock(t)
PullStep(t) == PullEmpty(t) \/ PullLock(t) \/ PullHead(t) \/ PullUnlock(t)

\* What a thread does by itself once it has been asked for something.
Run(t) == /\ ~crashed
          /\ \/ AddStep(t) \/ GetTicker(t) \/ Check(t)
             \/ Load(t) \/ PushStep(t) \/ PullStep(t) \/ Finish(t)

Next == \/ /\ ~crashed
           /\ \/ \E t \in Threads, r \in Calls : Begin(t, r)
              \/ \E t \in Threads : Wild(t)
              \/ Advance
        \/ \E t \in Threads : Run(t)

Spec == Init /\ [][Next]_vars

\* The scheduler runs every thread that can run; nothing makes a client call
\* or the clock advance, and a mutex promises no order to its waiters.
FairSpec == Spec /\ \A t \in Threads : WF_vars(Run(t))

-----------------------------------------------------------------------------
(* Properties                                                              *)

\* Every variable has the type its declaration in core_srv_data.h gives it.
TypeOK ==
  /\ m_ntickers \in 0..MaxTickers
  /\ m_tickers \in Arrays
  /\ slots \in [Arrays -> 0..MaxTickers]
  /\ m_ticker \in [Ids -> Names \cup {NoName}]
  /\ m_ticks \in [Ids -> Seq(Ticks)]
  /\ m_tickerslock \in Threads \cup {NoThread}
  /\ m_tickslock \in [Ids -> Threads \cup {NoThread}]
  /\ now \in Times
  /\ pc \in [Threads -> Steps]
  /\ req \in [Threads -> Calls \cup {NoCall}]
  /\ ptr \in [Threads -> Arrays \cup {NotLoaded}]
  /\ new_tick \in [Threads -> Seq(Ticks)]
  /\ res \in [Threads -> Results(Ids, Ticks)]
  /\ crashed \in BOOLEAN

\* The owner of m_tickerslock is the thread inside srv_add_ticker's critical
\* section, the owner of a ticker's m_tickslock the one inside a section of it.
LockInv ==
  /\ \A t \in Threads : m_tickerslock = t <=> pc[t] \in AddHolds
  /\ \A t \in Threads, i \in Ids :
       m_tickslock[i] = t <=> pc[t] \in TickHolds /\ req[t].id = i

\* Where the registration under way has got to.
Stage == IF m_tickerslock = NoThread THEN "idle" ELSE pc[m_tickerslock]

\* At each stage of a registration, which array is current and how much of each
\* array is defined: the old one until it is freed, the new one once copied.
ArrayInv ==
  /\ m_tickers = IF Stage \in {"idle", "add.grow"} THEN m_ntickers
                                                   ELSE m_ntickers + 1
  /\ \A a \in Arrays :
       /\ a = m_ntickers =>
            slots[a] = IF Stage \in {"add.entry", "add.publish"} THEN 0 ELSE a
       /\ a = m_ntickers + 1 =>
            slots[a] = IF Stage \in {"add.free", "add.entry"} THEN a - 1
                       ELSE IF Stage = "add.publish" THEN a ELSE 0
       /\ a \notin {m_ntickers, m_ntickers + 1} => slots[a] = 0

\* What a thread has established about its call when it gets to a step: the op
\* it executes, and that its id is registered before it touches the ticker.
CallInv ==
  \A t \in Threads :
    /\ pc[t] \in AddSteps => req[t].op = "add_ticker"
    /\ pc[t] = "get" => req[t].op = "get_ticker"
    /\ pc[t] = "check" => req[t].op \in PullOps \cup {"push_tick"}
    /\ pc[t] \in PushSteps => req[t].op = "push_tick"
    /\ pc[t] \in PullSteps => req[t].op \in PullOps
    /\ pc[t] \in AccessSteps => req[t].id < m_ntickers
    /\ ptr[t] # NotLoaded =>
         pc[t] \in AccessSteps /\ ptr[t] <= m_tickers

\* A slot that is not registered holds no tick and no lock, and the calls of
\* srv_add_ticker under way fit in the bound.
RoomInv ==
  /\ \A i \in Ids : i >= m_ntickers => m_ticks[i] = <<>> /\ m_tickslock[i] = NoThread
  /\ m_ntickers + Cardinality(Adding) <= MaxTickers

\* A tick about to be linked points to the newest tick of its list: it was read
\* under the lock and nobody has linked another one since.
LinkInv ==
  \A t \in Threads :
    /\ pc[t] \in {"push.lock", "push.next"} =>
         \E k \in Ticks : new_tick[t] = <<k>>
    /\ pc[t] = "push.link" =>
         \E k \in Ticks : new_tick[t] = <<k>> \o m_ticks[req[t].id]
    /\ pc[t] = "pull.head" => m_ticks[req[t].id] # <<>>
    /\ pc[t] = "pull.lock" => m_ticks[req[t].id] # <<>>

\* The entry about to be published bears the name its caller asked for.
EntryInv ==
  \A t \in Threads : pc[t] = "add.publish" => m_ticker[m_ntickers] = req[t].name

\* The tick that a push carries has the payload its caller sent.
StampInv ==
  \A t \in Threads :
    pc[t] \in {"push.lock", "push.next", "push.link"} =>
      new_tick[t][1].data = req[t].data

\* No tick, linked or about to be, bears a stamp later than the clock.
PastInv ==
  /\ \A i \in Ids : \A k \in DOMAIN m_ticks[i] : ~Later(m_ticks[i][k].time, now)
  /\ \A t \in Threads :
       pc[t] \in {"push.lock", "push.next", "push.link"} =>
         ~Later(new_tick[t][1].time, now)

\* The inductive invariant of the store.
StoreInv == /\ TypeOK /\ LockInv /\ ArrayInv /\ CallInv /\ RoomInv /\ LinkInv
            /\ EntryInv /\ StampInv /\ PastInv

\* An undefined read of the ticker array needs a registration that is replacing
\* it: the array read is raw memory being filled, or has been replaced since.
\* Unlocked readers of m_tickers are safe whenever no registration runs.
UndefinedOnlyWhileReplaced ==
  \A t \in Threads :
    ptr[t] # NotLoaded /\ ~Defined(t) =>
      ptr[t] # m_tickers \/ \E u \in Threads : pc[u] = "add.copy"

\* A ticker's history is never rewritten: its list only ever gains one tick, at
\* its head, whatever pushes, pulls and registrations run at the same time.
HistoryAppendOnly ==
  [][\A i \in Ids : m_ticks'[i] # m_ticks[i] =>
       \E k \in Ticks : m_ticks'[i] = <<k>> \o m_ticks[i]]_vars

\* The id a client has got for a name stays the id of that name: a later
\* registration, of that name again or of another, never changes it.
StableIds ==
  [][\A n \in Names : Matches(n) # {} =>
       Matches(n)' # {} /\ Min(Matches(n)') = Min(Matches(n))]_vars

\* Every call takes effect in one step between its start and its return: the
\* store implements TickStore.
Published == [i \in 1..m_ntickers |-> m_ticker[i - 1]]
Settled == {"return", "push.unlock", "pull.unlock"}
CallView ==
  [t \in Threads |->
     IF pc[t] = "idle" THEN [at |-> "idle"]
     ELSE IF pc[t] \in Settled THEN [at |-> "done", res |-> res[t]]
     ELSE [at |-> "pending", req |-> req[t]]]

Atomic == INSTANCE TickStore
            WITH catalog <- Published, log <- m_ticks, call <- CallView

Implements == Atomic!Spec

\* While some call is under way, some call gets to its return, unless the
\* process crashes: the two kinds of locks never block all the callers.
SomeCallReturns ==
  (\E t \in Threads : pc[t] # "idle") ~>
    (crashed \/ \E t \in Threads : pc[t] = "return")

\* srv_push_tick reads the clock before it asks for the lock of the list, so a
\* tick may be linked on top of a later one, and a pull then returns a tick that
\* is not the most recent (core_srv_types.h:33).  Only pushes that overlap can do
\* that: a push never stamps its tick earlier than one that is linked by then.
OnlyOverlapReorders ==
  [][\A t \in Threads : pc[t] = "check" /\ pc'[t] = "push.lock" =>
       \A k \in DOMAIN m_ticks[req[t].id] :
         ~Later(m_ticks[req[t].id][k].time, new_tick'[t][1].time)]_vars
=============================================================================
