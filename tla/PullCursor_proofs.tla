-------------------------- MODULE PullCursor_proofs --------------------------
(***************************************************************************)
(* The cursor of a connection never lets an update come that is not new,   *)
(* for any tickers, stamps and pulls; and a connection that follows one    *)
(* ticker by its updates gets every tick, when their stamps are apart.     *)
(***************************************************************************)
EXTENDS PullCursor, SequenceTheorems, WellFoundedInduction, TLAPS

-----------------------------------------------------------------------------
(* The selections of SrvTypes, for every list of ticks                     *)

\* The order of the naturals is well founded, so a set of them has a least one.
LEMMA LessIsWellFounded ==
  IsWellFoundedOn({p \in Nat \X Nat : p[1] < p[2]}, Nat)
<1>1. OpToRel(<, Nat) = {p \in Nat \X Nat : p[1] < p[2]}
  BY DEF OpToRel
<1> QED BY <1>1, NatLessThanWellFounded, Zenon

\* A set of naturals that has an element has a least one, and Min chooses it.
LEMMA MinOfNat ==
  ASSUME NEW T \in SUBSET Nat, T # {}
  PROVE  Min(T) \in T /\ \A y \in T : Min(T) <= y
<1> DEFINE R == {p \in Nat \X Nat : p[1] < p[2]}
<1>1. \E x \in T : \A y \in T : <<y, x>> \notin R
  <2> HIDE DEF R
  <2>1. IsWellFoundedOn(R, Nat) BY LessIsWellFounded, Zenon DEF R
  <2> QED BY <2>1, WFMin, Zenon
<1>2. PICK x \in T : \A y \in T : <<y, x>> \notin R
  BY <1>1
<1>3. ASSUME NEW y \in T PROVE x <= y
  <2>1. x \in Nat /\ y \in Nat /\ <<y, x>> \notin R
    BY <1>2
  <2>2. ~ (y < x)
    BY <2>1, SMT
  <2> QED BY <2>1, <2>2
<1> QED
  BY <1>3 DEF Min

\* A set of naturals that has an element and a bound has a greatest element,
\* and Max chooses it.
LEMMA MaxOfBounded ==
  ASSUME NEW n \in Nat, NEW T \in SUBSET (0..n), T # {}
  PROVE  Max(T) \in T /\ \A y \in T : Max(T) >= y
<1> DEFINE M == {n - y : y \in T}
<1>1. M \in SUBSET Nat /\ M # {}
  <2>1. \A y \in T : n - y \in Nat
    OBVIOUS
  <2>2. PICK y \in T : TRUE
    OBVIOUS
  <2>3. n - y \in M
    BY <2>2
  <2> QED BY <2>1, <2>3
<1>2. PICK m \in M : \A z \in M : m <= z
  BY <1>1, MinOfNat
<1>3. PICK x \in T : m = n - x
  OBVIOUS
<1>4. ASSUME NEW y \in T PROVE x >= y
  <2>1. n - y \in M
    OBVIOUS
  <2>2. n - x <= n - y
    BY <1>2, <1>3, <2>1
  <2> QED BY <2>2
<1> QED
  BY <1>3, <1>4 DEF Max

\* srv_pull_tick_by_datetime returns the tick pushed last among those that are
\* not later than the time asked for, or no tick when every one is later.
THEOREM ByDatetimeIsNewestNotLater ==
  ASSUME NEW D, NEW list \in Seq(Tick(D, Timeval)), NEW at \in Timeval
  PROVE  LET v == PullByDatetime(list, at)
         IN  \/ /\ v = Status("NO_TICKDATA")
                /\ \A k \in DOMAIN list : Later(list[k].time, at)
             \/ \E k \in DOMAIN list :
                  /\ v = Pulled(list[k])
                  /\ ~Later(list[k].time, at)
                  /\ \A j \in 1..(k - 1) : Later(list[j].time, at)
<1> DEFINE hits == {k \in DOMAIN list : ~Later(list[k].time, at)}
<1>1. CASE hits = {}
  BY <1>1 DEF PullByDatetime
<1>2. CASE hits # {}
  <2>1. hits \in SUBSET Nat
    OBVIOUS
  <2>2. Min(hits) \in hits /\ \A y \in hits : Min(hits) <= y
    BY <1>2, <2>1, MinOfNat
  <2> DEFINE m == Min(hits)
  <2>3. m \in DOMAIN list /\ ~Later(list[m].time, at)
    BY <2>2
  <2>4. PullByDatetime(list, at) = Pulled(list[m])
    BY <1>2 DEF PullByDatetime
  <2>5. ASSUME NEW j \in 1..(m - 1) PROVE Later(list[j].time, at)
    <3>1. j \in DOMAIN list /\ ~(m <= j)
      BY <2>3
    <3> QED BY <2>2, <3>1
  <2> HIDE DEF m
  <2> QED BY <2>3, <2>4, <2>5
<1> QED BY <1>1, <1>2

\* srv_pull_tick_update returns a tick of the list such that every newer one
\* but the head is later than the time asked for, and the next one is not; and
\* it returns no tick exactly when the head is earlier than that time.
THEOREM UpdateStopsAtFirstNotLater ==
  ASSUME NEW D, NEW list \in Seq(Tick(D, Timeval)), NEW at \in Timeval,
         list # <<>>
  PROVE  LET v == PullUpdate(list, at)
         IN  \/ v = Status("NO_TICKDATA") /\ Earlier(list[1].time, at)
             \/ /\ ~Earlier(list[1].time, at)
                /\ \E k \in DOMAIN list :
                     /\ v = Pulled(list[k])
                     /\ \A j \in 2..k : Later(list[j].time, at)
                     /\ k + 1 \in DOMAIN list =>
                          ~Later(list[k + 1].time, at)
<1> DEFINE walk == {k \in DOMAIN list : \A j \in 2..k : Later(list[j].time, at)}
<1>1. CASE Earlier(list[1].time, at)
  BY <1>1 DEF PullUpdate
<1>2. CASE ~Earlier(list[1].time, at)
  <2>1. walk \in SUBSET (0..Len(list)) /\ 1 \in walk
    OBVIOUS
  <2>2. Max(walk) \in walk /\ \A y \in walk : Max(walk) >= y
    <3> HIDE DEF walk
    <3>1. Len(list) \in Nat /\ walk # {}
      BY <2>1
    <3> QED BY <2>1, <3>1, MaxOfBounded
  <2> DEFINE m == Max(walk)
  <2>3. m \in DOMAIN list /\ \A j \in 2..m : Later(list[j].time, at)
    BY <2>2
  <2>4. PullUpdate(list, at) = Pulled(list[m])
    BY <1>2 DEF PullUpdate
  <2>5. ASSUME m + 1 \in DOMAIN list PROVE ~Later(list[m + 1].time, at)
    <3>1. m + 1 \notin walk
      <4> HIDE DEF walk
      <4>1. m \in 0..Len(list) /\ \A y \in walk : m >= y
        BY <2>1, <2>2
      <4>2. Len(list) \in Nat
        OBVIOUS
      <4> HIDE DEF m
      <4> QED BY <4>1, <4>2
    <3>2. PICK j \in 2..(m + 1) : ~Later(list[j].time, at)
      BY <3>1, <2>5
    <3>3. j = m + 1
      BY <2>3, <3>2
    <3> QED BY <3>2, <3>3
  <2> HIDE DEF m
  <2> QED BY <1>2, <2>3, <2>4, <2>5
<1> QED BY <1>1, <1>2

-----------------------------------------------------------------------------
(* The answers of the store                                                *)

\* What the types of the lists and times are used for below.
LEMMA TimesAreTimevals ==
  /\ Times \cup {Zero} \subseteq Timeval
  /\ Ticks \subseteq Tick(1..MaxTicks, Timeval)
BY CursorAssumption DEF Zero, Timeval, Ticks, Tick

\* The later of two times is later than what the earlier one is later than.
LEMMA LaterIsTransitive ==
  ASSUME NEW a \in Timeval, NEW b \in Timeval, NEW c \in Timeval,
         Later(a, b), ~Later(c, b)
  PROVE  Later(a, c)
BY DEF Later, Timeval

\* A microsecond past a time is later than it, and what is later than that is
\* later than the time.
LEMMA PastIsLater ==
  ASSUME NEW a \in Timeval
  PROVE  /\ Past(a) \in Timeval
         /\ Later(Past(a), a)
BY DEF Later, Timeval, Past

\* What the store answers to a pull of any kind: a tick of the list, or no tick.
LEMMA AnswerIsOfTheList ==
  ASSUME TypeOK, NEW i \in Ids, NEW STATE r, r.id = i, r.op \in PullOps,
         r.op \in DatedOps => r.at \in Timeval,
         Answer(r).status = "SUCCESS"
  PROVE  \E k \in DOMAIN m_ticks[i] : Answer(r) = Pulled(m_ticks[i][k])
<1> DEFINE list == m_ticks[i]
<1>1. list \in Seq(Tick(1..MaxTicks, Timeval))
  BY TimesAreTimevals DEF TypeOK
<1>2. CASE r.op = "pull_tick"
  BY <1>1, <1>2 DEF Answer, Selection, PullTick, Status
<1>3. CASE r.op = "pull_tick_by_datetime"
  <2>1. r.at \in Timeval /\ Answer(r) = PullByDatetime(list, r.at)
    BY <1>3 DEF Answer, Selection, DatedOps
  <2> QED BY <1>1, <2>1, ByDatetimeIsNewestNotLater DEF Status
<1>4. CASE r.op = "pull_tick_update"
  <2>1. r.at \in Timeval /\ Answer(r) = PullUpdate(list, r.at)
    BY <1>4 DEF Answer, Selection, DatedOps
  <2>2. list # <<>>
    BY <2>1 DEF PullUpdate, Status
  <2> QED BY <1>1, <2>1, <2>2, UpdateStopsAtFirstNotLater DEF Status
<1> QED BY <1>2, <1>3, <1>4 DEF PullOps, DatedOps

\* A request of one of the three handlers: well formed, and if the store has a
\* tick for it, that tick and its stamp have their types.
LEMMA AnswerType ==
  ASSUME TypeOK, NEW i \in Ids, NEW STATE r, r.id = i, r.op \in PullOps,
         r.op \in DatedOps => r.at \in Timeval,
         Answer(r).status = "SUCCESS"
  PROVE  /\ Answer(r).tick \in Ticks
         /\ Stamp(r) \in Times
         /\ Stamp(r) = Answer(r).tick.time
<1>1. PICK k \in DOMAIN m_ticks[i] : Answer(r) = Pulled(m_ticks[i][k])
  BY AnswerIsOfTheList
<1>2. m_ticks[i][k] \in Ticks
  BY DEF TypeOK
<1> QED BY <1>1, <1>2 DEF Stamp, Pulled, Ticks, Tick

\* An update is later than the cursor.
LEMMA UpdateIsLater ==
  ASSUME TypeOK, NEW i \in Ids,
         Answer(UpdateOf(i, UpdateFrom)).status = "SUCCESS"
  PROVE  Later(Stamp(UpdateOf(i, UpdateFrom)), last_pull)
<1> DEFINE r == UpdateOf(i, UpdateFrom)
           list == m_ticks[i]
<1>1. last_pull \in Timeval
  BY TimesAreTimevals DEF TypeOK
<1>2. UpdateFrom \in Timeval /\ Later(UpdateFrom, last_pull)
  BY <1>1, PastIsLater DEF UpdateFrom
<1>3. list \in Seq(Tick(1..MaxTicks, Timeval))
  BY TimesAreTimevals DEF TypeOK
<1>4. Answer(r) = PullUpdate(list, UpdateFrom)
  BY DEF Answer, Selection, UpdateOf
<1>5. list # <<>>
  BY <1>4 DEF PullUpdate, Status
<1>6. PICK k \in DOMAIN list : /\ Answer(r) = Pulled(list[k])
                               /\ ~Earlier(list[1].time, UpdateFrom)
                               /\ \A j \in 2..k : Later(list[j].time, UpdateFrom)
  BY <1>2, <1>3, <1>4, <1>5, UpdateStopsAtFirstNotLater DEF Status
<1>7. list[k].time \in Timeval /\ Stamp(r) = list[k].time
  <2>1. list[k] \in Tick(1..MaxTicks, Timeval)
    BY <1>3
  <2>2. Stamp(r) = list[k].time
    BY <1>6 DEF Stamp, Pulled
  <2> QED BY <2>1, <2>2 DEF Tick
<1>8. ~Earlier(list[k].time, UpdateFrom)
  <2>1. CASE k = 1
    BY <2>1, <1>6
  <2>2. CASE k # 1
    <3>1. k \in 2..k
      BY <2>2, <1>3
    <3>2. Later(list[k].time, UpdateFrom)
      BY <3>1, <1>6
    <3> QED BY <3>2, <1>2, <1>7 DEF Earlier, Later, Timeval
  <2> QED BY <2>1, <2>2
<1> QED BY <1>1, <1>2, <1>7, <1>8 DEF Earlier, Later, Timeval

-----------------------------------------------------------------------------
(* The cursor                                                              *)

\* The requests of the handlers have the fields that the lemmas ask for.
LEMMA RequestsOfHandlers ==
  ASSUME TypeOK, NEW i \in Ids, NEW at \in Times
  PROVE  /\ NewestOf(i).id = i /\ NewestOf(i).op = "pull_tick"
         /\ AsOf(i, at).id = i /\ AsOf(i, at).op = "pull_tick_by_datetime"
         /\ AsOf(i, at).at \in Timeval
         /\ UpdateOf(i, UpdateFrom).id = i
         /\ UpdateOf(i, UpdateFrom).op = "pull_tick_update"
         /\ UpdateOf(i, UpdateFrom).at \in Timeval
<1>1. UpdateFrom \in Timeval
  BY TimesAreTimevals, PastIsLater DEF TypeOK, UpdateFrom
<1> QED BY <1>1, TimesAreTimevals DEF NewestOf, AsOf, UpdateOf

\* A handler keeps the types, when the cursor that it sets has its type.
LEMMA HandleKeepsTypes ==
  ASSUME TypeOK, NEW i \in Ids, NEW STATE r, r.id = i, r.op \in PullOps,
         r.op \in DatedOps => r.at \in Timeval,
         NEW STATE cursor, Handle(r, cursor),
         Answer(r).status = "SUCCESS" => cursor \in Times \cup {Zero}
  PROVE  TypeOK'
<1>1. CASE Answer(r).status = "SUCCESS"
  <2>1. Answer(r).tick \in Ticks /\ Stamp(r) \in Times
    BY <1>1, AnswerType
  <2>2. last_pull' = cursor /\ m_ticks' = m_ticks
        /\ latest' \in {Stamp(r), latest}
        /\ updates' \in {updates, [updates EXCEPT ![i] = Append(@, Answer(r).tick)]}
    BY <1>1 DEF Handle
  <2>3. latest' \in Times \cup {Zero} /\ last_pull' \in Times \cup {Zero}
    BY <1>1, <2>1, <2>2 DEF TypeOK
  <2>4. updates' \in [Ids -> Seq(Ticks)]
    <3>1. Append(updates[i], Answer(r).tick) \in Seq(Ticks)
      BY <2>1 DEF TypeOK
    <3> QED BY <2>2, <3>1 DEF TypeOK
  <2> QED BY <2>2, <2>3, <2>4 DEF TypeOK
<1>2. CASE Answer(r).status # "SUCCESS"
  BY <1>2 DEF Handle, TypeOK
<1> QED BY <1>1, <1>2

\* Initially nothing has been read.
LEMMA CursorInit == Init => CursorInv
BY CursorAssumption DEF Init, CursorInv, TypeOK, Later, Zero, Ticks

\* A push keeps the invariant of the cursor.
LEMMA PushKeepsCursor ==
  ASSUME CursorInv, NEW i \in Ids, NEW at \in Times, Push(i, at)
  PROVE  CursorInv'
<1>1. Len(m_ticks[i]) + 1 \in 1..MaxTicks
  BY CursorAssumption DEF Push, CursorInv, TypeOK
<1>2. [data |-> Len(m_ticks[i]) + 1, time |-> at] \in Ticks
  BY <1>1 DEF Ticks, Tick
<1>3. m_ticks' \in [Ids -> Seq(Ticks)]
  BY <1>2 DEF Push, CursorInv, TypeOK
<1> QED BY <1>3 DEF Push, CursorInv, TypeOK

\* So does each handler.
LEMMA PullTickKeepsCursor ==
  ASSUME CursorInv, NEW i \in Ids, PullTickCommand(i)
  PROVE  CursorInv'
<1> DEFINE r == NewestOf(i)
<1>1. TypeOK /\ r.id = i /\ r.op = "pull_tick" /\ r.op \in PullOps /\ r.op \notin DatedOps
  BY RequestsOfHandlers DEF CursorInv, PullOps, DatedOps, NewestOf
<1>2. Answer(r).status = "SUCCESS" => Stamp(r) \in Times
  BY <1>1, AnswerType
<1>3. TypeOK'
  BY <1>1, <1>2, HandleKeepsTypes DEF PullTickCommand
<1>4. ~Later(latest', last_pull')
  <2>1. CASE Answer(r).status = "SUCCESS"
    <3>1. last_pull' = Stamp(r) /\ latest' = Stamp(r)
      BY <2>1, <1>1 DEF PullTickCommand, Handle
    <3>2. Stamp(r) \in Timeval
      BY <2>1, <1>2, TimesAreTimevals
    <3> QED BY <3>1, <3>2 DEF Later, Timeval
  <2>2. CASE Answer(r).status # "SUCCESS"
    BY <2>2 DEF PullTickCommand, Handle, CursorInv
  <2> QED BY <2>1, <2>2
<1> QED BY <1>3, <1>4 DEF CursorInv

LEMMA ByDatetimeKeepsCursor ==
  ASSUME CursorInv, NEW i \in Ids, NEW at \in Times, PullByDatetimeCommand(i, at)
  PROVE  CursorInv'
<1> DEFINE r == AsOf(i, at)
           cursor == IF Later(Stamp(r), last_pull) THEN Stamp(r) ELSE last_pull
<1>1. /\ TypeOK /\ r.id = i /\ r.op = "pull_tick_by_datetime" /\ r.at \in Timeval
      /\ r.op \in PullOps
  BY RequestsOfHandlers DEF CursorInv, PullOps, DatedOps
<1>2. Answer(r).status = "SUCCESS" => Stamp(r) \in Times
  BY <1>1, AnswerType
<1>3. Handle(r, cursor)
  BY DEF PullByDatetimeCommand
<1>4. TypeOK'
  <2>1. Answer(r).status = "SUCCESS" => cursor \in Times \cup {Zero}
    BY <1>1, <1>2 DEF TypeOK
  <2> HIDE DEF r, cursor
  <2> QED BY <1>1, <1>3, <2>1, HandleKeepsTypes
<1>5. ~Later(latest', last_pull')
  <2>1. CASE Answer(r).status = "SUCCESS"
    <3>1. /\ last_pull' = cursor
          /\ latest' = IF Later(Stamp(r), latest) THEN Stamp(r) ELSE latest
      BY <2>1, <1>1, <1>3 DEF Handle
    <3>2. Stamp(r) \in Timeval /\ last_pull \in Timeval /\ latest \in Timeval
      BY <2>1, <1>1, <1>2, TimesAreTimevals DEF TypeOK
    <3>3. ~Later(latest, last_pull)
      BY DEF CursorInv
    <3> QED BY <3>1, <3>2, <3>3 DEF Later, Timeval
  <2>2. CASE Answer(r).status # "SUCCESS"
    BY <2>2, <1>3 DEF Handle, CursorInv
  <2> QED BY <2>1, <2>2
<1> QED BY <1>4, <1>5 DEF CursorInv

LEMMA UpdateKeepsCursor ==
  ASSUME CursorInv, NEW i \in Ids, PullUpdateCommand(i)
  PROVE  CursorInv'
<1> DEFINE r == UpdateOf(i, UpdateFrom)
<1>1. /\ TypeOK /\ r.id = i /\ r.op = "pull_tick_update" /\ r.at \in Timeval
      /\ r.op \in PullOps
  <2>1. TypeOK
    BY DEF CursorInv
  <2>2. PICK at \in Times : TRUE
    BY CursorAssumption
  <2> QED BY <2>1, <2>2, RequestsOfHandlers DEF PullOps, DatedOps
<1>2. Answer(r).status = "SUCCESS" => Stamp(r) \in Times
  BY <1>1, AnswerType
<1>3. Handle(r, Stamp(r))
  BY DEF PullUpdateCommand
<1>4. TypeOK'
  BY <1>1, <1>2, <1>3, HandleKeepsTypes
<1>5. ~Later(latest', last_pull')
  <2>1. CASE Answer(r).status = "SUCCESS"
    <3>1. /\ last_pull' = Stamp(r)
          /\ latest' = IF Later(Stamp(r), latest) THEN Stamp(r) ELSE latest
      BY <2>1, <1>1, <1>3 DEF Handle
    <3>2. Stamp(r) \in Timeval /\ last_pull \in Timeval /\ latest \in Timeval
      BY <2>1, <1>1, <1>2, TimesAreTimevals DEF TypeOK
    <3>3. ~Later(latest, last_pull) /\ Later(Stamp(r), last_pull)
      BY <2>1, <1>1, UpdateIsLater DEF CursorInv
    <3> QED BY <3>1, <3>2, <3>3 DEF Later, Timeval
  <2>2. CASE Answer(r).status # "SUCCESS"
    BY <2>2, <1>3 DEF Handle, CursorInv
  <2> QED BY <2>1, <2>2
<1> QED BY <1>4, <1>5 DEF CursorInv

LEMMA CursorStep == CursorInv /\ [Next]_vars => CursorInv'
<1> SUFFICES ASSUME CursorInv, [Next]_vars PROVE CursorInv'
  OBVIOUS
<1>1. CASE UNCHANGED vars
  BY <1>1 DEF vars, CursorInv, TypeOK
<1>2. ASSUME NEW i \in Ids, NEW at \in Times, Push(i, at) PROVE CursorInv'
  BY <1>2, PushKeepsCursor
<1>3. ASSUME NEW i \in Ids, PullTickCommand(i) PROVE CursorInv'
  BY <1>3, PullTickKeepsCursor
<1>4. ASSUME NEW i \in Ids, NEW at \in Times, PullByDatetimeCommand(i, at)
      PROVE CursorInv'
  BY <1>4, ByDatetimeKeepsCursor
<1>5. ASSUME NEW i \in Ids, PullUpdateCommand(i) PROVE CursorInv'
  BY <1>5, UpdateKeepsCursor
<1> QED BY <1>1, <1>2, <1>3, <1>4, <1>5 DEF Next

\* The cursor never falls behind what was read since the last pull of the newest.
THEOREM CursorInvariance == Spec => []CursorInv
BY CursorInit, CursorStep, PTL DEF Spec

\* An update that a handler hands out is later than all that was read.
LEMMA UpdateIsNews ==
  ASSUME CursorInv, NEW i \in Ids, [Next]_vars, updates'[i] # updates[i]
  PROVE  Later(updates'[i][Len(updates'[i])].time, latest)
<1>1. TypeOK
  BY DEF CursorInv
<1>2. PICK j \in Ids : PullUpdateCommand(j)
  <2>1. ~UNCHANGED updates
    OBVIOUS
  <2>2. ASSUME NEW j \in Ids, PullTickCommand(j) PROVE FALSE
    BY <2>1, <2>2 DEF PullTickCommand, Handle, NewestOf
  <2>3. ASSUME NEW j \in Ids, NEW at \in Times, PullByDatetimeCommand(j, at)
        PROVE FALSE
    BY <2>1, <2>3 DEF PullByDatetimeCommand, Handle, AsOf
  <2> QED BY <2>1, <2>2, <2>3 DEF Next, Push, vars
<1> DEFINE r == UpdateOf(j, UpdateFrom)
<1>3. /\ r.op = "pull_tick_update" /\ r.id = j /\ r.at \in Timeval
      /\ r.op \in PullOps
  <2>1. PICK at \in Times : TRUE
    BY CursorAssumption
  <2> QED BY <1>1, <2>1, RequestsOfHandlers DEF PullOps, DatedOps
<1>4. /\ Answer(r).status = "SUCCESS"
      /\ updates' = [updates EXCEPT ![j] = Append(@, Answer(r).tick)]
  BY <1>2, <1>3 DEF PullUpdateCommand, Handle
<1>5. i = j
  BY <1>4 DEF TypeOK
<1>6. Answer(r).tick \in Ticks /\ Stamp(r) = Answer(r).tick.time /\ Stamp(r) \in Times
  BY <1>1, <1>3, <1>4, AnswerType
<1>7. updates'[i][Len(updates'[i])] = Answer(r).tick
  BY <1>1, <1>4, <1>5, <1>6 DEF TypeOK
<1>8. Later(Stamp(r), last_pull)
  BY <1>1, <1>4, UpdateIsLater
<1>9. Stamp(r) \in Timeval /\ last_pull \in Timeval /\ latest \in Timeval
  BY <1>1, <1>6, TimesAreTimevals DEF TypeOK
<1> QED BY <1>6, <1>7, <1>8, <1>9, LaterIsTransitive DEF CursorInv

\* Updates are always news, whatever the order of the lists and of the pulls.
THEOREM UpdatesAreAlwaysNew == Spec => UpdatesAreNew
<1>1. CursorInv /\ [Next]_vars =>
        [\A i \in Ids : updates'[i] # updates[i] =>
           Later(updates'[i][Len(updates'[i])].time, latest)]_vars
  BY UpdateIsNews
<1> QED BY <1>1, CursorInvariance, PTL DEF Spec, UpdatesAreNew

\* The cursor is exactly the latest time read since the last pull_tick.
CursorRead == CursorInv /\ last_pull = latest

LEMMA CursorReadStep == CursorRead /\ [Next]_vars => CursorRead'
<1> SUFFICES ASSUME CursorRead, [Next]_vars PROVE last_pull' = latest'
  BY CursorStep DEF CursorRead
<1>1. ASSUME NEW i \in Ids, PullTickCommand(i) PROVE last_pull' = latest'
  BY <1>1 DEF CursorRead, PullTickCommand, Handle, NewestOf
<1>2. ASSUME NEW i \in Ids, NEW at \in Times, PullByDatetimeCommand(i, at)
      PROVE  last_pull' = latest'
  BY <1>2 DEF CursorRead, PullByDatetimeCommand, Handle, AsOf
<1>3. ASSUME NEW i \in Ids, PullUpdateCommand(i) PROVE last_pull' = latest'
  <2> DEFINE r == UpdateOf(i, UpdateFrom)
  <2>1. r.op = "pull_tick_update" /\ Handle(r, Stamp(r))
    BY <1>3 DEF PullUpdateCommand, UpdateOf
  <2>2. Answer(r).status = "SUCCESS" => Later(Stamp(r), latest)
    BY UpdateIsLater DEF CursorRead, CursorInv
  <2> HIDE DEF r
  <2> QED BY <2>1, <2>2 DEF Handle, CursorRead
<1> QED BY <1>1, <1>2, <1>3 DEF Next, Push, vars, CursorRead

\* The time after the cursor is not later than what is later than the cursor.
LEMMA NothingBetween ==
  ASSUME NEW a \in Timeval, NEW b \in Timeval, Earlier(a, Past(b))
  PROVE  ~Later(a, b)
BY DEF Earlier, Later, Past, Timeval

\* An update is refused only when the connection has read past the newest tick.
THEOREM RefusalsArePassed == Spec => RefusedOnlyWhenPassed
<1> DEFINE Passed ==
      \A i \in Ids :
        /\ reply' # reply
        /\ reply'.req.op = "pull_tick_update" /\ reply'.req.id = i
        /\ reply'.res.status = "NO_TICKDATA" /\ m_ticks[i] # <<>>
        => ~Later(m_ticks[i][1].time, latest)
<1>1. Init => CursorRead
  BY CursorInit DEF Init, CursorRead
<1>2. CursorRead /\ [Next]_vars => [Passed]_vars
  <2> SUFFICES ASSUME CursorRead, Next, NEW i \in Ids, reply' # reply,
                      reply'.req.op = "pull_tick_update", reply'.req.id = i,
                      reply'.res.status = "NO_TICKDATA", m_ticks[i] # <<>>
               PROVE  ~Later(m_ticks[i][1].time, latest)
    OBVIOUS
  <2>1. PICK j \in Ids : PullUpdateCommand(j)
    <3>1. ASSUME NEW j \in Ids, PullTickCommand(j) PROVE FALSE
      <4>1. reply'.req = NewestOf(j)
        BY <3>1 DEF PullTickCommand, Handle
      <4> QED BY <4>1 DEF NewestOf
    <3>2. ASSUME NEW j \in Ids, NEW at \in Times, PullByDatetimeCommand(j, at)
          PROVE  FALSE
      <4>1. reply'.req = AsOf(j, at)
        BY <3>2 DEF PullByDatetimeCommand, Handle
      <4> QED BY <4>1 DEF AsOf
    <3> QED BY <3>1, <3>2 DEF Next, Push
  <2>2. reply' = [req |-> UpdateOf(j, UpdateFrom),
                  res |-> Answer(UpdateOf(j, UpdateFrom))]
    BY <2>1 DEF PullUpdateCommand, Handle
  <2>3. j = i /\ reply'.res = PullUpdate(m_ticks[i], UpdateFrom)
    BY <2>2 DEF UpdateOf, Answer, Selection
  <2>4. Earlier(m_ticks[i][1].time, Past(last_pull))
    BY <2>3 DEF PullUpdate, Pulled, UpdateFrom
  <2>5. m_ticks[i][1] \in Ticks /\ last_pull \in Timeval
    BY TimesAreTimevals DEF CursorRead, CursorInv, TypeOK
  <2>6. m_ticks[i][1].time \in Timeval
    BY <2>5, TimesAreTimevals DEF Tick
  <2> QED BY <2>4, <2>5, <2>6, NothingBetween DEF CursorRead
<1> QED BY <1>1, <1>2, CursorReadStep, PTL DEF Spec, RefusedOnlyWhenPassed

-----------------------------------------------------------------------------
(* A reader of one ticker                                                  *)

\* What the reader of the only ticker, i, has got: the oldest ticks, in order;
\* the cursor is at the last of them; and the ticks are apart.
Following(i) ==
  LET list == m_ticks[i]
      n == Len(m_ticks[i])
      d == Len(updates[i])
  IN  /\ d <= n
      /\ \A k \in 1..d : updates[i][k] = list[n + 1 - k]
      /\ \A j, k \in 1..n : j < k => Later(list[j].time, Past(list[k].time))
      /\ last_pull = IF d = 0 THEN Zero ELSE list[n + 1 - d].time
FollowInv == CursorInv /\ \A i \in Ids : Following(i)

OneFollowed == /\ \A i, j \in Ids : i = j
               /\ Pulls = {"pull_tick_update"}
               /\ Spaced

\* What is later than a time past another is later than that other time's past.
LEMMA ApartIsTransitive ==
  ASSUME NEW a \in Timeval, NEW b \in Timeval, NEW c \in Timeval,
         Later(a, Past(b)), Later(b, Past(c))
  PROVE  Later(a, Past(c))
BY DEF Later, Past, Timeval

LEMMA PushKeepsFollowing ==
  ASSUME OneFollowed, FollowInv, NEW i \in Ids, NEW at \in Times, Push(i, at)
  PROVE  Following(i)'
<1> DEFINE list == m_ticks[i]
           n == Len(m_ticks[i])
           d == Len(updates[i])
           t == [data |-> n + 1, time |-> at]
<1>1. /\ list \in Seq(Ticks) /\ updates[i] \in Seq(Ticks) /\ n \in Nat /\ d \in Nat
      /\ m_ticks' = [m_ticks EXCEPT ![i] = <<t>> \o list]
      /\ m_ticks \in [Ids -> Seq(Ticks)]
  BY DEF FollowInv, CursorInv, TypeOK, Push
<1>2. /\ m_ticks'[i] = <<t>> \o list /\ Len(m_ticks'[i]) = n + 1
      /\ m_ticks'[i][1] = t
      /\ \A k \in 1..n : m_ticks'[i][k + 1] = list[k]
  BY <1>1
<1>3. updates' = updates /\ last_pull' = last_pull
  BY DEF Push
<1>4. /\ d <= n
      /\ \A k \in 1..d : updates[i][k] = list[n + 1 - k]
      /\ \A j, k \in 1..n : j < k => Later(list[j].time, Past(list[k].time))
      /\ last_pull = IF d = 0 THEN Zero ELSE list[n + 1 - d].time
  BY DEF FollowInv, Following
<1>5. \A k \in 1..n : list[k].time \in Timeval
  <2>1. \A k \in 1..n : list[k] \in Ticks
    BY <1>1
  <2> QED BY <2>1, TimesAreTimevals DEF Ticks, Tick
<1>6. at \in Timeval
  BY TimesAreTimevals
<1>7. ASSUME NEW k \in 1..n PROVE Later(at, Past(list[k].time))
  <2>1. <<list[1].time, at>> \in Follows
    <3>1. list # <<>>
      BY <1>1, <1>7
    <3> QED BY <3>1 DEF Push
  <2>2. Later(at, Past(list[1].time))
    BY <2>1 DEF OneFollowed, Spaced
  <2>3. CASE k = 1
    BY <2>2, <2>3
  <2>4. CASE k # 1
    <3>1. 1 \in 1..n /\ 1 < k
      BY <1>1, <2>4
    <3>2. Later(list[1].time, Past(list[k].time))
      BY <1>4, <3>1
    <3> HIDE DEF list, n
    <3> QED BY <1>5, <1>6, <2>2, <3>1, <3>2, ApartIsTransitive
  <2> QED BY <2>3, <2>4
<1> DEFINE now == m_ticks'[i]
<1>8. ASSUME NEW j \in 1..(n + 1), NEW k \in 1..(n + 1), j < k
      PROVE  Later(now[j].time, Past(now[k].time))
  <2>1. k - 1 \in 1..n /\ now[k] = list[k - 1]
    <3>1. k - 1 \in 1..n /\ (k - 1) + 1 = k
      BY <1>1, <1>8
    <3> QED BY <3>1, <1>2
  <2>2. CASE j = 1
    BY <1>2, <1>7, <2>1, <2>2
  <2>3. CASE j # 1
    <3>1. j - 1 \in 1..n /\ (j - 1) + 1 = j /\ j - 1 < k - 1
      BY <1>1, <1>8, <2>3
    <3>2. now[j] = list[j - 1]
      BY <1>2, <3>1
    <3> QED BY <1>4, <2>1, <3>1, <3>2
  <2> QED BY <2>2, <2>3
<1>9. ASSUME NEW k \in 1..d PROVE now[n + 2 - k] = list[n + 1 - k]
  <2>1. n + 1 - k \in 1..n /\ (n + 1 - k) + 1 = n + 2 - k
    BY <1>1, <1>4
  <2> QED BY <1>2, <2>1
<1>10. Len(now) = n + 1 /\ (n + 1) + 1 = n + 2
  BY <1>1, <1>2
<1>11. \A k \in 1..d : updates[i][k] = now[(n + 1) + 1 - k]
  <2> TAKE k \in 1..d
  <2>1. (n + 1) + 1 - k = n + 2 - k
    BY <1>1
  <2> QED BY <1>4, <1>9, <2>1
<1>12. last_pull = IF d = 0 THEN Zero ELSE now[(n + 1) + 1 - d].time
  <2>1. CASE d = 0
    BY <1>4, <2>1
  <2>2. CASE d # 0
    <3>1. d \in 1..d /\ (n + 1) + 1 - d = n + 2 - d
      BY <1>1, <2>2
    <3> QED BY <1>4, <1>9, <2>2, <3>1
  <2> QED BY <2>1, <2>2
<1>13. d <= n + 1
  BY <1>1, <1>4
<1> HIDE DEF now, list, t
<1> QED BY <1>3, <1>8, <1>10, <1>11, <1>12, <1>13 DEF Following, now

\* The update that the reader gets is the oldest tick that it has not got.
LEMMA UpdateIsNextOne ==
  ASSUME OneFollowed, FollowInv, NEW i \in Ids,
         Answer(UpdateOf(i, UpdateFrom)).status = "SUCCESS"
  PROVE  /\ Len(updates[i]) < Len(m_ticks[i])
         /\ Answer(UpdateOf(i, UpdateFrom)).tick
              = m_ticks[i][Len(m_ticks[i]) - Len(updates[i])]
<1> DEFINE list == m_ticks[i]
           n == Len(m_ticks[i])
           d == Len(updates[i])
           r == UpdateOf(i, UpdateFrom)
<1>1. TypeOK /\ last_pull \in Timeval /\ UpdateFrom \in Timeval
  BY TimesAreTimevals, PastIsLater DEF FollowInv, CursorInv, TypeOK, UpdateFrom
<1>2. /\ list \in Seq(Tick(1..MaxTicks, Timeval)) /\ n \in Nat /\ d \in Nat
      /\ DOMAIN list = 1..n /\ (list # <<>> => n # 0)
  BY <1>1, TimesAreTimevals DEF TypeOK
<1>a. \A k \in 1..n : list[k].time \in Times
  <2>1. list \in Seq(Ticks)
    BY <1>1 DEF TypeOK
  <2>2. \A k \in 1..n : list[k] \in Ticks
    BY <1>2, <2>1
  <2> HIDE DEF list, n
  <2> QED BY <2>2 DEF Ticks, Tick
<1>3. Answer(r) = PullUpdate(list, UpdateFrom)
  BY DEF Answer, Selection, UpdateOf
<1>4. list # <<>>
  BY <1>3 DEF PullUpdate, Status
<1>b. list \in Seq(Tick(1..MaxTicks, Timeval))
  BY <1>2
<1>5. PICK k \in DOMAIN list :
        /\ Answer(r) = Pulled(list[k])
        /\ ~Earlier(list[1].time, UpdateFrom)
        /\ \A j \in 2..k : Later(list[j].time, UpdateFrom)
        /\ k + 1 \in DOMAIN list => ~Later(list[k + 1].time, UpdateFrom)
  BY <1>1, <1>b, <1>3, <1>4, UpdateStopsAtFirstNotLater DEF Status
<1>6. /\ d <= n
      /\ \A j, l \in 1..n : j < l => Later(list[j].time, Past(list[l].time))
      /\ last_pull = IF d = 0 THEN Zero ELSE list[n + 1 - d].time
  BY DEF FollowInv, Following
<1> HIDE DEF list, n, d, r
\* The ticks that the reader has not got are those later than its cursor.
<1>7. ASSUME NEW j \in 1..(n - d) PROVE Later(list[j].time, UpdateFrom)
  <2>1. j \in 1..n
    BY <1>2, <1>6
  <2>2. CASE d = 0
    <3>1. list[j].time \in Times
      BY <1>a, <2>1
    <3>2. UpdateFrom = Past(Zero)
      BY <1>6, <2>2 DEF UpdateFrom
    <3> QED BY <3>1, <3>2 DEF OneFollowed, Spaced
  <2>3. CASE d # 0
    <3>1. n + 1 - d \in 1..n /\ j < n + 1 - d
      BY <1>2, <1>6, <1>7, <2>1, <2>3
    <3> QED BY <1>6, <2>1, <2>3, <3>1 DEF UpdateFrom
  <2> QED BY <2>2, <2>3
<1>8. ASSUME d # 0 PROVE /\ n + 1 - d \in 1..n
                        /\ ~Later(list[n + 1 - d].time, UpdateFrom)
                        /\ Earlier(list[n + 1 - d].time, UpdateFrom)
  <2>1. n + 1 - d \in 1..n /\ list[n + 1 - d].time = last_pull
    BY <1>2, <1>6, <1>8
  <2>2. Later(UpdateFrom, last_pull)
    BY <1>1, PastIsLater DEF UpdateFrom
  <2> QED BY <1>1, <2>1, <2>2 DEF Earlier, Later, Timeval
<1>9. d < n
  <2> SUFFICES ASSUME d = n PROVE FALSE
    BY <1>2, <1>6
  <2>1. n # 0
    BY <1>2, <1>4
  <2>2. n + 1 - d = 1 /\ d # 0
    BY <1>2, <2>1
  <2> QED BY <1>5, <1>8, <2>2
<1>10. k = n - d
  <2>1. k \in 1..n
    BY <1>2
  <2>2. ~(k < n - d)
    <3> SUFFICES ASSUME k < n - d PROVE FALSE
      OBVIOUS
    <3>1. k + 1 \in 1..(n - d) /\ k + 1 \in DOMAIN list
      BY <1>2, <1>6, <2>1
    <3> QED BY <1>5, <1>7, <3>1
  <2>3. ~(k > n - d)
    <3> SUFFICES ASSUME k > n - d PROVE FALSE
      OBVIOUS
    <3>1. d # 0
      BY <1>2, <2>1
    <3>2. n + 1 - d \in 2..k
      BY <1>2, <1>9, <2>1
    <3> QED BY <1>5, <1>8, <3>1, <3>2
  <2> QED BY <1>2, <2>1, <2>2, <2>3
<1>11. Answer(r).tick = list[k]
  BY <1>5 DEF Pulled
<1> QED BY <1>9, <1>10, <1>11 DEF list, n, d, r

LEMMA UpdateKeepsFollowing ==
  ASSUME OneFollowed, FollowInv, NEW i \in Ids, PullUpdateCommand(i)
  PROVE  Following(i)'
<1> DEFINE list == m_ticks[i]
           n == Len(m_ticks[i])
           d == Len(updates[i])
           r == UpdateOf(i, UpdateFrom)
<1>1. /\ updates \in [Ids -> Seq(Ticks)] /\ updates[i] \in Seq(Ticks)
      /\ n \in Nat /\ d \in Nat /\ list \in Seq(Ticks)
  BY DEF FollowInv, CursorInv, TypeOK
<1>2. m_ticks' = m_ticks
  BY DEF PullUpdateCommand, Handle
<1>3. Following(i)
  BY DEF FollowInv
<1>4. CASE Answer(r).status # "SUCCESS"
  BY <1>2, <1>3, <1>4 DEF PullUpdateCommand, Handle, Following
<1>5. CASE Answer(r).status = "SUCCESS"
  <2> DEFINE k == Answer(r).tick
  <2>1. d < n /\ k = list[n - d]
    BY <1>5, UpdateIsNextOne
  <2>2. /\ updates' = [updates EXCEPT ![i] = Append(@, k)]
        /\ last_pull' = Stamp(r)
    BY <1>5 DEF PullUpdateCommand, Handle, UpdateOf
  <2>3. Stamp(r) = list[n - d].time
    BY <2>1 DEF Stamp
  <2>4. k \in Ticks
    BY <1>1, <2>1
  <2>5. updates'[i] = Append(updates[i], k)
    BY <1>1, <2>2
  <2>a. n \in Nat /\ d \in Nat
    BY <1>1
  <2> HIDE DEF k, r, n, d
  <2>6. /\ Len(updates'[i]) = d + 1 /\ updates'[i][d + 1] = k
        /\ \A m \in 1..d : updates'[i][m] = updates[i][m]
    BY <1>1, <2>4, <2>5 DEF d
  <2>7. /\ \A m \in 1..d : updates[i][m] = list[n + 1 - m]
        /\ \A j, m \in 1..n : j < m => Later(list[j].time, Past(list[m].time))
    BY <1>3 DEF Following, n, d
  <2>8. \A m \in 1..(d + 1) : updates'[i][m] = list[n + 1 - m]
    <3> TAKE m \in 1..(d + 1)
    <3>1. CASE m = d + 1
      <4>1. n + 1 - m = n - d
        BY <2>a, <3>1
      <4> QED BY <2>1, <2>6, <3>1, <4>1
    <3>2. CASE m # d + 1
      <4>1. m \in 1..d
        BY <2>a, <3>2
      <4> QED BY <2>6, <2>7, <4>1
    <3> QED BY <3>1, <3>2
  <2>9. d + 1 # 0 /\ n + 1 - (d + 1) = n - d /\ d + 1 <= n
    BY <2>a, <2>1
  <2>b. last_pull' = list[n + 1 - (d + 1)].time
    BY <2>2, <2>3, <2>9
  <2> HIDE DEF list
  <2>c. Len(m_ticks'[i]) = n /\ m_ticks'[i] = list
    BY <1>2 DEF n, list
  <2> QED BY <2>6, <2>7, <2>8, <2>9, <2>b, <2>c DEF Following
<1> QED BY <1>4, <1>5

\* Nothing but updates is pulled.
LEMMA OnlyUpdates ==
  ASSUME OneFollowed, Next
  PROVE  \E i \in Ids : \/ \E at \in Times : Push(i, at)
                       \/ PullUpdateCommand(i)
BY DEF OneFollowed, Next, PullTickCommand, PullByDatetimeCommand, Handle, NewestOf, AsOf

LEMMA FollowStep ==
  ASSUME OneFollowed, FollowInv, [Next]_vars
  PROVE  FollowInv'
<1>1. CursorInv'
  BY CursorStep DEF FollowInv
<1>2. CASE UNCHANGED vars
  BY <1>1, <1>2 DEF vars, FollowInv, Following
<1>3. CASE Next
  <2> SUFFICES ASSUME NEW i \in Ids PROVE Following(i)'
    BY <1>1 DEF FollowInv
  <2>1. PICK j \in Ids : \/ \E at \in Times : Push(j, at)
                        \/ PullUpdateCommand(j)
    BY <1>3, OnlyUpdates
  <2>2. i = j
    BY DEF OneFollowed
  <2> QED BY <2>1, <2>2, PushKeepsFollowing, UpdateKeepsFollowing
<1> QED BY <1>2, <1>3

LEMMA FollowInit == Init => FollowInv
<1> SUFFICES ASSUME Init PROVE FollowInv
  OBVIOUS
<1>1. CursorInv
  BY CursorInit
<1>2. ASSUME NEW i \in Ids PROVE Following(i)
  BY DEF Init, Following
<1> QED BY <1>1, <1>2 DEF FollowInv

\* The ticks from the oldest on, when one is pushed.
LEMMA OldestOfPush ==
  ASSUME NEW S, NEW list \in Seq(S), NEW t \in S
  PROVE  Oldest(<<t>> \o list) = Append(Oldest(list), t)
<1> DEFINE n == Len(list)
           one == <<t>> \o list
<1>1. n \in Nat /\ one \in Seq(S) /\ Len(one) = n + 1 /\ one[1] = t
      /\ \A k \in 1..n : one[k + 1] = list[k]
  OBVIOUS
<1>2. /\ Oldest(list) \in Seq(S) /\ Len(Oldest(list)) = n
      /\ \A k \in 1..n : Oldest(list)[k] = list[n + 1 - k]
  BY DEF Oldest
<1>3. /\ Oldest(one) \in Seq(S) /\ Len(Oldest(one)) = n + 1
      /\ \A k \in 1..(n + 1) : Oldest(one)[k] = one[n + 2 - k]
  <2>1. \A k \in 1..(n + 1) : n + 2 - k \in 1..(n + 1) /\ (n + 1) + 1 - k = n + 2 - k
    BY <1>1
  <2>2. DOMAIN one = 1..(n + 1) /\ \A k \in 1..(n + 1) : one[k] \in S
    BY <1>1
  <2> HIDE DEF one, n
  <2>3. Oldest(one) = [k \in 1..(n + 1) |-> one[n + 2 - k]]
    BY <1>1, <2>1, <2>2 DEF Oldest
  <2> QED BY <1>1, <2>1, <2>2, <2>3
<1> DEFINE other == Append(Oldest(list), t)
<1>4. /\ other \in Seq(S) /\ Len(other) = n + 1 /\ other[n + 1] = t
      /\ \A k \in 1..n : other[k] = list[n + 1 - k]
  <2> DEFINE old == Oldest(list)
  <2>1. old \in Seq(S) /\ Len(old) = n
    BY <1>2
  <2> HIDE DEF old
  <2>2. /\ Append(old, t) \in Seq(S) /\ Len(Append(old, t)) = n + 1
        /\ Append(old, t)[n + 1] = t
        /\ \A k \in 1..n : Append(old, t)[k] = old[k]
    BY <2>1
  <2> QED BY <1>2, <2>2 DEF old
<1>5. ASSUME NEW k \in 1..(n + 1) PROVE Oldest(one)[k] = other[k]
  <2>1. CASE k = n + 1
    <3>1. n + 2 - k = 1
      BY <1>1, <2>1
    <3> QED BY <1>1, <1>3, <1>4, <2>1, <3>1
  <2>2. CASE k # n + 1
    <3>1. k \in 1..n /\ n + 1 - k \in 1..n /\ (n + 1 - k) + 1 = n + 2 - k
      BY <1>1, <2>2
    <3>2. one[n + 2 - k] = list[n + 1 - k]
      BY <1>1, <3>1
    <3> HIDE DEF one, other
    <3> QED BY <1>3, <1>4, <3>1, <3>2
  <2> QED BY <2>1, <2>2
<1> HIDE DEF one, other
<1>6. Oldest(one) = other
  BY <1>3, <1>4, <1>5, SeqEqual
<1> QED BY <1>6 DEF one, other

\* Each step is a step of the feed.
LEMMA StepOfFeed ==
  ASSUME OneFollowed, FollowInv, [Next]_vars
  PROVE  [TheFeed!Next]_TheFeed!vars
<1> DEFINE pushed == [i \in Ids |-> Oldest(m_ticks[i])]
<1>1. TypeOK
  BY DEF FollowInv, CursorInv
<1>2. CASE UNCHANGED vars
  BY <1>2 DEF vars, TheFeed!vars
<1>3. ASSUME NEW i \in Ids, NEW at \in Times, Push(i, at)
      PROVE  TheFeed!Next
  <2> DEFINE t == [data |-> Len(m_ticks[i]) + 1, time |-> at]
  <2>1. t \in Ticks
    <3>1. Len(m_ticks[i]) + 1 \in 1..MaxTicks
      BY <1>1, <1>3, CursorAssumption DEF Push, TypeOK
    <3> QED BY <3>1 DEF Ticks, Tick
  <2>2. m_ticks' = [m_ticks EXCEPT ![i] = <<t>> \o @] /\ updates' = updates
    BY <1>3 DEF Push
  <2> HIDE DEF t
  <2>3. Oldest(<<t>> \o m_ticks[i]) = Append(Oldest(m_ticks[i]), t)
    BY <1>1, <2>1, OldestOfPush DEF TypeOK
  <2>4. pushed' = [pushed EXCEPT ![i] = Append(@, t)]
    BY <1>1, <2>2, <2>3 DEF TypeOK
  <2> QED BY <2>1, <2>2, <2>4 DEF TheFeed!Next, TheFeed!Push
<1>4. ASSUME NEW i \in Ids, PullUpdateCommand(i)
      PROVE  [TheFeed!Next]_TheFeed!vars
  <2> DEFINE r == UpdateOf(i, UpdateFrom)
             n == Len(m_ticks[i])
             d == Len(updates[i])
  <2>1. m_ticks' = m_ticks
    BY <1>4 DEF PullUpdateCommand, Handle
  <2>2. CASE Answer(r).status # "SUCCESS"
    <3>1. updates' = updates
      BY <1>4, <2>2 DEF PullUpdateCommand, Handle
    <3> QED BY <2>1, <3>1 DEF TheFeed!vars
  <2>3. CASE Answer(r).status = "SUCCESS"
    <3>1. d < n /\ Answer(r).tick = m_ticks[i][n - d]
      BY <2>3, UpdateIsNextOne
    <3>2. updates' = [updates EXCEPT ![i] = Append(@, Answer(r).tick)]
      BY <1>4, <2>3 DEF PullUpdateCommand, Handle, UpdateOf
    <3>3. n \in Nat /\ d \in Nat /\ DOMAIN m_ticks[i] = 1..n
      BY <1>1 DEF TypeOK
    <3>4. pushed[i] = Oldest(m_ticks[i]) /\ Len(Oldest(m_ticks[i])) = n
      BY <1>1, <3>3 DEF TypeOK, Oldest
    <3>5. Oldest(m_ticks[i])[d + 1] = m_ticks[i][n - d]
      <4> HIDE DEF n, d
      <4>1. d + 1 \in 1..n /\ n + 1 - (d + 1) = n - d
        BY <3>1, <3>3
      <4> QED BY <3>3, <4>1 DEF Oldest, n
    <3> HIDE DEF r
    <3>6. d < Len(pushed[i]) /\ updates' = [updates EXCEPT ![i] = Append(@, pushed[i][Len(@) + 1])]
      BY <3>1, <3>2, <3>4, <3>5
    <3> QED BY <2>1, <3>6 DEF TheFeed!Next, TheFeed!Deliver
  <2> QED BY <2>2, <2>3
<1> QED
  <2>1. CASE Next
    <3>1. PICK i \in Ids : \/ \E at \in Times : Push(i, at)
                          \/ PullUpdateCommand(i)
      BY <2>1, OnlyUpdates
    <3> QED BY <1>3, <1>4, <3>1
  <2> QED BY <1>2, <2>1

\* A connection that follows one ticker by its updates gets every tick, once and
\* in order, if each stamp is more than a microsecond after the one before it.
THEOREM FollowerMissesNothing ==
  ASSUME OneFollowed
  PROVE  Spec => FollowsEveryTick
<1>1. Init => TheFeed!Init
  BY DEF Init, TheFeed!Init, Oldest
<1>2. FollowInv /\ [Next]_vars => FollowInv'
  BY FollowStep
<1>3. FollowInv /\ [Next]_vars => [TheFeed!Next]_TheFeed!vars
  BY StepOfFeed
<1> QED BY <1>1, <1>2, <1>3, FollowInit, PTL DEF Spec, FollowsEveryTick, TheFeed!Spec
=============================================================================
