----------------------------- MODULE PullCursor -----------------------------
(***************************************************************************)
(* The cursor of a connection: the handlers of srv_run_server_thread for   *)
(* the three kinds of pulls, and last_pull, the time from which the thread *)
(* looks for an update.  A handler selects its tick in one step of the     *)
(* store (TickerStore implements TickStore) and last_pull is the thread's  *)
(* own, so a handler is one step here.  The ticks are pushed over other    *)
(* connections; Follows says which stamp may come after which in a list.   *)
(***************************************************************************)
EXTENDS SrvTypes

CONSTANTS Ids,          \* the registered tickers
          Times,        \* the stamps of ticks
          Follows,      \* the pairs of stamps of a tick and of the one after it
          Pulls,        \* the kinds of pulls that the client makes
          MaxTicks,     \* bound: ticks of a ticker
          MaxUpdates    \* bound: updates that the client gets of a ticker

ASSUME CursorAssumption ==
  /\ Times # {} /\ Times \subseteq Timeval
  /\ Follows \subseteq Times \X Times
  /\ Pulls \subseteq PullOps
  /\ MaxTicks \in Nat /\ MaxUpdates \in Nat

Zero == [sec |-> 0, usec |-> 0]
Ticks == Tick(1..MaxTicks, Times)
NoReply == [req |-> [op |-> "none"], res |-> Status("UNKNOWN")]

VARIABLES m_ticks,    \* per ticker, its ticks, newest first
          last_pull,  \* the thread's cursor
          reply,      \* the last pull and what it returned
          updates,    \* history: per ticker, the updates that the client has got
          latest      \* history: the latest time read since the last pull_tick

vars == <<m_ticks, last_pull, reply, updates, latest>>

Init ==
  /\ m_ticks = [i \in Ids |-> <<>>]
  /\ last_pull = Zero
  /\ reply = NoReply
  /\ updates = [i \in Ids |-> <<>>]
  /\ latest = Zero

\* The data of a tick is its number in the list.
Push(i, at) ==
  /\ Len(m_ticks[i]) < MaxTicks
  /\ m_ticks[i] # <<>> => <<m_ticks[i][1].time, at>> \in Follows
  /\ m_ticks' = [m_ticks EXCEPT
                   ![i] = <<[data |-> Len(@) + 1, time |-> at]>> \o @]
  /\ UNCHANGED <<last_pull, reply, updates, latest>>

\* What the store answers to a request, and the stamp of a tick it answers with.
Answer(r) == Selection(r, m_ticks[r.id])
Stamp(r) == Answer(r).tick.time

\* A handler sends the store's answer, and moves last_pull when that is a tick.
Handle(r, cursor) ==
  /\ r.op \in Pulls
  /\ reply' = [req |-> r, res |-> Answer(r)]
  /\ IF Answer(r).status = "SUCCESS"
     THEN /\ last_pull' = cursor
          /\ latest' = IF r.op = "pull_tick" \/ Later(Stamp(r), latest)
                       THEN Stamp(r) ELSE latest
          /\ updates' = IF r.op = "pull_tick_update"
                        THEN [updates EXCEPT ![r.id] = Append(@, Answer(r).tick)]
                        ELSE updates
     ELSE UNCHANGED <<last_pull, updates, latest>>
  /\ UNCHANGED m_ticks

NewestOf(i) == [op |-> "pull_tick", id |-> i]
AsOf(i, at) == [op |-> "pull_tick_by_datetime", id |-> i, at |-> at]
UpdateOf(i, at) == [op |-> "pull_tick_update", id |-> i, at |-> at]

PullTickCommand(i) == Handle(NewestOf(i), Stamp(NewestOf(i)))

\* Mutant: a pull by datetime sets the cursor, whichever way that moves it.
PullByDatetimeBack(i, at) == Handle(AsOf(i, at), Stamp(AsOf(i, at)))

\* A pull by datetime moves the cursor forward only.
PullByDatetimeCommand(i, at) ==
  LET stamp == Stamp(AsOf(i, at))
  IN  Handle(AsOf(i, at), IF Later(stamp, last_pull) THEN stamp ELSE last_pull)

\* One microsecond later, without a carry into the seconds.
Past(time) == [time EXCEPT !.usec = @ + 1]

\* Mutants: the cursor itself; a whole second past it.
UpdateFromCursor == last_pull
UpdateFromNextSecond == [last_pull EXCEPT !.sec = @ + 1]

\* From when on the thread looks for an update.
UpdateFrom == Past(last_pull)

\* Mutant: the cursor is the time asked for, not that of the tick.
PullUpdateKeepsAsked(i) ==
  /\ Len(updates[i]) < MaxUpdates
  /\ Handle(UpdateOf(i, UpdateFrom), UpdateFrom)

PullUpdateCommand(i) ==
  /\ Len(updates[i]) < MaxUpdates
  /\ Handle(UpdateOf(i, UpdateFrom), Stamp(UpdateOf(i, UpdateFrom)))

Next == \E i \in Ids :
          \/ \E at \in Times : Push(i, at)
          \/ PullTickCommand(i)
          \/ \E at \in Times : PullByDatetimeCommand(i, at)
          \/ PullUpdateCommand(i)

Spec == Init /\ [][Next]_vars

\* The client polls every ticker for updates.
FairSpec == Spec /\ \A i \in Ids : WF_vars(PullUpdateCommand(i))

-----------------------------------------------------------------------------
(* Properties                                                              *)

TypeOK ==
  /\ m_ticks \in [Ids -> Seq(Ticks)]
  /\ updates \in [Ids -> Seq(Ticks)]
  /\ last_pull \in Times \cup {Zero} /\ latest \in Times \cup {Zero}

\* The cursor is the stamp of a tick, or zero, and never falls behind what the
\* connection has read since it last asked for the newest tick, whatever pulls
\* of whatever tickers moved it.
CursorInv == TypeOK /\ ~Later(latest, last_pull)

\* An update is always news: it is later than every tick that the connection
\* has read since it last asked for the newest one, of whatever ticker, whether
\* as an update or by its time, and whatever order the lists are in.
UpdatesAreNew ==
  [][\A i \in Ids : updates'[i] # updates[i] =>
       Later(updates'[i][Len(updates'[i])].time, latest)]_vars

\* A connection that reads one ticker by its updates gets every tick of it,
\* once, in the order in which they were pushed, provided that
Spaced == /\ \A p \in Follows : Later(p[2], Past(p[1]))
          /\ \A time \in Times : Later(time, Past(Zero))
\* (see the README on ticks one microsecond apart).
Oldest(list) == [k \in DOMAIN list |-> list[Len(list) + 1 - k]]
TheFeed == INSTANCE Feed WITH
  Ticks <- Ticks,
  pushed <- [i \in Ids |-> Oldest(m_ticks[i])],
  delivered <- updates
FollowsEveryTick == TheFeed!Spec

\* While the client polls, every tick pushed is delivered.
EveryTickComes ==
  \A i \in Ids : \A n \in 1..MaxTicks :
    Len(m_ticks[i]) = n ~> Len(updates[i]) >= n

\* "NO NEW TICK UPDATE AVAILABLE" (core_srv_server.c:262, beside the reply that
\* refuses an update): an update is refused only if the newest tick of the ticker
\* is not later than one that the connection has read, of that ticker or, since
\* the cursor is common to all, of another.
RefusedOnlyWhenPassed ==
  [][\A i \in Ids :
       /\ reply' # reply
       /\ reply'.req.op = "pull_tick_update" /\ reply'.req.id = i
       /\ reply'.res.status = "NO_TICKDATA" /\ m_ticks[i] # <<>>
       => ~Later(m_ticks[i][1].time, latest)]_vars
=============================================================================
