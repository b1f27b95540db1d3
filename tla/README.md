# A verification project for arnovich core

arnovich core is a C library with a Python extension. Its heart is *core_srv*, a
server that keeps *tickers* (named series of time-stamped data) and clients that
register tickers, push ticks, pull them and wait for updates, over a local socket.
Beside it, *core_types* is a library of tagged values with a C++ class that counts
references, *core_debug* a filter for debug messages, and *core_python* converts
between values and Python objects. This directory models them and the Python extension
in TLA+, checks the models with TLC on small instances, and proves with TLAPS the main
facts about the store, the wire, the pull cursor, subscriptions and notifications, the
accept loop, the functions on values, who owns a value, and what becomes of calls, errors
and values on their way through Python. Source paths below are relative to the root of
the repository; `data.c`, `server.c`, `client.c` and `types.h` stand for `src/lib/core_srv/core_srv_{data,server,client}.c` and
`include/core_srv/core_srv_types.h`.

## 1. Inventory

| Component | State | Operations | Modelled by |
|---|---|---|---|
| ticker store (`data.c`) | `m_tickers` (array), `m_ntickers`, `m_tickerslock`; per ticker `m_ticks`, `m_subscribers`, `m_tickslock`, `m_subscriblock` | add, get, push, pull, pull by datetime, pull update, subscribe, unsubscribe | `TickerStore` over `TickStore`, `SrvTypes`; the last two in `SrvNotify` |
| connection thread (`server.c` 73-306) | `last_pull`, what it has read of a request | one case per command | `SrvWire`, `PullCursor`, `SrvNotify` |
| accept loop (`server.c` 309-429, `bin/core_srv_run.c`) | `ns`, the descriptor accepted last; the open descriptors | accept, start a thread | `AcceptLoop` |
| client (`client.c`) | a descriptor; what it has sent and read of a call | one function per command, wait, close | `SrvWire`, `SrvNotify` |
| values (`core_types_variant.c`, `core_types_matrix.c`) | owned strings and element arrays | make, copy, free, call, compare, arithmetic, matrix edits | `VariantHandles` (ownership), `VariantOps` (results) |
| C++ wrapper (`core_types_variant.hpp`) | a shared count and a variant | copy, assign, release, element access, call | `VariantHandles` |
| debug filter (`core_debug.c`) | level, up to five groups | set, query | `CoreDebug` |
| Python conversion (`core_python*.c`) | none of its own; the exception that is set in Python | Python value to variant and back, errors to exceptions | `PyConvert`, `PyModule` |
| Python extension (`pylib/`) | one client connection per object, the interpreter lock, the count of `Py_True` | the client's calls as methods; the debug functions | `PyThreads`, `PyModule` |
| Yahoo scripts, build files | none | download and push quotes; build | no: I/O and configuration |

**How they interact.** The accept loop starts one thread per connection. The
threads share one store and nothing else. Client and thread exchange fixed-size
items (command, id, length, stamp, status) and the data of a tick in pieces of
8000 bytes, *the last piece first*. A push and a pull acknowledge each piece; the
other pulls and the notifications do not. After a push, the pusher's thread
writes the tick to the connections of all subscribers itself. A Python program calls
the client with the interpreter lock held, whatever the call waits for, except in
`wait_for_update`.

**What is hard.** The store is locked in parts: the array of tickers is read
without its lock, and the list of subscribers is changed under one lock and
walked under another. Stamps are taken outside the lock that orders the ticks.
Errors of `read` and `write` are kept in an unsigned variable, so most are not
seen. Several threads write to one connection. `break` means three different
things in the thread's loop. Nothing cleans up after a connection.

**What makes each component correct.**

* Store: each call takes effect at one moment; no tick is lost or changed; an id
  always means the same ticker; an unlocked read is harmless except while the
  array is replaced.
* Wire: both sides agree on what comes next; a call is executed at most once and
  its result is that of an execution; a tick is stored whole or not at all as long
  as nobody dies; every call returns.
* Cursor: an update is news; a reader of one ticker misses nothing.
* Notifications: no subscription is lost, nobody is left out of a walk or served
  twice, notifications of a ticker are not mixed, walks end.
* Values: nobody frees storage that another still uses. Wrapper: the count is the
  number of handles. The operators are an order and an equality as far as they can be,
  and the matrix edits move elements without losing any.
* Accept loop: each connection is served, as far as the race on `ns` allows.
* Debug filter: asking changes nothing of what passes, although each question cuts the
  environment; a program that drops the groups kept from it is left with the first. (That Python can name a group, as core_debug.h:21
  promises, is not so: core_main.c:32 refuses a name.)
* Python: each caller gets its own reply; errors come out as exceptions and nothing else
  does, but for a text that reads as a number no `long` holds; a list or dict that went
  through a function and back has its elements, converted, in the rows and columns they
  had, with `True` where a row was shorter than the widest;
  a thread that waits for the server does not stop the others for ever.

The hazards of the code, each at its line, are the `hazards` of PROJECT.json.

## 2. Modules

| Module | Models | State and actions against the code |
|---|---|---|
| `SrvTypes` | ticks, requests, the selections of the three pulls | pure; a list of ticks is a sequence, newest first |
| `TickStore` | what the store promises | a call starts, takes effect in one step, returns; `Advance` is the clock |
| `TickerStore` | `data.c` 13-220 access by access | `m_tickers` names the array in use and `slots` what is in each array; one action per lock, unlock, or access to shared memory; `pc[t]` is the place of thread t in the call. Undefined contents and freed arrays are explicit, and `Wild` is a thread that read them |
| `SrvWire` | one client and its thread, every item of every command | two streams of items; client and server each have a `pc`, named for the item they read or write next; any read may find the other end closed; `ClientCrash` and `ServerStop` end a process anywhere |
| `Feed` | what a reader of updates hopes for | a queue per ticker |
| `PullCursor` | `last_pull` (`server.c` 177-279) | one action per kind of pull |
| `SrvNotify` | subscribers and notifications (`data.c` 222-275, `server.c` 150-176, `client.c` 434-527) | list nodes with `m_next`, `freed` nodes, both locks, the unread items of every connection; `NotifyWild` is a walk that meets a freed node |
| `VariantHandles` | the class variant over `variant_copy`, `variant_free` and matrix access | C++ handles, their counters, C variables, and the blocks of storage; one action per member function; `fault` is a use after the end of a counter or block, where the model stops |
| `VariantOps` | `core_types_variant.c`, `core_types_matrix.c` | pure; one operator per function, on records with the type and the content of a variant |
| `AcceptLoop` | `server.c` 397-429, the start and end of a thread, `bin/core_srv_run.c` | `main` and `thread[t]` are the places in the loop and in each thread, `ns` the shared variable, `peer` the descriptors |
| `PyConvert` | `core_python.c` | functions from Python objects to variants and back, over `VariantOps`. The C functions call one another for what is nested; here `Object[n]` are the objects that nest at most n deep, and `VariantOf[n]` and `ObjectOf[n]` convert them by the functions of the level below, down to `MaxDepth`. A dict has only keys that can be hashed |
| `CoreDebug` | `core_debug.c` | the level and the names in force, and the environment, which `strtok` cuts |
| `PyModule` | `core_python_wrap.c`, `core_main.c` | one action per call from Python; `raised` is the exception that is set, `rtn` what the C function returned |
| `PyThreads` | the methods of `Connection` in `pylib/core_srv.c`, over a server of whole messages | per thread `pc`, and `gil`, the owner of the interpreter lock; a call is its request and its reply |
| `MC*` | instances for TLC | |
| `TickerStore_proofs`, `SrvWire_proofs`, `PullCursor_proofs`, `SrvNotify_proofs`, `AcceptLoop_proofs`, `VariantOps_proofs`, `VariantHandles_proofs`, `PyThreads_proofs` | theorems about the module of that name; the last also about `PyModule`, `PyConvert` and `CoreDebug`, which `PyThreads` extends | |

`TickerStore` implements `TickStore`, the handlers of `PullCursor` take one step
of it, and `PullCursor` implements `Feed` for a reader of one ticker. `SrvWire`
takes the store as one that answers anything it may answer, `SrvNotify` takes a
request as delivered in one step: each composes with the others over the
interface that they check. `PyThreads` composes the extension with the server: requests
and replies are messages, and a program may push and subscribe over one connection.
`PyModule` composes `PyConvert` and `CoreDebug`.

## 3. Runs

| Run | Instance | Shows |
|---|---|---|
| `store` | 2 threads, 2 names, 2 registrations, 2 ticks per ticker, 2 stamps across a second's end | `Implements` (each call is atomic), `HistoryAppendOnly`, `StableIds`, `UndefinedOnlyWhileReplaced`, `OnlyOverlapReorders`, `StoreInv` (the inductive invariant), `SomeCallReturns` |
| `wire` | 1 connection, data of 0 to 2 whole pieces and a rest, `MaxAhead` = 3 unread items | `TypeOK`, `InStep`, `ResultIsReal`, `StoredWhole`, `AnsweredBeforeClose`, `AtMostOnce`, `CallReturns` |
| `wire_subscribe` | same | **violated**: `SubscribedWhenToldSo` (client.c:446) |
| `cursor` | 2 tickers of 2 ticks, any order of 4 stamps around a second's end, 2 updates each | `CursorInv`, `UpdatesAreNew`, `RefusedOnlyWhenPassed` |
| `cursor_feed` | 1 ticker, up to 5 ticks out of 7 spaced stamps | `FollowsEveryTick` (implements `Feed`), `EveryTickComes` |
| `notify` | 2 listeners, 2 pushers, 1 ticker, 2 subscriptions, 1 unread item per connection | `NodesAccounted`, `EveryoneNotified`, `OneTickerInOrder`, `KilledOnlyBySubscriber` |
| `notify_live` | 1 listener, 2 pushers | `SomeWalkEnds` |
| `notify_apart` | 1 listener, 1 pusher | **violated**: `RepliesAndUpdatesApart` (types.h:47) |
| `values` | 2 C++ handles, 1 C variable, matrices of 1 element, 4 blocks of storage | `CountsAreHandles`, `OwnedOnce`, `OthersUnchanged` |
| `values_deep` | same | **violated**: `CopiesAreDeep` (core_types_variant.h:108 "Deep copy of variant") |
| `accept` | 5 clients, 4 descriptors | `AcceptInv`, `LostOnlyWhenOvertaken`, `NewestIsServed`, `WearsOut` |
| `python` | three scripts: 20 values, and all that is in them, through functions; 7 arguments, 6 settings of the environment; 2 threads and a client elsewhere over 1 ticker | `ErrorsReachCaller`, `StrayOnlyFromHuge`, `RoundTripsSettle`, `PlacesKept`, `DictsComeBack`; `AskingKeepsGroups`; `RepliesToCallers`, `SomeoneRuns` |

What the properties about calls on the wire and about closing say together: between two
calls a client that never subscribed may close without harm, since every reply and
acknowledgement is out by then (`AnsweredBeforeClose`) and the server writes it nothing
else; one that subscribed may still be written a notification, which ends the server
with SIGPIPE (server.c:105 leaves the subscription, :158 writes). `SrvWire` has no
notifications; the end by SIGPIPE is in `SrvNotify`, where `KilledOnlyBySubscriber` says
that it takes a subscription.

Two more things the code does differently from what is written beside it show in what
`OnlyOverlapReorders` and `RefusedOnlyWhenPassed` have to allow. A pull "pulls the most
recent data for the ticker" (types.h:33), but two pushes that overlap may link their ticks
in the other order of their stamps (data.c:100 is before the lock, data.c:102), and the
pull then returns the earlier one. "NO NEW TICK UPDATE AVAILABLE" (server.c:262) is also
the answer when the newest tick of a ticker was never read, but a later one of another
ticker was: `last_pull` belongs to the connection.

**Bounds.** Two threads are enough for each race named in the hazards: every one is
between two threads, and the locks are pairwise. Two subscriptions make a list
with a middle, so that unlinking the first and another node both occur, and the
same connection may hold both. A capacity of one item makes every write block as
soon as it can. Data of two whole pieces and a rest passes each loop over pieces
twice. The stamps of `cursor` are neighbours on both sides of a second, where the
addition without carry matters. Four blocks are a matrix in a matrix, a copy of it, and
one more; a block that leaks, as the elements of a freed matrix do (`variant_free` frees
only their array), is used up for good. Four descriptors let a thread be overtaken twice while another has
ended, and the fifth client meets a server that has none left. In `python` an `int` has 4
bits, a `long` 6, and a double two units to one, so that wrapping, numerals above and below
what a `long` holds, and fractions all occur; whatever is in a value is passed through by
itself too; lists have up to three rows of different
widths and nest in each other, within a `MaxDepth` of 5 that no value which goes round
reaches; two groups of three characters are kept, so that a name is
cut and a setting has a group too many; a connection holds one message, so that every
write may block; and `Py_True` has two references to spare, so that it can run out. `get_ticker`
and `pull_tick_update` behave as `pull_tick` does there. The bounds are named constants in the guards of
the actions they bound, or in the record of the module's CONSTANTS.

**Deadlock** is not checked by TLC: clients may stop for good, connections close,
and a process that was killed or ran wild does nothing more. The liveness
properties say instead that calls return and walks end.

**Fairness.** Weak fairness on each thread's own steps: the scheduler runs a thread
that can run, and a thread is one chain of steps. A mutex is granted to some waiter
and not to a given one, so nothing is assumed about who gets a lock; hence the
liveness properties of the store and of notifications promise progress to *some*
caller. On the wire there is one client and one thread and no lock, and each call
returns. `SomeWalkEnds` further assumes that listeners go on waiting for updates as
the loop of types.h:46 does (strong fairness of `Wait`, since each wait competes
with the listener's other calls); without it a full connection blocks a walk for
ever. `EveryTickComes` assumes a client that keeps polling. The accept loop and its threads run
as long as they can, with nothing assumed of clients; that no more connect is a case of
`NewestIsServed`, not an assumption. In `PyThreads` the server's threads run and a thread
that has what it waits for goes on; no program is assumed to call anything, except that
`RoundTripsSettle` is about one that goes on passing its value through `Echo`.

## 4. Proofs

`TickerStore_proofs` proves, for any set of threads, names and times and any bound,
under the assumptions named in `SrvTypes` and `TickerStore`:

* `StoreInvariance`: `Spec => []StoreInv`. `StoreInv` is inductive. Besides types it
  says which thread may be inside which critical section (the locks), at which stage
  of a registration which array holds which entries, and that a thread between
  reading the head and linking its tick still sees the head of the list. The last
  is why no push is lost; the array's stages are why a defined slot holds the right
  ticker.
* `UndefinedReads`, `HistoriesGrow`, `IdsAreStable`: consequences of the invariant and
  of a single step.
* `DisorderNeedsOverlap`: a push never stamps its tick earlier than one that is linked by
  then, so that only overlapping pushes get out of order. It needs the conjunct `PastInv`:
  no tick, linked or about to be, has a stamp later than the clock.
* `StoreImplements`: refinement of `TickStore`. The linearization points are the
  boundary check that fails, the unlocked NULL check, the link of a push, the locked
  read of a pull, the search of a look-up, and the counter's increment of a
  registration. One lemma per action maps it to a step of `TickStore` or a stutter.

`SrvWire_proofs` proves, for any names, ids, times, lengths and data and any number of
unread items, `WireInvariance`: `Spec => []WireInv`. What the runs check about the two
ends is not inductive: it says nothing of the items between them. `WireInv` reads these
ahead. The server is run through the items that wait in `up`, up to the place where it
will need more, and the client through those in `down`; at the two places so reached,
`Together` says which step of the one goes with which of the other, and that only one of
them is ahead. When one end is gone there is nothing to compare with: `AloneServer` and
`AloneClient` say what a failed read may leave of the last item, that the server executes
no second call, and that a client that closed left the server at its exit. The assumption is
`WireAssumption`: a length has a number of whole pieces and perhaps a rest, and none of
them is `Nothing`. From `WireInv` follow

* `TypeCorrect` (`TypeOK`) and `AlwaysInStep` (`InStep`): the two never read an item as
  one of another kind, whatever the command, its errors and its early returns;
* `ResultsAreReal` (`ResultIsReal`) and `ExecutedOnce` (`AtMostOnce`): what a call returns
  is what the server found for that very call, which it carried out at most once;
* `OnlyWholeTicks` (`StoredWhole`) and `ClosesWhenAnswered` (`AnsweredBeforeClose`): a
  client that stops between calls has read, or given up, all that the server writes of them.

`PullCursor_proofs` proves, for any tickers, stamps and pulls, `CursorInvariance` and
`UpdatesAreAlwaysNew` by way of `CursorInv`: the cursor is not earlier than anything read
since the last `pull_tick`, and an update is later than the cursor. For one ticker
with spaced stamps it proves `FollowerMissesNothing`, the refinement of `Feed`: the
inductive invariant `Following` says that the updates are the oldest ticks in order
and that the cursor is at the last of them, so that the walk of `srv_pull_tick_update`
stops at the next one. It rests on what the selections return for lists of any length and
in any order of stamps: `ByDatetimeIsNewestNotLater`, `UpdateStopsAtFirstNotLater`.
`RefusalsArePassed` adds what a refusal means: there is nothing
between the cursor and the time that is asked for.

`SrvNotify_proofs` proves, for any connections, tickers, number of list nodes and number of
unread items a connection holds, `NotifyInvariance`. `NotifyInv` has one part per question:
who has which lock (`LockInv`); that the lists have no circle and no fork, and that the
head a subscription has read is still the head when it links its node (`LinkInv`); that
each node is in one list, or freed, or in one thread's hands (`PlaceInv`); that a walk has
visited the nodes behind it and owes those ahead of it (`WalkInv`); which parts of a notification
the listener has in hand (`SentInv`); and that a connection which never subscribed gets
nothing but the replies to its calls (`QuietInv`). The nodes of a list are defined as the least set that
contains the head and is closed under `m_next`, without recursion, so that facts about them
need no induction. From it follow `Accounted` (`NodesAccounted`), `AllNotified`
(`EveryoneNotified`), `OnlySubscribersKill` (`KilledOnlyBySubscriber`) and `InOrder`
(`OneTickerInOrder`).

`AcceptLoop_proofs` proves, for any number of descriptors and clients, `AcceptInvariance`
(descriptors are used once, and a thread's connection is the one accepted for it or a later
one) and `OnlyOvertakenAreLost` from it.

`VariantOps_proofs` proves facts about the pure functions for values and matrices of any
size: `variant_equal` is symmetric (`EqualIsSymmetric`), but not reflexive: a
matrix is equal to itself exactly if it has no empty element (`EqualToItself`), so an
identity matrix is not (`IdentityUnlikeItself`); `variant_less` is a strict order
(`LessIsStrictOrder`) and compares any two numbers (`NumbersCompare`); sums and products
wrap and commute (`WrapFits`, `OperatorsCommute`), ints survive the way through doubles
(`IntsSurviveDoubles`); and the matrix edits move what they should and nothing else
(`MoveRowsTwice`, `ReplaceRowKeepsRest`, `RowIsMoved`, `SwapCopies`, `SetIsGot`).
They assume that the elements of a matrix are no matrices, that doubles are finite, and
that a double is a whole number of units, so rounding of sums is not in them.

`VariantHandles_proofs` proves, for any finite sets of handles, C variables and blocks and
for matrices of any size, `HandlesInvariance`. `HandlesInv` says that a counter is the number of its
handles, that two roots (counters and C variables) never own the same block, that a root's
block is in use and no element of a matrix points to it, and that no two elements own the
same block. Only the last waits for `~shared`: a program that copied a matrix
of matrices has elements with one block between them, yet the blocks of its roots are
still their own. From it follow `Counted` (`CountsAreHandles`), `OwnedByOne`
(`OwnedOnce`) and `OthersAsTheyWere` (`OthersUnchanged`). The last needs what a value
shows, down to its deepest element, and so an induction on depth: `ShowsExists` and
`ShowKept` take the least depth at which they fail, which the order of the naturals gives
as a fact about a set. A step then keeps what a handle shows if the blocks in use that it
changes are not the handle's and are pointed to by each other only (`HandleKept`).

`PyThreads_proofs` proves every safety property of the run `python`, for any programs,
threads, connections, texts and sizes of tables:

* `RepliesReachTheirCallers` (`RepliesToCallers`): that a reply is for the thread that
  reads it is not inductive, since it says nothing of the replies to come. `ThreadsInv` says
  of each connection over which only replies come (nobody subscribed it or waits for
  updates on it) that there is at most one of a request, a call under way in the server and
  a reply, and that it belongs to the one thread that waits there. The interpreter lock
  is why: who waits for a reply has it. When the server has died, only what it
  sent before is left.
* `AskingKeeps` (`AskingKeepsGroups`): of the groups that the environment names, the
  filter keeps some, and `strtok` cuts the environment to the first. While groups are
  kept they decide; when a program has dropped them the cut environment is read again, and
  still begins with the first (`GroupsInv`, and `FirstOfGroups` for what is kept of one
  name or of several).
* `ErrorsReachTheirCaller` (`ErrorsReachCaller`): the type and the message of an error are
  both cut out of the same text by `strtok`, and C leaves open which is cut first. Either
  way the first word is raised. `StrayFromHuge` (`StrayOnlyFromHuge`).
* `PlacesReturn` (`PlacesKept`) and `DictsReturn` (`DictsComeBack`), for values of any
  width and any `MaxDepth`. `LevelsExist` and `Levels` establish that the functions
  of `PyConvert` are what their definitions say at each level: functions that do so up to a level exist and
  agree, and the levels at which that holds are a set that is all of the naturals, since it
  would otherwise miss a least one (`LevelByLevel`, in place of the library's theorems of
  induction, which take an operator). `VariantAnyLevel` and `ObjectAnyLevel` say that a
  result does not depend on the level at which one looks, and `VariantInLevel` that a
  variant nests no deeper than its object; hence what stands for an element is what the
  element becomes by itself (`ElementConverted`). `ListMatrix` and `DictMatrix` say which
  element is at which place of the matrix in between (`LaidOut`), and `RowsBack` what that matrix
  is made into: the rows that went in, filled up to the widest of them.

Only model-checked:

* liveness (`SomeCallReturns`, `CallReturns`, `EveryTickComes`, `SomeWalkEnds`,
  `NewestIsServed`, `WearsOut`, `SomeoneRuns`, `RoundTripsSettle`): beyond the prover, as is
  ENABLED. Every safety and action property that a passing run checks is proved;
* the three properties that are shown to be violated.

## 5. What the model leaves out

* A `read` or `write` of one item is whole: the code does not handle a short one.
* The first dereference of `m_tickers[id]` of `server.c` 153 happens after a push that
  already survived the same access; `SrvNotify` takes the array as settled.
* Names that fill the 20-byte buffer without a terminator, and negative ids.
* `srv_data_free_tickers` and `srv_data_free_tick` (data.c 22-49) are never reached.
* Two ticks of a ticker at most one microsecond apart: `srv_pull_tick_update` passes
  over one of them. `cursor_feed` therefore has its stamps apart
  and in order; `cursor` has them in any order.
* In `SrvNotify` listeners and pushers are kept apart. A connection that is both is in
  `PyThreads`, whose messages are whole; there, clients can block each other, and
  `SomeoneRuns` says that nothing but a full connection does it.
* `StoredWhole` speaks of pushes whose client lives until they end; server.c:144
  stores a torn tick when it dies between two pieces.
* Values: casts, comparisons and type tests change no state. The cast to a matrix hands
  out the storage and is left out. A function that is called returns a value of its own, which the
  caller frees: one that returned its argument would have it freed twice. `OwnedOnce` and `OthersUnchanged` speak of programs that
  never copy a matrix that owns strings or matrices (`shared`): the copy is shallow, which
  `values_deep` shows. The assignment of a last handle to itself uses a deleted counter
  (core_types_variant.hpp:53); every other sequence is within `CountsAreHandles`.
* The walk's data race with unsubscribe is undefined behaviour from the point where a
  freed node is read. The model stops the server there (`NotifyWild`). In `PyThreads` it may go either way.
* The accept loop's set-up before `listen`, which ends the process if it fails.
* Strings for display (`variant_to_string`, `matrix_to_string`, in static buffers), and the
  macros of core_types_variant.h under `VARIANT_USE_MACROS`, which nothing defines.
* Texts of errors that begin with a colon or a space (`ModuleAssumption`): with both in
  front, `strtok` finds another first word for the message than for the type, and the
  first word is lost. No text in the repository begins so.
* Two processes share no connection (`ThreadsAssumption`): only threads of one program do.
* core_debug: the output file, which nothing sets, and groups set from C code.
* `PyDict_SetItem` sets a TypeError for a key that cannot be hashed (core_python.c:207);
  no key of a dict becomes such a key, so `SetItem` passes over one without it.
* Python: arguments of a wrong type, refused before anything happens; replies that report an
  error of the store, which are read as the others are; the data of `Tick` objects; references that
  leak; error names and texts of 50 characters or more, which overrun a static buffer
  (core_python_wrap.c:19, :31); the macros for object types in core_python_wrap.h, which
  nothing uses; the tables that register the module.
* The functions `Echo`, `Fail`, `Lookup` and `Columns` of `PyModule` are external: the
  repository has the macros to define such functions but defines only the debug ones.
* The Yahoo scripts and the build: I/O and configuration.

## 6. Plan

1. *(done)* store, wire, cursor, notifications; proofs of the store and the cursor.
2. *(done)* `AcceptLoop` with its proofs; connections that push and subscribe, in `PyThreads`.
3. *(done)* `VariantHandles` with calls, `VariantOps` with its proofs.
4. *(done)* `CoreDebug`, `PyConvert`, `PyModule`, `PyThreads`.
5. *(done)* Proofs about `SrvWire`, `SrvNotify` and `VariantHandles`.
6. *(done)* Proofs about `PyThreads`, `PyModule` and the conversions, level by level.

## 7. Running

    tlc -workers 2 -config store.cfg MCTickerStore     # likewise the other runs
    tlapm TickerStore_proofs.tla

PROJECT.json lists each run with its module and configuration, and for each property
a mutant of the model, a plausible bug in the code, that the property catches.
