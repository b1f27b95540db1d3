--------------------------- MODULE SrvWire_proofs ---------------------------
(***************************************************************************)
(* SrvWire, proved for every set of names, ids, times, lengths and data:   *)
(* client and server stay in step, a result is that of an execution, a     *)
(* call is executed at most once, and a tick is stored whole.              *)
(*                                                                         *)
(* What is under way in a stream is taken as read: the invariant follows   *)
(* the server through all that is in up and the client through all that is *)
(* in down (a "run"), and relates the states in which they arrive, as if   *)
(* there were no streams between them.                                     *)
(***************************************************************************)
EXTENDS SrvWire, SequenceTheorems, TLAPS, Integers

Ops == NameOps \cup {"push_tick"} \cup PullOps \cup SubscribeOps
Commands == Ops \cup {"open_connection", "close_connection", "invalid"}
Closing == [op |-> "close_connection"]

Ticks == UNION {[len: {n}, buf: [0..n.chunks -> Maybe(Data \X (0..n.chunks))]] : n \in Lengths}
Statuses == {"SUCCESS", "UNKNOWN", "UNKNOWN_TICKER", "NO_TICKDATA"}
UpItems ==
       [kind: {"command"}, val: Commands] \cup [kind: {"name"}, val: Names]
  \cup [kind: {"id"}, val: Ids] \cup [kind: {"at"}, val: Times] \cup [kind: {"len"}, val: Lengths]
  \cup [kind: {"piece"}, val: Data \X Nat] \cup [kind: {"ack"}, val: {"SUCCESS"}]
DownItems ==
       [kind: {"get.ack"}, val: {"SUCCESS"}] \cup [kind: {"status"}, val: Statuses]
  \cup [kind: {"id"}, val: Ids] \cup [kind: {"len"}, val: Lengths]
  \cup [kind: {"piece"}, val: Maybe(Data \X Nat)] \cup [kind: {"time"}, val: Times]

ClientReads == {"get.ack", "status", "id", "len", "piece", "time"}
ClientSteps ==
  ClientReads \cup {"idle", "send", "put.piece", "put.ack", "close", "closed", "dead"}
ServerReads == {"command", "name", "id", "at", "len", "piece", "ack"}
ServerSteps ==
  ServerReads \cup {"put.ack", "call", "status", "reply.id", "reply.len", "reply.piece",
                    "reply.time", "exit", "killed", "stopped"}

Mines == [out: Seq(UpItems), tick: Ticks \cup {NoTick}, piece: Nat]
Locals == [name: Maybe(Names), id: Maybe(Ids), at: Maybe(Times), tick: Ticks \cup {NoTick},
           piece: Nat, rtn: {[status |-> "SUCCESS"], Nothing}
                            \cup [status: Statuses]
                            \cup [status: {"SUCCESS"}, id: Ids]
                            \cup [status: {"SUCCESS"}, tick: Ticks, time: Times]]

\* The place in a tick is a place of it.
InTick(l) == l.tick # NoTick => l.tick \in Ticks /\ l.piece \in 0..l.tick.len.chunks

-----------------------------------------------------------------------------
(* Runs                                                                    *)

ClientNow == [step |-> client, mine |-> mine, result |-> result]
ServerNow == [step |-> server, command |-> command, local |-> local]

\* A server that waits for a piece of no bytes is about to read a command.
Settle(s) ==
  IF s.step = "piece" /\ s.local.piece = s.local.tick.len.chunks /\ ~s.local.tick.len.tail
  THEN [step |-> "command", command |-> s.command, local |-> NoLocal] ELSE s

\* The server after it has read v: ServerCommand, ServerName, and so on to ServerAck.
At(step, c, l) == [step |-> step, command |-> c,
                   local |-> IF step \in {"command", "exit"} THEN NoLocal ELSE l]
AfterItem(s, v) ==
  IF s.step = "command" THEN At(Dispatch(v), v, s.local)
  ELSE IF s.step = "name" THEN At("call", s.command, [s.local EXCEPT !.name = v])
  ELSE IF s.step = "id"
       THEN At(IF s.command = "push_tick" THEN "len"
               ELSE IF s.command = "pull_tick_by_datetime" THEN "at" ELSE "call",
               s.command, [s.local EXCEPT !.id = v])
  ELSE IF s.step = "at" THEN At("call", s.command, [s.local EXCEPT !.at = v])
  ELSE IF s.step = "len"
       THEN Settle(At("piece", s.command, [s.local EXCEPT !.tick = Raw(v), !.piece = v.chunks]))
  ELSE IF s.step = "piece"
       THEN At("put.ack", s.command, [s.local EXCEPT !.tick.buf[s.local.piece] = v])
  ELSE At(IF s.local.piece = 0 THEN "reply.time" ELSE "reply.piece", s.command,
          [s.local EXCEPT !.piece = Before(@)])

\* The client of call r after it has read v: ClientAck, ClientStatus, and so on to ClientTime.
On(step, m, v) == [step |-> step, mine |-> m, result |-> v]
Over(v) == On("idle", NoneOfMine, v)
AfterReply(r, c, v) ==
  IF c.step = "get.ack"
  THEN On(IF c.mine.piece = 0 THEN "status" ELSE "put.piece",
          [c.mine EXCEPT !.piece = Before(@)], c.result)
  ELSE IF c.step = "status"
       THEN IF v # "SUCCESS" THEN Over(Error(v))
            ELSE IF r.op \in NameOps THEN On("id", c.mine, c.result)
            ELSE IF r.op \in PullOps THEN On("len", c.mine, c.result)
            ELSE Over([status |-> "SUCCESS"])
  ELSE IF c.step = "id" THEN Over([status |-> "SUCCESS", id |-> v])
  ELSE IF c.step = "len"
       THEN On("piece", [c.mine EXCEPT !.tick = Raw(v), !.piece = v.chunks], c.result)
  ELSE IF c.step = "piece"
       THEN IF r.op = "pull_tick"
            THEN On("put.ack", [c.mine EXCEPT !.tick.buf[c.mine.piece] = v], c.result)
            ELSE On(IF c.mine.piece = 0 THEN "time" ELSE "piece",
                    [c.mine EXCEPT !.tick.buf[c.mine.piece] = v, !.piece = Before(@)], c.result)
  ELSE Over([status |-> "SUCCESS", tick |-> c.mine.tick, time |-> v])

\* What the server knows at each step, by itself.
ServerOk(s) ==
  /\ s = [step |-> s.step, command |-> s.command, local |-> s.local]
  /\ s.step \in ServerSteps /\ s.command \in Commands /\ s.local \in Locals /\ InTick(s.local)
  /\ s.step = "name" => s.command \in NameOps
  /\ s.step = "id" => s.command \in Ops \ NameOps
  /\ s.step = "at" => s.command = "pull_tick_by_datetime"
  /\ s.step \in {"len", "piece", "put.ack"} => s.command = "push_tick"
  /\ s.step \in {"call", "status"} => s.command \in Ops
  /\ s.step = "ack" => s.command = "pull_tick"
  /\ s.step \in {"reply.len", "reply.piece", "reply.time"} => s.command \in PullOps
  /\ s.step \in {"piece", "put.ack"} => s.local.tick # NoTick /\ s.local.tick.len.tail
  /\ s.step = "call" /\ s.command = "push_tick"
       => s.local.tick # NoTick /\ s.local.tick.len.tail
  /\ s.step = "status" /\ s.command \in PullOps /\ s.local.rtn.status = "SUCCESS"
       => s.local.tick # NoTick
  /\ s.step \in {"reply.len", "reply.piece", "ack", "reply.time"} => s.local.tick # NoTick
  /\ s.step = "command" => s.local = NoLocal

\* What the client of call r knows at each step, by itself.
ClientOk(r, c) ==
  /\ c = [step |-> c.step, mine |-> c.mine, result |-> c.result]
  /\ c.step \in ClientSteps /\ c.mine \in Mines /\ InTick(c.mine)
  /\ c.step = "send" => c.mine.out # <<>>
  /\ c.step \in ClientReads \cup {"put.piece", "put.ack"} => r \in Calls
  /\ c.step \in {"put.piece", "get.ack"} =>
       /\ r.op = "push_tick" /\ c.mine.piece \in 0..r.len.chunks
  /\ c.step = "send" => /\ r \in Calls \cup {Closing}
                        /\ r.op = "push_tick" => c.mine.piece \in 0..r.len.chunks
  /\ c.step = "id" => r.op \in NameOps
  /\ c.step \in {"len", "piece", "time"} => r.op \in PullOps
  /\ c.step = "put.ack" => r.op = "pull_tick"
  /\ c.step \in {"piece", "put.ack", "time"} => c.mine.tick # NoTick
  /\ c.step = "close" => r = Closing

ServerRun(S) ==
  /\ S[0] = Settle(ServerNow)
  /\ \A j \in 0..Len(up) : ServerOk(S[j])
  /\ \A j \in 1..Len(up) :
       up[j].kind = S[j - 1].step /\ S[j] = AfterItem(S[j - 1], up[j].val)
ClientRun(C) ==
  /\ C[0] = ClientNow
  /\ \A j \in 0..Len(down) : ClientOk(call, C[j])
  /\ \A j \in 1..Len(down) :
       down[j].kind = C[j - 1].step /\ C[j] = AfterReply(call, C[j - 1], down[j].val)

-----------------------------------------------------------------------------
(* Where the two arrive together, while both are there                     *)

\* The body of ResultIsReal, for a result.
Real(v) ==
  v # Nothing =>
    IF v.status = "SUCCESS"
    THEN call.op \notin SubscribeOps =>
           /\ done.call = Asked
           /\ IF call.op = "pull_tick" THEN v.tick = done.res.tick ELSE v = done.res
    ELSE IF v.status = "WRITE_ERROR" THEN done = NotDone
    ELSE IF v.status = "READ_ERROR" THEN "server" \in gone
    ELSE done = [call |-> Asked, res |-> v]

\* Received, for a server in state s.
Got(s) ==
  IF s.command \in NameOps THEN [op |-> s.command, name |-> s.local.name]
  ELSE IF s.command = "pull_tick_by_datetime"
       THEN [op |-> s.command, id |-> s.local.id, at |-> s.local.at]
  ELSE IF s.command = "push_tick"
       THEN [op |-> s.command, id |-> s.local.id, tick |-> s.local.tick]
  ELSE [op |-> s.command, id |-> s.local.id]

AtRest(c, s) == c.step = "idle" /\ s.step = "command" /\ Real(c.result)

\* The request, of which the server has read what the client has written.
Sending(c, s) ==
  /\ c.step = "send" /\ call \in Calls /\ done = NotDone
  /\ call.op = "push_tick" => c.mine.piece = call.len.chunks
  /\ \/ c.mine.out = Request(call) /\ s.step = "command"
     \/ /\ call.op \in NameOps /\ c.mine.out = <<Item("name", call.name)>>
        /\ s.step = "name" /\ s.command = call.op
     \/ /\ call.op \notin NameOps /\ c.mine.out = Tail(Request(call))
        /\ s.step = "id" /\ s.command = call.op
     \/ /\ call.op = "push_tick" /\ c.mine.out = <<Item("len", call.len)>>
        /\ s.step = "len" /\ s.command = call.op /\ s.local.id = call.id
     \/ /\ call.op = "pull_tick_by_datetime" /\ c.mine.out = <<Item("at", call.at)>>
        /\ s.step = "at" /\ s.command = call.op /\ s.local.id = call.id

\* The pieces of a push from k on are with the server.
Taken(c, s, k) ==
  /\ s.command = "push_tick" /\ s.local.id = call.id
  /\ s.local.tick.len = call.len /\ s.local.piece = c.mine.piece
  /\ \A j \in k..call.len.chunks : s.local.tick.buf[j] = Piece(call.data, j)

Pushing(c, s) ==
  /\ call \in Calls /\ call.op = "push_tick" /\ done = NotDone
  /\ c.mine.piece \in 0..call.len.chunks
  /\ \/ /\ c.step = "put.piece" /\ c.mine.piece = call.len.chunks /\ ~call.len.tail
        /\ s.step = "command"
     \/ /\ c.step = "put.piece" /\ s.step = "piece" /\ call.len.tail
        /\ Taken(c, s, c.mine.piece + 1)
     \/ /\ c.step = "get.ack" /\ s.step = "put.ack" /\ call.len.tail
        /\ Taken(c, s, c.mine.piece)

\* What the store may answer to the call.
Answers(v, s) ==
  \/ \E e \in Errors(call.op) : v = Error(e)
  \/ call.op \in NameOps /\ \E n \in Ids : v = [status |-> "SUCCESS", id |-> n]
  \/ call.op \in {"push_tick"} \cup SubscribeOps /\ v = [status |-> "SUCCESS"]
  \/ /\ call.op \in PullOps /\ s.local.tick \in store
     /\ s.local.piece = s.local.tick.len.chunks
     /\ \E at \in Times : v = [status |-> "SUCCESS", tick |-> s.local.tick, time |-> at]

Executed(s) == done = [call |-> Asked, res |-> s.local.rtn]

Waiting(c, s) ==
  /\ c.step = "status" /\ call \in Calls /\ s.command = call.op
  /\ \/ s.step = "call" /\ Got(s) = Asked /\ done = NotDone
     \/ s.step = "status" /\ Executed(s) /\ Answers(s.local.rtn, s)

\* The pieces of a pull from k on are with the client.
Copied(c, s, k) ==
  /\ c.mine.tick.len = s.local.tick.len /\ c.mine.piece = s.local.piece
  /\ \A j \in k..c.mine.tick.len.chunks : c.mine.tick.buf[j] = s.local.tick.buf[j]

Replying(c, s) ==
  /\ call \in Calls /\ s.command = call.op /\ Executed(s)
  /\ \/ /\ c.step = "id" /\ s.step = "reply.id"
        /\ \E n \in Ids : s.local.rtn = [status |-> "SUCCESS", id |-> n]
     \/ /\ s.local.tick \in store
        /\ \E at \in Times :
             s.local.rtn = [status |-> "SUCCESS", tick |-> s.local.tick, time |-> at]
        /\ \/ /\ c.step = "len" /\ s.step = "reply.len"
              /\ s.local.piece = s.local.tick.len.chunks
           \/ /\ c.step = "piece" /\ s.step = "reply.piece"
              /\ Copied(c, s, c.mine.piece + 1)
           \/ c.step = "put.ack" /\ s.step = "ack" /\ Copied(c, s, c.mine.piece)
           \/ c.step = "time" /\ s.step = "reply.time" /\ c.mine.tick = s.local.tick

Leaving(c, s) ==
  /\ call = Closing
  /\ \/ /\ c.step = "send" /\ c.mine.out = <<Item("command", "close_connection")>>
        /\ s.step = "command"
     \/ c.step = "close" /\ s.step = "exit"

Together(c, s) ==
  \/ AtRest(c, s) \/ Sending(c, s) \/ Pushing(c, s) \/ Waiting(c, s) \/ Replying(c, s)
  \/ Leaving(c, s)

-----------------------------------------------------------------------------
(* The inductive invariant                                                 *)

TypeInv ==
  /\ up \in Seq(UpItems) /\ down \in Seq(DownItems)
  /\ gone \subseteq {"client", "server"} /\ reset \subseteq {"client", "server"}
  /\ client \in ClientSteps /\ call \in Calls \cup {NoCall, Closing} /\ mine \in Mines
  /\ server \in ServerSteps /\ command \in Commands /\ local \in Locals /\ InTick(local)
  /\ \A k \in store : k \in Ticks /\ k.len.tail
  /\ done = [call |-> done.call, res |-> done.res]

\* Who is gone, and who has gone how.
GoneInv ==
  /\ client \in {"closed", "dead"} <=> "client" \in gone
  /\ server \in {"killed", "stopped"} <=> "server" \in gone
  /\ server = "killed" => client = "dead"
  /\ "client" \in reset => "server" \in gone
  /\ "server" \in reset => "client" \in gone

StoreInv == client # "dead" => \A k \in store : \E d \in Data : k = Whole(k.len, d)

\* Only one of them is ahead of the other.
BothInv ==
  gone = {} =>
    \E S, C :
      /\ ServerRun(S) /\ ClientRun(C) /\ (up = <<>> \/ down = <<>>)
      /\ Together(C[Len(down)], S[Len(up)])

\* A server whose client is gone executes no second call; it writes to no client that
\* has closed; and a failed read never leaves it with a stale argument.
AloneServer(s) ==
  /\ done # NotDone => s.step \notin {"piece", "put.ack", "call"}
  /\ "server" \in reset => up = <<>> /\ s.step \notin {"name", "id", "at", "len"}
  /\ client = "closed" => s.step = "exit" /\ "server" \notin reset
ServerInv == gone = {"client"} => \E S : ServerRun(S) /\ AloneServer(S[Len(up)])

\* A client whose server is gone still gets what was under way, and then errors; a read
\* that fails as if it had worked gives no result of a call that was not executed.
AloneClient(c) ==
  /\ c.step = "idle" => Real(c.result)
  /\ c.step = "send" /\ call # Closing => done = NotDone
  /\ c.step = "put.piece" /\ c.mine.piece = call.len.chunks /\ ~call.len.tail => done = NotDone
  /\ "client" \in reset =>
       /\ down = <<>> /\ c.step \notin {"id", "len", "put.ack"}
       /\ c.step = "status" => call.op # "push_tick"
       /\ c.step = "piece" => call.op = "pull_tick"
       /\ c.step = "time" => /\ call.op = "pull_tick" /\ done.call = Asked
                             /\ c.mine.tick = done.res.tick
ClientInv == gone = {"server"} => \E C : ClientRun(C) /\ AloneClient(C[Len(down)])

WireInv == TypeInv /\ GoneInv /\ StoreInv /\ BothInv /\ ServerInv /\ ClientInv

-----------------------------------------------------------------------------
(* Ticks, calls and requests                                               *)

LEMMA LengthFacts ==
  ASSUME NEW n \in Lengths
  PROVE  n.chunks \in Nat /\ n.tail \in BOOLEAN /\ 0 \in 0..n.chunks /\ n.chunks \in 0..n.chunks
<1>1. n.chunks \in Nat /\ n.tail \in BOOLEAN
  BY WireAssumption
<1> QED
  BY <1>1

\* A tick is its length and a place for each of its pieces.
LEMMA TickFacts ==
  ASSUME NEW t \in Ticks
  PROVE  /\ t.len \in Lengths /\ t.len.chunks \in Nat /\ t.len.tail \in BOOLEAN
         /\ t.buf \in [0..t.len.chunks -> Maybe(Data \X (0..t.len.chunks))]
         /\ t = [len |-> t.len, buf |-> t.buf] /\ t # NoTick
<1>1. PICK n \in Lengths :
        t \in [len: {n}, buf: [0..n.chunks -> Maybe(Data \X (0..n.chunks))]]
  BY DEF Ticks
<1>2. t.len = n /\ t.buf \in [0..n.chunks -> Maybe(Data \X (0..n.chunks))]
  BY <1>1
<1>3. t = [len |-> t.len, buf |-> t.buf]
  BY <1>1
<1>4. t # NoTick
  BY <1>2, WireAssumption DEF NoTick
<1> QED
  BY <1>2, <1>3, <1>4, LengthFacts

LEMMA TickMade ==
  ASSUME NEW n \in Lengths, NEW b \in [0..n.chunks -> Maybe(Data \X (0..n.chunks))]
  PROVE  /\ [len |-> n, buf |-> b] \in Ticks
         /\ [len |-> n, buf |-> b].len = n /\ [len |-> n, buf |-> b].buf = b
<1>1. [len |-> n, buf |-> b]
        \in [len: {n}, buf: [0..n.chunks -> Maybe(Data \X (0..n.chunks))]]
  OBVIOUS
<1> QED
  BY <1>1 DEF Ticks

LEMMA RawTick ==
  ASSUME NEW n \in Lengths
  PROVE  Raw(n) \in Ticks /\ Raw(n).len = n /\ Raw(n) # NoTick
<1>1. [k \in 0..n.chunks |-> Nothing] \in [0..n.chunks -> Maybe(Data \X (0..n.chunks))]
  BY DEF Maybe
<1>2. Raw(n) \in Ticks /\ Raw(n).len = n
  BY <1>1, TickMade DEF Raw
<1> QED
  BY <1>2, TickFacts

\* A piece that is put in its place.
LEMMA TickPut ==
  ASSUME NEW t \in Ticks, NEW k \in 0..t.len.chunks,
         NEW v \in Maybe(Data \X (0..t.len.chunks))
  PROVE  \E u \in Ticks :
           /\ u = [t EXCEPT !.buf[k] = v] /\ u.len = t.len /\ u.buf[k] = v
           /\ \A j \in 0..t.len.chunks : j # k => u.buf[j] = t.buf[j]
<1>1. /\ t.len \in Lengths /\ t = [len |-> t.len, buf |-> t.buf]
      /\ t.buf \in [0..t.len.chunks -> Maybe(Data \X (0..t.len.chunks))]
  BY TickFacts
<1>2. PICK b : b = [t.buf EXCEPT ![k] = v]
  OBVIOUS
<1>3. PICK u : u = [t EXCEPT !.buf[k] = v]
  OBVIOUS
<1>4. u = [len |-> t.len, buf |-> b]
  BY <1>1, <1>2, <1>3
<1>5. b \in [0..t.len.chunks -> Maybe(Data \X (0..t.len.chunks))]
  BY <1>1, <1>2
<1>6. u \in Ticks /\ u.len = t.len /\ u.buf = b
  BY <1>1, <1>4, <1>5, TickMade
<1>7. b[k] = v /\ \A j \in 0..t.len.chunks : j # k => b[j] = t.buf[j]
  BY <1>1, <1>2
<1> QED
  BY <1>3, <1>6, <1>7

LEMMA WholeTick ==
  ASSUME NEW n \in Lengths, NEW d \in Data
  PROVE  /\ Whole(n, d) \in Ticks /\ Whole(n, d).len = n
         /\ \A j \in 0..n.chunks : Whole(n, d).buf[j] = Piece(d, j)
<1>1. [k \in 0..n.chunks |-> Piece(d, k)] \in [0..n.chunks -> Maybe(Data \X (0..n.chunks))]
  BY DEF Piece, Maybe
<1>2. /\ Whole(n, d) \in Ticks /\ Whole(n, d).len = n
      /\ Whole(n, d).buf = [k \in 0..n.chunks |-> Piece(d, k)]
  BY <1>1, TickMade DEF Whole
<1> QED
  BY <1>2

\* A tick with all the pieces of the data d is that data.
LEMMA WholeMade ==
  ASSUME NEW t \in Ticks, NEW d \in Data,
         \A j \in 0..t.len.chunks : t.buf[j] = Piece(d, j)
  PROVE  t = Whole(t.len, d)
<1>1. /\ t = [len |-> t.len, buf |-> t.buf]
      /\ t.buf \in [0..t.len.chunks -> Maybe(Data \X (0..t.len.chunks))]
  BY TickFacts
<1>2. t.buf = [k \in 0..t.len.chunks |-> t.buf[k]]
  BY <1>1
<1>3. [k \in 0..t.len.chunks |-> t.buf[k]] = [k \in 0..t.len.chunks |-> Piece(d, k)]
  OBVIOUS
<1> QED
  BY <1>1, <1>2, <1>3 DEF Whole

\* Two ticks with the same pieces are the same.
LEMMA SameTick ==
  ASSUME NEW t \in Ticks, NEW u \in Ticks, t.len = u.len,
         \A j \in 0..t.len.chunks : t.buf[j] = u.buf[j]
  PROVE  t = u
<1>1. /\ t = [len |-> t.len, buf |-> t.buf]
      /\ t.buf \in [0..t.len.chunks -> Maybe(Data \X (0..t.len.chunks))]
  BY TickFacts
<1>2. /\ u = [len |-> u.len, buf |-> u.buf]
      /\ u.buf \in [0..u.len.chunks -> Maybe(Data \X (0..u.len.chunks))]
  BY TickFacts
<1> DEFINE D == 0..t.len.chunks
<1>3. t.buf = [j \in D |-> t.buf[j]] /\ u.buf = [j \in D |-> u.buf[j]]
  BY <1>1, <1>2
<1>4. t.buf = u.buf
  BY <1>3
<1> QED
  BY <1>1, <1>2, <1>4

LEMMA OpFacts ==
  /\ \A op \in NameOps : op \notin PullOps \cup SubscribeOps \cup {"push_tick"}
  /\ \A op \in PullOps : op \notin SubscribeOps \cup {"push_tick"}
  /\ \A op \in SubscribeOps : op # "push_tick"
  /\ NameOps \subseteq Ops /\ PullOps \subseteq Ops /\ SubscribeOps \subseteq Ops
  /\ "push_tick" \in Ops /\ "pull_tick_by_datetime" \in PullOps /\ "pull_tick" \in PullOps
  /\ Ops \subseteq Commands /\ "close_connection" \in Commands \ Ops /\ "none" \notin Commands
  /\ \A op \in Ops : op \notin {"none", "close_connection", "open_connection", "invalid"}
BY DEF NameOps, PullOps, SubscribeOps, Ops, Commands

LEMMA CallFacts ==
  ASSUME NEW r \in Calls
  PROVE  /\ r.op \in Ops /\ r # NoCall /\ r # Closing
         /\ r.op \in NameOps => r.name \in Names /\ r = [op |-> r.op, name |-> r.name]
         /\ r.op \notin NameOps => r.id \in Ids
         /\ r.op = "push_tick" =>
              /\ r.len \in Lengths /\ r.data \in Data
              /\ r = [op |-> r.op, id |-> r.id, len |-> r.len, data |-> r.data]
         /\ r.op = "pull_tick_by_datetime" =>
              r.at \in Times /\ r = [op |-> r.op, id |-> r.id, at |-> r.at]
         /\ r.op \notin NameOps \cup {"push_tick", "pull_tick_by_datetime"} =>
              r = [op |-> r.op, id |-> r.id]
<1>1. CASE r \in [op: NameOps, name: Names]
  <2>1. r.op \in NameOps /\ r.name \in Names /\ r = [op |-> r.op, name |-> r.name]
    BY <1>1
  <2> QED
    BY <2>1, OpFacts DEF NoCall, Closing
<1>2. CASE r \in [op: {"push_tick"}, id: Ids, len: Lengths, data: Data]
  <2>1. /\ r.op = "push_tick" /\ r.id \in Ids /\ r.len \in Lengths /\ r.data \in Data
        /\ r = [op |-> r.op, id |-> r.id, len |-> r.len, data |-> r.data]
    BY <1>2
  <2> QED
    BY <2>1, OpFacts DEF NoCall, Closing
<1>3. CASE r \in [op: {"pull_tick_by_datetime"}, id: Ids, at: Times]
  <2>1. /\ r.op = "pull_tick_by_datetime" /\ r.id \in Ids /\ r.at \in Times
        /\ r = [op |-> r.op, id |-> r.id, at |-> r.at]
    BY <1>3
  <2> QED
    BY <2>1, OpFacts DEF NoCall, Closing
<1>4. CASE r \in [op: {"pull_tick", "pull_tick_update"} \cup SubscribeOps, id: Ids]
  <2>1. /\ r.op \in {"pull_tick", "pull_tick_update"} \cup SubscribeOps /\ r.id \in Ids
        /\ r = [op |-> r.op, id |-> r.id]
    BY <1>4
  <2>2. r.op \in Ops \ (NameOps \cup {"push_tick", "pull_tick_by_datetime"})
    BY <2>1 DEF NameOps, PullOps, SubscribeOps, Ops
  <2> QED
    BY <2>1, <2>2, OpFacts DEF NoCall, Closing
<1> QED
  BY <1>1, <1>2, <1>3, <1>4 DEF Calls

LEMMA AppendTuple ==
  ASSUME NEW x, NEW y, NEW z
  PROVE  Append(<<x>>, y) = <<x, y>> /\ Append(<<x, y>>, z) = <<x, y, z>>
<1>1. PICK V : V = {x, y, z}
  OBVIOUS
<1>2. <<x>> \in Seq(V) /\ <<x, y>> \in Seq(V) /\ <<x, y, z>> \in Seq(V) /\ y \in V /\ z \in V
  BY <1>1
<1>3. Append(<<x>>, y) = <<x, y>>
  <2>1. PICK s : s = Append(<<x>>, y)
    OBVIOUS
  <2>2. s \in Seq(V) /\ Len(s) = 2 /\ s[1] = x /\ s[2] = y
    BY <1>2, <2>1, AppendProperties
  <2>3. Len(<<x, y>>) = 2 /\ \A i \in 1..Len(s) : s[i] = <<x, y>>[i]
    <3>1. \A i \in 1..2 : i = 1 \/ i = 2
      OBVIOUS
    <3> QED
      BY <2>2, <3>1
  <2>4. s = <<x, y>>
    BY <1>2, <2>2, <2>3, SeqEqual
  <2> QED
    BY <2>1, <2>4
<1>4. Append(<<x, y>>, z) = <<x, y, z>>
  <2>1. PICK s : s = Append(<<x, y>>, z)
    OBVIOUS
  <2>2. s \in Seq(V) /\ Len(s) = 3 /\ s[1] = x /\ s[2] = y /\ s[3] = z
    BY <1>2, <2>1, AppendProperties
  <2>3. Len(<<x, y, z>>) = 3 /\ \A i \in 1..Len(s) : s[i] = <<x, y, z>>[i]
    <3>1. \A i \in 1..3 : i = 1 \/ i = 2 \/ i = 3
      OBVIOUS
    <3> QED
      BY <2>2, <3>1
  <2>4. s = <<x, y, z>>
    BY <1>2, <2>2, <2>3, SeqEqual
  <2> QED
    BY <2>1, <2>4
<1> QED
  BY <1>3, <1>4

\* The request of a call, item by item.
LEMMA RequestFacts ==
  ASSUME NEW r \in Calls
  PROVE  /\ r.op \in NameOps =>
              Request(r) = <<Item("command", r.op), Item("name", r.name)>>
         /\ r.op = "push_tick" =>
              Request(r) = <<Item("command", r.op), Item("id", r.id), Item("len", r.len)>>
         /\ r.op = "pull_tick_by_datetime" =>
              Request(r) = <<Item("command", r.op), Item("id", r.id), Item("at", r.at)>>
         /\ r.op \notin NameOps \cup {"push_tick", "pull_tick_by_datetime"} =>
              Request(r) = <<Item("command", r.op), Item("id", r.id)>>
<1> DEFINE c == Item("command", r.op)
<1> HIDE DEF c
<1>0. ASSUME NEW x, NEW y PROVE <<x>> \o <<y>> = <<x, y>>
  <2>1. <<x>> \in Seq({x, y}) /\ <<y>> \in Seq({x, y})
    OBVIOUS
  <2>2. Append(<<x>>, y) = <<x>> \o <<y>>
    BY <2>1, AppendIsConcat
  <2> QED
    BY <2>2, AppendTuple
<1>1. ASSUME NEW x PROVE <<c>> \o <<x>> = <<c, x>>
  BY <1>0
<1>2. ASSUME NEW x, NEW y PROVE <<c>> \o (<<x>> \o <<y>>) = <<c, x, y>>
  <2>1. <<c>> \in Seq({c, x, y}) /\ <<x>> \in Seq({c, x, y}) /\ <<y>> \in Seq({c, x, y})
    OBVIOUS
  <2>2. (<<c>> \o <<x>>) \o <<y>> = <<c>> \o (<<x>> \o <<y>>)
    BY <2>1, ConcatAssociative
  <2>3. <<c, x>> \in Seq({c, x, y}) /\ y \in {c, x, y}
    OBVIOUS
  <2>4. Append(<<c, x>>, y) = <<c, x>> \o <<y>>
    BY <2>3, AppendIsConcat
  <2>5. Append(<<c, x>>, y) = <<c, x, y>>
    BY AppendTuple
  <2> QED
    BY <2>2, <2>4, <2>5, <1>0
<1>3. ASSUME NEW x PROVE <<c>> \o (<<x>> \o <<>>) = <<c, x>>
  <2>1. <<x>> \in Seq({x})
    OBVIOUS
  <2>2. <<x>> \o <<>> = <<x>>
    BY <2>1, ConcatEmptySeq
  <2> QED
    BY <2>2, <1>0
<1>4. CASE r.op \in NameOps
  BY <1>4, <1>1, OpFacts DEF Request, c
<1>5. CASE r.op = "push_tick"
  BY <1>5, <1>2, OpFacts DEF Request, c
<1>6. CASE r.op = "pull_tick_by_datetime"
  BY <1>6, <1>2, OpFacts DEF Request, c
<1>7. CASE r.op \notin NameOps \cup {"push_tick", "pull_tick_by_datetime"}
  BY <1>7, <1>3 DEF Request, c
<1> QED
  BY <1>4, <1>5, <1>6, <1>7, OpFacts

LEMMA TupleFacts ==
  ASSUME NEW x, NEW y, NEW z
  PROVE  /\ Len(<<x>>) = 1 /\ Head(<<x>>) = x /\ Tail(<<x>>) = <<>>
         /\ Len(<<x, y>>) = 2 /\ Head(<<x, y>>) = x /\ Tail(<<x, y>>) = <<y>>
         /\ Len(<<x, y, z>>) = 3 /\ Head(<<x, y, z>>) = x /\ Tail(<<x, y, z>>) = <<y, z>>
OBVIOUS

-----------------------------------------------------------------------------
(* Runs: what the first state says of the stream, and how a run goes on    *)

LEMMA SettleFacts ==
  ASSUME NEW s
  PROVE  /\ s.step # "piece" => Settle(s) = s
         /\ s.step = "piece" /\ ~(s.local.piece = s.local.tick.len.chunks /\ ~s.local.tick.len.tail)
              => Settle(s) = s
         /\ Settle(s) = s \/ Settle(s).step = "command"
BY DEF Settle

LEMMA ItemKinds ==
  /\ \A i \in UpItems : i.kind \in ServerReads
  /\ \A i \in DownItems : i.kind \in ClientReads
BY DEF UpItems, DownItems, ServerReads, ClientReads

LEMMA ServerAtItem ==
  ASSUME NEW S, ServerRun(S), up \in Seq(UpItems)
  PROVE  /\ ServerOk(S[0]) /\ ServerOk(S[Len(up)]) /\ Len(up) \in Nat
         /\ S[0] = Settle(ServerNow)
         /\ server # "piece" => S[0] = ServerNow
         /\ up = <<>> => S[Len(up)] = S[0]
         /\ up # <<>> => Head(up).kind = S[0].step /\ S[0].step \in ServerReads
<1>1. Len(up) \in Nat /\ (up = <<>> => Len(up) = 0)
  BY LenProperties
<1>2. 0 \in 0..Len(up) /\ Len(up) \in 0..Len(up)
  BY <1>1
<1>3. ServerOk(S[0]) /\ ServerOk(S[Len(up)]) /\ S[0] = Settle(ServerNow)
  BY <1>2 DEF ServerRun
<1>4. server # "piece" => S[0] = ServerNow
  <2>1. ServerNow.step = server
    BY DEF ServerNow
  <2> QED
    BY <2>1, <1>3, SettleFacts
<1>5. ASSUME up # <<>>
      PROVE  Head(up).kind = S[0].step /\ S[0].step \in ServerReads
  <2>1. 1 \in 1..Len(up) /\ Head(up) = up[1] /\ up[1] \in UpItems
    BY <1>5, <1>1
  <2>2. up[1].kind = S[1 - 1].step
    BY <2>1 DEF ServerRun
  <2> QED
    BY <2>1, <2>2, ItemKinds
<1> QED
  BY <1>1, <1>3, <1>4, <1>5

LEMMA ServerAtStep ==
  ASSUME NEW S, ServerRun(S), up \in Seq(UpItems), server \notin ServerReads
  PROVE  up = <<>> /\ S[Len(up)] = ServerNow /\ ServerOk(ServerNow)
<1>1. server # "piece"
  BY DEF ServerReads
<1>2. S[0] = ServerNow /\ ServerNow.step = server
  BY <1>1, ServerAtItem DEF ServerNow
<1> QED
  BY <1>2, ServerAtItem

\* The server reads the first item.
LEMMA ServerShifts ==
  ASSUME NEW S, ServerRun(S), up \in Seq(UpItems), up # <<>>, up' = Tail(up),
         Settle(ServerNow) = ServerNow, Settle(ServerNow') = AfterItem(ServerNow, Head(up).val)
  PROVE  ServerOk(Settle(ServerNow')) /\ \E T : ServerRun(T)' /\ T[Len(up)'] = S[Len(up)]
<1>1. PICK n \in Nat : Len(up) = n + 1
  <2>1. Len(up) \in Nat \ {0}
    BY EmptySeq
  <2>2. Len(up) = (Len(up) - 1) + 1 /\ Len(up) - 1 \in Nat
    BY <2>1
  <2> QED
    BY <2>2
<1>2. /\ Len(up') = n /\ Head(up) = up[1]
      /\ \A j \in 1..n : up'[j] = up[j + 1]
  BY <1>1
<1> DEFINE T == [j \in Nat |-> S[j + 1]]
<1>3. \A j \in 0..n : T[j] = S[j + 1] /\ j + 1 \in 0..(n + 1) /\ j + 1 \in 1..(n + 1)
  BY <1>1
<1>3a. \A j \in 0..n : T[j] = S[j + 1]
  BY <1>3
<1> HIDE DEF T
<1>4. S[1] = Settle(ServerNow')
  <2>1. 1 \in 1..Len(up)
    BY <1>1
  <2>2. S[1] = AfterItem(S[1 - 1], up[1].val)
    BY <2>1 DEF ServerRun
  <2> QED
    BY <2>2, <1>2 DEF ServerRun
<1>5. T[0] = Settle(ServerNow')
  <2>1. 0 \in 0..n
    BY <1>1
  <2> QED
    BY <2>1, <1>3a, <1>4
<1>6. \A j \in 0..n : ServerOk(T[j])
  BY <1>3, <1>1 DEF ServerRun
<1>7. ASSUME NEW j \in 1..n
      PROVE  up'[j].kind = T[j - 1].step /\ T[j] = AfterItem(T[j - 1], up'[j].val)
  <2>1. j + 1 \in 1..Len(up) /\ j - 1 \in 0..n /\ j \in 0..n /\ (j + 1) - 1 = j /\ (j - 1) + 1 = j
    BY <1>1
  <2>2. up[j + 1].kind = S[(j + 1) - 1].step /\ S[j + 1] = AfterItem(S[(j + 1) - 1], up[j + 1].val)
    BY <2>1 DEF ServerRun
  <2>3. T[j - 1] = S[(j - 1) + 1] /\ T[j] = S[j + 1]
    BY <2>1, <1>3a
  <2> QED
    BY <2>1, <2>2, <2>3, <1>2
<1>8. ServerRun(T)'
  BY <1>2, <1>5, <1>6, <1>7 DEF ServerRun
<1>9. T[Len(up)'] = S[Len(up)] /\ ServerOk(Settle(ServerNow'))
  <2>1. n \in 0..n /\ 0 \in 0..n
    BY <1>1
  <2> QED
    BY <2>1, <1>1, <1>2, <1>3a, <1>4, <1>5, <1>6
<1> QED
  BY SMTT(30), <1>8, <1>9

\* The client writes an item for which the server will be waiting.
LEMMA ServerAppends ==
  ASSUME NEW S, ServerRun(S), up \in Seq(UpItems), NEW i \in UpItems, up' = Append(up, i),
         ServerNow' = ServerNow, i.kind = S[Len(up)].step,
         ServerOk(AfterItem(S[Len(up)], i.val))
  PROVE  \E T : ServerRun(T)' /\ T[Len(up)'] = AfterItem(S[Len(up)], i.val)
<1>1. PICK n \in Nat : n = Len(up)
  BY LenProperties
<1>2. /\ Len(up') = n + 1 /\ up'[n + 1] = i
      /\ \A j \in 1..n : up'[j] = up[j]
  BY <1>1
<1> DEFINE v == AfterItem(S[n], i.val)
           T == [j \in Nat |-> IF j = n + 1 THEN v ELSE S[j]]
<1> HIDE DEF v
<1>3. /\ T[n + 1] = v
      /\ \A j \in 0..n : T[j] = S[j]
  BY <1>1
<1> HIDE DEF T
<1>4. T[0] = Settle(ServerNow)' /\ T[n] = S[n]
  <2>1. 0 \in 0..n /\ n \in 0..n
    BY <1>1
  <2>2. Settle(ServerNow)' = Settle(ServerNow)
    BY DEF Settle
  <2> QED
    BY <2>1, <2>2, <1>3 DEF ServerRun
<1>5. \A j \in 0..(n + 1) : ServerOk(T[j])
  <2>1. \A j \in 0..(n + 1) : j \in 0..n \/ j = n + 1
    BY <1>1
  <2>2. ServerOk(v)
    BY <1>1 DEF v
  <2> QED
    BY <2>1, <2>2, <1>1, <1>3 DEF ServerRun
<1>6. ASSUME NEW j \in 1..(n + 1)
      PROVE  up'[j].kind = T[j - 1].step /\ T[j] = AfterItem(T[j - 1], up'[j].val)
  <2>1. CASE j = n + 1
    <3>1. j - 1 = n
      BY <2>1, <1>1
    <3> QED
      BY <3>1, <2>1, <1>1, <1>2, <1>3, <1>4 DEF v
  <2>2. CASE j \in 1..n
    <3>1. j \in 0..n /\ j - 1 \in 0..n /\ j \in 1..Len(up)
      BY <2>2, <1>1
    <3>2. up[j].kind = S[j - 1].step /\ S[j] = AfterItem(S[j - 1], up[j].val)
      BY <3>1 DEF ServerRun
    <3> QED
      BY <3>1, <3>2, <2>2, <1>2, <1>3
  <2> QED
    BY <2>1, <2>2, <1>1
<1>7. ServerRun(T)'
  BY <1>2, <1>4, <1>5, <1>6 DEF ServerRun
<1> QED
  BY <1>1, <1>2, <1>3, <1>7 DEF v

\* The server moves with nothing to read, or stays as it is.
LEMMA ServerStarts ==
  ASSUME up' = <<>>, ServerOk(Settle(ServerNow'))
  PROVE  \E T : ServerRun(T)' /\ T[Len(up)'] = Settle(ServerNow')
<1>1. PICK T : T = [j \in Nat |-> Settle(ServerNow')]
  OBVIOUS
<1>2. T[0] = Settle(ServerNow')
  BY <1>1
<1>3. Len(up)' = 0
  OBVIOUS
<1>4. ServerRun(T)'
  BY <1>2, <1>3 DEF ServerRun
<1> QED
  BY <1>2, <1>3, <1>4

LEMMA ServerStays ==
  ASSUME NEW S, ServerRun(S), up' = up, Settle(ServerNow') = Settle(ServerNow)
  PROVE  ServerRun(S)' /\ S[Len(up)'] = S[Len(up)]
BY DEF ServerRun

LEMMA ClientAtItem ==
  ASSUME NEW C, ClientRun(C), down \in Seq(DownItems)
  PROVE  /\ ClientOk(call, C[0]) /\ ClientOk(call, C[Len(down)]) /\ Len(down) \in Nat
         /\ C[0] = ClientNow
         /\ down = <<>> => C[Len(down)] = C[0]
         /\ down # <<>> => Head(down).kind = C[0].step /\ C[0].step \in ClientReads
<1>1. Len(down) \in Nat /\ (down = <<>> => Len(down) = 0)
  BY LenProperties
<1>2. 0 \in 0..Len(down) /\ Len(down) \in 0..Len(down)
  BY <1>1
<1>3. ClientOk(call, C[0]) /\ ClientOk(call, C[Len(down)]) /\ C[0] = ClientNow
  BY <1>2 DEF ClientRun
<1>5. ASSUME down # <<>>
      PROVE  Head(down).kind = C[0].step /\ C[0].step \in ClientReads
  <2>1. 1 \in 1..Len(down) /\ Head(down) = down[1] /\ down[1] \in DownItems
    BY <1>5, <1>1
  <2>2. down[1].kind = C[1 - 1].step
    BY <2>1 DEF ClientRun
  <2> QED
    BY <2>1, <2>2, ItemKinds
<1> QED
  BY <1>1, <1>3, <1>5

LEMMA ClientAtStep ==
  ASSUME NEW C, ClientRun(C), down \in Seq(DownItems), client \notin ClientReads
  PROVE  down = <<>> /\ C[Len(down)] = ClientNow /\ ClientOk(call, ClientNow)
<1>1. C[0] = ClientNow /\ ClientNow.step = client
  BY ClientAtItem DEF ClientNow
<1> QED
  BY <1>1, ClientAtItem

\* The client reads the first item.
LEMMA ClientShifts ==
  ASSUME NEW C, ClientRun(C), down \in Seq(DownItems), down # <<>>, down' = Tail(down),
         call' = call,
         ClientNow' = AfterReply(call, ClientNow, Head(down).val)
  PROVE  ClientOk(call, ClientNow') /\ \E T : ClientRun(T)' /\ T[Len(down)'] = C[Len(down)]
<1>1. PICK n \in Nat : Len(down) = n + 1
  <2>1. Len(down) \in Nat \ {0}
    BY EmptySeq
  <2>2. Len(down) = (Len(down) - 1) + 1 /\ Len(down) - 1 \in Nat
    BY <2>1
  <2> QED
    BY <2>2
<1>2. /\ Len(down') = n /\ Head(down) = down[1]
      /\ \A j \in 1..n : down'[j] = down[j + 1]
  BY <1>1
<1> DEFINE T == [j \in Nat |-> C[j + 1]]
<1>3. \A j \in 0..n : T[j] = C[j + 1] /\ j + 1 \in 0..(n + 1) /\ j + 1 \in 1..(n + 1)
  BY <1>1
<1>3a. \A j \in 0..n : T[j] = C[j + 1]
  BY <1>3
<1> HIDE DEF T
<1>4. C[1] = ClientNow'
  <2>1. 1 \in 1..Len(down)
    BY <1>1
  <2>2. C[1] = AfterReply(call, C[1 - 1], down[1].val)
    BY <2>1 DEF ClientRun
  <2> QED
    BY <2>2, <1>2 DEF ClientRun
<1>5. T[0] = ClientNow'
  <2>1. 0 \in 0..n
    BY <1>1
  <2> QED
    BY <2>1, <1>3a, <1>4
<1>6. \A j \in 0..n : ClientOk(call, T[j])
  BY <1>3, <1>1 DEF ClientRun
<1>7. ASSUME NEW j \in 1..n
      PROVE  down'[j].kind = T[j - 1].step /\ T[j] = AfterReply(call, T[j - 1], down'[j].val)
  <2>1. j + 1 \in 1..Len(down) /\ j - 1 \in 0..n /\ j \in 0..n /\ (j + 1) - 1 = j /\ (j - 1) + 1 = j
    BY <1>1
  <2>2. down[j + 1].kind = C[(j + 1) - 1].step /\ C[j + 1] = AfterReply(call, C[(j + 1) - 1], down[j + 1].val)
    BY <2>1 DEF ClientRun
  <2>3. T[j - 1] = C[(j - 1) + 1] /\ T[j] = C[j + 1]
    BY <2>1, <1>3a
  <2> QED
    BY <2>1, <2>2, <2>3, <1>2
<1>8. ClientRun(T)'
  BY <1>2, <1>5, <1>6, <1>7 DEF ClientRun
<1>9. T[Len(down)'] = C[Len(down)] /\ ClientOk(call, ClientNow')
  <2>1. n \in 0..n /\ 0 \in 0..n
    BY <1>1
  <2> QED
    BY <2>1, <1>1, <1>2, <1>3a, <1>4, <1>5, <1>6
<1> QED
  BY SMTT(30), <1>8, <1>9

\* The server writes an item for which the client will be waiting.
LEMMA ClientAppends ==
  ASSUME NEW C, ClientRun(C), down \in Seq(DownItems), NEW i \in DownItems, down' = Append(down, i),
         ClientNow' = ClientNow, call' = call, i.kind = C[Len(down)].step,
         ClientOk(call, AfterReply(call, C[Len(down)], i.val))
  PROVE  \E T : ClientRun(T)' /\ T[Len(down)'] = AfterReply(call, C[Len(down)], i.val)
<1>1. PICK n \in Nat : n = Len(down)
  BY LenProperties
<1>2. /\ Len(down') = n + 1 /\ down'[n + 1] = i
      /\ \A j \in 1..n : down'[j] = down[j]
  BY <1>1
<1>3. PICK v : v = AfterReply(call, C[n], i.val)
  OBVIOUS
<1> DEFINE T == [j \in Nat |-> IF j = n + 1 THEN v ELSE C[j]]
<1>3a. T[n + 1] = v /\ \A j \in 0..n : T[j] = C[j]
  BY <1>1
<1> HIDE DEF T
<1>4. T[0] = ClientNow' /\ T[n] = C[n]
  <2>1. 0 \in 0..n /\ n \in 0..n
    BY <1>1
  <2> QED
    BY <2>1, <1>3a DEF ClientRun
<1>5. \A j \in 0..(n + 1) : ClientOk(call, T[j])
  <2>1. \A j \in 0..(n + 1) : j \in 0..n \/ j = n + 1
    BY <1>1
  <2>2. ClientOk(call, v)
    BY <1>1, <1>3
  <2> QED
    BY <2>1, <2>2, <1>1, <1>3a DEF ClientRun
<1>6. ASSUME NEW j \in 1..(n + 1)
      PROVE  down'[j].kind = T[j - 1].step /\ T[j] = AfterReply(call, T[j - 1], down'[j].val)
  <2>1. CASE j = n + 1
    <3>1. j - 1 = n
      BY <2>1, <1>1
    <3> QED
      BY <3>1, <2>1, <1>1, <1>2, <1>3a, <1>4, <1>3
  <2>2. CASE j \in 1..n
    <3>1. j \in 0..n /\ j - 1 \in 0..n /\ j \in 1..Len(down)
      BY <2>2, <1>1
    <3>2. down[j].kind = C[j - 1].step /\ C[j] = AfterReply(call, C[j - 1], down[j].val)
      BY <3>1 DEF ClientRun
    <3> QED
      BY <3>1, <3>2, <2>2, <1>2, <1>3a
  <2> QED
    BY <2>1, <2>2, <1>1
<1>7. ClientRun(T)'
  <2>1. \A j \in 1..Len(down)' :
          down'[j].kind = T[j - 1].step /\ T[j] = AfterReply(call', T[j - 1], down'[j].val)
    BY <1>2, <1>6
  <2>2. \A j \in 0..Len(down)' : ClientOk(call', T[j])
    BY <1>2, <1>5
  <2> QED
    BY <1>4, <2>1, <2>2 DEF ClientRun
<1>8. v = AfterReply(call, C[Len(down)], i.val)
  BY <1>1, <1>3
<1> QED
  BY <1>2, <1>3a, <1>7, <1>8

\* The client moves with nothing to read, or stays as it is.
LEMMA ClientStarts ==
  ASSUME down' = <<>>, ClientOk(call', ClientNow')
  PROVE  \E T : ClientRun(T)' /\ T[Len(down)'] = ClientNow'
<1>1. PICK T : T = [j \in Nat |-> ClientNow']
  OBVIOUS
<1>2. T[0] = ClientNow'
  BY <1>1
<1>3. Len(down)' = 0
  OBVIOUS
<1>4. ClientRun(T)'
  <2>1. \A j \in 1..Len(down)' : FALSE
    BY <1>3
  <2>2. \A j \in 0..Len(down)' : ClientOk(call', T[j])
    BY <1>2, <1>3
  <2> QED
    BY <1>2, <2>1, <2>2 DEF ClientRun
<1> QED
  BY <1>2, <1>3, <1>4

LEMMA ClientStays ==
  ASSUME NEW C, ClientRun(C), down' = down, ClientNow' = ClientNow, call' = call
  PROVE  ClientRun(C)' /\ C[Len(down)'] = C[Len(down)]
BY DEF ClientRun

-----------------------------------------------------------------------------
(* Reads: an end that reads stays in its run                               *)

\* What the two have come to does not depend on the streams.
LEMMA TogetherStays ==
  ASSUME NEW c, NEW s, Together(c, s), UNCHANGED <<call, done, store, gone>>
  PROVE  Together(c, s)'
<1>1. call' = call /\ done' = done /\ store' = store /\ gone' = gone
  OBVIOUS
<1>2. AtRest(c, s) => AtRest(c, s)'
  BY <1>1 DEF AtRest, Real, Asked
<1>3. Sending(c, s) => Sending(c, s)'
  BY <1>1 DEF Sending
<1>4. Pushing(c, s) => Pushing(c, s)'
  BY <1>1 DEF Pushing, Taken
<1>5. Waiting(c, s) => Waiting(c, s)'
  BY <1>1 DEF Waiting, Executed, Asked, Answers
<1>6. Replying(c, s) => Replying(c, s)'
  BY <1>1 DEF Replying, Executed, Asked
<1>7. Leaving(c, s) => Leaving(c, s)'
  BY <1>1 DEF Leaving
<1> QED
  BY <1>2, <1>3, <1>4, <1>5, <1>6, <1>7 DEF Together

ServerTakes ==
  /\ server \in ServerReads /\ up # <<>> /\ up' = Tail(up)
  /\ Settle(ServerNow) = ServerNow /\ Settle(ServerNow') = AfterItem(ServerNow, Head(up).val)
  /\ Settle(ServerNow') = ServerNow' \/ ServerLen
  /\ server' \notin {"killed", "stopped"}
  /\ UNCHANGED <<down, ends, clientvars, store, done>>

LEMMA ServerReadsItem ==
  ASSUME \/ ServerCommand \/ ServerName \/ ServerId \/ ServerAt \/ ServerLen \/ ServerPiece
         \/ ServerAck
  PROVE  ServerTakes
<1> USE DEF ServerNow, AfterItem, At, ServerGoto, ServerRead
<1>1. /\ server = ServerNow.step /\ command = ServerNow.command /\ local = ServerNow.local
      /\ server' = ServerNow'.step
  OBVIOUS
<1>2. CASE ServerCommand
  <2>1. Dispatch(command') \in {"name", "id", "exit", "command"}
    BY DEF Dispatch
  <2>2. server' = Dispatch(command') /\ server' # "piece" /\ server' \notin {"killed", "stopped"}
    BY <1>2, <2>1 DEF ServerCommand
  <2>3. ServerNow' = AfterItem(ServerNow, Head(up).val)
    BY <1>2, <2>1 DEF ServerCommand
  <2> QED
    BY <1>2, <2>2, <2>3, <1>1, SettleFacts DEF ServerCommand, ServerTakes, ServerReads
<1>3. CASE ServerName
  <2>1. server' = "call" /\ ServerNow' = AfterItem(ServerNow, Head(up).val)
    BY <1>3 DEF ServerName
  <2> QED
    BY <1>3, <2>1, <1>1, SettleFacts DEF ServerName, ServerTakes, ServerReads
<1>4. CASE ServerId
  <2>1. server' \in {"len", "at", "call"} /\ ServerNow' = AfterItem(ServerNow, Head(up).val)
    BY <1>4 DEF ServerId
  <2> QED
    BY <1>4, <2>1, <1>1, SettleFacts DEF ServerId, ServerTakes, ServerReads
<1>5. CASE ServerAt
  <2>1. server' = "call" /\ ServerNow' = AfterItem(ServerNow, Head(up).val)
    BY <1>5 DEF ServerAt
  <2> QED
    BY <1>5, <2>1, <1>1, SettleFacts DEF ServerAt, ServerTakes, ServerReads
<1>6. CASE ServerLen
  <2>1. server' = "piece" /\ Settle(ServerNow') = AfterItem(ServerNow, Head(up).val)
    BY <1>6 DEF ServerLen
  <2> QED
    BY <1>6, <2>1, <1>1, SettleFacts DEF ServerLen, ServerTakes, ServerReads
<1>7. CASE ServerPiece
  <2>1. server' = "put.ack" /\ ServerNow' = AfterItem(ServerNow, Head(up).val)
    BY <1>7 DEF ServerPiece
  <2>2. Settle(ServerNow) = ServerNow
    BY <1>7, <1>1 DEF ServerPiece, NoBytes, Settle
  <2> QED
    BY <1>7, <2>1, <2>2, <1>1, SettleFacts DEF ServerPiece, ServerTakes, ServerReads
<1>8. CASE ServerAck
  <2>1. server' \in {"reply.time", "reply.piece"} /\ ServerNow' = AfterItem(ServerNow, Head(up).val)
    BY <1>8 DEF ServerAck, NextReply, LessPiece
  <2> QED
    BY <1>8, <2>1, <1>1, SettleFacts DEF ServerAck, ServerTakes, ServerReads
<1> QED
  BY <1>2, <1>3, <1>4, <1>5, <1>6, <1>7, <1>8

\* Who is there, by the steps that they are at.
LEMMA WhoIsThere ==
  ASSUME TypeInv, GoneInv
  PROVE  /\ server \notin {"killed", "stopped"} => gone = {} \/ gone = {"client"}
         /\ client \notin {"closed", "dead"} => gone = {} \/ gone = {"server"}
<1>1. gone \subseteq {"client", "server"}
  BY DEF TypeInv
<1> QED
  BY <1>1 DEF GoneInv

LEMMA ServerLenTyped ==
  ASSUME TypeInv, ServerLen
  PROVE  command' \in Commands /\ local' \in Locals /\ InTick(local') /\ server' \in ServerSteps
<1>1. up # <<>> /\ Head(up) \in UpItems /\ Head(up).kind = "len"
  BY DEF TypeInv, ServerLen, ServerRead
<1>2. PICK v : v = Head(up).val
  OBVIOUS
<1>3. v \in Lengths
  BY <1>1, <1>2 DEF UpItems
<1>4. PICK k : k = Raw(v)
  OBVIOUS
<1>5. k \in Ticks /\ k.len = v /\ v.chunks \in Nat /\ v.chunks \in 0..v.chunks
  BY <1>3, <1>4, RawTick, LengthFacts
<1>6. command' = command /\ server' = "piece" /\ local' = [local EXCEPT !.tick = k, !.piece = v.chunks]
  BY <1>2, <1>4 DEF ServerLen, ServerGoto
<1>7. local \in Locals /\ command \in Commands
  BY DEF TypeInv
<1>8. local' \in Locals
  BY <1>5, <1>6, <1>7 DEF Locals
<1>9. local'.tick = k /\ local'.piece = v.chunks
  BY <1>6, <1>7 DEF Locals
<1> QED
  BY <1>5, <1>6, <1>7, <1>8, <1>9 DEF InTick, ServerSteps, ServerReads

LEMMA ServerReadKeeps ==
  ASSUME WireInv, ServerTakes
  PROVE  WireInv'
<1> USE DEF WireInv
<1>1. /\ server \in ServerReads /\ up # <<>> /\ up' = Tail(up)
      /\ Settle(ServerNow) = ServerNow /\ Settle(ServerNow') = AfterItem(ServerNow, Head(up).val)
      /\ Settle(ServerNow') = ServerNow' \/ ServerLen
      /\ server' \notin {"killed", "stopped"} /\ server \notin {"killed", "stopped"}
  BY DEF ServerTakes, ServerReads
<1>2. /\ down' = down /\ gone' = gone /\ reset' = reset /\ client' = client /\ call' = call
      /\ mine' = mine /\ result' = result /\ store' = store /\ done' = done
  BY DEF ServerTakes, ends, clientvars
<1>3. up \in Seq(UpItems) /\ down \in Seq(DownItems)
  BY DEF TypeInv
<1>4. gone = {} \/ gone = {"client"}
  BY <1>1, WhoIsThere
<1>5. ASSUME NEW S, ServerRun(S)
      PROVE  ServerOk(Settle(ServerNow')) /\ \E T : ServerRun(T)' /\ T[Len(up)'] = S[Len(up)]
  BY <1>1, <1>3, <1>5, ServerShifts
<1>6. \E S : ServerRun(S)
  BY <1>4 DEF BothInv, ServerInv
<1>7. TypeInv'
  <2>1. up' \in Seq(UpItems)
    BY <1>1, <1>3
  <2>2. command' \in Commands /\ local' \in Locals /\ InTick(local') /\ server' \in ServerSteps
    <3>1. CASE ServerLen
      BY <3>1, ServerLenTyped
    <3>2. CASE Settle(ServerNow') = ServerNow'
      <4>1. ServerOk(ServerNow')
        BY <1>5, <1>6, <3>2
      <4> QED
        BY <4>1 DEF ServerOk, ServerNow
    <3> QED
      BY <1>1, <3>1, <3>2
  <2> QED
    BY <2>1, <2>2, <1>2 DEF TypeInv
<1>8. GoneInv'
  BY <1>1, <1>2 DEF GoneInv
<1>9. StoreInv'
  BY <1>2 DEF StoreInv
<1>10. BothInv'
  <2> SUFFICES ASSUME gone = {}
               PROVE  \E S, C : /\ ServerRun(S)' /\ ClientRun(C)' /\ (up = <<>> \/ down = <<>>)'
                                /\ Together(C[Len(down)], S[Len(up)])'
    BY <1>2 DEF BothInv
  <2>1. PICK S, C : /\ ServerRun(S) /\ ClientRun(C) /\ (up = <<>> \/ down = <<>>)
                    /\ Together(C[Len(down)], S[Len(up)])
    BY DEF BothInv
  <2>2. PICK T : ServerRun(T)' /\ T[Len(up)'] = S[Len(up)]
    BY <1>5, <2>1
  <2>3. ClientRun(C)' /\ C[Len(down)'] = C[Len(down)]
    BY <1>2, <2>1, ClientStays DEF ClientNow
  <2>4. PICK c, s : c = C[Len(down)] /\ s = S[Len(up)]
    OBVIOUS
  <2>5. Together(c, s)
    BY <2>1, <2>4
  <2>6. Together(c, s)'
    BY <1>2, <2>5, TogetherStays
  <2>7. Together(C[Len(down)], T[Len(up)])'
    BY <2>2, <2>3, <2>4, <2>6
  <2> QED
    BY <1>1, <1>2, <2>1, <2>2, <2>3, <2>7
<1>11. ServerInv'
  <2> SUFFICES ASSUME gone = {"client"}
               PROVE  \E S : ServerRun(S)' /\ AloneServer(S[Len(up)])'
    BY <1>2 DEF ServerInv
  <2>1. PICK S : ServerRun(S) /\ AloneServer(S[Len(up)])
    BY DEF ServerInv
  <2>2. PICK T : ServerRun(T)' /\ T[Len(up)'] = S[Len(up)]
    BY <1>5, <2>1
  <2>3. PICK s : s = S[Len(up)]
    OBVIOUS
  <2>4. AloneServer(s)'
    BY <2>1, <2>3, <1>1, <1>2 DEF AloneServer
  <2> QED
    BY <2>2, <2>3, <2>4
<1>12. ClientInv'
  BY <1>2, <1>4 DEF ClientInv
<1> QED
  BY <1>7, <1>8, <1>9, <1>10, <1>11, <1>12

ClientTakes ==
  /\ client \in ClientReads /\ down # <<>> /\ down' = Tail(down)
  /\ ClientNow' = AfterReply(call, ClientNow, Head(down).val)
  /\ client' \notin {"closed", "dead"}
  /\ UNCHANGED <<up, ends, call, servervars>>

LEMMA ClientReadsItem ==
  ASSUME \/ ClientAck \/ ClientStatus \/ ClientId \/ ClientLen \/ ClientPiece \/ ClientTime
  PROVE  ClientTakes
<1> USE DEF ClientNow, AfterReply, On, Over, ClientGoto, ClientReturn, ClientRead
<1>1. /\ client = ClientNow.step /\ mine = ClientNow.mine /\ result = ClientNow.result
      /\ client' = ClientNow'.step
  OBVIOUS
<1>2. CASE ClientAck
  <2>1. /\ client' \in {"status", "put.piece"}
        /\ ClientNow' = AfterReply(call, ClientNow, Head(down).val)
    BY <1>2 DEF ClientAck, NextPut
  <2> QED
    BY <1>2, <2>1 DEF ClientAck, ClientTakes, ClientReads
<1>3. CASE ClientStatus
  <2>1. /\ client' \in {"id", "len", "idle"}
        /\ ClientNow' = AfterReply(call, ClientNow, Head(down).val)
    BY <1>3 DEF ClientStatus, AfterStatus
  <2> QED
    BY <1>3, <2>1 DEF ClientStatus, ClientTakes, ClientReads
<1>4. CASE ClientId
  <2>1. client' = "idle" /\ ClientNow' = AfterReply(call, ClientNow, Head(down).val)
    BY <1>4 DEF ClientId
  <2> QED
    BY <1>4, <2>1 DEF ClientId, ClientTakes, ClientReads
<1>5. CASE ClientLen
  <2>1. client' = "piece" /\ ClientNow' = AfterReply(call, ClientNow, Head(down).val)
    BY <1>5 DEF ClientLen
  <2> QED
    BY <1>5, <2>1 DEF ClientLen, ClientTakes, ClientReads
<1>6. CASE ClientPiece
  <2>1. /\ client' \in {"put.ack", "time", "piece"}
        /\ ClientNow' = AfterReply(call, ClientNow, Head(down).val)
    BY <1>6 DEF ClientPiece, GotPiece
  <2> QED
    BY <1>6, <2>1 DEF ClientPiece, ClientTakes, ClientReads
<1>7. CASE ClientTime
  <2>1. client' = "idle" /\ ClientNow' = AfterReply(call, ClientNow, Head(down).val)
    BY <1>7 DEF ClientTime, GotTime
  <2> QED
    BY <1>7, <2>1 DEF ClientTime, ClientTakes, ClientReads
<1> QED
  BY <1>2, <1>3, <1>4, <1>5, <1>6, <1>7

LEMMA ClientReadKeeps ==
  ASSUME WireInv, ClientTakes
  PROVE  WireInv'
<1> USE DEF WireInv
<1>1. /\ client \in ClientReads /\ down # <<>> /\ down' = Tail(down)
      /\ ClientNow' = AfterReply(call, ClientNow, Head(down).val)
      /\ client' \notin {"closed", "dead"} /\ client \notin {"closed", "dead"}
  BY DEF ClientTakes, ClientReads
<1>2. /\ up' = up /\ gone' = gone /\ reset' = reset /\ server' = server /\ call' = call
      /\ command' = command /\ local' = local /\ store' = store /\ done' = done
  BY DEF ClientTakes, ends, servervars
<1>3. up \in Seq(UpItems) /\ down \in Seq(DownItems)
  BY DEF TypeInv
<1>4. gone = {} \/ gone = {"server"}
  BY <1>1, WhoIsThere
<1>5. ASSUME NEW C, ClientRun(C)
      PROVE  ClientOk(call, ClientNow') /\ \E T : ClientRun(T)' /\ T[Len(down)'] = C[Len(down)]
  BY <1>1, <1>2, <1>3, <1>5, ClientShifts
<1>6. \E C : ClientRun(C)
  BY <1>4 DEF BothInv, ClientInv
<1>7. TypeInv'
  <2>1. down' \in Seq(DownItems)
    BY <1>1, <1>3
  <2>2. mine' \in Mines /\ client' \in ClientSteps
    BY <1>5, <1>6 DEF ClientOk, ClientNow
  <2> QED
    BY <2>1, <2>2, <1>2 DEF TypeInv
<1>8. GoneInv'
  BY <1>1, <1>2 DEF GoneInv
<1>9. StoreInv'
  BY <1>1, <1>2 DEF StoreInv
<1>10. BothInv'
  <2> SUFFICES ASSUME gone = {}
               PROVE  \E S, C : /\ ServerRun(S)' /\ ClientRun(C)' /\ (up = <<>> \/ down = <<>>)'
                                /\ Together(C[Len(down)], S[Len(up)])'
    BY <1>2 DEF BothInv
  <2>1. PICK S, C : /\ ServerRun(S) /\ ClientRun(C) /\ (up = <<>> \/ down = <<>>)
                    /\ Together(C[Len(down)], S[Len(up)])
    BY DEF BothInv
  <2>2. PICK T : ClientRun(T)' /\ T[Len(down)'] = C[Len(down)]
    BY <1>5, <2>1
  <2>3. ServerRun(S)' /\ S[Len(up)'] = S[Len(up)]
    <3>1. Settle(ServerNow') = Settle(ServerNow)
      BY <1>2 DEF ServerNow, Settle
    <3> QED
      BY <3>1, <1>2, <2>1, ServerStays
  <2>4. PICK c, s : c = C[Len(down)] /\ s = S[Len(up)]
    OBVIOUS
  <2>5. Together(c, s)
    BY <2>1, <2>4
  <2>6. Together(c, s)'
    BY <1>2, <2>5, TogetherStays
  <2>7. Together(T[Len(down)], S[Len(up)])'
    BY <2>2, <2>3, <2>4, <2>6
  <2> QED
    BY <1>1, <1>2, <2>1, <2>2, <2>3, <2>7
<1>11. ClientInv'
  <2> SUFFICES ASSUME gone = {"server"}
               PROVE  \E C : ClientRun(C)' /\ AloneClient(C[Len(down)])'
    BY <1>2 DEF ClientInv
  <2>1. PICK C : ClientRun(C) /\ AloneClient(C[Len(down)])
    BY DEF ClientInv
  <2>2. PICK T : ClientRun(T)' /\ T[Len(down)'] = C[Len(down)]
    BY <1>5, <2>1
  <2>3. PICK c : c = C[Len(down)]
    OBVIOUS
  <2>4. AloneClient(c)'
    BY <2>1, <2>3, <1>1, <1>2 DEF AloneClient, Real, Asked
  <2> QED
    BY <2>2, <2>3, <2>4
<1>12. ServerInv'
  BY <1>2, <1>4 DEF ServerInv
<1> QED
  BY <1>7, <1>8, <1>9, <1>10, <1>11, <1>12

-----------------------------------------------------------------------------
(* What a step leaves to show, by who is there                             *)

LEMMA BeforeFacts ==
  ASSUME NEW n \in Nat, NEW k \in 0..n
  PROVE  /\ Before(k) \in 0..n /\ Before(k) \in Nat
         /\ k # 0 => Before(k) + 1 = k /\ Before(k) # n
BY DEF Before

LEMMA NoneTyped ==
  /\ NoLocal \in Locals /\ InTick(NoLocal) /\ NoLocal.tick = NoTick
  /\ NoneOfMine \in Mines /\ InTick(NoneOfMine) /\ NoneOfMine.tick = NoTick
<1>1. NoLocal \in Locals /\ NoLocal.tick = NoTick
  BY DEF NoLocal, Locals, Maybe
<1>2. NoneOfMine \in Mines /\ NoneOfMine.tick = NoTick
  BY DEF NoneOfMine, Mines
<1> QED
  BY <1>1, <1>2 DEF InTick

LEMMA TypeMade ==
  ASSUME up' \in Seq(UpItems), down' \in Seq(DownItems),
         gone' \subseteq {"client", "server"}, reset' \subseteq {"client", "server"},
         client' \in ClientSteps, call' \in Calls \cup {NoCall, Closing}, mine' \in Mines,
         ServerOk(ServerNow'),
         \A k \in store' : k \in Ticks /\ k.len.tail,
         done' = [call |-> done'.call, res |-> done'.res]
  PROVE  TypeInv'
<1>1. server' \in ServerSteps /\ command' \in Commands /\ local' \in Locals /\ InTick(local')
  BY DEF ServerOk, ServerNow
<1> QED
  BY <1>1 DEF TypeInv

\* The server writes i, both are there.
LEMMA ServerWriteKeeps ==
  ASSUME WireInv, gone = {}, up = <<>>,
         NEW C, ClientRun(C), NEW c, c = C[Len(down)],
         NEW i \in DownItems, down' = Append(down, i), i.kind = c.step,
         UNCHANGED <<up, ends, clientvars, store, done>>,
         ClientOk(call, AfterReply(call, c, i.val)),
         ServerOk(ServerNow'), Settle(ServerNow') = ServerNow', server' \notin {"killed", "stopped"},
         NEW s, s = ServerNow', Together(AfterReply(call, c, i.val), s)
  PROVE  WireInv'
<1> USE DEF WireInv
<1>1. /\ up' = up /\ gone' = gone /\ reset' = reset /\ client' = client /\ call' = call
      /\ mine' = mine /\ result' = result /\ store' = store /\ done' = done
  BY DEF ends, clientvars
<1>2. down \in Seq(DownItems) /\ down' \in Seq(DownItems)
  <2>1. down \in Seq(DownItems)
    BY DEF TypeInv
  <2> QED
    BY <2>1
<1>3. TypeInv'
  BY <1>1, <1>2, TypeMade DEF TypeInv
<1>4. GoneInv'
  BY <1>1 DEF GoneInv
<1>5. StoreInv'
  BY <1>1 DEF StoreInv
<1>6. ClientNow' = ClientNow
  BY <1>1 DEF ClientNow
<1>7. PICK T : ClientRun(T)' /\ T[Len(down)'] = AfterReply(call, c, i.val)
  BY <1>1, <1>2, <1>6, ClientAppends
<1>8. PICK S : ServerRun(S)' /\ S[Len(up)'] = s
  BY <1>1, ServerStarts
<1>9. PICK d : d = AfterReply(call, c, i.val)
  OBVIOUS
<1>10. Together(d, s)'
  BY <1>1, <1>9, TogetherStays
<1>11. Together(T[Len(down)], S[Len(up)])'
  BY <1>7, <1>8, <1>9, <1>10
<1>12. BothInv'
  BY <1>1, <1>7, <1>8, <1>11 DEF BothInv
<1>13. ServerInv' /\ ClientInv'
  BY <1>1 DEF ServerInv, ClientInv
<1> QED
  BY <1>3, <1>4, <1>5, <1>12, <1>13

\* The client writes i, both are there.
LEMMA ClientWriteKeeps ==
  ASSUME WireInv, gone = {}, down = <<>>,
         NEW S, ServerRun(S), NEW s, s = S[Len(up)],
         NEW i \in UpItems, up' = Append(up, i), i.kind = s.step,
         UNCHANGED <<down, ends, call, servervars>>,
         ServerOk(AfterItem(s, i.val)),
         ClientOk(call, ClientNow'), client' \notin {"closed", "dead"},
         NEW c, c = ClientNow', Together(c, AfterItem(s, i.val))
  PROVE  WireInv'
<1> USE DEF WireInv
<1>1. /\ down' = down /\ gone' = gone /\ reset' = reset /\ server' = server /\ call' = call
      /\ command' = command /\ local' = local /\ store' = store /\ done' = done
  BY DEF ends, servervars
<1>2. up \in Seq(UpItems) /\ up' \in Seq(UpItems)
  <2>1. up \in Seq(UpItems)
    BY DEF TypeInv
  <2> QED
    BY <2>1
<1>3. TypeInv'
  <2>1. client' \in ClientSteps /\ mine' \in Mines
    BY DEF ClientOk, ClientNow
  <2> QED
    BY <1>1, <1>2, <2>1 DEF TypeInv
<1>4. client \notin {"closed", "dead"}
  BY DEF GoneInv
<1>5. GoneInv' /\ StoreInv'
  BY <1>1, <1>4 DEF GoneInv, StoreInv
<1>6. ServerNow' = ServerNow
  BY <1>1 DEF ServerNow
<1>7. PICK T : ServerRun(T)' /\ T[Len(up)'] = AfterItem(s, i.val)
  BY <1>1, <1>2, <1>6, ServerAppends
<1>8. PICK C : ClientRun(C)' /\ C[Len(down)'] = c
  BY <1>1, ClientStarts
<1>9. PICK t : t = AfterItem(s, i.val)
  OBVIOUS
<1>10. Together(c, t)'
  BY <1>1, <1>9, TogetherStays
<1>11. Together(C[Len(down)], T[Len(up)])'
  BY <1>7, <1>8, <1>9, <1>10
<1>12. BothInv'
  BY <1>1, <1>7, <1>8, <1>11 DEF BothInv
<1>13. ServerInv' /\ ClientInv'
  BY <1>1 DEF ServerInv, ClientInv
<1> QED
  BY <1>3, <1>5, <1>12, <1>13

-----------------------------------------------------------------------------
(* The server's steps, as the server knows them by itself                  *)

LEMMA QuietOk ==
  ASSUME command' \in Commands, server' \in {"command", "exit", "killed", "stopped"},
         local' = NoLocal
  PROVE  ServerOk(ServerNow') /\ Settle(ServerNow') = ServerNow'
<1>1. Settle(ServerNow') = ServerNow'
  BY DEF ServerNow, Settle
<1>2. server' \in ServerSteps
  BY DEF ServerSteps, ServerReads
<1> QED
  BY <1>1, <1>2, NoneTyped DEF ServerOk, ServerNow

LEMMA ServerKnows ==
  ASSUME ServerOk(ServerNow)
  PROVE  /\ command \in Commands /\ local \in Locals /\ InTick(local)
         /\ server = "name" => command \in NameOps
         /\ server = "id" => command \in Ops \ NameOps
         /\ server = "at" => command = "pull_tick_by_datetime"
         /\ server \in {"len", "piece", "put.ack"} => command = "push_tick"
         /\ server \in {"call", "status"} => command \in Ops
         /\ server = "ack" => command = "pull_tick"
         /\ server \in {"reply.len", "reply.piece", "reply.time"} => command \in PullOps
         /\ server \in {"piece", "put.ack"} => local.tick # NoTick /\ local.tick.len.tail
         /\ server = "call" /\ command = "push_tick"
              => local.tick # NoTick /\ local.tick.len.tail
         /\ server = "status" /\ command \in PullOps /\ local.rtn.status = "SUCCESS"
              => local.tick # NoTick
         /\ server \in {"reply.len", "reply.piece", "ack", "reply.time"} => local.tick # NoTick
         /\ server = "command" => local = NoLocal
BY DEF ServerOk, ServerNow

LEMMA LessPieceTyped ==
  ASSUME local \in Locals, InTick(local), local.tick # NoTick
  PROVE  /\ LessPiece \in Locals /\ InTick(LessPiece) /\ LessPiece.tick = local.tick
         /\ LessPiece.piece = Before(local.piece) /\ LessPiece.piece \in 0..local.tick.len.chunks
         /\ LessPiece.id = local.id /\ LessPiece.rtn = local.rtn
<1>1. local.tick \in Ticks /\ local.piece \in 0..local.tick.len.chunks
  BY DEF InTick
<1>2. Before(local.piece) \in 0..local.tick.len.chunks /\ Before(local.piece) \in Nat
  BY <1>1, TickFacts, BeforeFacts
<1>3. LessPiece = [local EXCEPT !.piece = Before(local.piece)]
  BY DEF LessPiece
<1>4. /\ LessPiece \in Locals /\ LessPiece.tick = local.tick /\ LessPiece.piece = Before(local.piece)
      /\ LessPiece.id = local.id /\ LessPiece.rtn = local.rtn
  BY <1>2, <1>3 DEF Locals
<1> QED
  BY <1>1, <1>2, <1>4 DEF InTick

\* A write that succeeds, is lost, or kills the server.
LEMMA ServerWriteOk ==
  ASSUME NEW step, NEW l, command \in Commands,
         \/ ServerGoto(step, l) \/ ServerGoto("killed", l), command' = command,
         \/ step = "command"
         \/ /\ step \notin {"command", "exit", "killed", "stopped"}
            /\ [step |-> step, command |-> command, local |-> l] = Settle([step |-> step, command |-> command, local |-> l])
            /\ ServerOk([step |-> step, command |-> command, local |-> l])
  PROVE  ServerOk(ServerNow') /\ Settle(ServerNow') = ServerNow'
<1>1. CASE server' \in {"command", "killed"} /\ local' = NoLocal
  BY <1>1, QuietOk
<1>2. CASE ServerNow' = [step |-> step, command |-> command, local |-> l] /\ step # "command"
  BY <1>2
<1> QED
  BY <1>1, <1>2 DEF ServerGoto, ServerNow

LEMMA ServerPutAckOk ==
  ASSUME ServerOk(ServerNow), ServerPutAck
  PROVE  ServerOk(ServerNow') /\ Settle(ServerNow') = ServerNow'
<1>1. server = "put.ack"
  BY DEF ServerPutAck
<1>2. /\ local \in Locals /\ InTick(local) /\ command = "push_tick" /\ command \in Commands
      /\ local.tick # NoTick /\ local.tick.len.tail
  BY <1>1, ServerKnows
<1>3. PICK l : l = LessPiece
  OBVIOUS
<1>4. l \in Locals /\ InTick(l) /\ l.tick = local.tick
  BY <1>2, <1>3, LessPieceTyped
<1>5. PICK step : step = IF local.piece = 0 THEN "call" ELSE "piece"
  OBVIOUS
<1>6. (ServerGoto(step, l) \/ ServerGoto("killed", l)) /\ command' = command
  BY <1>3, <1>5 DEF ServerPutAck, ServerWrite
<1>7. PICK s : s = [step |-> step, command |-> command, local |-> l]
  OBVIOUS
<1>8. Settle(s) = s
  BY <1>2, <1>4, <1>7 DEF Settle
<1>9. ServerOk(s)
  BY <1>2, <1>4, <1>5, <1>7, OpFacts DEF ServerOk, ServerSteps, ServerReads
<1> QED
  BY <1>2, <1>5, <1>6, <1>7, <1>8, <1>9, ServerWriteOk

LEMMA ErrorFacts ==
  ASSUME NEW op, NEW e \in Errors(op)
  PROVE  e \in Statuses /\ e \notin {"SUCCESS", "WRITE_ERROR", "READ_ERROR"} /\ Error(e).status = e
BY DEF Errors, Statuses, Error

LEMMA ServerCallOk ==
  ASSUME ServerOk(ServerNow), ServerCall, \A k \in store : k \in Ticks
  PROVE  /\ ServerOk(ServerNow') /\ Settle(ServerNow') = ServerNow' /\ server' = "status"
         /\ command' = command
<1>1. server = "call" /\ command' = command
  BY DEF ServerCall
<1>2. local \in Locals /\ InTick(local) /\ command \in Ops /\ command \in Commands
  BY <1>1, ServerKnows
<1>3. ASSUME NEW l, NEW v, Answer(v, l), l \in Locals, InTick(l),
             v \in {[status |-> "SUCCESS"], Nothing} \cup [status: Statuses]
                   \cup [status: {"SUCCESS"}, id: Ids]
                   \cup [status: {"SUCCESS"}, tick: Ticks, time: Times],
             command \in PullOps /\ v.status = "SUCCESS" => l.tick # NoTick
      PROVE  ServerOk(ServerNow') /\ Settle(ServerNow') = ServerNow' /\ server' = "status"
  <2>1. PICK m : m = [l EXCEPT !.rtn = v]
    OBVIOUS
  <2>2. server' = "status" /\ local' = m
    BY <1>3, <2>1 DEF Answer, ServerGoto
  <2>3. m \in Locals /\ m.tick = l.tick /\ m.piece = l.piece /\ m.rtn = v
    BY <1>3, <2>1 DEF Locals
  <2>4. ServerNow' = [step |-> "status", command |-> command, local |-> m]
    BY <1>1, <2>2 DEF ServerNow
  <2>5. ServerOk(ServerNow')
    <3>1. "status" \in ServerSteps /\ "status" \notin ServerReads
      BY DEF ServerSteps, ServerReads
    <3>2. InTick(m)
      BY <1>3, <2>3 DEF InTick
    <3> QED
      BY <1>2, <1>3, <2>3, <2>4, <3>1, <3>2 DEF ServerOk
  <2> QED
    BY <2>2, <2>4, <2>5 DEF Settle
<1>4. CASE \E e \in Errors(command) : Answer(Error(e), local)
  <2>1. PICK e \in Errors(command) : Answer(Error(e), local)
    BY <1>4
  <2>2. PICK v : v = Error(e)
    OBVIOUS
  <2>3. e \in Statuses /\ e # "SUCCESS" /\ v.status = e /\ v \in [status: Statuses]
    BY <2>2, ErrorFacts DEF Error
  <2> QED
    BY <1>2, <1>3, <2>1, <2>2, <2>3, <1>1
<1>5. CASE command \in NameOps /\ \E n \in Ids : Answer([status |-> "SUCCESS", id |-> n], local)
  <2>1. PICK n \in Ids : Answer([status |-> "SUCCESS", id |-> n], local)
    BY <1>5
  <2>2. PICK v : v = [status |-> "SUCCESS", id |-> n]
    OBVIOUS
  <2>3. v \in [status: {"SUCCESS"}, id: Ids]
    BY <2>2
  <2> QED
    BY <1>2, <1>3, <1>5, <2>1, <2>2, <2>3, <1>1, OpFacts
<1>6. CASE /\ command \in {"push_tick"} \cup SubscribeOps
           /\ Answer([status |-> "SUCCESS"], local)
  <2>1. PICK v : v = [status |-> "SUCCESS"]
    OBVIOUS
  <2> QED
    BY <1>2, <1>3, <1>6, <2>1, <1>1, OpFacts
<1>7. CASE \E k \in store, at \in Times :
             Answer([status |-> "SUCCESS", tick |-> k, time |-> at],
                    [local EXCEPT !.tick = k, !.piece = k.len.chunks])
  <2>1. PICK k \in store, at \in Times :
             Answer([status |-> "SUCCESS", tick |-> k, time |-> at],
                    [local EXCEPT !.tick = k, !.piece = k.len.chunks])
    BY <1>7
  <2>2. PICK v, l : /\ v = [status |-> "SUCCESS", tick |-> k, time |-> at]
                    /\ l = [local EXCEPT !.tick = k, !.piece = k.len.chunks]
    OBVIOUS
  <2>3. k \in Ticks /\ k.len.chunks \in Nat /\ k.len.chunks \in 0..k.len.chunks /\ k # NoTick
    <3>1. k \in Ticks
      BY <2>1
    <3>2. k.len \in Lengths /\ k # NoTick
      BY <3>1, TickFacts
    <3> QED
      BY <3>1, <3>2, LengthFacts
  <2>4. l \in Locals /\ l.tick = k /\ l.piece = k.len.chunks
    BY <1>2, <2>2, <2>3 DEF Locals
  <2>5. InTick(l)
    BY <2>3, <2>4 DEF InTick
  <2>6. v \in [status: {"SUCCESS"}, tick: Ticks, time: Times]
    BY <2>2, <2>3
  <2> QED
    BY <1>1, <1>3, <2>1, <2>2, <2>3, <2>4, <2>5, <2>6
<1> QED
  BY <1>1, <1>4, <1>5, <1>6, <1>7 DEF ServerCall

LEMMA ServerCallStores ==
  ASSUME ServerCall
  PROVE  store' = store \/ (command = "push_tick" /\ store' = store \cup {local.tick})
<1>1. CASE \E e \in Errors(command) : Answer(Error(e), local) /\ UNCHANGED store
  BY <1>1
<1>2. CASE /\ command \in PullOps
           /\ \E k \in store, at \in Times :
                Answer([status |-> "SUCCESS", tick |-> k, time |-> at],
                       [local EXCEPT !.tick = k, !.piece = k.len.chunks])
           /\ UNCHANGED store
  BY <1>2
<1>3. CASE /\ command \in NameOps
           /\ \E n \in Ids : Answer([status |-> "SUCCESS", id |-> n], local)
           /\ UNCHANGED store
  BY <1>3
<1>4. CASE command \in SubscribeOps /\ UNCHANGED store
  BY <1>4
<1>5. CASE command = "push_tick" /\ store' = store \cup {local.tick}
  BY <1>5
<1> QED
  BY <1>1, <1>2, <1>3, <1>4, <1>5 DEF ServerCall

LEMMA ServerReplyOk ==
  ASSUME ServerOk(ServerNow),
         ServerStatus \/ ServerReplyId \/ ServerReplyLen \/ ServerReplyPiece \/ ServerReplyTime
  PROVE  /\ ServerOk(ServerNow') /\ Settle(ServerNow') = ServerNow' /\ command' = command
         /\ server' \notin {"name", "id", "at", "len", "piece", "put.ack", "call", "exit", "stopped"}
<1>1. command \in Commands /\ local \in Locals /\ InTick(local)
  BY ServerKnows
<1>2. command' = command
  BY DEF ServerStatus, ServerReplyId, ServerReplyLen, ServerReplyPiece, ServerReplyTime, ServerWrite
<1>3. ASSUME NEW step, NEW l, ServerGoto(step, l) \/ ServerGoto("killed", l),
             \/ step = "command"
             \/ /\ step \in {"reply.id", "reply.len", "reply.piece", "reply.time", "ack"}
                /\ l \in Locals /\ InTick(l)
                /\ step = "ack" => command = "pull_tick"
                /\ step # "reply.id" => l.tick # NoTick
                /\ step \in {"reply.len", "reply.piece", "reply.time"} => command \in PullOps
      PROVE  /\ ServerOk(ServerNow') /\ Settle(ServerNow') = ServerNow'
             /\ server' \notin {"name", "id", "at", "len", "piece", "put.ack", "call", "exit", "stopped"}
  <2>1. server' \in {step, "killed"}
    BY <1>3 DEF ServerGoto
  <2>2. CASE step = "command"
    BY <1>1, <1>2, <1>3, <2>1, <2>2, QuietOk DEF ServerGoto
  <2>3. CASE step # "command"
    <3>1. step \in ServerSteps
      BY <1>3, <2>3 DEF ServerSteps, ServerReads
    <3>2. PICK s : s = [step |-> step, command |-> command, local |-> l]
      OBVIOUS
    <3>3. ServerOk(s) /\ Settle(s) = s
      BY <1>1, <1>3, <2>3, <3>1, <3>2 DEF ServerOk, Settle
    <3>4. step \notin {"command", "exit", "killed", "stopped"}
      BY <1>3, <2>3
    <3> QED
      BY <1>1, <1>2, <1>3, <2>1, <2>3, <3>2, <3>3, <3>4, ServerWriteOk
  <2> QED
    BY <2>2, <2>3
<1>4. CASE ServerStatus
  <2>1. server = "status"
    BY <1>4 DEF ServerStatus
  <2>2. PICK step : step = IF local.rtn.status # "SUCCESS" THEN "command"
                           ELSE IF command \in NameOps THEN "reply.id"
                           ELSE IF command \in PullOps THEN "reply.len" ELSE "command"
    OBVIOUS
  <2>3. ServerGoto(step, local) \/ ServerGoto("killed", local)
    BY <1>4, <2>2 DEF ServerStatus, ServerWrite
  <2>4. server = "status" /\ command \in PullOps /\ local.rtn.status = "SUCCESS"
              => local.tick # NoTick
    BY ServerKnows
  <2> QED
    BY <1>1, <1>2, <1>3, <2>1, <2>2, <2>3, <2>4
<1>5. CASE ServerReplyId
  <2>1. ServerGoto("command", local) \/ ServerGoto("killed", local)
    BY <1>5 DEF ServerReplyId, ServerWrite
  <2> QED
    BY <1>2, <1>3, <2>1
<1>6. CASE ServerReplyLen
  <2>1. ServerGoto("reply.piece", local) \/ ServerGoto("killed", local)
    BY <1>6 DEF ServerReplyLen, ServerWrite
  <2>2. command \in PullOps /\ local.tick # NoTick
    BY <1>6, ServerKnows DEF ServerReplyLen
  <2> QED
    BY <1>1, <1>2, <1>3, <2>1, <2>2
<1>7. CASE ServerReplyPiece
  <2>1. command \in PullOps /\ local.tick # NoTick
    BY <1>7, ServerKnows DEF ServerReplyPiece
  <2>2. PICK l : l = LessPiece
    OBVIOUS
  <2>3. l \in Locals /\ InTick(l) /\ l.tick = local.tick
    BY <1>1, <2>1, <2>2, LessPieceTyped
  <2>4. CASE NoBytes
    <3>1. ServerGoto("command", local)
      BY <1>7, <2>4 DEF ServerReplyPiece
    <3> QED
      BY <1>2, <1>3, <3>1
  <2>5. CASE ~NoBytes /\ command = "pull_tick"
    <3>1. ServerGoto("ack", local) \/ ServerGoto("killed", local)
      BY <1>7, <2>5 DEF ServerReplyPiece, ServerWrite
    <3> QED
      BY <1>1, <1>2, <1>3, <2>1, <2>5, <3>1
  <2>6. CASE ~NoBytes /\ command # "pull_tick"
    <3>1. PICK step : step = IF local.piece = 0 THEN "reply.time" ELSE "reply.piece"
      OBVIOUS
    <3>2. ServerGoto(step, l) \/ ServerGoto("killed", l)
      BY <1>7, <2>2, <2>6, <3>1 DEF ServerReplyPiece, ServerWrite
    <3> QED
      BY <1>1, <1>2, <1>3, <2>1, <2>3, <3>1, <3>2
  <2> QED
    BY <2>4, <2>5, <2>6
<1>8. CASE ServerReplyTime
  <2>1. ServerGoto("command", local) \/ ServerGoto("killed", local)
    BY <1>8 DEF ServerReplyTime, ServerWrite
  <2> QED
    BY <1>2, <1>3, <2>1
<1> QED
  BY <1>2, <1>4, <1>5, <1>6, <1>7, <1>8

\* A read that ends, or fails as if it had worked.
LEMMA ServerLostOk ==
  ASSUME ServerOk(ServerNow), ServerEnd \/ ServerReset
  PROVE  /\ ServerOk(ServerNow') /\ Settle(ServerNow') = ServerNow' /\ command' = command
         /\ server' \in {"piece", "put.ack", "call"} => server \in {"piece", "put.ack", "call"}
         /\ server' \notin {"killed", "stopped"}
<1>1. command \in Commands /\ local \in Locals /\ InTick(local)
  BY ServerKnows
<1>2. command' = command
  BY DEF ServerEnd, ServerReset
<1>3. ASSUME NEW step, NEW l, ServerGoto(step, l), command' = command,
             step \in ServerSteps \ {"command", "exit", "killed", "stopped", "piece"},
             ServerOk([step |-> step, command |-> command, local |-> l])
      PROVE  ServerOk(ServerNow') /\ Settle(ServerNow') = ServerNow' /\ server' = step
  <2>1. ServerNow' = [step |-> step, command |-> command, local |-> l] /\ server' = step
    BY <1>3 DEF ServerGoto, ServerNow
  <2> QED
    BY <1>3, <2>1 DEF Settle
<1>4. ASSUME server' \in {"command", "exit"}, local' = NoLocal
      PROVE  ServerOk(ServerNow') /\ Settle(ServerNow') = ServerNow'
  BY <1>1, <1>2, <1>4, QuietOk
<1>5. CASE ServerEnd
  <2>1. CASE server = "piece" /\ local.piece < local.tick.len.chunks
    <3>1. ServerGoto("call", local)
      BY <1>5, <2>1 DEF ServerEnd
    <3>2. command = "push_tick" /\ local.tick # NoTick /\ local.tick.len.tail
      BY <2>1, ServerKnows
    <3>3. ServerOk([step |-> "call", command |-> command, local |-> local])
      BY <1>1, <3>2, OpFacts DEF ServerOk, ServerSteps, ServerReads
    <3>4. "call" \in ServerSteps \ {"command", "exit", "killed", "stopped", "piece"}
      BY DEF ServerSteps
    <3> QED
      BY <1>2, <1>3, <2>1, <3>1, <3>3, <3>4
  <2>2. CASE server = "ack" /\ local.piece < local.tick.len.chunks
    <3>1. ServerGoto("reply.time", local)
      BY <1>5, <2>2 DEF ServerEnd
    <3>2. command = "pull_tick" /\ local.tick # NoTick
      BY <2>2, ServerKnows
    <3>3. ServerOk([step |-> "reply.time", command |-> command, local |-> local])
      BY <1>1, <3>2, OpFacts DEF ServerOk, ServerSteps, ServerReads
    <3>4. "reply.time" \in ServerSteps \ {"command", "exit", "killed", "stopped", "piece"}
      BY DEF ServerSteps
    <3> QED
      BY <1>2, <1>3, <2>2, <3>1, <3>3, <3>4
  <2>3. CASE /\ ~(server = "piece" /\ local.piece < local.tick.len.chunks)
             /\ ~(server = "ack" /\ local.piece < local.tick.len.chunks)
    <3>1. server' \in {"command", "exit"} /\ local' = NoLocal
      BY <1>5, <2>3 DEF ServerEnd, ServerGoto
    <3> QED
      BY <1>2, <1>4, <3>1
  <2> QED
    BY <2>1, <2>2, <2>3
<1>6. CASE ServerReset /\ server = "command"
  <2>1. ServerGoto(Dispatch(command), local)
    BY <1>6 DEF ServerReset
  <2>2. CASE Dispatch(command) \in {"command", "exit"}
    <3>1. server' \in {"command", "exit"} /\ local' = NoLocal
      BY <2>1, <2>2 DEF ServerGoto
    <3> QED
      BY <1>2, <1>4, <3>1
  <2>3. CASE Dispatch(command) \notin {"command", "exit"}
    <3>1. PICK step : step = Dispatch(command)
      OBVIOUS
    <3>2. \/ step = "name" /\ command \in NameOps
          \/ step = "id" /\ command \in Ops \ NameOps
      <4>1. CASE command \in NameOps
        BY <3>1, <4>1 DEF Dispatch
      <4>2. CASE command \in {"push_tick"} \cup PullOps \cup SubscribeOps
        <5>1. command \in Ops
          BY <4>2 DEF Ops
        <5>2. command \notin NameOps
          BY <4>2 DEF NameOps, PullOps, SubscribeOps
        <5> QED
          BY <3>1, <4>2, <5>1, <5>2 DEF Dispatch
      <4> QED
        BY <2>3, <4>1, <4>2 DEF Dispatch
    <3>3. ServerOk([step |-> step, command |-> command, local |-> local])
      BY <1>1, <3>2 DEF ServerOk, ServerSteps, ServerReads
    <3>4. step \in ServerSteps \ {"command", "exit", "killed", "stopped", "piece"}
      BY <3>2 DEF ServerSteps, ServerReads
    <3> QED
      BY <1>2, <1>3, <2>1, <3>1, <3>2, <3>3, <3>4
  <2> QED
    BY <2>2, <2>3
<1>7. CASE ServerReset /\ server = "piece"
  <2>1. ServerGoto("put.ack", local)
    BY <1>7 DEF ServerReset
  <2>2. command = "push_tick" /\ local.tick # NoTick /\ local.tick.len.tail
    BY <1>7, ServerKnows
  <2>3. ServerOk([step |-> "put.ack", command |-> command, local |-> local])
    BY <1>1, <2>2 DEF ServerOk, ServerSteps, ServerReads
  <2>4. "put.ack" \in ServerSteps \ {"command", "exit", "killed", "stopped", "piece"}
    BY DEF ServerSteps
  <2> QED
    BY <1>2, <1>3, <1>7, <2>1, <2>3, <2>4
<1>8. CASE ServerReset /\ server = "ack"
  <2>1. PICK step, l : step = (IF local.piece = 0 THEN "reply.time" ELSE "reply.piece") /\ l = LessPiece
    OBVIOUS
  <2>2. ServerGoto(step, l)
    BY <1>8, <2>1 DEF ServerReset, NextReply
  <2>3. command = "pull_tick" /\ local.tick # NoTick
    BY <1>8, ServerKnows
  <2>4. l \in Locals /\ InTick(l) /\ l.tick = local.tick
    BY <1>1, <2>1, <2>3, LessPieceTyped
  <2>5. ServerOk([step |-> step, command |-> command, local |-> l])
    BY <1>1, <2>1, <2>3, <2>4, OpFacts DEF ServerOk, ServerSteps, ServerReads
  <2>6. step \in ServerSteps \ {"command", "exit", "killed", "stopped", "piece"}
    BY <2>1 DEF ServerSteps
  <2> QED
    BY <1>2, <1>3, <2>1, <2>2, <2>5, <2>6
<1> QED
  BY <1>5, <1>6, <1>7, <1>8 DEF ServerReset

-----------------------------------------------------------------------------
(* The server's steps when its client is gone                              *)

LEMMA ServerAlone ==
  ASSUME WireInv, gone = {"client"}, up = <<>>, client = "dead",
         ServerOk(ServerNow'), Settle(ServerNow') = ServerNow', UNCHANGED <<streams, clientvars>>,
         \/ /\ gone' = gone /\ server' \notin {"killed", "stopped"}
            /\ reset' = reset \/ reset' = reset \ {"server"}
            /\ done' # NotDone => server' \notin {"piece", "put.ack", "call"}
            /\ "server" \in reset' => server' \notin {"name", "id", "at", "len"}
         \/ server' = "killed" /\ Close("server", up),
         \A k \in store' : k \in Ticks /\ k.len.tail,
         done' = [call |-> done'.call, res |-> done'.res]
  PROVE  WireInv'
<1>1. /\ up' = <<>> /\ down' = down /\ client' = "dead" /\ call' = call /\ mine' = mine
      /\ result' = result
  BY DEF streams, clientvars
<1>2. gone' = gone \/ gone' = {"client", "server"}
  BY DEF Close
<1>3. reset' \subseteq reset
  BY DEF Close
<1>4. TypeInv'
  BY <1>1, <1>2, <1>3, TypeMade DEF WireInv, TypeInv
<1>5. GoneInv'
  <2>1. server \notin {"killed", "stopped"} /\ "client" \notin reset
    BY DEF WireInv, GoneInv
  <2> QED
    BY <1>1, <1>2, <1>3, <2>1 DEF WireInv, GoneInv, Close
<1>6. StoreInv' /\ BothInv' /\ ClientInv'
  BY <1>1, <1>2 DEF StoreInv, BothInv, ClientInv
<1>7. ServerInv'
  <2> SUFFICES ASSUME gone' = {"client"}
               PROVE  \E S : ServerRun(S)' /\ AloneServer(S[Len(up)])'
    BY DEF ServerInv
  <2>1. PICK S : ServerRun(S)' /\ S[Len(up)'] = ServerNow'
    BY <1>1, ServerStarts
  <2>2. PICK s : s = ServerNow'
    OBVIOUS
  <2>3. s.step = server'
    BY <2>2 DEF ServerNow
  <2>4. AloneServer(s)'
    BY <1>1, <2>3 DEF AloneServer, Close
  <2> QED
    BY <2>1, <2>2, <2>4
<1> QED
  BY <1>4, <1>5, <1>6, <1>7 DEF WireInv

LEMMA ServerWriteAlone ==
  ASSUME WireInv, gone = {"client"}, client = "dead", up = <<>>,
         ServerOk(ServerNow'), Settle(ServerNow') = ServerNow',
         NEW item, NEW step, NEW l, ServerWrite(item, step, l), step \notin {"killed", "stopped"},
         done # NotDone => step \notin {"piece", "put.ack", "call"},
         step \notin {"name", "id", "at", "len"}
  PROVE  WireInv'
<1>1. /\ clientvars' = clientvars /\ store' = store /\ done' = done /\ streams' = streams
      /\ \/ gone' = gone /\ reset' = reset /\ server' = step
         \/ server' = "killed" /\ Close("server", up)
  BY DEF ServerWrite, ends, ServerGoto
<1>2. \A k \in store' : k \in Ticks /\ k.len.tail
  BY <1>1 DEF WireInv, TypeInv
<1>3. done' = [call |-> done'.call, res |-> done'.res]
  BY <1>1 DEF WireInv, TypeInv
<1> QED
  BY <1>1, <1>2, <1>3, ServerAlone

\* What is known of a server whose client is gone, where it need not read.
LEMMA AloneFacts ==
  ASSUME WireInv, gone = {"client"}, up = <<>> \/ server \notin ServerReads,
         server \notin {"exit", "killed", "stopped"}, Settle(ServerNow) = ServerNow
  PROVE  /\ up = <<>> /\ ServerOk(ServerNow) /\ client = "dead"
         /\ done # NotDone => server \notin {"piece", "put.ack", "call"}
<1>1. PICK S : ServerRun(S) /\ AloneServer(S[Len(up)])
  BY DEF WireInv, ServerInv
<1>2. up \in Seq(UpItems)
  BY DEF WireInv, TypeInv
<1>3. up = <<>>
  BY <1>1, <1>2, ServerAtStep
<1>4. S[Len(up)] = ServerNow /\ ServerOk(ServerNow)
  BY <1>1, <1>2, <1>3, ServerAtItem
<1>5. client \in {"closed", "dead"}
  BY DEF WireInv, GoneInv
<1> QED
  BY <1>1, <1>3, <1>4, <1>5 DEF AloneServer, ServerNow

LEMMA ServerMovesAlone ==
  ASSUME WireInv, gone = {"client"},
         \/ ServerPutAck \/ ServerCall \/ ServerStatus \/ ServerReplyId \/ ServerReplyLen
         \/ ServerReplyPiece \/ ServerReplyTime
  PROVE  WireInv'
<1>1. server \in ServerSteps \ (ServerReads \cup {"exit", "killed", "stopped"})
  BY DEF ServerPutAck, ServerCall, ServerStatus, ServerReplyId, ServerReplyLen,
         ServerReplyPiece, ServerReplyTime, ServerSteps, ServerReads
<1>2. Settle(ServerNow) = ServerNow
  BY <1>1 DEF Settle, ServerNow, ServerReads
<1>3. /\ up = <<>> /\ ServerOk(ServerNow) /\ client = "dead"
      /\ done # NotDone => server \notin {"piece", "put.ack", "call"}
  BY <1>1, <1>2, AloneFacts
<1>4. \A k \in store : k \in Ticks /\ k.len.tail
  BY DEF WireInv, TypeInv
<1>5. done = [call |-> done.call, res |-> done.res]
  BY DEF WireInv, TypeInv
<1>6. CASE ServerPutAck
  <2>1. ServerOk(ServerNow') /\ Settle(ServerNow') = ServerNow'
    BY <1>3, <1>6, ServerPutAckOk
  <2>2. PICK item, step, l : /\ ServerWrite(item, step, l)
                             /\ step \in {"call", "piece"}
    BY <1>6 DEF ServerPutAck
  <2>3. done = NotDone
    BY <1>3, <1>6 DEF ServerPutAck
  <2> QED
    BY <1>3, <2>1, <2>2, <2>3, ServerWriteAlone
<1>7. CASE ServerCall
  <2>1. ServerOk(ServerNow') /\ Settle(ServerNow') = ServerNow' /\ server' = "status"
    BY <1>3, <1>4, <1>7, ServerCallOk
  <2>2. UNCHANGED <<streams, clientvars>> /\ gone' = gone /\ reset' = reset
    BY <1>7 DEF ServerCall, ends
  <2>3. \A k \in store' : k \in Ticks /\ k.len.tail
    <3>1. store' = store \/ (command = "push_tick" /\ store' = store \cup {local.tick})
      BY <1>7, ServerCallStores
    <3>2. command = "push_tick" => local.tick \in Ticks /\ local.tick.len.tail
      BY <1>3, <1>7, ServerKnows DEF ServerCall, InTick
    <3> QED
      BY <1>4, <3>1, <3>2
  <2>4. done' = [call |-> done'.call, res |-> done'.res]
    BY <1>7 DEF ServerCall, Answer
  <2> QED
    BY <1>3, <2>1, <2>2, <2>3, <2>4, ServerAlone
<1>8. CASE ServerStatus \/ ServerReplyId \/ ServerReplyLen \/ ServerReplyPiece \/ ServerReplyTime
  <2>1. /\ ServerOk(ServerNow') /\ Settle(ServerNow') = ServerNow'
        /\ server' \notin {"name", "id", "at", "len", "piece", "put.ack", "call", "exit", "stopped"}
    BY <1>3, <1>8, ServerReplyOk
  <2>2. /\ UNCHANGED <<streams, clientvars>> /\ store' = store /\ done' = done
        /\ \/ gone' = gone /\ reset' = reset /\ server' # "killed"
           \/ server' = "killed" /\ Close("server", up)
    <3>1. CASE ServerReplyPiece /\ NoBytes
      BY <3>1 DEF ServerReplyPiece, ends, ServerGoto
    <3>2. PICK item, step, l : \/ ServerReplyPiece /\ NoBytes
                               \/ ServerWrite(item, step, l) /\ step # "killed"
      <4>1. CASE ServerStatus
        BY <4>1 DEF ServerStatus
      <4>2. CASE ServerReplyId
        BY <4>2 DEF ServerReplyId
      <4>3. CASE ServerReplyLen
        BY <4>3 DEF ServerReplyLen
      <4>4. CASE ServerReplyPiece
        BY <4>4 DEF ServerReplyPiece
      <4>5. CASE ServerReplyTime
        BY <4>5 DEF ServerReplyTime
      <4> QED
        BY <1>8, <4>1, <4>2, <4>3, <4>4, <4>5
    <3>3. CASE ServerWrite(item, step, l) /\ step # "killed"
      BY <1>3, <3>3 DEF ServerWrite, ends, ServerGoto
    <3> QED
      BY <3>1, <3>2, <3>3
  <2> QED
    BY <1>3, <1>4, <1>5, <2>1, <2>2, ServerAlone
<1> QED
  BY <1>6, <1>7, <1>8

LEMMA ServerLosesClient ==
  ASSUME WireInv, gone = {"client"}, ServerEnd \/ ServerReset
  PROVE  WireInv'
<1>1. up = <<>> /\ server \in {"command", "name", "id", "at", "len", "piece", "ack"}
  BY DEF ServerEnd, ServerReset
<1>2. \A k \in store : k \in Ticks /\ k.len.tail
  BY DEF WireInv, TypeInv
<1>3. done = [call |-> done.call, res |-> done.res] /\ command \in Commands
  BY DEF WireInv, TypeInv
<1>4. /\ UNCHANGED <<streams, clientvars>> /\ gone' = gone /\ store' = store /\ done' = done
      /\ command' = command /\ "server" \notin reset'
      /\ reset' = reset \/ reset' = reset \ {"server"}
  BY DEF ServerEnd, ServerReset, ends
<1>5. client = "dead"
  <2>1. PICK S : ServerRun(S) /\ AloneServer(S[Len(up)])
    BY DEF WireInv, ServerInv
  <2>2. up \in Seq(UpItems)
    BY DEF WireInv, TypeInv
  <2>3. S[Len(up)] = Settle(ServerNow)
    BY <1>1, <2>1, <2>2, ServerAtItem
  <2>4. Settle(ServerNow).step # "exit"
    BY <1>1, SettleFacts DEF ServerNow
  <2>5. client \in {"closed", "dead"}
    BY DEF WireInv, GoneInv
  <2> QED
    BY <2>1, <2>3, <2>4, <2>5 DEF AloneServer
<1>6. CASE Settle(ServerNow) = ServerNow
  <2>1. /\ ServerOk(ServerNow)
        /\ done # NotDone => server \notin {"piece", "put.ack", "call"}
    BY <1>1, <1>6, AloneFacts
  <2>2. /\ ServerOk(ServerNow') /\ Settle(ServerNow') = ServerNow'
        /\ server' \in {"piece", "put.ack", "call"} => server \in {"piece", "put.ack", "call"}
        /\ server' \notin {"killed", "stopped"}
    BY <2>1, ServerLostOk
  <2> QED
    BY <1>1, <1>2, <1>3, <1>4, <1>5, <2>1, <2>2, ServerAlone
<1>7. CASE Settle(ServerNow) # ServerNow
  <2>1. server = "piece" /\ NoBytes
    BY <1>7 DEF Settle, ServerNow, NoBytes
  <2>2. PICK n : n = local.tick.len.chunks
    OBVIOUS
  <2>3. local.piece = n /\ ~(n < n)
    <3>1. local.piece \in Nat
      BY DEF WireInv, TypeInv, Locals
    <3> QED
      BY <2>1, <2>2, <3>1 DEF NoBytes
  <2>4. server' = "command" /\ local' = NoLocal
    BY <2>1, <2>2, <2>3 DEF ServerEnd, ServerReset, ServerGoto
  <2>5. ServerOk(ServerNow') /\ Settle(ServerNow') = ServerNow'
    BY <1>3, <1>4, <2>4, QuietOk
  <2> QED
    BY <1>1, <1>2, <1>3, <1>4, <1>5, <2>4, <2>5, ServerAlone
<1> QED
  BY <1>6, <1>7

-----------------------------------------------------------------------------
(* The server's steps while its client is there                            *)

\* A server that does not read has read all that there is.
LEMMA ServerBusy ==
  ASSUME WireInv, gone = {}, server \notin ServerReads
  PROVE  /\ up = <<>> /\ ServerOk(ServerNow)
         /\ \E C, c : /\ ClientRun(C) /\ c = C[Len(down)] /\ ClientOk(call, c)
                      /\ Together(c, ServerNow)
<1>1. PICK S, C : /\ ServerRun(S) /\ ClientRun(C)
                  /\ Together(C[Len(down)], S[Len(up)])
  BY DEF WireInv, BothInv
<1>2. up \in Seq(UpItems) /\ down \in Seq(DownItems)
  BY DEF WireInv, TypeInv
<1>3. up = <<>> /\ S[Len(up)] = ServerNow /\ ServerOk(ServerNow)
  BY <1>1, <1>2, ServerAtStep
<1>4. ClientOk(call, C[Len(down)])
  BY <1>1, <1>2, ClientAtItem
<1> QED
  BY <1>1, <1>3, <1>4

\* The step that the server is at, of those that Together has for it.
LEMMA TogetherSteps ==
  ASSUME NEW c, NEW s, Together(c, s)
  PROVE  /\ c.step = "idle" => AtRest(c, s)
         /\ c.step = "send" => Sending(c, s) \/ Leaving(c, s)
         /\ c.step \in {"put.piece", "get.ack"} => Pushing(c, s)
         /\ c.step = "status" => Waiting(c, s)
         /\ c.step \in {"id", "len", "piece", "put.ack", "time"} => Replying(c, s)
         /\ c.step = "close" => Leaving(c, s)
         /\ s.step \in {"name", "id", "at", "len"} => Sending(c, s)
         /\ s.step \in {"piece", "put.ack"} => Pushing(c, s)
         /\ s.step \in {"call", "status"} => Waiting(c, s)
         /\ s.step \in {"reply.id", "reply.len", "reply.piece", "ack", "reply.time"} => Replying(c, s)
         /\ s.step = "exit" => Leaving(c, s)
         /\ s.step \notin {"killed", "stopped"} /\ c.step \notin {"closed", "dead"}
<1>1. AtRest(c, s) => c.step = "idle" /\ s.step = "command"
  BY DEF AtRest
<1>2. Sending(c, s) => c.step = "send" /\ s.step \in {"command", "name", "id", "len", "at"}
  BY DEF Sending
<1>3. Pushing(c, s) => /\ c.step \in {"put.piece", "get.ack"}
                       /\ s.step \in {"command", "piece", "put.ack"}
  BY DEF Pushing
<1>4. Waiting(c, s) => c.step = "status" /\ s.step \in {"call", "status"}
  BY DEF Waiting
<1>5. Replying(c, s) =>
        /\ c.step \in {"id", "len", "piece", "put.ack", "time"}
        /\ s.step \in {"reply.id", "reply.len", "reply.piece", "ack", "reply.time"}
  BY DEF Replying
<1>6. Leaving(c, s) => c.step \in {"send", "close"} /\ s.step \in {"command", "exit"}
  BY DEF Leaving
<1>7. Leaving(c, s) /\ c.step = "close" => s.step = "exit"
  BY DEF Leaving
<1> QED
  BY <1>1, <1>2, <1>3, <1>4, <1>5, <1>6, <1>7 DEF Together

LEMMA LessMine ==
  ASSUME NEW m \in Mines, InTick(m), NEW u, u = [m EXCEPT !.piece = Before(@)]
  PROVE  /\ u \in Mines /\ InTick(u) /\ u.tick = m.tick /\ u.out = m.out
         /\ u.piece = Before(m.piece)
<1>1. m.piece \in Nat
  BY DEF Mines
<1>2. Before(m.piece) \in Nat
  BY <1>1 DEF Before
<1>3. /\ u \in Mines /\ u.tick = m.tick /\ u.piece = Before(m.piece) /\ u.out = m.out
  BY <1>2 DEF Mines
<1>4. ASSUME m.tick # NoTick
      PROVE  m.tick \in Ticks /\ u.piece \in 0..m.tick.len.chunks
  <2>1. m.tick \in Ticks /\ m.piece \in 0..m.tick.len.chunks
    BY <1>4 DEF InTick
  <2>2. PICK n : n = m.tick.len.chunks
    OBVIOUS
  <2>3. n \in Nat
    BY <2>1, <2>2, TickFacts
  <2>4. Before(m.piece) \in 0..n
    BY <2>1, <2>2, <2>3, BeforeFacts
  <2> QED
    BY <1>3, <2>1, <2>2, <2>4
<1> QED
  BY <1>3, <1>4 DEF InTick

LEMMA ClientKnows ==
  ASSUME NEW r, NEW c, ClientOk(r, c)
  PROVE  /\ c.step \in ClientSteps /\ c.mine \in Mines /\ InTick(c.mine)
         /\ c.step \in {"put.piece", "get.ack"} =>
              /\ r \in Calls /\ r.op = "push_tick" /\ c.mine.piece \in 0..r.len.chunks
         /\ c.step \in {"status", "id", "len", "piece", "put.ack", "time"} => r \in Calls
         /\ c.step \in {"piece", "put.ack", "time"} => c.mine.tick # NoTick
BY DEF ClientOk, ClientReads

LEMMA ServerPutAckKeeps ==
  ASSUME WireInv, gone = {}, ServerPutAck
  PROVE  WireInv'
<1>1. server = "put.ack" /\ server \notin ServerReads
  BY DEF ServerPutAck, ServerReads
<1>2. up = <<>> /\ ServerOk(ServerNow)
  BY <1>1, ServerBusy
<1>3. PICK C, c : /\ ClientRun(C) /\ c = C[Len(down)] /\ ClientOk(call, c)
                  /\ Together(c, ServerNow)
  BY <1>1, ServerBusy
<1>4. PICK s : s = ServerNow
  OBVIOUS
<1>5. s.step = server /\ s.command = command /\ s.local = local
  BY <1>4 DEF ServerNow
<1>6. /\ c.step = "get.ack" /\ call \in Calls /\ call.op = "push_tick" /\ done = NotDone
      /\ call.len.tail /\ Taken(c, s, c.mine.piece)
  BY <1>1, <1>3, <1>4, <1>5, TogetherSteps DEF Pushing
<1>7. /\ c.mine \in Mines /\ InTick(c.mine) /\ c.mine.piece \in 0..call.len.chunks
      /\ call.len \in Lengths /\ call.data \in Data /\ call.len.chunks \in Nat
  BY <1>3, <1>6, ClientKnows, CallFacts, LengthFacts
<1>8. PICK i : i = Item("get.ack", "SUCCESS")
  OBVIOUS
<1>9. i \in DownItems /\ i.kind = c.step /\ i.val = "SUCCESS"
  BY <1>6, <1>8 DEF Item, DownItems
<1>10. PICK m : m = [c.mine EXCEPT !.piece = Before(@)]
  OBVIOUS
<1>11. /\ m \in Mines /\ InTick(m) /\ m.piece = Before(c.mine.piece)
       /\ m.piece \in 0..call.len.chunks
  BY <1>7, <1>10, LessMine, BeforeFacts
<1>12. PICK d : d = AfterReply(call, c, i.val)
  OBVIOUS
<1>13. d = [step |-> IF c.mine.piece = 0 THEN "status" ELSE "put.piece", mine |-> m,
            result |-> c.result]
  BY <1>6, <1>10, <1>12 DEF AfterReply, On
<1>14. ClientOk(call, d)
  BY <1>6, <1>11, <1>13 DEF ClientOk, ClientSteps, ClientReads
<1>15. ServerOk(ServerNow') /\ Settle(ServerNow') = ServerNow'
  BY <1>2, ServerPutAckOk
<1>16. PICK l : l = LessPiece
  OBVIOUS
<1>17. /\ local.tick # NoTick /\ local \in Locals /\ InTick(local)
  BY <1>1, <1>2, ServerKnows
<1>18. l.tick = local.tick /\ l.piece = Before(local.piece) /\ l.id = local.id
  BY <1>16, <1>17, LessPieceTyped
<1>19. /\ down' = Append(down, i) /\ UNCHANGED <<up, ends, clientvars, store, done>>
       /\ server' = (IF local.piece = 0 THEN "call" ELSE "piece") /\ command' = command /\ local' = l
  BY <1>8, <1>16 DEF ServerPutAck, ServerWrite, ServerGoto
<1>20. PICK t : t = ServerNow'
  OBVIOUS
<1>21. t.step = server' /\ t.command = command /\ t.local = l
  BY <1>19, <1>20 DEF ServerNow
<1>22. Together(d, t)
  <2>1. /\ s.command = "push_tick" /\ local.id = call.id /\ local.tick.len = call.len
        /\ local.piece = c.mine.piece
        /\ \A j \in c.mine.piece..call.len.chunks : local.tick.buf[j] = Piece(call.data, j)
    BY <1>5, <1>6 DEF Taken
  <2>2. CASE local.piece = 0
    <3>1. d.step = "status" /\ t.step = "call"
      BY <1>13, <1>19, <1>21, <2>1, <2>2
    <3>2. local.tick = Whole(call.len, call.data)
      BY <1>7, <1>17, <2>1, <2>2, WholeMade DEF InTick
    <3>3. Got(t) = Asked
      BY <1>5, <1>6, <1>18, <1>21, <2>1, <3>2, OpFacts DEF Got, Asked
    <3>4. Waiting(d, t)
      BY <1>5, <1>6, <1>21, <2>1, <3>1, <3>3 DEF Waiting
    <3> QED
      BY <3>4 DEF Together
  <2>3. CASE local.piece # 0
    <3>1. d.step = "put.piece" /\ t.step = "piece" /\ d.mine.piece = m.piece
      BY <1>13, <1>19, <1>21, <2>1, <2>3
    <3>2. m.piece + 1 = c.mine.piece
      BY <1>7, <1>11, <2>1, <2>3, BeforeFacts
    <3>3. Taken(d, t, d.mine.piece + 1)
      BY <1>5, <1>11, <1>18, <1>21, <2>1, <3>1, <3>2 DEF Taken
    <3>4. Pushing(d, t)
      BY <1>6, <1>11, <3>1, <3>3 DEF Pushing
    <3> QED
      BY <3>4 DEF Together
  <2> QED
    BY <2>2, <2>3
<1>23. server' \notin {"killed", "stopped"}
  BY <1>19
<1> QED
  BY <1>2, <1>3, <1>9, <1>12, <1>14, <1>15, <1>19, <1>20, <1>22, <1>23, ServerWriteKeeps

LEMMA OverOk ==
  ASSUME NEW r, NEW v
  PROVE  ClientOk(r, Over(v)) /\ Over(v).step = "idle" /\ Over(v).result = v
BY NoneTyped DEF Over, On, ClientOk, ClientSteps, ClientReads

LEMMA AnswerFacts ==
  ASSUME NEW v, NEW s, Answers(v, s), call \in Calls
  PROVE  /\ v.status \in Statuses
         /\ v.status # "SUCCESS" =>
              v = Error(v.status) /\ v.status \notin {"WRITE_ERROR", "READ_ERROR"}
         /\ v.status = "SUCCESS" /\ call.op \in NameOps =>
              \E n \in Ids : v = [status |-> "SUCCESS", id |-> n]
         /\ v.status = "SUCCESS" /\ call.op \in PullOps =>
              /\ s.local.tick \in store /\ s.local.piece = s.local.tick.len.chunks
              /\ \E at \in Times : v = [status |-> "SUCCESS", tick |-> s.local.tick, time |-> at]
         /\ v.status = "SUCCESS" /\ call.op \notin NameOps \cup PullOps => v = [status |-> "SUCCESS"]
<1>1. CASE \E e \in Errors(call.op) : v = Error(e)
  BY <1>1, ErrorFacts
<1>2. CASE call.op \in NameOps /\ \E n \in Ids : v = [status |-> "SUCCESS", id |-> n]
  BY <1>2, OpFacts DEF Statuses
<1>3. CASE call.op \in {"push_tick"} \cup SubscribeOps /\ v = [status |-> "SUCCESS"]
  BY <1>3, OpFacts DEF Statuses
<1>4. CASE /\ call.op \in PullOps /\ s.local.tick \in store
           /\ s.local.piece = s.local.tick.len.chunks
           /\ \E at \in Times : v = [status |-> "SUCCESS", tick |-> s.local.tick, time |-> at]
  BY <1>4, OpFacts DEF Statuses
<1> QED
  BY <1>1, <1>2, <1>3, <1>4 DEF Answers

\* What ServerBusy and TogetherSteps say of a server that is to reply.
LEMMA ServerReplies ==
  ASSUME WireInv, gone = {}, server \in {"status", "reply.id", "reply.len", "reply.piece", "reply.time"}
  PROVE  /\ up = <<>> /\ ServerOk(ServerNow) /\ local \in Locals /\ InTick(local) /\ call \in Calls
         /\ \A k \in store : k \in Ticks /\ k.len.tail
         /\ \E C, c, s :
              /\ ClientRun(C) /\ c = C[Len(down)] /\ ClientOk(call, c) /\ s = ServerNow
              /\ s.step = server /\ s.command = command /\ s.local = local
              /\ IF server = "status" THEN Waiting(c, s) ELSE Replying(c, s)
<1>1. server \notin ServerReads
  BY DEF ServerReads
<1>2. up = <<>> /\ ServerOk(ServerNow)
  BY <1>1, ServerBusy
<1>3. PICK C, c : /\ ClientRun(C) /\ c = C[Len(down)] /\ ClientOk(call, c)
                  /\ Together(c, ServerNow)
  BY <1>1, ServerBusy
<1>4. PICK s : s = ServerNow
  OBVIOUS
<1>5. s.step = server /\ s.command = command /\ s.local = local
  BY <1>4 DEF ServerNow
<1>6. IF server = "status" THEN Waiting(c, s) ELSE Replying(c, s)
  BY <1>3, <1>4, <1>5, TogetherSteps
<1>7. call \in Calls
  BY <1>6 DEF Waiting, Replying
<1>8. local \in Locals /\ InTick(local)
  BY <1>2, ServerKnows
<1>9. \A k \in store : k \in Ticks /\ k.len.tail
  BY DEF WireInv, TypeInv
<1> QED
  BY <1>2, <1>3, <1>4, <1>5, <1>6, <1>7, <1>8, <1>9

LEMMA ServerStatusKeeps ==
  ASSUME WireInv, gone = {}, ServerStatus
  PROVE  WireInv'
<1>1. server = "status"
  BY DEF ServerStatus
<1>2. up = <<>> /\ ServerOk(ServerNow) /\ call \in Calls
  BY <1>1, ServerReplies
<1>3. PICK C, c, s :
         /\ ClientRun(C) /\ c = C[Len(down)] /\ ClientOk(call, c) /\ s = ServerNow
         /\ s.step = server /\ s.command = command /\ s.local = local
         /\ Waiting(c, s)
  BY <1>1, ServerReplies
<1>4. PICK v : v = local.rtn
  OBVIOUS
<1>5. /\ c.step = "status" /\ command = call.op /\ done = [call |-> Asked, res |-> v]
      /\ Answers(v, s)
  BY <1>1, <1>3, <1>4 DEF Waiting, Executed
<1>6. PICK i : i = Item("status", v.status)
  OBVIOUS
<1>7. i \in DownItems /\ i.kind = c.step /\ i.val = v.status
  <2>1. v.status \in Statuses
    BY <1>2, <1>5, AnswerFacts
  <2> QED
    BY <2>1, <1>5, <1>6 DEF Item, DownItems
<1>8. PICK d : d = AfterReply(call, c, i.val)
  OBVIOUS
<1>9. PICK t : t = ServerNow'
  OBVIOUS
<1>10. PICK step : step = IF v.status # "SUCCESS" THEN "command"
                          ELSE IF command \in NameOps THEN "reply.id"
                          ELSE IF command \in PullOps THEN "reply.len" ELSE "command"
  OBVIOUS
<1>11. /\ down' = Append(down, i) /\ UNCHANGED <<up, ends, clientvars, store, done>>
       /\ server' = step /\ command' = command
       /\ step # "command" => local' = local
  BY <1>4, <1>6, <1>10 DEF ServerStatus, ServerWrite, ServerGoto
<1>12. /\ t.step = step /\ t.command = command /\ t.local = local'
  BY <1>9, <1>11 DEF ServerNow
<1>13. ServerOk(ServerNow') /\ Settle(ServerNow') = ServerNow' /\ server' \notin {"killed", "stopped"}
  <2>1. ServerOk(ServerNow') /\ Settle(ServerNow') = ServerNow'
    BY <1>2, ServerReplyOk
  <2> QED
    BY <2>1, <1>10, <1>11
<1>14. ClientOk(call, d) /\ Together(d, t)
  <2>1. CASE v.status # "SUCCESS"
    <3>1. d = Over(Error(v.status))
      BY <1>5, <1>7, <1>8, <2>1 DEF AfterReply
    <3>2. v = Error(v.status) /\ v.status \notin {"WRITE_ERROR", "READ_ERROR"}
      BY <1>2, <1>5, <2>1, AnswerFacts
    <3>3. Real(v)
      BY <1>5, <2>1, <3>2 DEF Real
    <3>4. AtRest(d, t)
      BY <1>10, <1>12, <2>1, <3>1, <3>2, <3>3, OverOk DEF AtRest
    <3> QED
      BY <3>1, <3>4, OverOk DEF Together
  <2>2. CASE v.status = "SUCCESS" /\ call.op \in NameOps
    <3>1. d = On("id", c.mine, c.result)
      BY <1>5, <1>7, <1>8, <2>2 DEF AfterReply
    <3>2. ClientOk(call, d)
      BY <1>2, <1>3, <2>2, <3>1, ClientKnows DEF On, ClientOk, ClientSteps, ClientReads
    <3>3. \E n \in Ids : v = [status |-> "SUCCESS", id |-> n]
      BY <1>2, <1>5, <2>2, AnswerFacts
    <3>4. t.step = "reply.id" /\ t.local = local /\ t.command = call.op /\ d.step = "id"
      BY <1>5, <1>10, <1>11, <1>12, <2>2, <3>1 DEF On
    <3>5. Replying(d, t)
      BY <1>2, <1>4, <1>5, <3>3, <3>4 DEF Replying, Executed
    <3> QED
      BY <3>2, <3>5 DEF Together
  <2>3. CASE v.status = "SUCCESS" /\ call.op \in PullOps
    <3>0. call.op \notin NameOps
      BY <2>3, OpFacts
    <3>1. d = On("len", c.mine, c.result)
      BY <1>5, <1>7, <1>8, <2>3, <3>0 DEF AfterReply
    <3>2. ClientOk(call, d)
      BY <1>2, <1>3, <2>3, <3>1, ClientKnows DEF On, ClientOk, ClientSteps, ClientReads
    <3>3. /\ local.tick \in store /\ local.piece = local.tick.len.chunks
          /\ \E at \in Times : v = [status |-> "SUCCESS", tick |-> local.tick, time |-> at]
      BY <1>2, <1>3, <1>5, <2>3, AnswerFacts
    <3>4. t.step = "reply.len" /\ t.local = local /\ t.command = call.op /\ d.step = "len"
      BY <1>5, <1>10, <1>11, <1>12, <2>3, <3>0, <3>1 DEF On
    <3>5. Replying(d, t)
      BY <1>2, <1>4, <1>5, <3>3, <3>4 DEF Replying, Executed
    <3> QED
      BY <3>2, <3>5 DEF Together
  <2>4. CASE v.status = "SUCCESS" /\ call.op \notin NameOps \cup PullOps
    <3>1. d = Over([status |-> "SUCCESS"])
      BY <1>5, <1>7, <1>8, <2>4 DEF AfterReply
    <3>2. v = [status |-> "SUCCESS"] /\ call.op # "pull_tick"
      BY <1>2, <1>5, <2>4, AnswerFacts, OpFacts
    <3>3. Real(v)
      BY <1>5, <3>2 DEF Real
    <3>4. AtRest(d, t)
      BY <1>5, <1>10, <1>12, <2>4, <3>1, <3>2, <3>3, OverOk DEF AtRest
    <3> QED
      BY <3>1, <3>4, OverOk DEF Together
  <2> QED
    BY <2>1, <2>2, <2>3, <2>4
<1> QED
  BY <1>2, <1>3, <1>7, <1>8, <1>9, <1>11, <1>13, <1>14, ServerWriteKeeps

LEMMA ServerReplyIdKeeps ==
  ASSUME WireInv, gone = {}, ServerReplyId
  PROVE  WireInv'
<1>1. server = "reply.id"
  BY DEF ServerReplyId
<1>2. up = <<>> /\ ServerOk(ServerNow) /\ call \in Calls
  BY <1>1, ServerReplies
<1>3. PICK C, c, s :
         /\ ClientRun(C) /\ c = C[Len(down)] /\ ClientOk(call, c) /\ s = ServerNow
         /\ s.step = server /\ s.command = command /\ s.local = local
         /\ Replying(c, s)
  BY <1>1, ServerReplies
<1>4. PICK n \in Ids : local.rtn = [status |-> "SUCCESS", id |-> n]
  BY <1>1, <1>3 DEF Replying
<1>5. c.step = "id" /\ done = [call |-> Asked, res |-> local.rtn] /\ call.op \in NameOps
  <2>1. c.step = "id" /\ done = [call |-> Asked, res |-> local.rtn]
    BY <1>1, <1>3 DEF Replying, Executed
  <2> QED
    BY <1>3, <2>1 DEF ClientOk
<1>6. PICK i : i = Item("id", n)
  OBVIOUS
<1>7. i \in DownItems /\ i.kind = c.step /\ i.val = n
  BY <1>5, <1>6 DEF Item, DownItems
<1>8. PICK d : d = AfterReply(call, c, i.val)
  OBVIOUS
<1>9. PICK t : t = ServerNow'
  OBVIOUS
<1>10. /\ down' = Append(down, i) /\ UNCHANGED <<up, ends, clientvars, store, done>>
       /\ server' = "command"
  BY <1>4, <1>6 DEF ServerReplyId, ServerWrite, ServerGoto
<1>11. ServerOk(ServerNow') /\ Settle(ServerNow') = ServerNow' /\ server' \notin {"killed", "stopped"}
  BY <1>2, <1>10, ServerReplyOk
<1>12. d = Over([status |-> "SUCCESS", id |-> n])
  BY <1>5, <1>7, <1>8 DEF AfterReply
<1>13. Real([status |-> "SUCCESS", id |-> n])
  BY <1>4, <1>5, OpFacts DEF Real
<1>14. AtRest(d, t)
  BY <1>9, <1>10, <1>12, <1>13, OverOk DEF AtRest, ServerNow
<1>15. ClientOk(call, d) /\ Together(d, t)
  BY <1>12, <1>14, OverOk DEF Together
<1> QED
  BY <1>2, <1>3, <1>7, <1>8, <1>9, <1>10, <1>11, <1>15, ServerWriteKeeps

LEMMA ServerReplyTimeKeeps ==
  ASSUME WireInv, gone = {}, ServerReplyTime
  PROVE  WireInv'
<1>1. server = "reply.time"
  BY DEF ServerReplyTime
<1>2. up = <<>> /\ ServerOk(ServerNow) /\ call \in Calls
  BY <1>1, ServerReplies
<1>3. PICK C, c, s :
         /\ ClientRun(C) /\ c = C[Len(down)] /\ ClientOk(call, c) /\ s = ServerNow
         /\ s.step = server /\ s.command = command /\ s.local = local
         /\ Replying(c, s)
  BY <1>1, ServerReplies
<1>4. PICK at \in Times : local.rtn = [status |-> "SUCCESS", tick |-> local.tick, time |-> at]
  BY <1>1, <1>3 DEF Replying
<1>5. /\ c.step = "time" /\ done = [call |-> Asked, res |-> local.rtn]
      /\ c.mine.tick = local.tick
  BY <1>1, <1>3 DEF Replying, Executed
<1>6. PICK i : i = Item("time", at)
  OBVIOUS
<1>7. i \in DownItems /\ i.kind = c.step /\ i.val = at
  BY <1>5, <1>6 DEF Item, DownItems
<1>8. PICK d : d = AfterReply(call, c, i.val)
  OBVIOUS
<1>9. PICK t : t = ServerNow'
  OBVIOUS
<1>10. /\ down' = Append(down, i) /\ UNCHANGED <<up, ends, clientvars, store, done>>
       /\ server' = "command"
  BY <1>4, <1>6 DEF ServerReplyTime, ServerWrite, ServerGoto
<1>11. ServerOk(ServerNow') /\ Settle(ServerNow') = ServerNow' /\ server' \notin {"killed", "stopped"}
  BY <1>2, <1>10, ServerReplyOk
<1>12. PICK v : v = [status |-> "SUCCESS", tick |-> local.tick, time |-> at]
  OBVIOUS
<1>13. d = Over(v)
  BY <1>5, <1>7, <1>8, <1>12 DEF AfterReply
<1>14. Real(v)
  BY <1>4, <1>5, <1>12 DEF Real
<1>15. AtRest(d, t)
  BY <1>9, <1>10, <1>13, <1>14, OverOk DEF AtRest, ServerNow
<1>16. ClientOk(call, d) /\ Together(d, t)
  BY <1>13, <1>15, OverOk DEF Together
<1> QED
  BY <1>2, <1>3, <1>7, <1>8, <1>9, <1>10, <1>11, <1>16, ServerWriteKeeps

LEMMA ServerReplyLenKeeps ==
  ASSUME WireInv, gone = {}, ServerReplyLen
  PROVE  WireInv'
<1>1. server = "reply.len"
  BY DEF ServerReplyLen
<1>2. /\ up = <<>> /\ ServerOk(ServerNow) /\ call \in Calls
      /\ \A k \in store : k \in Ticks /\ k.len.tail
  BY <1>1, ServerReplies
<1>3. PICK C, c, s :
         /\ ClientRun(C) /\ c = C[Len(down)] /\ ClientOk(call, c) /\ s = ServerNow
         /\ s.step = server /\ s.command = command /\ s.local = local
         /\ Replying(c, s)
  BY <1>1, ServerReplies
<1>4. /\ c.step = "len" /\ command = call.op /\ done = [call |-> Asked, res |-> local.rtn]
      /\ local.tick \in store /\ local.piece = local.tick.len.chunks
      /\ \E at \in Times : local.rtn = [status |-> "SUCCESS", tick |-> local.tick, time |-> at]
  BY <1>1, <1>3 DEF Replying, Executed
<1>5. PICK n : n = local.tick.len
  OBVIOUS
<1>6. n \in Lengths /\ n.chunks \in Nat /\ n.chunks \in 0..n.chunks
  <2>1. local.tick \in Ticks
    BY <1>2, <1>4
  <2>2. n \in Lengths
    BY <1>5, <2>1, TickFacts
  <2> QED
    BY <2>2, LengthFacts
<1>7. PICK i : i = Item("len", n)
  OBVIOUS
<1>8. i \in DownItems /\ i.kind = c.step /\ i.val = n
  BY <1>4, <1>6, <1>7 DEF Item, DownItems
<1>9. PICK d : d = AfterReply(call, c, i.val)
  OBVIOUS
<1>10. PICK t : t = ServerNow'
  OBVIOUS
<1>11. /\ down' = Append(down, i) /\ UNCHANGED <<up, ends, clientvars, store, done>>
       /\ server' = "reply.piece" /\ command' = command /\ local' = local
  BY <1>5, <1>7 DEF ServerReplyLen, ServerWrite, ServerGoto
<1>12. ServerOk(ServerNow') /\ Settle(ServerNow') = ServerNow' /\ server' \notin {"killed", "stopped"}
  BY <1>2, <1>11, ServerReplyOk
<1>13. PICK k : k = Raw(n)
  OBVIOUS
<1>14. k \in Ticks /\ k.len = n /\ k # NoTick
  BY <1>6, <1>13, RawTick
<1>15. PICK m : m = [c.mine EXCEPT !.tick = k, !.piece = n.chunks]
  OBVIOUS
<1>16. m \in Mines /\ m.tick = k /\ m.piece = n.chunks
  BY <1>3, <1>6, <1>14, <1>15, ClientKnows DEF Mines
<1>17. InTick(m)
  BY <1>6, <1>14, <1>16 DEF InTick
<1>18. d = On("piece", m, c.result)
  BY <1>4, <1>8, <1>9, <1>13, <1>15 DEF AfterReply
<1>19. call.op \in PullOps
  BY <1>3, <1>4 DEF ClientOk
<1>20. ClientOk(call, d)
  BY <1>2, <1>14, <1>16, <1>17, <1>18, <1>19 DEF On, ClientOk, ClientSteps, ClientReads
<1>21. Together(d, t)
  <2>1. /\ d.step = "piece" /\ d.mine = m /\ t.step = "reply.piece" /\ t.command = call.op
        /\ t.local = local
    BY <1>4, <1>10, <1>11, <1>18 DEF On, ServerNow
  <2>2. \A j \in (d.mine.piece + 1)..d.mine.tick.len.chunks : FALSE
    BY <1>6, <1>14, <1>16, <2>1
  <2>3. Copied(d, t, d.mine.piece + 1)
    BY <1>4, <1>5, <1>14, <1>16, <2>1, <2>2 DEF Copied
  <2>4. Replying(d, t)
    BY <1>2, <1>4, <2>1, <2>3 DEF Replying, Executed
  <2> QED
    BY <2>4 DEF Together
<1> QED
  BY <1>2, <1>3, <1>8, <1>9, <1>10, <1>11, <1>12, <1>20, <1>21, ServerWriteKeeps

LEMMA ServerReplyPieceKeeps ==
  ASSUME WireInv, gone = {}, ServerReplyPiece
  PROVE  WireInv'
<1>1. server = "reply.piece"
  BY DEF ServerReplyPiece
<1>2. /\ up = <<>> /\ ServerOk(ServerNow) /\ call \in Calls /\ local \in Locals /\ InTick(local)
      /\ \A k \in store : k \in Ticks /\ k.len.tail
  BY <1>1, ServerReplies
<1>3. PICK C, c, s :
         /\ ClientRun(C) /\ c = C[Len(down)] /\ ClientOk(call, c) /\ s = ServerNow
         /\ s.step = server /\ s.command = command /\ s.local = local
         /\ Replying(c, s)
  BY <1>1, ServerReplies
<1>4. /\ c.step = "piece" /\ command = call.op /\ done = [call |-> Asked, res |-> local.rtn]
      /\ local.tick \in store /\ Copied(c, s, c.mine.piece + 1)
      /\ \E at \in Times : local.rtn = [status |-> "SUCCESS", tick |-> local.tick, time |-> at]
  BY <1>1, <1>3 DEF Replying, Executed
<1>5. /\ c.mine \in Mines /\ InTick(c.mine) /\ c.mine.tick \in Ticks /\ call.op \in PullOps
      /\ c.mine.piece \in 0..c.mine.tick.len.chunks
  BY <1>3, <1>4, ClientKnows DEF InTick, ClientOk
<1>6. PICK n, p : n = local.tick.len.chunks /\ p = local.piece
  OBVIOUS
<1>7. /\ local.tick \in Ticks /\ local.tick.len.tail /\ n \in Nat /\ local.tick # NoTick
      /\ local.tick.buf \in [0..n -> Maybe(Data \X (0..n))]
  BY <1>2, <1>4, <1>6, TickFacts
<1>8. /\ c.mine.tick.len = local.tick.len /\ c.mine.piece = p /\ p \in 0..n
      /\ \A j \in (p + 1)..n : c.mine.tick.buf[j] = local.tick.buf[j]
  BY <1>3, <1>4, <1>5, <1>6 DEF Copied
<1>9. PICK v : v = local.tick.buf[p]
  OBVIOUS
<1>10. v \in Maybe(Data \X (0..n))
  BY <1>7, <1>8, <1>9
<1>11. PICK i : i = Item("piece", v)
  OBVIOUS
<1>12. i \in DownItems /\ i.kind = c.step /\ i.val = v
  <2>1. v \in Maybe(Data \X Nat)
    BY <1>10 DEF Maybe
  <2> QED
    BY <2>1, <1>4, <1>11 DEF Item, DownItems
<1>13. ~NoBytes
  BY <1>7 DEF NoBytes
<1>14. PICK d : d = AfterReply(call, c, i.val)
  OBVIOUS
<1>15. PICK t : t = ServerNow'
  OBVIOUS
<1>16. PICK k : k = [c.mine.tick EXCEPT !.buf[p] = v]
  OBVIOUS
<1>17. /\ k \in Ticks /\ k.len = local.tick.len /\ k.buf[p] = v
       /\ \A j \in 0..n : j # p => k.buf[j] = c.mine.tick.buf[j]
  <2>1. PICK w : w = c.mine.tick
    OBVIOUS
  <2>2. w \in Ticks /\ w.len.chunks = n
    BY <1>5, <1>6, <1>8, <2>1
  <2>3. p \in 0..w.len.chunks /\ v \in Maybe(Data \X (0..w.len.chunks))
    BY <1>8, <1>10, <2>2
  <2>4. PICK u \in Ticks :
           /\ u = [w EXCEPT !.buf[p] = v] /\ u.len = w.len /\ u.buf[p] = v
           /\ \A j \in 0..w.len.chunks : j # p => u.buf[j] = w.buf[j]
    BY <2>2, <2>3, TickPut
  <2>5. k = u
    BY <1>16, <2>1, <2>4
  <2> QED
    BY <1>8, <2>1, <2>2, <2>4, <2>5
<1>18. k # NoTick
  BY <1>17, TickFacts
<1>19. \A j \in p..n : k.buf[j] = local.tick.buf[j]
  <2>1. \A j \in p..n : j = p \/ (j # p /\ j \in 0..n /\ j \in (p + 1)..n)
    BY <1>7, <1>8
  <2> QED
    BY <2>1, <1>8, <1>9, <1>17
<1>20. /\ down' = Append(down, i) /\ UNCHANGED <<up, ends, clientvars, store, done>>
       /\ command' = command
       /\ IF command = "pull_tick" THEN server' = "ack" /\ local' = local
          ELSE server' = (IF p = 0 THEN "reply.time" ELSE "reply.piece") /\ local' = LessPiece
  BY <1>6, <1>9, <1>11, <1>13 DEF ServerReplyPiece, ServerWrite, ServerGoto
<1>21. ServerOk(ServerNow') /\ Settle(ServerNow') = ServerNow' /\ server' \notin {"killed", "stopped"}
  <2>1. ServerOk(ServerNow') /\ Settle(ServerNow') = ServerNow'
    BY <1>2, ServerReplyOk
  <2> QED
    BY <2>1, <1>20
<1>22. CASE command = "pull_tick"
  <2>1. PICK m : m = [c.mine EXCEPT !.tick = k]
    OBVIOUS
  <2>2. m \in Mines /\ m.tick = k /\ m.piece = p
    BY <1>5, <1>8, <1>17, <2>1 DEF Mines
  <2>3. d = On("put.ack", m, c.result)
    <3>1. m = [c.mine EXCEPT !.tick.buf[c.mine.piece] = v]
      BY <1>8, <1>16, <2>1
    <3> QED
      BY <1>4, <1>12, <1>14, <1>22, <3>1 DEF AfterReply
  <2>4. InTick(m)
    BY <1>6, <1>8, <1>17, <2>2 DEF InTick
  <2>5. ClientOk(call, d)
    BY <1>2, <1>4, <1>18, <1>22, <2>2, <2>3, <2>4 DEF On, ClientOk, ClientSteps, ClientReads
  <2>6. /\ d.step = "put.ack" /\ d.mine = m /\ t.step = "ack" /\ t.command = call.op
        /\ t.local = local
    BY <1>4, <1>15, <1>20, <1>22, <2>3 DEF On, ServerNow
  <2>7. Copied(d, t, d.mine.piece)
    BY <1>6, <1>8, <1>17, <1>19, <2>2, <2>6 DEF Copied
  <2>8. Replying(d, t)
    BY <1>2, <1>4, <2>6, <2>7 DEF Replying, Executed
  <2>9. Together(d, t)
    BY <2>8 DEF Together
  <2> QED
    BY <1>2, <1>3, <1>12, <1>14, <1>15, <1>20, <1>21, <2>5, <2>9, ServerWriteKeeps
<1>23. CASE command # "pull_tick"
  <2>1. PICK m : m = [c.mine EXCEPT !.tick = k, !.piece = Before(p)]
    OBVIOUS
  <2>2. Before(p) \in 0..n /\ Before(p) \in Nat /\ (p # 0 => Before(p) + 1 = p)
    BY <1>7, <1>8, BeforeFacts
  <2>3. m \in Mines /\ m.tick = k /\ m.piece = Before(p)
    BY <1>5, <1>17, <2>1, <2>2 DEF Mines
  <2>4. d = On(IF p = 0 THEN "time" ELSE "piece", m, c.result)
    <3>1. m = [c.mine EXCEPT !.tick.buf[c.mine.piece] = v, !.piece = Before(@)]
      BY <1>8, <1>16, <2>1
    <3> QED
      BY <1>4, <1>8, <1>12, <1>14, <1>23, <3>1 DEF AfterReply
  <2>5. InTick(m)
    BY <1>6, <1>17, <2>2, <2>3 DEF InTick
  <2>6. ClientOk(call, d)
    BY <1>2, <1>5, <1>18, <2>3, <2>4, <2>5 DEF On, ClientOk, ClientSteps, ClientReads
  <2>7. PICK l : l = LessPiece
    OBVIOUS
  <2>8. l.tick = local.tick /\ l.piece = Before(p) /\ l.rtn = local.rtn
    BY <1>2, <1>6, <1>7, <2>7, LessPieceTyped
  <2>9. /\ d.step = (IF p = 0 THEN "time" ELSE "piece") /\ d.mine = m
        /\ t.step = (IF p = 0 THEN "reply.time" ELSE "reply.piece") /\ t.command = call.op
        /\ t.local = l
    BY <1>4, <1>15, <1>20, <1>23, <2>4, <2>7 DEF On, ServerNow
  <2>10. CASE p = 0
    <3>1. k = local.tick
      BY <1>6, <1>7, <1>17, <1>19, <2>10, SameTick
    <3>2. Replying(d, t)
      BY <1>2, <1>4, <2>3, <2>8, <2>9, <2>10, <3>1 DEF Replying, Executed
    <3>3. Together(d, t)
      BY <3>2 DEF Together
    <3> QED
      BY <1>2, <1>3, <1>12, <1>14, <1>15, <1>20, <1>21, <2>6, <3>3, ServerWriteKeeps
  <2>11. CASE p # 0
    <3>1. Copied(d, t, d.mine.piece + 1)
      BY <1>6, <1>17, <1>19, <2>2, <2>3, <2>8, <2>9, <2>11 DEF Copied
    <3>2. Replying(d, t)
      BY <1>2, <1>4, <2>8, <2>9, <2>11, <3>1 DEF Replying, Executed
    <3>3. Together(d, t)
      BY <3>2 DEF Together
    <3> QED
      BY <1>2, <1>3, <1>12, <1>14, <1>15, <1>20, <1>21, <2>6, <3>3, ServerWriteKeeps
  <2> QED
    BY <2>10, <2>11
<1> QED
  BY <1>22, <1>23

LEMMA ServerCallAnswers ==
  ASSUME ServerCall, local \in Locals, command = call.op, NEW t, t = ServerNow',
         \A k \in store : k \in Ticks
  PROVE  \E v : done' = [call |-> Received, res |-> v] /\ t.local.rtn = v /\ Answers(v, t)'
<1>1. call' = call /\ t.local = local'
  BY DEF ServerCall, clientvars, ServerNow
<1>2. ASSUME NEW l, NEW v, Answer(v, l), l \in Locals
      PROVE  /\ done' = [call |-> Received, res |-> v] /\ t.local.rtn = v
             /\ t.local.tick = l.tick /\ t.local.piece = l.piece
  <2>1. PICK m : m = [l EXCEPT !.rtn = v]
    OBVIOUS
  <2>2. local' = m /\ done' = [call |-> Received, res |-> v]
    BY <1>2, <2>1 DEF Answer, ServerGoto
  <2>3. m.tick = l.tick /\ m.piece = l.piece /\ m.rtn = v
    BY <1>2, <2>1 DEF Locals
  <2> QED
    BY <1>1, <2>2, <2>3
<1>4. CASE \E e \in Errors(command) : Answer(Error(e), local)
  <2>1. PICK e \in Errors(command) : Answer(Error(e), local)
    BY <1>4
  <2>2. PICK v : v = Error(e)
    OBVIOUS
  <2>3. Answers(v, t)'
    BY <1>1, <2>2 DEF Answers
  <2> QED
    BY <1>2, <2>1, <2>2, <2>3
<1>5. CASE command \in NameOps /\ \E n \in Ids : Answer([status |-> "SUCCESS", id |-> n], local)
  <2>1. PICK n \in Ids : Answer([status |-> "SUCCESS", id |-> n], local)
    BY <1>5
  <2>2. PICK v : v = [status |-> "SUCCESS", id |-> n]
    OBVIOUS
  <2>3. Answers(v, t)'
    BY <1>1, <1>5, <2>2 DEF Answers
  <2> QED
    BY <1>2, <2>1, <2>2, <2>3
<1>6. CASE /\ command \in {"push_tick"} \cup SubscribeOps
           /\ Answer([status |-> "SUCCESS"], local)
  <2>1. PICK v : v = [status |-> "SUCCESS"]
    OBVIOUS
  <2>2. Answers(v, t)'
    BY <1>1, <1>6, <2>1 DEF Answers
  <2> QED
    BY <1>2, <1>6, <2>1, <2>2
<1>7. CASE /\ command \in PullOps /\ UNCHANGED store
           /\ \E k \in store, at \in Times :
                Answer([status |-> "SUCCESS", tick |-> k, time |-> at],
                       [local EXCEPT !.tick = k, !.piece = k.len.chunks])
  <2>1. PICK k \in store, at \in Times :
             Answer([status |-> "SUCCESS", tick |-> k, time |-> at],
                    [local EXCEPT !.tick = k, !.piece = k.len.chunks])
    BY <1>7
  <2>2. PICK v, l : /\ v = [status |-> "SUCCESS", tick |-> k, time |-> at]
                    /\ l = [local EXCEPT !.tick = k, !.piece = k.len.chunks]
    OBVIOUS
  <2>3. k \in Ticks /\ k.len.chunks \in Nat
    <3>1. k \in Ticks
      BY <2>1
    <3> QED
      BY <3>1, TickFacts
  <2>4. l \in Locals /\ l.tick = k /\ l.piece = k.len.chunks
    BY <2>2, <2>3 DEF Locals
  <2>5. /\ done' = [call |-> Received, res |-> v] /\ t.local.rtn = v
        /\ t.local.tick = k /\ t.local.piece = k.len.chunks
    BY <1>2, <2>1, <2>2, <2>4
  <2>6. Answers(v, t)'
    BY <1>1, <1>7, <2>1, <2>2, <2>5 DEF Answers
  <2> QED
    BY <2>5, <2>6
<1> QED
  BY <1>4, <1>5, <1>6, <1>7 DEF ServerCall

LEMMA ServerCallKeeps ==
  ASSUME WireInv, gone = {}, ServerCall
  PROVE  WireInv'
<1>1. server = "call" /\ server \notin ServerReads
  BY DEF ServerCall, ServerReads
<1>2. up = <<>> /\ ServerOk(ServerNow)
  BY <1>1, ServerBusy
<1>3. PICK C, c : /\ ClientRun(C) /\ c = C[Len(down)] /\ ClientOk(call, c)
                  /\ Together(c, ServerNow)
  BY <1>1, ServerBusy
<1>4. PICK s : s = ServerNow
  OBVIOUS
<1>5. s.step = server /\ s.command = command /\ s.local = local
  BY <1>4 DEF ServerNow
<1>6. /\ c.step = "status" /\ call \in Calls /\ command = call.op /\ Got(s) = Asked
  BY <1>1, <1>3, <1>4, <1>5, TogetherSteps DEF Waiting
<1>7. local \in Locals /\ InTick(local)
  BY <1>2, ServerKnows
<1>8. \A k \in store : k \in Ticks /\ k.len.tail
  BY DEF WireInv, TypeInv
<1>9. PICK t : t = ServerNow'
  OBVIOUS
<1>10. PICK v : done' = [call |-> Received, res |-> v] /\ t.local.rtn = v /\ Answers(v, t)'
  BY <1>6, <1>7, <1>8, <1>9, ServerCallAnswers
<1>11. Received = Got(s)
  BY <1>5 DEF Received, Got
<1>12. /\ up' = up /\ down' = down /\ gone' = gone /\ reset' = reset /\ client' = client
       /\ call' = call /\ mine' = mine /\ result' = result /\ command' = command
  BY DEF ServerCall, streams, ends, clientvars
<1>13. /\ ServerOk(ServerNow') /\ Settle(ServerNow') = ServerNow' /\ server' = "status"
  BY <1>2, <1>8, ServerCallOk
<1>14. Together(c, t)'
  <2>1. Asked' = Asked
    BY <1>12 DEF Asked
  <2>2. Executed(t)'
    BY <1>6, <1>10, <1>11, <2>1 DEF Executed
  <2>3. t.step = "status" /\ t.command = command
    BY <1>9, <1>12, <1>13 DEF ServerNow
  <2>4. Waiting(c, t)'
    BY <1>6, <1>10, <1>12, <2>2, <2>3 DEF Waiting
  <2> QED
    BY <2>4 DEF Together
<1>15a. ASSUME call.op = "push_tick"
        PROVE  local.tick = Whole(call.len, call.data)
  <2>1. Got(s).tick = local.tick
    BY <1>5, <1>6, <1>15a, OpFacts DEF Got
  <2>2. Asked.tick = Whole(call.len, call.data)
    BY <1>15a DEF Asked
  <2> QED
    BY <1>6, <2>1, <2>2
<1>15. store' = store \/ (call.op = "push_tick" /\ store' = store \cup {Whole(call.len, call.data)})
  BY <1>6, <1>15a, ServerCallStores
<1>16. ASSUME call.op = "push_tick"
       PROVE  /\ call.data \in Data /\ Whole(call.len, call.data) \in Ticks
              /\ Whole(call.len, call.data).len.tail
              /\ Whole(call.len, call.data).len = call.len
  <2>1. PICK n, d : n = call.len /\ d = call.data
    OBVIOUS
  <2>2. n \in Lengths /\ d \in Data
    BY <1>6, <1>16, <2>1, CallFacts
  <2>3. Whole(n, d) \in Ticks /\ Whole(n, d).len = n
    BY <2>2, WholeTick
  <2>4. local.tick.len.tail
    BY <1>1, <1>2, <1>6, <1>16, ServerKnows
  <2>5. local.tick = Whole(n, d)
    BY <1>15a, <1>16, <2>1
  <2> QED
    BY <2>1, <2>2, <2>3, <2>4, <2>5
<1>17. \A k \in store' : k \in Ticks /\ k.len.tail
  BY <1>8, <1>15, <1>16
<1>18. TypeInv'
  BY <1>10, <1>12, <1>13, <1>17, TypeMade DEF WireInv, TypeInv
<1>19. GoneInv'
  BY <1>1, <1>12, <1>13 DEF WireInv, GoneInv
<1>20. StoreInv'
  <2>1. client # "dead" => \A k \in store : \E d \in Data : k = Whole(k.len, d)
    BY DEF WireInv, StoreInv
  <2>2. client # "dead" => \A k \in store' : \E d \in Data : k = Whole(k.len, d)
    BY <1>15, <1>16, <2>1
  <2> QED
    BY <1>12, <2>2 DEF StoreInv
<1>21. BothInv'
  <2>1. ClientRun(C)' /\ C[Len(down)'] = C[Len(down)]
    <3>1. ClientNow' = ClientNow
      BY <1>12 DEF ClientNow
    <3> QED
      BY <1>3, <1>12, <3>1, ClientStays
  <2>2. PICK S : ServerRun(S)' /\ S[Len(up)'] = ServerNow'
    BY <1>2, <1>12, <1>13, ServerStarts
  <2>3. Together(C[Len(down)], S[Len(up)])'
    BY <1>3, <1>9, <1>14, <2>1, <2>2
  <2> QED
    BY <1>2, <1>12, <2>1, <2>2, <2>3 DEF BothInv
<1>22. ServerInv' /\ ClientInv'
  BY <1>12 DEF ServerInv, ClientInv
<1> QED
  BY <1>18, <1>19, <1>20, <1>21, <1>22 DEF WireInv

\* A server that settles, whether its client is there or not.
LEMMA ServerPieceNothingKeeps ==
  ASSUME WireInv, gone \in {{}, {"client"}}, ServerPieceNothing
  PROVE  WireInv'
<1>1. /\ server = "piece" /\ server' = "command" /\ command' = command /\ local' = NoLocal /\ NoBytes
  BY DEF ServerPieceNothing, ServerGoto
<1>2. /\ up' = up /\ down' = down /\ gone' = gone /\ reset' = reset /\ client' = client
      /\ call' = call /\ mine' = mine /\ result' = result /\ store' = store /\ done' = done
  BY DEF ServerPieceNothing, streams, ends, clientvars
<1>3. Settle(ServerNow') = Settle(ServerNow)
  BY <1>1 DEF Settle, ServerNow, NoBytes
<1>4. ServerOk(ServerNow')
  <2>1. command' \in Commands
    BY <1>1 DEF WireInv, TypeInv
  <2> QED
    BY <1>1, <2>1, QuietOk
<1>5. TypeInv'
  BY <1>2, <1>4, TypeMade DEF WireInv, TypeInv
<1>6. GoneInv' /\ StoreInv'
  BY <1>1, <1>2 DEF WireInv, GoneInv, StoreInv
<1>7. BothInv'
  <2> SUFFICES ASSUME gone = {}
               PROVE  \E S, C : /\ ServerRun(S)' /\ ClientRun(C)' /\ (up = <<>> \/ down = <<>>)'
                                /\ Together(C[Len(down)], S[Len(up)])'
    BY <1>2 DEF BothInv
  <2>1. PICK S, C : /\ ServerRun(S) /\ ClientRun(C) /\ (up = <<>> \/ down = <<>>)
                    /\ Together(C[Len(down)], S[Len(up)])
    BY DEF WireInv, BothInv
  <2>2. ServerRun(S)' /\ S[Len(up)'] = S[Len(up)]
    BY <1>2, <1>3, <2>1, ServerStays
  <2>3. ClientRun(C)' /\ C[Len(down)'] = C[Len(down)]
    BY <1>2, <2>1, ClientStays DEF ClientNow
  <2>4. PICK c, s : c = C[Len(down)] /\ s = S[Len(up)]
    OBVIOUS
  <2>5. Together(c, s)
    BY <2>1, <2>4
  <2>6. Together(c, s)'
    BY <1>2, <2>5, TogetherStays
  <2>7. Together(C[Len(down)], S[Len(up)])'
    BY <2>2, <2>3, <2>4, <2>6
  <2> QED
    BY <1>2, <2>1, <2>2, <2>3, <2>7
<1>8. ServerInv'
  <2> SUFFICES ASSUME gone = {"client"}
               PROVE  \E S : ServerRun(S)' /\ AloneServer(S[Len(up)])'
    BY <1>2 DEF ServerInv
  <2>1. PICK S : ServerRun(S) /\ AloneServer(S[Len(up)])
    BY DEF WireInv, ServerInv
  <2>2. ServerRun(S)' /\ S[Len(up)'] = S[Len(up)]
    BY <1>2, <1>3, <2>1, ServerStays
  <2>3. PICK s : s = S[Len(up)]
    OBVIOUS
  <2>4. AloneServer(s)'
    BY <1>2, <2>1, <2>3 DEF AloneServer
  <2> QED
    BY <2>2, <2>3, <2>4
<1>9. ClientInv'
  BY <1>2 DEF ClientInv
<1> QED
  BY <1>5, <1>6, <1>7, <1>8, <1>9 DEF WireInv

-----------------------------------------------------------------------------
(* The client's steps, as the client knows them by itself                  *)

LEMMA ClientKnowsNow ==
  ASSUME ClientOk(call, ClientNow)
  PROVE  /\ mine \in Mines /\ InTick(mine) /\ client \in ClientSteps
         /\ client = "send" =>
              /\ mine.out # <<>> /\ call \in Calls \cup {Closing}
              /\ call.op = "push_tick" => mine.piece \in 0..call.len.chunks
         /\ client \in {"put.piece", "get.ack"} =>
              /\ call \in Calls /\ call.op = "push_tick" /\ mine.piece \in 0..call.len.chunks
         /\ client \in {"status", "id", "len", "piece", "put.ack", "time"} => call \in Calls
         /\ client = "id" => call.op \in NameOps
         /\ client \in {"len", "piece", "time"} => call.op \in PullOps
         /\ client = "put.ack" => call.op = "pull_tick"
         /\ client \in {"piece", "put.ack", "time"} => mine.tick # NoTick
         /\ client = "close" => call = Closing
<1> DEFINE c == ClientNow
<1>1. c.step = client /\ c.mine = mine
  BY DEF ClientNow
<1> QED
  BY <1>1 DEF ClientOk, ClientReads

ClientSendStep ==
  IF Len(mine.out) > 1 THEN "send"
  ELSE IF call.op = "push_tick" THEN "put.piece"
  ELSE IF call.op = "close_connection" THEN "close" ELSE "status"

LEMMA ClientSendOk ==
  ASSUME ClientOk(call, ClientNow), client = "send",
         NEW m, m = [mine EXCEPT !.out = Tail(@)], ClientGoto(ClientSendStep, m)
  PROVE  /\ ClientOk(call, ClientNow') /\ ClientNow' = On(ClientSendStep, m, result)
         /\ m.out = Tail(mine.out) /\ m.tick = mine.tick /\ m.piece = mine.piece
<1>1. /\ mine \in Mines /\ InTick(mine) /\ mine.out # <<>> /\ call \in Calls \cup {Closing}
      /\ call.op = "push_tick" => mine.piece \in 0..call.len.chunks
  BY ClientKnowsNow
<1>2. /\ mine.out \in Seq(UpItems) /\ Tail(mine.out) \in Seq(UpItems)
      /\ Len(mine.out) > 1 => Tail(mine.out) # <<>>
  <2>1. mine.out \in Seq(UpItems)
    BY <1>1 DEF Mines
  <2>2. PICK q : q = mine.out
    OBVIOUS
  <2>3. q \in Seq(UpItems) /\ q # <<>>
    BY <1>1, <2>1, <2>2
  <2>4. Tail(q) \in Seq(UpItems) /\ Len(Tail(q)) = Len(q) - 1 /\ Len(q) \in Nat
    BY <2>3, HeadTailProperties
  <2>5. Len(q) > 1 => Tail(q) # <<>>
    <3>1. Len(<<>>) = 0
      OBVIOUS
    <3>2. PICK n : n = Len(q)
      OBVIOUS
    <3>3. n \in Nat /\ Len(Tail(q)) = n - 1 /\ (n > 1 => n - 1 # 0)
      BY <2>4, <3>2
    <3> QED
      BY <3>1, <3>2, <3>3
  <2> QED
    BY <2>2, <2>3, <2>4, <2>5
<1>3. /\ m \in Mines /\ m.out = Tail(mine.out) /\ m.tick = mine.tick /\ m.piece = mine.piece
  BY <1>1, <1>2 DEF Mines
<1>4. InTick(m)
  BY <1>1, <1>3 DEF InTick
<1>5. ClientNow' = [step |-> ClientSendStep, mine |-> m, result |-> result]
  BY DEF ClientGoto, ClientNow
<1>6. Closing.op = "close_connection"
  BY DEF Closing
<1>7. ClientSendStep \in {"send", "put.piece", "close", "status"}
  BY DEF ClientSendStep
<1>8. /\ ClientSendStep = "send" => m.out # <<>>
      /\ ClientSendStep = "put.piece" => call \in Calls /\ call.op = "push_tick"
      /\ ClientSendStep = "status" => call \in Calls
      /\ ClientSendStep = "close" => call = Closing
  <2>1. call \in Calls => call.op # "close_connection"
    <3>1. call \in Calls => call.op \in Ops
      BY CallFacts
    <3> QED
      BY <3>1, OpFacts
  <2> QED
    BY <1>1, <1>2, <1>3, <1>6, <2>1 DEF ClientSendStep
<1>9. ClientOk(call, ClientNow')
  BY <1>1, <1>3, <1>4, <1>5, <1>7, <1>8 DEF ClientOk, ClientSteps, ClientReads
<1> QED
  BY <1>3, <1>5, <1>9 DEF On

LEMMA NextPutOk ==
  ASSUME ClientOk(call, ClientNow), client = "get.ack", NextPut
  PROVE  /\ ClientOk(call, ClientNow')
         /\ client' = IF mine.piece = 0 THEN "status" ELSE "put.piece"
         /\ mine'.piece = Before(mine.piece) /\ mine' \in Mines
<1>1. /\ mine \in Mines /\ InTick(mine) /\ call \in Calls /\ call.op = "push_tick"
      /\ mine.piece \in 0..call.len.chunks
  BY ClientKnowsNow
<1>2. PICK m : m = [mine EXCEPT !.piece = Before(@)]
  OBVIOUS
<1>3. m \in Mines /\ InTick(m) /\ m.piece = Before(mine.piece)
  BY <1>1, <1>2, LessMine
<1>4. call.len.chunks \in Nat
  BY <1>1, CallFacts, LengthFacts
<1>5. Before(mine.piece) \in 0..call.len.chunks
  <2>1. PICK n, p : n = call.len.chunks /\ p = mine.piece
    OBVIOUS
  <2>2. Before(p) \in 0..n
    BY <1>1, <1>4, <2>1, BeforeFacts
  <2> QED
    BY <2>1, <2>2
<1>6. /\ client' = IF mine.piece = 0 THEN "status" ELSE "put.piece"
      /\ mine' = m /\ result' = result
  BY <1>2 DEF NextPut, ClientGoto
<1>7. ClientOk(call, ClientNow')
  BY <1>1, <1>3, <1>5, <1>6 DEF ClientOk, ClientNow, ClientSteps, ClientReads
<1> QED
  BY <1>3, <1>6, <1>7

LEMMA ClientReturnOk ==
  ASSUME NEW v, ClientReturn(v)
  PROVE  ClientNow' = Over(v) /\ ClientOk(call, ClientNow') /\ client' = "idle" /\ result' = v
<1>1. ClientNow' = Over(v) /\ client' = "idle" /\ result' = v
  BY DEF ClientReturn, ClientNow, Over, On
<1> QED
  BY <1>1, OverOk

LEMMA AfterStatusOk ==
  ASSUME ClientOk(call, ClientNow), client = "status", AfterStatus
  PROVE  /\ ClientOk(call, ClientNow') /\ client' \in {"id", "len", "idle"}
         /\ client' = "idle" =>
              call.op \notin NameOps \cup PullOps /\ result' = [status |-> "SUCCESS"]
<1>1. mine \in Mines /\ InTick(mine) /\ call \in Calls
  BY ClientKnowsNow
<1>2. CASE call.op \in NameOps
  <2>1. client' = "id" /\ mine' = mine
    BY <1>2 DEF AfterStatus, ClientGoto
  <2>2. ClientOk(call, ClientNow')
    BY <1>1, <1>2, <2>1 DEF ClientOk, ClientNow, ClientSteps, ClientReads
  <2> QED
    BY <2>1, <2>2
<1>3. CASE call.op \notin NameOps /\ call.op \in PullOps
  <2>1. client' = "len" /\ mine' = mine
    BY <1>3 DEF AfterStatus, ClientGoto
  <2>2. ClientOk(call, ClientNow')
    BY <1>1, <1>3, <2>1 DEF ClientOk, ClientNow, ClientSteps, ClientReads
  <2> QED
    BY <2>1, <2>2
<1>4. CASE call.op \notin NameOps \cup PullOps
  BY <1>4, ClientReturnOk DEF AfterStatus
<1> QED
  BY <1>2, <1>3, <1>4

LEMMA ClientPutAckOk ==
  ASSUME ClientOk(call, ClientNow), client = "put.ack",
         NEW m, m = [mine EXCEPT !.piece = Before(@)],
         ClientGoto(IF mine.piece = 0 THEN "time" ELSE "piece", m)
  PROVE  /\ ClientOk(call, ClientNow') /\ m.tick = mine.tick /\ m.piece = Before(mine.piece)
         /\ ClientNow' = On(IF mine.piece = 0 THEN "time" ELSE "piece", m, result)
<1>1. /\ mine \in Mines /\ InTick(mine) /\ call \in Calls /\ call.op = "pull_tick"
      /\ mine.tick # NoTick
  BY ClientKnowsNow
<1>2. m \in Mines /\ InTick(m) /\ m.tick = mine.tick /\ m.piece = Before(mine.piece)
  BY <1>1, LessMine
<1>3. /\ client' = IF mine.piece = 0 THEN "time" ELSE "piece"
      /\ mine' = m /\ result' = result
  BY DEF ClientGoto
<1>4. ClientOk(call, ClientNow')
  BY <1>1, <1>2, <1>3, OpFacts DEF ClientOk, ClientNow, ClientSteps, ClientReads
<1> QED
  BY <1>2, <1>3, <1>4 DEF On, ClientNow

-----------------------------------------------------------------------------
(* A request reaches the server                                            *)

LEMMA RequestTyped ==
  ASSUME NEW r \in Calls
  PROVE  Request(r) \in Seq(UpItems) /\ Request(r) # <<>>
<1>1. Item("command", r.op) \in UpItems
  BY CallFacts, OpFacts DEF Item, UpItems
<1>2. CASE r.op \in NameOps
  <2>1. Item("name", r.name) \in UpItems
    BY <1>2, CallFacts DEF Item, UpItems
  <2>2. Request(r) = <<Item("command", r.op), Item("name", r.name)>>
    BY <1>2, RequestFacts
  <2> QED
    BY <1>1, <2>1, <2>2
<1>3. CASE r.op \notin NameOps
  <2>1. Item("id", r.id) \in UpItems
    BY <1>3, CallFacts DEF Item, UpItems
  <2>2. CASE r.op = "push_tick"
    <3>1. Item("len", r.len) \in UpItems
      BY <2>2, CallFacts DEF Item, UpItems
    <3>2. Request(r) = <<Item("command", r.op), Item("id", r.id), Item("len", r.len)>>
      BY <2>2, RequestFacts
    <3> QED
      BY <1>1, <2>1, <3>1, <3>2
  <2>3. CASE r.op = "pull_tick_by_datetime"
    <3>1. Item("at", r.at) \in UpItems
      BY <2>3, CallFacts DEF Item, UpItems
    <3>2. Request(r) = <<Item("command", r.op), Item("id", r.id), Item("at", r.at)>>
      BY <2>3, RequestFacts
    <3> QED
      BY <1>1, <2>1, <3>1, <3>2
  <2>4. CASE r.op \notin {"push_tick", "pull_tick_by_datetime"}
    <3>1. Request(r) = <<Item("command", r.op), Item("id", r.id)>>
      BY <1>3, <2>4, RequestFacts
    <3> QED
      BY <1>1, <2>1, <3>1
  <2> QED
    BY <2>2, <2>3, <2>4
<1> QED
  BY <1>2, <1>3

LEMMA RequestParts ==
  ASSUME NEW r \in Calls
  PROVE  /\ Head(Request(r)) = Item("command", r.op) /\ Len(Request(r)) > 1
         /\ r.op \in NameOps => Tail(Request(r)) = <<Item("name", r.name)>>
         /\ r.op = "push_tick" => Tail(Request(r)) = <<Item("id", r.id), Item("len", r.len)>>
         /\ r.op = "pull_tick_by_datetime" =>
              Tail(Request(r)) = <<Item("id", r.id), Item("at", r.at)>>
         /\ r.op \notin NameOps \cup {"push_tick", "pull_tick_by_datetime"} =>
              Tail(Request(r)) = <<Item("id", r.id)>>
<1>1. PICK q, c, n, i, l, a :
        /\ q = Request(r) /\ c = Item("command", r.op) /\ n = Item("name", r.name)
        /\ i = Item("id", r.id) /\ l = Item("len", r.len) /\ a = Item("at", r.at)
  OBVIOUS
<1>2. /\ r.op \in NameOps => q = <<c, n>>
      /\ r.op = "push_tick" => q = <<c, i, l>>
      /\ r.op = "pull_tick_by_datetime" => q = <<c, i, a>>
      /\ r.op \notin NameOps \cup {"push_tick", "pull_tick_by_datetime"} => q = <<c, i>>
  BY <1>1, RequestFacts
<1>3. /\ Head(<<c, n>>) = c /\ Len(<<c, n>>) > 1 /\ Tail(<<c, n>>) = <<n>>
      /\ Head(<<c, i>>) = c /\ Len(<<c, i>>) > 1 /\ Tail(<<c, i>>) = <<i>>
  OBVIOUS
<1>4. /\ Head(<<c, i, l>>) = c /\ Len(<<c, i, l>>) > 1 /\ Tail(<<c, i, l>>) = <<i, l>>
      /\ Head(<<c, i, a>>) = c /\ Len(<<c, i, a>>) > 1 /\ Tail(<<c, i, a>>) = <<i, a>>
  OBVIOUS
<1>5. "push_tick" \notin NameOps /\ "pull_tick_by_datetime" \notin NameOps
  BY DEF NameOps
<1> QED
  BY <1>1, <1>2, <1>3, <1>4, <1>5

LEMMA ServerHearsCommand ==
  ASSUME NEW s, ServerOk(s), s.step = "command", NEW v \in Commands,
         NEW t, t = AfterItem(s, v)
  PROVE  ServerOk(t) /\ t.step = Dispatch(v) /\ t.command = v
<1>1. s.local = NoLocal
  BY DEF ServerOk
<1>2. t = [step |-> Dispatch(v), command |-> v, local |-> NoLocal]
  BY <1>1 DEF AfterItem, At
<1>3. t.step = Dispatch(v) /\ t.command = v /\ t.local = NoLocal
  BY <1>2
<1>4. Dispatch(v) \in {"name", "id", "exit", "command"}
  BY DEF Dispatch
<1>5. /\ Dispatch(v) = "name" => v \in NameOps
      /\ Dispatch(v) = "id" => v \in Ops \ NameOps
  BY OpFacts DEF Dispatch, Ops
<1>6. t = [step |-> t.step, command |-> t.command, local |-> t.local]
  BY <1>2, <1>3
<1>7. ServerOk(t)
  BY <1>3, <1>4, <1>5, <1>6, NoneTyped DEF ServerOk, ServerSteps, ServerReads
<1> QED
  BY <1>3, <1>7

LEMMA ServerHearsName ==
  ASSUME NEW s, ServerOk(s), s.step = "name", NEW v \in Names, NEW t, t = AfterItem(s, v)
  PROVE  ServerOk(t) /\ t.step = "call" /\ t.command = s.command /\ t.local.name = v
<1>1. s.command \in NameOps /\ s.local \in Locals /\ InTick(s.local)
  BY DEF ServerOk
<1>2. PICK l : l = [s.local EXCEPT !.name = v]
  OBVIOUS
<1>3. l \in Locals /\ l.name = v /\ l.tick = s.local.tick /\ l.piece = s.local.piece
  BY <1>1, <1>2 DEF Locals, Maybe
<1>4. InTick(l)
  BY <1>1, <1>3 DEF InTick
<1>5. t = [step |-> "call", command |-> s.command, local |-> l]
  BY <1>2 DEF AfterItem, At
<1>6. ServerOk(t)
  BY <1>1, <1>3, <1>4, <1>5, OpFacts DEF ServerOk, ServerSteps
<1> QED
  BY <1>3, <1>5, <1>6

LEMMA ServerHearsId ==
  ASSUME NEW s, ServerOk(s), s.step = "id", NEW v \in Ids, NEW t, t = AfterItem(s, v)
  PROVE  /\ ServerOk(t) /\ t.command = s.command /\ t.local.id = v
         /\ t.step = IF s.command = "push_tick" THEN "len"
                     ELSE IF s.command = "pull_tick_by_datetime" THEN "at" ELSE "call"
<1>1. s.command \in Ops \ NameOps /\ s.local \in Locals /\ InTick(s.local)
  BY DEF ServerOk
<1>2. PICK l : l = [s.local EXCEPT !.id = v]
  OBVIOUS
<1>3. l \in Locals /\ l.id = v /\ l.tick = s.local.tick /\ l.piece = s.local.piece
  BY <1>1, <1>2 DEF Locals, Maybe
<1>4. InTick(l)
  BY <1>1, <1>3 DEF InTick
<1>5. t = [step |-> IF s.command = "push_tick" THEN "len"
                    ELSE IF s.command = "pull_tick_by_datetime" THEN "at" ELSE "call",
           command |-> s.command, local |-> l]
  BY <1>2 DEF AfterItem, At
<1>6. s.command \in Commands
  BY <1>1, OpFacts
<1>7. ServerOk(t)
  BY <1>1, <1>3, <1>4, <1>5, <1>6 DEF ServerOk, ServerSteps, ServerReads
<1> QED
  BY <1>3, <1>5, <1>7

LEMMA ServerHearsAt ==
  ASSUME NEW s, ServerOk(s), s.step = "at", NEW v \in Times, NEW t, t = AfterItem(s, v)
  PROVE  /\ ServerOk(t) /\ t.step = "call" /\ t.command = s.command /\ t.local.at = v
         /\ t.local.id = s.local.id
<1>1. s.command = "pull_tick_by_datetime" /\ s.local \in Locals /\ InTick(s.local)
  BY DEF ServerOk
<1>2. PICK l : l = [s.local EXCEPT !.at = v]
  OBVIOUS
<1>3. /\ l \in Locals /\ l.at = v /\ l.tick = s.local.tick /\ l.piece = s.local.piece
      /\ l.id = s.local.id
  BY <1>1, <1>2 DEF Locals, Maybe
<1>4. InTick(l)
  BY <1>1, <1>3 DEF InTick
<1>5. t = [step |-> "call", command |-> s.command, local |-> l]
  BY <1>2 DEF AfterItem, At
<1>6. s.command \in Ops /\ s.command \in Commands
  BY <1>1, OpFacts DEF Ops
<1>7. ServerOk(t)
  BY <1>1, <1>3, <1>4, <1>5, <1>6 DEF ServerOk, ServerSteps
<1> QED
  BY <1>3, <1>5, <1>7

LEMMA ServerHearsLen ==
  ASSUME NEW s, ServerOk(s), s.step = "len", NEW v \in Lengths, NEW t, t = AfterItem(s, v)
  PROVE  /\ ServerOk(t) /\ t.command = s.command
         /\ IF v.tail THEN /\ t.step = "piece" /\ t.local.id = s.local.id
                           /\ t.local.tick = Raw(v) /\ t.local.piece = v.chunks
            ELSE t.step = "command"
<1>1. s.command = "push_tick" /\ s.local \in Locals /\ s.command \in Commands
  BY DEF ServerOk
<1>2. PICK l : l = [s.local EXCEPT !.tick = Raw(v), !.piece = v.chunks]
  OBVIOUS
<1>3. /\ Raw(v) \in Ticks /\ Raw(v).len = v /\ Raw(v) # NoTick
      /\ v.chunks \in Nat /\ v.chunks \in 0..v.chunks /\ v.tail \in BOOLEAN
  BY RawTick, LengthFacts
<1>4. /\ l \in Locals /\ l.tick = Raw(v) /\ l.piece = v.chunks /\ l.id = s.local.id
  BY <1>1, <1>2, <1>3 DEF Locals
<1>5. InTick(l)
  BY <1>3, <1>4 DEF InTick
<1>6. PICK u : u = [step |-> "piece", command |-> s.command, local |-> l]
  OBVIOUS
<1>7. t = Settle(u)
  BY <1>2, <1>6 DEF AfterItem, At
<1>8. u.step = "piece" /\ u.command = s.command /\ u.local = l
  BY <1>6
<1>9. CASE v.tail
  <2>1. t = u
    BY <1>3, <1>4, <1>7, <1>8, <1>9 DEF Settle
  <2>2. ServerOk(t)
    BY <1>1, <1>3, <1>4, <1>5, <1>6, <1>8, <1>9, <2>1 DEF ServerOk, ServerSteps, ServerReads
  <2> QED
    BY <1>4, <1>8, <1>9, <2>1, <2>2
<1>10. CASE ~v.tail
  <2>1. t = [step |-> "command", command |-> s.command, local |-> NoLocal]
    BY <1>3, <1>4, <1>7, <1>8, <1>10 DEF Settle
  <2>2. ServerOk(t)
    BY <1>1, <2>1, NoneTyped DEF ServerOk, ServerSteps, ServerReads
  <2> QED
    BY <1>10, <2>1, <2>2
<1> QED
  BY <1>9, <1>10

-----------------------------------------------------------------------------
(* The client's steps while the server is there                            *)

\* A client that does not read has read all that there is.
LEMMA ClientBusy ==
  ASSUME WireInv, gone = {}, client \notin ClientReads
  PROVE  /\ down = <<>> /\ ClientOk(call, ClientNow)
         /\ \E S, s, c : /\ ServerRun(S) /\ s = S[Len(up)] /\ ServerOk(s)
                         /\ c = ClientNow /\ Together(c, s)
<1>1. PICK S, C : /\ ServerRun(S) /\ ClientRun(C)
                  /\ Together(C[Len(down)], S[Len(up)])
  BY DEF WireInv, BothInv
<1>2. up \in Seq(UpItems) /\ down \in Seq(DownItems)
  BY DEF WireInv, TypeInv
<1>3. down = <<>> /\ C[Len(down)] = ClientNow /\ ClientOk(call, ClientNow)
  BY <1>1, <1>2, ClientAtStep
<1>4. ServerOk(S[Len(up)])
  BY <1>1, <1>2, ServerAtItem
<1>5. PICK s, c : s = S[Len(up)] /\ c = ClientNow
  OBVIOUS
<1> QED
  BY <1>1, <1>3, <1>4, <1>5

\* The client goes on without a write.
LEMMA ClientMovesKeeps ==
  ASSUME WireInv, gone = {}, down = <<>>,
         NEW S, ServerRun(S), NEW s, s = S[Len(up)],
         UNCHANGED <<streams, ends, server, command, local, store>>,
         ClientOk(call', ClientNow'), client' \notin {"closed", "dead"},
         call' \in Calls \cup {NoCall, Closing}, done' = [call |-> done'.call, res |-> done'.res],
         NEW c, c = ClientNow', Together(c, s)'
  PROVE  WireInv'
<1> USE DEF WireInv
<1>1. /\ down' = down /\ up' = up /\ gone' = gone /\ reset' = reset /\ server' = server
      /\ command' = command /\ local' = local /\ store' = store
  BY DEF ends, streams
<1>2. TypeInv'
  <2>1. client' \in ClientSteps /\ mine' \in Mines
    BY DEF ClientOk, ClientNow
  <2> QED
    BY <1>1, <2>1 DEF TypeInv
<1>3. client \notin {"closed", "dead"}
  BY DEF GoneInv
<1>4. GoneInv' /\ StoreInv'
  BY <1>1, <1>3 DEF GoneInv, StoreInv
<1>5. ServerNow' = ServerNow
  BY <1>1 DEF ServerNow
<1>6. ServerRun(S)' /\ S[Len(up)'] = S[Len(up)]
  BY <1>1, <1>5, ServerStays
<1>7. PICK C : ClientRun(C)' /\ C[Len(down)'] = c
  BY <1>1, ClientStarts
<1>8. Together(C[Len(down)], S[Len(up)])'
  BY <1>1, <1>6, <1>7
<1>9. BothInv'
  BY <1>1, <1>6, <1>7, <1>8 DEF BothInv
<1>10. ServerInv' /\ ClientInv'
  BY <1>1 DEF ServerInv, ClientInv
<1> QED
  BY <1>2, <1>4, <1>9, <1>10

\* A client between two calls, which starts on the request out.
Started(out, p, v) == On("send", [NoneOfMine EXCEPT !.out = out, !.piece = p], v)
LEMMA ClientStartsOk ==
  ASSUME NEW r \in Calls \cup {Closing}, NEW out \in Seq(UpItems), out # <<>>, NEW p \in Nat,
         r \in Calls /\ r.op = "push_tick" => p = r.len.chunks,
         NEW v, NEW c, c = Started(out, p, v)
  PROVE  ClientOk(r, c) /\ c.mine.out = out /\ c.mine.piece = p /\ c.step = "send"
<1>1. PICK m : m = [NoneOfMine EXCEPT !.out = out, !.piece = p]
  OBVIOUS
<1>2. /\ m = [out |-> out, tick |-> NoTick, piece |-> p]
      /\ m \in Mines /\ m.tick = NoTick /\ m.out = out /\ m.piece = p
  BY <1>1 DEF NoneOfMine, Mines
<1>3. c = [step |-> "send", mine |-> m, result |-> v]
  BY <1>1 DEF On, Started
<1>4. InTick(m)
  BY <1>2 DEF InTick
<1>5. r.op = "push_tick" => r \in Calls
  BY DEF Closing
<1>6. r.op = "push_tick" => m.piece \in 0..r.len.chunks
  <2>1. ASSUME r.op = "push_tick" PROVE p \in 0..r.len.chunks
    <3>1. r \in Calls /\ r.len \in Lengths
      BY <1>5, <2>1, CallFacts
    <3>2. r.len.chunks \in 0..r.len.chunks
      BY <3>1, LengthFacts
    <3> QED
      BY <2>1, <3>1, <3>2
  <2> QED
    BY <1>2, <2>1
<1>7. ClientOk(r, c)
  BY <1>2, <1>3, <1>4, <1>6 DEF ClientOk, ClientSteps, ClientReads
<1> QED
  BY <1>2, <1>3, <1>7

\* The client's part of a new call.
LEMMA CallOk ==
  ASSUME NEW r \in Calls, Call(r)
  PROVE  /\ call' = r /\ ClientOk(call', ClientNow') /\ client' = "send"
         /\ mine'.out = Request(r) /\ (r.op = "push_tick" => mine'.piece = r.len.chunks)
         /\ result' = Nothing /\ done' = NotDone
         /\ UNCHANGED <<streams, ends, server, command, local, store>>
<1>1. PICK p : p = IF r.op = "push_tick" THEN r.len.chunks ELSE 0
  OBVIOUS
<1>2. p \in Nat
  BY <1>1, CallFacts, LengthFacts
<1>3. PICK out : out = Request(r) /\ out \in Seq(UpItems) /\ out # <<>>
  BY RequestTyped
<1>4. /\ client' = "send" /\ call' = r /\ result' = Nothing /\ done' = NotDone
      /\ mine' = [NoneOfMine EXCEPT !.out = out, !.piece = p]
      /\ UNCHANGED <<streams, ends, server, command, local, store>>
  BY <1>1, <1>3 DEF Call
<1>5. PICK c : c = ClientNow'
  OBVIOUS
<1>6. c = Started(out, p, Nothing) /\ c.mine = mine'
  BY <1>4, <1>5 DEF ClientNow, On, Started
<1>7. ClientOk(r, c) /\ c.mine.out = out /\ c.mine.piece = p
  <2>1. r \in Calls \cup {Closing}
    OBVIOUS
  <2> QED
    BY <1>1, <1>2, <1>3, <1>6, <2>1, ClientStartsOk
<1> QED
  BY <1>1, <1>3, <1>4, <1>5, <1>6, <1>7

LEMMA CallKeeps ==
  ASSUME WireInv, gone = {}, NEW r \in Calls, Call(r)
  PROVE  WireInv'
<1>1. client = "idle" /\ client \notin ClientReads
  BY DEF Call, ClientReads
<1>2. down = <<>>
  BY <1>1, ClientBusy
<1>3. PICK S, s, b : ServerRun(S) /\ s = S[Len(up)] /\ ServerOk(s) /\ b = ClientNow /\ Together(b, s)
  BY <1>1, ClientBusy
<1>4. s.step = "command"
  BY <1>1, <1>3, TogetherSteps DEF ClientNow, AtRest
<1>5. /\ call' = r /\ ClientOk(call', ClientNow') /\ client' = "send"
      /\ mine'.out = Request(r) /\ (r.op = "push_tick" => mine'.piece = r.len.chunks)
      /\ done' = NotDone /\ UNCHANGED <<streams, ends, server, command, local, store>>
  BY CallOk
<1>6. PICK c : c = ClientNow'
  OBVIOUS
<1>7. c.step = "send" /\ c.mine = mine'
  BY <1>5, <1>6 DEF ClientNow
<1>8. Sending(c, s)'
  BY <1>4, <1>5, <1>7 DEF Sending
<1>9. done' = [call |-> done'.call, res |-> done'.res]
  BY <1>5 DEF NotDone
<1> QED
  BY <1>2, <1>3, <1>5, <1>6, <1>8, <1>9, ClientMovesKeeps DEF Together

\* The client's part of its leave.
LEMMA CloseConnectionOk ==
  ASSUME CloseConnection
  PROVE  /\ call' = Closing /\ ClientOk(call', ClientNow') /\ client' = "send"
         /\ mine'.out = <<Item("command", "close_connection")>> /\ done' = done
         /\ UNCHANGED <<streams, ends, server, command, local, store>>
<1>1. PICK out : out = <<Item("command", "close_connection")>>
  OBVIOUS
<1>2. out \in Seq(UpItems) /\ out # <<>>
  <2>1. Item("command", "close_connection") \in UpItems
    BY OpFacts DEF Item, UpItems
  <2> QED
    BY <1>1, <2>1
<1>3. [NoneOfMine EXCEPT !.out = out] = [NoneOfMine EXCEPT !.out = out, !.piece = 0]
  <2>1. PICK e, n : e = <<>> /\ n = NoTick
    OBVIOUS
  <2>2. PICK m : m = NoneOfMine
    OBVIOUS
  <2>3. m = [out |-> e, tick |-> n, piece |-> 0]
    BY <2>1, <2>2 DEF NoneOfMine
  <2>4. PICK u, w : u = [m EXCEPT !.out = out] /\ w = [m EXCEPT !.out = out, !.piece = 0]
    OBVIOUS
  <2>5. u = [out |-> out, tick |-> n, piece |-> 0]
    BY <2>3, <2>4
  <2>6. w = [out |-> out, tick |-> n, piece |-> 0]
    BY <2>3, <2>4
  <2> QED
    BY <2>2, <2>4, <2>5, <2>6
<1>4. /\ client' = "send" /\ call' = Closing /\ result' = result /\ done' = done
      /\ mine' = [NoneOfMine EXCEPT !.out = out, !.piece = 0]
      /\ UNCHANGED <<streams, ends, server, command, local, store>>
  BY <1>1, <1>3 DEF CloseConnection, ClientGoto, Closing, servervars
<1>5. PICK c : c = ClientNow'
  OBVIOUS
<1>6. PICK v : v = result
  OBVIOUS
<1>7. c = Started(out, 0, v) /\ c.mine = mine'
  BY <1>4, <1>5, <1>6 DEF ClientNow, On, Started
<1>8. Closing \notin Calls
  <2>1. \A r \in Calls : r # Closing
    BY CallFacts
  <2> QED
    BY <2>1
<1>9. PICK r, p : r = Closing /\ p = 0 /\ r \in Calls \cup {Closing} /\ p \in Nat /\ r \notin Calls
  BY <1>8
<1>10. ClientOk(r, c) /\ c.mine.out = out
  <2>1. r \in Calls /\ r.op = "push_tick" => p = r.len.chunks
    BY <1>9
  <2> QED
    BY <1>2, <1>7, <1>9, <2>1, ClientStartsOk
<1> QED
  BY <1>1, <1>4, <1>5, <1>7, <1>9, <1>10

LEMMA CloseConnectionKeeps ==
  ASSUME WireInv, gone = {}, CloseConnection
  PROVE  WireInv'
<1>1. client = "idle" /\ client \notin ClientReads
  BY DEF CloseConnection, ClientReads
<1>2. down = <<>>
  BY <1>1, ClientBusy
<1>3. PICK S, s, b : ServerRun(S) /\ s = S[Len(up)] /\ ServerOk(s) /\ b = ClientNow /\ Together(b, s)
  BY <1>1, ClientBusy
<1>4. s.step = "command"
  BY <1>1, <1>3, TogetherSteps DEF ClientNow, AtRest
<1>5. /\ call' = Closing /\ ClientOk(call', ClientNow') /\ client' = "send"
      /\ mine'.out = <<Item("command", "close_connection")>> /\ done' = done
      /\ UNCHANGED <<streams, ends, server, command, local, store>>
  BY CloseConnectionOk
<1>6. PICK c : c = ClientNow'
  OBVIOUS
<1>7. c.step = "send" /\ c.mine = mine'
  BY <1>5, <1>6 DEF ClientNow
<1>8. Leaving(c, s)'
  BY <1>4, <1>5, <1>7 DEF Leaving
<1>9. done' = [call |-> done'.call, res |-> done'.res]
  BY <1>5 DEF WireInv, TypeInv
<1> QED
  BY <1>2, <1>3, <1>5, <1>6, <1>8, <1>9, ClientMovesKeeps DEF Together

LEMMA ServerHearsPiece ==
  ASSUME NEW s, ServerOk(s), s.step = "piece", NEW t,
         NEW v \in Data \X (0..s.local.tick.len.chunks), t = AfterItem(s, v)
  PROVE  /\ ServerOk(t) /\ t.step = "put.ack" /\ t.command = s.command
         /\ t.local.id = s.local.id /\ t.local.piece = s.local.piece
         /\ t.local.tick.len = s.local.tick.len /\ t.local.tick.buf[s.local.piece] = v
         /\ \A j \in 0..s.local.tick.len.chunks :
              j # s.local.piece => t.local.tick.buf[j] = s.local.tick.buf[j]
<1>1. /\ s.command = "push_tick" /\ s.command \in Commands /\ s.local \in Locals /\ InTick(s.local)
      /\ s.local.tick # NoTick /\ s.local.tick.len.tail
  BY DEF ServerOk
<1>2. PICK k, p : k = s.local.tick /\ p = s.local.piece
  OBVIOUS
<1>3. k \in Ticks /\ p \in 0..k.len.chunks /\ v \in Maybe(Data \X (0..k.len.chunks))
  BY <1>1, <1>2 DEF InTick, Maybe
<1>4. PICK u \in Ticks : /\ u = [k EXCEPT !.buf[p] = v] /\ u.len = k.len /\ u.buf[p] = v
                         /\ \A j \in 0..k.len.chunks : j # p => u.buf[j] = k.buf[j]
  BY <1>3, TickPut
<1>5. PICK l : l = [s.local EXCEPT !.tick.buf[p] = v]
  OBVIOUS
<1>6. l = [s.local EXCEPT !.tick = u]
  BY <1>1, <1>2, <1>4, <1>5 DEF Locals
<1>7. l \in Locals /\ l.tick = u /\ l.piece = p /\ l.id = s.local.id
  BY <1>1, <1>2, <1>6 DEF Locals
<1>8. InTick(l)
  BY <1>3, <1>4, <1>7 DEF InTick
<1>9. t = [step |-> "put.ack", command |-> s.command, local |-> l]
  BY <1>2, <1>5 DEF AfterItem, At
<1>10. u # NoTick
  BY <1>4, TickFacts
<1>11. t.step = "put.ack" /\ t.command = s.command /\ t.local = l
  BY <1>9
<1>12. l.tick # NoTick /\ l.tick.len.tail /\ t = [step |-> t.step, command |-> t.command, local |-> t.local]
  BY <1>1, <1>2, <1>4, <1>7, <1>9, <1>10, <1>11
<1>13. ServerOk(t)
  BY <1>1, <1>7, <1>8, <1>11, <1>12 DEF ServerOk, ServerSteps
<1>14. /\ t.local.tick.len = k.len /\ t.local.tick.buf[p] = v
       /\ \A j \in 0..k.len.chunks : j # p => t.local.tick.buf[j] = k.buf[j]
  BY <1>4, <1>7, <1>11
<1> QED
  BY <1>2, <1>7, <1>11, <1>13, <1>14

LEMMA ServerHearsAck ==
  ASSUME NEW s, ServerOk(s), s.step = "ack", NEW v, NEW t, t = AfterItem(s, v)
  PROVE  /\ ServerOk(t) /\ t.command = s.command
         /\ t.step = IF s.local.piece = 0 THEN "reply.time" ELSE "reply.piece"
         /\ t.local.tick = s.local.tick /\ t.local.piece = Before(s.local.piece)
         /\ t.local.rtn = s.local.rtn
<1>1. /\ s.command = "pull_tick" /\ s.command \in Commands /\ s.local \in Locals /\ InTick(s.local)
      /\ s.local.tick # NoTick
  BY DEF ServerOk
<1>2. PICK l : l = [s.local EXCEPT !.piece = Before(@)]
  OBVIOUS
<1>3. s.local.piece \in Nat
  BY <1>1 DEF Locals
<1>4. Before(s.local.piece) \in Nat
  BY <1>3 DEF Before
<1>5. /\ l \in Locals /\ l.tick = s.local.tick /\ l.piece = Before(s.local.piece)
      /\ l.rtn = s.local.rtn
  BY <1>1, <1>2, <1>4 DEF Locals
<1>6. InTick(l)
  <2>1. PICK n, p : n = s.local.tick.len.chunks /\ p = s.local.piece
    OBVIOUS
  <2>2. s.local.tick \in Ticks /\ p \in 0..n
    BY <1>1, <2>1 DEF InTick
  <2>3. n \in Nat
    BY <2>1, <2>2, TickFacts
  <2>4. Before(p) \in 0..n
    BY <2>2, <2>3, BeforeFacts
  <2> QED
    BY <1>5, <2>1, <2>2, <2>4 DEF InTick
<1>7. t = [step |-> IF s.local.piece = 0 THEN "reply.time" ELSE "reply.piece",
           command |-> s.command, local |-> l]
  BY <1>2 DEF AfterItem, At
<1>8. ServerOk(t)
  BY <1>1, <1>5, <1>6, <1>7, OpFacts DEF ServerOk, ServerSteps
<1> QED
  BY <1>5, <1>7, <1>8

\* A write of the client, both are there.
LEMMA ClientWriteBoth ==
  ASSUME NEW i, NEW step, NEW m, gone = {}, ClientWrite(i, step, m)
  PROVE  /\ up' = Append(up, i) /\ UNCHANGED <<down, ends, call, servervars>>
         /\ ClientGoto(step, m) /\ ClientNow' = On(step, m, result) /\ client' = step
BY DEF ClientWrite, ClientGoto, ClientNow, On

LEMMA ClientPutKeeps ==
  ASSUME WireInv, gone = {}, ClientPut
  PROVE  WireInv'
<1>1. client = "put.piece" /\ client \notin ClientReads
  BY DEF ClientPut, ClientReads
<1>2. down = <<>> /\ ClientOk(call, ClientNow)
  BY <1>1, ClientBusy
<1>3. PICK S, s, b : ServerRun(S) /\ s = S[Len(up)] /\ ServerOk(s) /\ b = ClientNow /\ Together(b, s)
  BY <1>1, ClientBusy
<1>4. b.step = client /\ b.mine = mine /\ b.result = result
  BY <1>3 DEF ClientNow
<1>5. Pushing(b, s)
  BY <1>1, <1>3, <1>4, TogetherSteps
<1>6. /\ call \in Calls /\ call.op = "push_tick" /\ done = NotDone
      /\ mine.piece \in 0..call.len.chunks /\ mine \in Mines /\ InTick(mine)
  BY <1>1, <1>2, <1>4, <1>5, ClientKnowsNow DEF Pushing
<1>7. call.len \in Lengths /\ call.data \in Data
  BY <1>6, CallFacts
<1>8. CASE mine.piece = call.len.chunks /\ ~call.len.tail
  <2>1. s.step = "command"
    BY <1>1, <1>4, <1>5, <1>8 DEF Pushing
  <2>2. ClientReturn(Error("WRITE_ERROR")) /\ UNCHANGED <<streams, ends, call, servervars>>
    BY <1>8 DEF ClientPut
  <2>3. PICK v : v = Error("WRITE_ERROR")
    OBVIOUS
  <2>4. /\ ClientNow' = Over(v) /\ ClientOk(call, ClientNow') /\ client' = "idle"
    BY <2>2, <2>3, ClientReturnOk
  <2>5. PICK c : c = ClientNow'
    OBVIOUS
  <2>6. c.step = "idle" /\ c.result = v
    BY <2>4, <2>5, OverOk
  <2>7. v.status = "WRITE_ERROR"
    BY <2>3 DEF Error
  <2>8. UNCHANGED <<streams, ends, server, command, local, store>> /\ call' = call /\ done' = done
    BY <2>2 DEF servervars
  <2>9. AtRest(c, s)'
    BY <1>6, <2>1, <2>6, <2>7, <2>8 DEF AtRest, Real
  <2>10. /\ ClientOk(call', ClientNow') /\ call' \in Calls \cup {NoCall, Closing}
         /\ done' = [call |-> done'.call, res |-> done'.res]
    BY <1>6, <2>4, <2>8 DEF NotDone
  <2> QED
    BY <1>2, <1>3, <2>4, <2>5, <2>8, <2>9, <2>10, ClientMovesKeeps DEF Together
<1>9. CASE ~(mine.piece = call.len.chunks /\ ~call.len.tail)
  <2>1. s.step = "piece" /\ call.len.tail /\ Taken(b, s, mine.piece + 1)
    BY <1>1, <1>4, <1>5, <1>9 DEF Pushing
  <2>2. /\ s.command = "push_tick" /\ s.local.id = call.id /\ s.local.tick.len = call.len
        /\ s.local.piece = mine.piece
        /\ \A j \in (mine.piece + 1)..call.len.chunks : s.local.tick.buf[j] = Piece(call.data, j)
    BY <1>4, <2>1 DEF Taken
  <2>3. PICK v, i : v = Piece(call.data, mine.piece) /\ i = Item("piece", v)
    OBVIOUS
  <2>4. v \in Data \X (0..s.local.tick.len.chunks)
    BY <1>6, <1>7, <2>2, <2>3 DEF Piece
  <2>5. i \in UpItems /\ i.kind = s.step /\ i.val = v
    <3>1. mine.piece \in Nat
      BY <1>6 DEF Mines
    <3> QED
      BY <1>7, <2>1, <2>3, <3>1 DEF Piece, Item, UpItems
  <2>6. PICK t : t = AfterItem(s, v)
    OBVIOUS
  <2>7. /\ ServerOk(t) /\ t.step = "put.ack" /\ t.command = s.command
        /\ t.local.id = s.local.id /\ t.local.piece = s.local.piece
        /\ t.local.tick.len = s.local.tick.len /\ t.local.tick.buf[s.local.piece] = v
        /\ \A j \in 0..s.local.tick.len.chunks :
             j # s.local.piece => t.local.tick.buf[j] = s.local.tick.buf[j]
    BY SMTT(30), <1>3, <2>1, <2>4, <2>6, ServerHearsPiece
  <2>8. ClientWrite(i, "get.ack", mine)
    BY <1>9, <2>3 DEF ClientPut
  <2>9. /\ up' = Append(up, i) /\ UNCHANGED <<down, ends, call, servervars>>
        /\ ClientNow' = On("get.ack", mine, result) /\ client' = "get.ack"
    <3>1. PICK m : m = mine
      OBVIOUS
    <3> QED
      BY <2>8, <3>1, ClientWriteBoth
  <2>10. PICK c : c = ClientNow'
    OBVIOUS
  <2>11. c = [step |-> "get.ack", mine |-> mine, result |-> result]
    BY <2>9, <2>10 DEF On
  <2>12. ClientOk(call, c)
    BY <1>6, <2>11 DEF ClientOk, ClientSteps, ClientReads
  <2>13. Taken(c, t, mine.piece)
    <3>1. PICK k, n : k = mine.piece /\ n = call.len.chunks
      OBVIOUS
    <3>2. n \in Nat /\ k \in 0..n
      BY <1>6, <1>7, <3>1, LengthFacts
    <3>3. \A j \in k..n : j \in 0..n /\ (j = k \/ j \in (k + 1)..n)
      BY <3>2
    <3>4. ASSUME NEW j \in k..n PROVE t.local.tick.buf[j] = Piece(call.data, j)
      <4>1. CASE j = k
        BY <2>2, <2>3, <2>7, <3>1, <4>1
      <4>2. CASE j # k
        BY <2>2, <2>7, <3>1, <3>3, <4>2
      <4> QED
        BY <4>1, <4>2
    <3> QED
      BY <2>2, <2>7, <2>11, <3>1, <3>4 DEF Taken
  <2>14. Together(c, t)
    BY <1>6, <2>1, <2>7, <2>11, <2>13 DEF Together, Pushing
  <2>15. /\ ServerOk(AfterItem(s, i.val)) /\ Together(c, AfterItem(s, i.val))
         /\ ClientOk(call, ClientNow')
    BY <2>5, <2>6, <2>7, <2>10, <2>12, <2>14
  <2> QED
    BY <1>2, <1>3, <2>5, <2>9, <2>10, <2>15, ClientWriteKeeps
<1> QED
  BY <1>8, <1>9

LEMMA ClientPutAckKeeps ==
  ASSUME WireInv, gone = {}, ClientPutAck
  PROVE  WireInv'
<1>1. client = "put.ack" /\ client \notin ClientReads
  BY DEF ClientPutAck, ClientReads
<1>2. down = <<>> /\ ClientOk(call, ClientNow)
  BY <1>1, ClientBusy
<1>3. PICK S, s, b : ServerRun(S) /\ s = S[Len(up)] /\ ServerOk(s) /\ b = ClientNow /\ Together(b, s)
  BY <1>1, ClientBusy
<1>4. b.step = client /\ b.mine = mine /\ b.result = result
  BY <1>3 DEF ClientNow
<1>5. Replying(b, s)
  BY <1>1, <1>3, <1>4, TogetherSteps
<1>6. /\ call \in Calls /\ s.command = call.op /\ Executed(s) /\ s.step = "ack"
      /\ s.local.tick \in store
      /\ \E at \in Times :
           s.local.rtn = [status |-> "SUCCESS", tick |-> s.local.tick, time |-> at]
      /\ Copied(b, s, mine.piece)
  BY <1>1, <1>4, <1>5 DEF Replying
<1>7. /\ mine \in Mines /\ InTick(mine) /\ mine.tick # NoTick
      /\ mine.tick.len = s.local.tick.len /\ mine.piece = s.local.piece
      /\ \A j \in mine.piece..mine.tick.len.chunks : mine.tick.buf[j] = s.local.tick.buf[j]
  BY <1>1, <1>2, <1>4, <1>6, ClientKnowsNow DEF Copied
<1>8. s.local.tick \in Ticks /\ mine.tick \in Ticks
  BY <1>6, <1>7 DEF WireInv, TypeInv, InTick
<1>9. PICK v, i : v = "SUCCESS" /\ i = Item("ack", v)
  OBVIOUS
<1>10. i \in UpItems /\ i.kind = s.step /\ i.val = v
  BY <1>6, <1>9 DEF Item, UpItems
<1>11. PICK t : t = AfterItem(s, v) /\ t = AfterItem(s, i.val)
  BY <1>10
<1>12. /\ ServerOk(t) /\ t.command = s.command
       /\ t.step = IF s.local.piece = 0 THEN "reply.time" ELSE "reply.piece"
       /\ t.local.tick = s.local.tick /\ t.local.piece = Before(s.local.piece)
       /\ t.local.rtn = s.local.rtn
  BY <1>3, <1>6, <1>11, ServerHearsAck
<1>13. PICK m, step : /\ m = [mine EXCEPT !.piece = Before(@)]
                      /\ step = IF mine.piece = 0 THEN "time" ELSE "piece"
  OBVIOUS
<1>14. ClientWrite(i, step, m)
  BY <1>9, <1>13 DEF ClientPutAck
<1>15. /\ up' = Append(up, i) /\ UNCHANGED <<down, ends, call, servervars>>
       /\ ClientGoto(step, m) /\ client' = step
  BY <1>14, ClientWriteBoth
<1>16. ClientGoto(IF mine.piece = 0 THEN "time" ELSE "piece", m)
  BY <1>13, <1>15
<1>17. /\ ClientOk(call, ClientNow') /\ m.tick = mine.tick /\ m.piece = Before(mine.piece)
       /\ ClientNow' = On(IF mine.piece = 0 THEN "time" ELSE "piece", m, result)
  BY <1>1, <1>2, <1>13, <1>16, ClientPutAckOk
<1>18. PICK c : c = ClientNow'
  OBVIOUS
<1>19. c.step = step /\ c.mine = m
  BY <1>13, <1>17, <1>18 DEF On
<1>20. Executed(t)
  BY <1>6, <1>12 DEF Executed
<1>21. Together(c, t)
  <2>1. CASE mine.piece = 0
    <3>1. mine.tick = s.local.tick
      BY <1>7, <1>8, <2>1, SameTick
    <3>2. c.step = "time" /\ t.step = "reply.time" /\ c.mine.tick = t.local.tick
      BY <1>7, <1>12, <1>13, <1>17, <1>19, <2>1, <3>1
    <3>3. Replying(c, t)
      BY <1>6, <1>12, <1>20, <3>2 DEF Replying
    <3> QED
      BY <3>3 DEF Together
  <2>2. CASE mine.piece # 0
    <3>1. PICK n, p : n = mine.tick.len.chunks /\ p = mine.piece
      OBVIOUS
    <3>2. n \in Nat /\ p \in 0..n
      BY <1>7, <1>8, <3>1, TickFacts DEF InTick
    <3>3. Before(p) + 1 = p
      BY <2>2, <3>1, <3>2, BeforeFacts
    <3>4. c.mine.piece + 1 = p
      BY <1>17, <1>19, <3>1, <3>3
    <3>5. Copied(c, t, c.mine.piece + 1)
      BY <1>7, <1>12, <1>17, <1>19, <3>1, <3>4 DEF Copied
    <3>6. c.step = "piece" /\ t.step = "reply.piece"
      BY <1>7, <1>12, <1>13, <1>19, <2>2
    <3>7. Replying(c, t)
      BY <1>6, <1>12, <1>20, <3>5, <3>6 DEF Replying
    <3> QED
      BY <3>7 DEF Together
  <2> QED
    BY <2>1, <2>2
<1>22. /\ ServerOk(AfterItem(s, i.val)) /\ Together(c, AfterItem(s, i.val))
       /\ client' \notin {"closed", "dead"}
  BY <1>10, <1>11, <1>12, <1>13, <1>15, <1>21
<1> QED
  BY <1>2, <1>3, <1>10, <1>15, <1>17, <1>18, <1>22, ClientWriteKeeps

\* Whatever it is at, a client that has sent an item comes together with the server at t.
MeetsAt(t) ==
  \A c : /\ c.step = ClientSendStep /\ c.mine.out = Tail(mine.out) /\ c.mine.piece = mine.piece
           => Together(c, t)

\* The client writes an item of its request, to which the server goes on to t.
LEMMA ClientSendItem ==
  ASSUME WireInv, gone = {}, ClientSend,
         NEW S, ServerRun(S), NEW s, s = S[Len(up)], NEW i \in UpItems, i = Head(mine.out),
         i.kind = s.step, NEW t, t = AfterItem(s, i.val), ServerOk(t), MeetsAt(t)
  PROVE  WireInv'
<1>1. client = "send" /\ client \notin ClientReads
  BY DEF ClientSend, ClientReads
<1>2. down = <<>> /\ ClientOk(call, ClientNow)
  BY <1>1, ClientBusy
<1>3. PICK m : m = [mine EXCEPT !.out = Tail(@)]
  OBVIOUS
<1>4. ClientWrite(i, ClientSendStep, m)
  BY <1>3 DEF ClientSend, ClientSendStep
<1>5. PICK step : step = ClientSendStep
  OBVIOUS
<1>6. /\ up' = Append(up, i) /\ UNCHANGED <<down, ends, call, servervars>>
      /\ ClientGoto(step, m) /\ client' = step
  BY <1>4, <1>5, ClientWriteBoth
<1>7. ClientGoto(ClientSendStep, m)
  BY <1>5, <1>6
<1>8. /\ ClientOk(call, ClientNow') /\ ClientNow' = On(ClientSendStep, m, result)
      /\ m.out = Tail(mine.out) /\ m.piece = mine.piece
  BY <1>1, <1>2, <1>3, <1>7, ClientSendOk
<1>9. PICK c : c = ClientNow'
  OBVIOUS
<1>10. c.step = ClientSendStep /\ c.mine = m
  BY <1>8, <1>9 DEF On
<1>11. Together(c, t)
  BY <1>8, <1>10 DEF MeetsAt
<1>12. client' \notin {"closed", "dead"}
  BY <1>5, <1>6 DEF ClientSendStep
<1>13. ServerOk(AfterItem(s, i.val)) /\ Together(c, AfterItem(s, i.val))
  BY <1>11
<1> QED
  BY <1>2, <1>6, <1>8, <1>9, <1>12, <1>13, ClientWriteKeeps

LEMMA ClientSendKeeps ==
  ASSUME WireInv, gone = {}, ClientSend
  PROVE  WireInv'
<1>1. client = "send" /\ client \notin ClientReads
  BY DEF ClientSend, ClientReads
<1>3. PICK S, s, b : ServerRun(S) /\ s = S[Len(up)] /\ ServerOk(s) /\ b = ClientNow /\ Together(b, s)
  BY <1>1, ClientBusy
<1>4. b.step = client /\ b.mine = mine /\ b.result = result
  BY <1>3 DEF ClientNow
<1>5. Sending(b, s) \/ Leaving(b, s)
  BY <1>1, <1>3, <1>4, TogetherSteps
<1>6. CASE Leaving(b, s)
  <2>1. PICK i, v : v = "close_connection" /\ i = Item("command", v)
    OBVIOUS
  <2>2. /\ mine.out = <<i>> /\ s.step = "command" /\ call = Closing
    BY <1>1, <1>4, <1>6, <2>1 DEF Leaving
  <2>3. /\ i \in UpItems /\ i.kind = s.step /\ i.val = v /\ v \in Commands
    BY <2>1, <2>2, OpFacts DEF Item, UpItems
  <2>4. Head(mine.out) = i /\ Len(mine.out) = 1
    BY <2>2, TupleFacts
  <2>5. PICK t : t = AfterItem(s, v) /\ t = AfterItem(s, i.val)
    BY <2>3
  <2>6. ServerOk(t) /\ t.step = Dispatch(v)
    BY <1>3, <2>2, <2>3, <2>5, ServerHearsCommand
  <2>7. Dispatch(v) = "exit"
    BY <2>1 DEF Dispatch, NameOps, PullOps, SubscribeOps
  <2>8. ClientSendStep = "close"
    BY <2>2, <2>4 DEF ClientSendStep, Closing
  <2>9. MeetsAt(t)
    BY <2>2, <2>6, <2>7, <2>8 DEF MeetsAt, Together, Leaving
  <2> QED
    BY <1>3, <2>3, <2>4, <2>5, <2>6, <2>9, ClientSendItem
<1>7. CASE Sending(b, s)
  <2>1. /\ call \in Calls /\ done = NotDone /\ call.op \in Ops
        /\ call.op = "push_tick" => mine.piece = call.len.chunks
    BY <1>4, <1>7, CallFacts DEF Sending
  <2>2. call.op \in Commands /\ call.op # "close_connection"
    BY <2>1, OpFacts
  <2>3. CASE mine.out = Request(call) /\ s.step = "command"
    <3>1. PICK i, v : v = call.op /\ i = Item("command", v)
      OBVIOUS
    <3>2. /\ i \in UpItems /\ i.kind = s.step /\ i.val = v /\ v \in Commands
      BY <2>2, <2>3, <3>1 DEF Item, UpItems
    <3>3. PICK t : t = AfterItem(s, v) /\ t = AfterItem(s, i.val)
      BY <3>2
    <3>4. ServerOk(t) /\ t.step = Dispatch(v) /\ t.command = v
      BY <1>3, <2>3, <3>2, <3>3, ServerHearsCommand
    <3>5. Dispatch(v) = IF v \in NameOps THEN "name" ELSE "id"
      BY <2>1, <3>1 DEF Dispatch, Ops
    <3>6. /\ Head(mine.out) = i /\ Len(mine.out) > 1
          /\ call.op \in NameOps => Tail(mine.out) = <<Item("name", call.name)>>
      BY <2>1, <2>3, <3>1, RequestParts
    <3>7. ClientSendStep = "send"
      BY <3>6 DEF ClientSendStep
    <3>8. ASSUME NEW c, c.step = ClientSendStep, c.mine.out = Tail(mine.out),
                 c.mine.piece = mine.piece
          PROVE  Together(c, t)
      <4>1. Sending(c, t)
        BY <2>1, <2>3, <3>1, <3>4, <3>5, <3>6, <3>7, <3>8 DEF Sending
      <4> QED
        BY <4>1 DEF Together
    <3>9. MeetsAt(t)
      BY <3>8 DEF MeetsAt
    <3> QED
      BY <1>3, <3>2, <3>3, <3>4, <3>6, <3>9, ClientSendItem
  <2>4. CASE /\ call.op \in NameOps /\ mine.out = <<Item("name", call.name)>>
             /\ s.step = "name" /\ s.command = call.op
    <3>1. PICK i, v : v = call.name /\ i = Item("name", v)
      OBVIOUS
    <3>2. /\ v \in Names /\ i \in UpItems /\ i.kind = s.step /\ i.val = v
          /\ call = [op |-> call.op, name |-> v]
      BY <2>1, <2>4, <3>1, CallFacts DEF Item, UpItems
    <3>3. Head(mine.out) = i /\ Len(mine.out) = 1
      BY <2>4, <3>1, TupleFacts
    <3>4. PICK t : t = AfterItem(s, v) /\ t = AfterItem(s, i.val)
      BY <3>2
    <3>5. ServerOk(t) /\ t.step = "call" /\ t.command = s.command /\ t.local.name = v
      BY <1>3, <2>4, <3>2, <3>4, ServerHearsName
    <3>6. call.op # "push_tick"
      BY <2>4, OpFacts
    <3>7. Got(t) = Asked
      BY <2>4, <3>2, <3>5, <3>6 DEF Got, Asked
    <3>8. ClientSendStep = "status"
      BY <2>2, <3>3, <3>6 DEF ClientSendStep
    <3>9. MeetsAt(t)
      BY <2>1, <2>4, <3>5, <3>7, <3>8 DEF MeetsAt, Together, Waiting
    <3> QED
      BY <1>3, <3>2, <3>3, <3>4, <3>5, <3>9, ClientSendItem
  <2>5. CASE /\ call.op \notin NameOps /\ mine.out = Tail(Request(call))
             /\ s.step = "id" /\ s.command = call.op
    <3>1. PICK i, v : v = call.id /\ i = Item("id", v)
      OBVIOUS
    <3>2. v \in Ids /\ i \in UpItems /\ i.kind = s.step /\ i.val = v
      BY <2>1, <2>5, <3>1, CallFacts DEF Item, UpItems
    <3>3. PICK t : t = AfterItem(s, v) /\ t = AfterItem(s, i.val)
      BY <3>2
    <3>4. /\ ServerOk(t) /\ t.command = s.command /\ t.local.id = v
          /\ t.step = IF s.command = "push_tick" THEN "len"
                      ELSE IF s.command = "pull_tick_by_datetime" THEN "at" ELSE "call"
      BY <1>3, <2>5, <3>2, <3>3, ServerHearsId
    <3>5. CASE call.op = "push_tick"
      <4>1. mine.out = <<i, Item("len", call.len)>>
        BY <2>1, <2>5, <3>1, <3>5, RequestParts
      <4>2. Head(mine.out) = i /\ Len(mine.out) = 2 /\ Tail(mine.out) = <<Item("len", call.len)>>
        BY <4>1, TupleFacts
      <4>3. ClientSendStep = "send"
        BY <4>2 DEF ClientSendStep
      <4>4. MeetsAt(t)
        BY <2>1, <2>5, <3>1, <3>4, <3>5, <4>2, <4>3 DEF MeetsAt, Together, Sending
      <4> QED
        BY <1>3, <3>2, <3>3, <3>4, <4>2, <4>4, ClientSendItem
    <3>6. CASE call.op = "pull_tick_by_datetime"
      <4>1. mine.out = <<i, Item("at", call.at)>>
        BY <2>1, <2>5, <3>1, <3>6, RequestParts
      <4>2. Head(mine.out) = i /\ Len(mine.out) = 2 /\ Tail(mine.out) = <<Item("at", call.at)>>
        BY <4>1, TupleFacts
      <4>3. ClientSendStep = "send"
        BY <4>2 DEF ClientSendStep
      <4>4. MeetsAt(t)
        BY <2>1, <2>5, <3>1, <3>4, <3>6, <4>2, <4>3 DEF MeetsAt, Together, Sending
      <4> QED
        BY <1>3, <3>2, <3>3, <3>4, <4>2, <4>4, ClientSendItem
    <3>7. CASE call.op \notin {"push_tick", "pull_tick_by_datetime"}
      <4>1. mine.out = <<i>>
        BY <2>1, <2>5, <3>1, <3>7, RequestParts
      <4>2. Head(mine.out) = i /\ Len(mine.out) = 1
        BY <4>1, TupleFacts
      <4>3. ClientSendStep = "status"
        BY <2>2, <3>7, <4>2 DEF ClientSendStep
      <4>4. call = [op |-> call.op, id |-> v]
        BY <2>1, <2>5, <3>1, <3>7, CallFacts
      <4>5. Got(t) = Asked
        BY <2>5, <3>4, <3>7, <4>4 DEF Got, Asked
      <4>6. MeetsAt(t)
        BY <2>1, <2>5, <3>4, <3>7, <4>3, <4>5 DEF MeetsAt, Together, Waiting
      <4> QED
        BY <1>3, <3>2, <3>3, <3>4, <4>2, <4>6, ClientSendItem
    <3> QED
      BY <3>5, <3>6, <3>7
  <2>6. CASE /\ call.op = "push_tick" /\ mine.out = <<Item("len", call.len)>>
             /\ s.step = "len" /\ s.command = call.op /\ s.local.id = call.id
    <3>1. PICK i, v : v = call.len /\ i = Item("len", v)
      OBVIOUS
    <3>2. /\ v \in Lengths /\ i \in UpItems /\ i.kind = s.step /\ i.val = v
          /\ v.chunks \in Nat /\ v.chunks \in 0..v.chunks /\ Raw(v).len = v
          /\ v.tail \in BOOLEAN
      BY <2>1, <2>6, <3>1, CallFacts, LengthFacts, RawTick DEF Item, UpItems
    <3>3. Head(mine.out) = i /\ Len(mine.out) = 1
      BY <2>6, <3>1, TupleFacts
    <3>4. PICK t : t = AfterItem(s, v) /\ t = AfterItem(s, i.val)
      BY <3>2
    <3>5. /\ ServerOk(t) /\ t.command = s.command
          /\ IF v.tail THEN /\ t.step = "piece" /\ t.local.id = s.local.id
                            /\ t.local.tick = Raw(v) /\ t.local.piece = v.chunks
             ELSE t.step = "command"
      BY <1>3, <2>6, <3>2, <3>4, ServerHearsLen
    <3>6. ClientSendStep = "put.piece"
      BY <2>6, <3>3 DEF ClientSendStep
    <3>7. ASSUME NEW c, c.step = ClientSendStep, c.mine.piece = mine.piece
          PROVE  Together(c, t)
      <4>1. c.mine.piece = v.chunks /\ c.mine.piece \in 0..call.len.chunks
        BY <2>1, <2>6, <3>1, <3>2, <3>7
      <4>2. CASE v.tail
        <5>1. Taken(c, t, c.mine.piece + 1)
          <6>1. (v.chunks + 1)..v.chunks = {}
            BY <3>2
          <6>2. /\ t.command = "push_tick" /\ t.local.id = call.id
                /\ t.local.tick.len = call.len /\ t.local.piece = c.mine.piece
            BY <2>6, <3>1, <3>2, <3>5, <4>1, <4>2
          <6> QED
            BY <3>1, <4>1, <6>1, <6>2 DEF Taken
        <5>2. Pushing(c, t)
          BY <2>1, <2>6, <3>1, <3>5, <3>6, <3>7, <4>1, <4>2, <5>1 DEF Pushing
        <5> QED
          BY <5>2 DEF Together
      <4>3. CASE ~v.tail
        <5>1. Pushing(c, t)
          BY <2>1, <2>6, <3>1, <3>5, <3>6, <3>7, <4>1, <4>3 DEF Pushing
        <5> QED
          BY <5>1 DEF Together
      <4> QED
        BY <4>2, <4>3
    <3>8. MeetsAt(t)
      BY <3>7 DEF MeetsAt
    <3> QED
      BY <1>3, <3>2, <3>3, <3>4, <3>5, <3>8, ClientSendItem
  <2>7. CASE /\ call.op = "pull_tick_by_datetime" /\ mine.out = <<Item("at", call.at)>>
             /\ s.step = "at" /\ s.command = call.op /\ s.local.id = call.id
    <3>1. PICK i, v : v = call.at /\ i = Item("at", v)
      OBVIOUS
    <3>2. /\ v \in Times /\ i \in UpItems /\ i.kind = s.step /\ i.val = v
          /\ call = [op |-> call.op, id |-> call.id, at |-> v]
      BY <2>1, <2>7, <3>1, CallFacts DEF Item, UpItems
    <3>3. Head(mine.out) = i /\ Len(mine.out) = 1
      BY <2>7, <3>1, TupleFacts
    <3>4. PICK t : t = AfterItem(s, v) /\ t = AfterItem(s, i.val)
      BY <3>2
    <3>5. /\ ServerOk(t) /\ t.step = "call" /\ t.command = s.command /\ t.local.at = v
          /\ t.local.id = s.local.id
      BY <1>3, <2>7, <3>2, <3>4, ServerHearsAt
    <3>6. Got(t) = Asked
      BY <2>7, <3>2, <3>5, OpFacts DEF Got, Asked
    <3>7. ClientSendStep = "status"
      BY <2>7, <3>3 DEF ClientSendStep
    <3>8. MeetsAt(t)
      BY <2>1, <2>7, <3>5, <3>6, <3>7 DEF MeetsAt, Together, Waiting
    <3> QED
      BY <1>3, <3>2, <3>3, <3>4, <3>5, <3>8, ClientSendItem
  <2> QED
    BY <1>4, <1>7, <2>3, <2>4, <2>5, <2>6, <2>7 DEF Sending
<1> QED
  BY <1>5, <1>6, <1>7

-----------------------------------------------------------------------------
(* An end goes                                                             *)

\* A client that has read a reply is not in the middle of a request.
LEMMA ClientAfter ==
  ASSUME NEW C, ClientRun(C), down \in Seq(DownItems), down # <<>>
  PROVE  C[Len(down)].step \notin {"send", "close"}
<1>1. PICK n, i, b : n = Len(down) /\ i = down[n] /\ b = C[n - 1]
  OBVIOUS
<1>2. n \in Nat /\ n # 0
  BY <1>1
<1>3. n \in 1..n
  BY <1>2
<1>4. i.kind = b.step /\ C[n] = AfterReply(call, b, i.val)
  BY <1>1, <1>3 DEF ClientRun
<1>5. AfterReply(call, b, i.val).step \notin {"send", "close"}
  BY DEF AfterReply, On, Over
<1> QED
  BY <1>1, <1>4, <1>5

\* A server that has read of a request waits for the rest of it or is about to execute it,
\* and answers only after an acknowledgement.
LEMMA ServerAfter ==
  ASSUME NEW S, ServerRun(S), up \in Seq(UpItems), up # <<>>, NEW s, s = S[Len(up)]
  PROVE  /\ s.step \notin {"status", "reply.id", "reply.len", "ack"}
         /\ s.step = "call" => s.command # "push_tick"
         /\ s.step \in {"reply.piece", "reply.time"} => s.command = "pull_tick"
<1>1. PICK n, i, b, v : n = Len(up) /\ i = up[n] /\ b = S[n - 1] /\ v = i.val
  OBVIOUS
<1>2. n \in Nat /\ n # 0
  BY <1>1
<1>3. n \in 1..n /\ n - 1 \in 0..n
  BY <1>2
<1>4. i.kind = b.step /\ s = AfterItem(b, v)
  BY <1>1, <1>3 DEF ServerRun
<1>5. ServerOk(b)
  BY <1>1, <1>3 DEF ServerRun
<1>6. b.step \in ServerReads
  <2>1. i \in UpItems
    BY <1>1, <1>3
  <2> QED
    BY <1>4, <2>1, ItemKinds
<1>7. CASE b.step = "command"
  <2>1. s.step = Dispatch(v)
    BY <1>4, <1>7 DEF AfterItem, At
  <2> QED
    BY <2>1 DEF Dispatch
<1>8. CASE b.step = "name"
  <2>1. s.step = "call" /\ s.command = b.command
    BY <1>4, <1>8 DEF AfterItem, At
  <2>2. b.command \in NameOps
    BY <1>5, <1>8 DEF ServerOk
  <2> QED
    BY <2>1, <2>2, OpFacts
<1>9. CASE b.step = "id"
  <2>1. /\ s.command = b.command
        /\ s.step = IF b.command = "push_tick" THEN "len"
                    ELSE IF b.command = "pull_tick_by_datetime" THEN "at" ELSE "call"
    BY <1>4, <1>9 DEF AfterItem, At
  <2> QED
    BY <2>1
<1>10. CASE b.step = "at"
  <2>1. s.step = "call" /\ s.command = b.command
    BY <1>4, <1>10 DEF AfterItem, At
  <2>2. b.command = "pull_tick_by_datetime"
    BY <1>5, <1>10 DEF ServerOk
  <2> QED
    BY <2>1, <2>2
<1>11. CASE b.step = "len"
  <2>1. s.step \in {"piece", "command"}
    BY <1>4, <1>11 DEF AfterItem, At, Settle
  <2> QED
    BY <2>1
<1>12. CASE b.step = "piece"
  <2>1. s.step = "put.ack"
    BY <1>4, <1>12 DEF AfterItem, At
  <2> QED
    BY <2>1
<1>13. CASE b.step = "ack"
  <2>1. s.step \in {"reply.time", "reply.piece"} /\ s.command = b.command
    BY <1>4, <1>13 DEF AfterItem, At
  <2>2. b.command = "pull_tick"
    BY <1>5, <1>13 DEF ServerOk
  <2> QED
    BY <2>1, <2>2
<1> QED
  BY <1>6, <1>7, <1>8, <1>9, <1>10, <1>11, <1>12, <1>13 DEF ServerReads

\* The client closes or dies.
ClientLeaves(step) ==
  ClientEnds(step) /\ Close("client", down) /\ UNCHANGED <<streams, call, servervars>>

LEMMA ClientLeavesKeeps ==
  ASSUME WireInv, NEW step \in {"closed", "dead"}, client \notin {"closed", "dead"},
         ClientLeaves(step), step = "closed" => client = "close"
  PROVE  WireInv'
<1>1. /\ client' = step /\ mine' = NoneOfMine /\ result' = result /\ call' = call
      /\ up' = up /\ down' = down /\ server' = server /\ command' = command /\ local' = local
      /\ store' = store /\ done' = done /\ gone' = gone \cup {"client"}
      /\ reset' = IF down = <<>> THEN reset ELSE reset \cup ({"client", "server"} \ gone')
  BY DEF ClientLeaves, ClientEnds, Close, streams, servervars
<1>2. gone = {} \/ gone = {"server"}
  BY WhoIsThere DEF WireInv
<1>3. up \in Seq(UpItems) /\ down \in Seq(DownItems)
  BY DEF WireInv, TypeInv
<1>4. TypeInv'
  <2>1. gone' \subseteq {"client", "server"} /\ reset' \subseteq {"client", "server"}
    BY <1>1 DEF WireInv, TypeInv
  <2>2. client' \in ClientSteps
    BY <1>1 DEF ClientSteps
  <2> QED
    BY <1>1, <2>1, <2>2, NoneTyped DEF WireInv, TypeInv
<1>5. GoneInv' /\ StoreInv'
  BY <1>1, <1>2 DEF WireInv, GoneInv, StoreInv
<1>6. CASE gone = {"server"}
  <2>1. gone' = {"client", "server"}
    BY <1>1, <1>6
  <2>2. BothInv' /\ ServerInv' /\ ClientInv'
    BY <2>1 DEF BothInv, ServerInv, ClientInv
  <2> QED
    BY <1>4, <1>5, <2>2 DEF WireInv
<1>7. CASE gone = {}
  <2>1. gone' = {"client"}
    BY <1>1, <1>7
  <2>2. reset = {}
    BY <1>7 DEF WireInv, TypeInv, GoneInv
  <2>3. PICK S, C : /\ ServerRun(S) /\ ClientRun(C) /\ (up = <<>> \/ down = <<>>)
                    /\ Together(C[Len(down)], S[Len(up)])
    BY <1>7 DEF WireInv, BothInv
  <2>4. PICK c, s : c = C[Len(down)] /\ s = S[Len(up)]
    OBVIOUS
  <2>5. Together(c, s)
    BY <2>3, <2>4
  <2>6. ServerNow' = ServerNow
    BY <1>1 DEF ServerNow
  <2>7. ServerRun(S)' /\ S[Len(up)'] = s
    BY <1>1, <2>3, <2>4, <2>6, ServerStays
  <2>8. done # NotDone => s.step \notin {"piece", "put.ack", "call"}
    <3>1. s.step \in {"piece", "put.ack"} => Pushing(c, s)
      BY <2>5, TogetherSteps
    <3>2. s.step = "call" => Waiting(c, s)
      BY <2>5, TogetherSteps
    <3> QED
      BY <3>1, <3>2 DEF Pushing, Waiting
  <2>9. down # <<>> => up = <<>> /\ s.step \notin {"name", "id", "at", "len"}
    <3> SUFFICES ASSUME down # <<>>
                 PROVE  up = <<>> /\ s.step \notin {"name", "id", "at", "len"}
      OBVIOUS
    <3>1. c.step # "send"
      BY <1>3, <2>3, <2>4, ClientAfter
    <3>2. s.step \in {"name", "id", "at", "len"} => Sending(c, s)
      BY <2>5, TogetherSteps
    <3> QED
      BY <2>3, <3>1, <3>2 DEF Sending
  <2>10. "server" \in reset' => down # <<>>
    BY <1>1, <2>2
  <2>11. client' = "closed" => down = <<>> /\ s.step = "exit"
    <3> SUFFICES ASSUME client = "close"
                 PROVE  down = <<>> /\ s.step = "exit"
      BY <1>1
    <3>1. client \notin ClientReads
      BY DEF ClientReads
    <3>2. down = <<>> /\ C[Len(down)] = ClientNow
      BY <1>3, <2>3, <3>1, ClientAtStep
    <3>3. c.step = "close"
      BY <2>4, <3>2 DEF ClientNow
    <3> QED
      BY <2>5, <3>2, <3>3, TogetherSteps DEF Leaving
  <2>12. AloneServer(s)'
    BY <1>1, <2>8, <2>9, <2>10, <2>11 DEF AloneServer
  <2>13. ServerInv'
    BY <2>7, <2>12 DEF ServerInv
  <2>14. BothInv' /\ ClientInv'
    BY <2>1 DEF BothInv, ClientInv
  <2> QED
    BY <1>4, <1>5, <2>13, <2>14 DEF WireInv
<1> QED
  BY <1>2, <1>6, <1>7

LEMMA ClientCloseKeeps ==
  ASSUME WireInv, ClientClose
  PROVE  WireInv'
<1>1. ClientLeaves("closed") /\ client = "close"
  BY DEF ClientClose, ClientLeaves
<1> QED
  BY <1>1, ClientLeavesKeeps

LEMMA ClientCrashKeeps ==
  ASSUME WireInv, ClientCrash
  PROVE  WireInv'
<1>1. ClientLeaves("dead") /\ client \notin {"closed", "dead"}
  BY DEF ClientCrash, ClientLeaves
<1> QED
  BY <1>1, ClientLeavesKeeps

LEMMA ServerStopKeeps ==
  ASSUME WireInv, ServerStop
  PROVE  WireInv'
<1>1. /\ server' = "stopped" /\ local' = NoLocal /\ command' = command
      /\ up' = up /\ down' = down /\ client' = client /\ call' = call /\ mine' = mine
      /\ result' = result /\ store' = store /\ done' = done /\ gone' = gone \cup {"server"}
      /\ reset' = IF up = <<>> THEN reset ELSE reset \cup ({"client", "server"} \ gone')
  BY DEF ServerStop, ServerGoto, Close, streams, clientvars
<1>2. gone = {} \/ gone = {"client"}
  BY DEF ServerStop, WireInv, TypeInv
<1>3. up \in Seq(UpItems) /\ down \in Seq(DownItems)
  BY DEF WireInv, TypeInv
<1>4. TypeInv'
  <2>1. gone' \subseteq {"client", "server"} /\ reset' \subseteq {"client", "server"}
    BY <1>1 DEF WireInv, TypeInv
  <2>2. server' \in ServerSteps
    BY <1>1 DEF ServerSteps
  <2> QED
    BY <1>1, <2>1, <2>2, NoneTyped DEF WireInv, TypeInv
<1>5. GoneInv' /\ StoreInv'
  BY <1>1, <1>2 DEF WireInv, GoneInv, StoreInv
<1>6. CASE gone = {"client"}
  <2>1. gone' = {"client", "server"}
    BY <1>1, <1>6
  <2>2. BothInv' /\ ServerInv' /\ ClientInv'
    BY <2>1 DEF BothInv, ServerInv, ClientInv
  <2> QED
    BY <1>4, <1>5, <2>2 DEF WireInv
<1>7. CASE gone = {}
  <2>1. gone' = {"server"}
    BY <1>1, <1>7
  <2>2. reset = {}
    BY <1>7 DEF WireInv, TypeInv, GoneInv
  <2>3. PICK S, C : /\ ServerRun(S) /\ ClientRun(C) /\ (up = <<>> \/ down = <<>>)
                    /\ Together(C[Len(down)], S[Len(up)])
    BY <1>7 DEF WireInv, BothInv
  <2>4. PICK c, s : c = C[Len(down)] /\ s = S[Len(up)]
    OBVIOUS
  <2>5. Together(c, s)
    BY <2>3, <2>4
  <2>6. ClientNow' = ClientNow
    BY <1>1 DEF ClientNow
  <2>7. ClientRun(C)' /\ C[Len(down)'] = c
    BY <1>1, <2>3, <2>4, <2>6, ClientStays
  <2>8. c.step = "idle" => Real(c.result)'
    <3>1. c.step = "idle" => Real(c.result)
      BY <2>5, TogetherSteps DEF AtRest
    <3>2. Real(c.result) => Real(c.result)'
      BY <1>1, <2>1 DEF Real, Asked
    <3> QED
      BY <3>1, <3>2
  <2>9. c.step = "send" /\ call # Closing => done = NotDone
    BY <2>5, TogetherSteps DEF Sending, Leaving
  <2>10. c.step = "put.piece" => done = NotDone
    BY <2>5, TogetherSteps DEF Pushing
  <2>11. ASSUME up # <<>>
         PROVE  /\ down = <<>> /\ c.step \notin {"id", "len", "put.ack"}
                /\ c.step = "status" => call.op # "push_tick"
                /\ c.step = "piece" => call.op = "pull_tick"
                /\ c.step = "time" => /\ call.op = "pull_tick" /\ done.call = Asked
                                      /\ c.mine.tick = done.res.tick
    <3>1. /\ s.step \notin {"status", "reply.id", "reply.len", "ack"}
          /\ s.step = "call" => s.command # "push_tick"
          /\ s.step \in {"reply.piece", "reply.time"} => s.command = "pull_tick"
      BY <1>3, <2>3, <2>4, <2>11, ServerAfter
    <3>2. c.step \in {"id", "len", "piece", "put.ack", "time"} => Replying(c, s)
      BY <2>5, TogetherSteps
    <3>3. c.step = "status" => Waiting(c, s)
      BY <2>5, TogetherSteps
    <3>4. c.step \notin {"id", "len", "put.ack"}
      BY <3>1, <3>2 DEF Replying
    <3>5. c.step = "status" => call.op # "push_tick"
      BY <3>1, <3>3 DEF Waiting
    <3>6. c.step = "piece" => call.op = "pull_tick"
      BY <3>1, <3>2 DEF Replying
    <3>7. c.step = "time" => /\ call.op = "pull_tick" /\ done.call = Asked
                             /\ c.mine.tick = done.res.tick
      <4> SUFFICES ASSUME c.step = "time"
                   PROVE  /\ call.op = "pull_tick" /\ done.call = Asked
                          /\ c.mine.tick = done.res.tick
        OBVIOUS
      <4>1. /\ s.command = call.op /\ done = [call |-> Asked, res |-> s.local.rtn]
            /\ s.step = "reply.time" /\ c.mine.tick = s.local.tick
            /\ \E at \in Times :
                 s.local.rtn = [status |-> "SUCCESS", tick |-> s.local.tick, time |-> at]
        BY <3>2 DEF Replying, Executed
      <4> QED
        BY <3>1, <4>1
    <3> QED
      BY <2>3, <2>11, <3>4, <3>5, <3>6, <3>7
  <2>12. "client" \in reset' => up # <<>>
    BY <1>1, <2>2
  <2>13. Asked' = Asked
    BY <1>1 DEF Asked
  <2>14. AloneClient(c)'
    BY <1>1, <2>8, <2>9, <2>10, <2>11, <2>12, <2>13 DEF AloneClient
  <2>15. ClientInv'
    BY <2>7, <2>14 DEF ClientInv
  <2>16. BothInv' /\ ServerInv'
    BY <2>1 DEF BothInv, ServerInv
  <2> QED
    BY <1>4, <1>5, <2>15, <2>16 DEF WireInv
<1> QED
  BY <1>2, <1>6, <1>7

-----------------------------------------------------------------------------
(* The client's steps when the server is gone                              *)

LEMMA ClientAlone ==
  ASSUME WireInv, gone = {"server"}, down = <<>>, UNCHANGED <<streams, gone, server, command, local, store>>,
         reset' \subseteq reset, client' \notin {"closed", "dead"},
         ClientOk(call', ClientNow'), call' \in Calls \cup {NoCall, Closing},
         done' = [call |-> done'.call, res |-> done'.res],
         NEW c, c = ClientNow', AloneClient(c)'
  PROVE  WireInv'
<1>1. /\ up' = up /\ down' = <<>> /\ gone' = {"server"} /\ server' = server
      /\ command' = command /\ local' = local /\ store' = store
  BY DEF streams
<1>2. TypeInv'
  <2>1. client' \in ClientSteps /\ mine' \in Mines
    BY DEF ClientOk, ClientNow
  <2>2. down' \in Seq(DownItems)
    BY <1>1
  <2> QED
    BY <1>1, <2>1, <2>2 DEF WireInv, TypeInv
<1>3. client \notin {"closed", "dead"}
  BY DEF WireInv, GoneInv
<1>4. GoneInv' /\ StoreInv'
  BY <1>1, <1>3 DEF WireInv, GoneInv, StoreInv
<1>5. PICK C : ClientRun(C)' /\ C[Len(down)'] = c
  BY <1>1, ClientStarts
<1>6. ClientInv'
  BY <1>5 DEF ClientInv
<1>7. BothInv' /\ ServerInv'
  BY <1>1 DEF BothInv, ServerInv
<1> QED
  BY <1>2, <1>4, <1>6, <1>7 DEF WireInv

\* What is known of a client whose server is gone, where it finds nothing to read.
LEMMA ClientAloneFacts ==
  ASSUME WireInv, gone = {"server"}, down = <<>> \/ client \notin ClientReads
  PROVE  /\ down = <<>> /\ ClientOk(call, ClientNow) /\ call \in Calls \cup {NoCall, Closing}
         /\ done = [call |-> done.call, res |-> done.res]
         /\ \E b : b = ClientNow /\ b.step = client /\ b.mine = mine /\ b.result = result /\ AloneClient(b)
<1>1. PICK C : ClientRun(C) /\ AloneClient(C[Len(down)])
  BY DEF WireInv, ClientInv
<1>2. down \in Seq(DownItems)
  BY DEF WireInv, TypeInv
<1>3. down = <<>>
  BY <1>1, <1>2, ClientAtStep
<1>4. C[Len(down)] = ClientNow /\ ClientOk(call, ClientNow)
  BY <1>1, <1>2, <1>3, ClientAtItem
<1>5. PICK b : b = ClientNow
  OBVIOUS
<1>6. b.step = client /\ b.mine = mine /\ b.result = result /\ AloneClient(b)
  BY <1>1, <1>4, <1>5 DEF ClientNow
<1> QED
  BY <1>3, <1>4, <1>5, <1>6 DEF WireInv, TypeInv

LEMMA CallAlone ==
  ASSUME WireInv, gone = {"server"}, NEW r \in Calls, Call(r)
  PROVE  WireInv'
<1>1. client = "idle" /\ client \notin ClientReads
  BY DEF Call, ClientReads
<1>2. down = <<>>
  BY <1>1, ClientAloneFacts
<1>3. /\ call' = r /\ ClientOk(call', ClientNow') /\ client' = "send" /\ done' = NotDone
      /\ UNCHANGED <<streams, ends, server, command, local, store>>
  BY CallOk
<1>4. PICK c : c = ClientNow'
  OBVIOUS
<1>5. c.step = "send"
  BY <1>3, <1>4 DEF ClientNow
<1>6. UNCHANGED <<streams, gone, server, command, local, store>> /\ reset' = reset /\ down' = <<>>
  BY <1>2, <1>3 DEF ends, streams
<1>7. AloneClient(c)'
  BY <1>3, <1>5, <1>6 DEF AloneClient
<1>8. done' = [call |-> done'.call, res |-> done'.res]
  BY <1>3 DEF NotDone
<1> QED
  BY <1>2, <1>3, <1>4, <1>6, <1>7, <1>8, ClientAlone

LEMMA CloseConnectionAlone ==
  ASSUME WireInv, gone = {"server"}, CloseConnection
  PROVE  WireInv'
<1>1. client = "idle" /\ client \notin ClientReads
  BY DEF CloseConnection, ClientReads
<1>2. down = <<>> /\ done = [call |-> done.call, res |-> done.res]
  BY <1>1, ClientAloneFacts
<1>3. /\ call' = Closing /\ ClientOk(call', ClientNow') /\ client' = "send" /\ done' = done
      /\ UNCHANGED <<streams, ends, server, command, local, store>>
  BY CloseConnectionOk
<1>4. PICK c : c = ClientNow'
  OBVIOUS
<1>5. c.step = "send"
  BY <1>3, <1>4 DEF ClientNow
<1>6. UNCHANGED <<streams, gone, server, command, local, store>> /\ reset' = reset /\ down' = <<>>
  BY <1>2, <1>3 DEF ends, streams
<1>7. AloneClient(c)'
  BY <1>3, <1>5, <1>6 DEF AloneClient
<1>8. done' = [call |-> done'.call, res |-> done'.res]
  BY <1>2, <1>3
<1> QED
  BY <1>2, <1>3, <1>4, <1>6, <1>7, <1>8, ClientAlone

\* A write of the client, which is lost or kills it.
LEMMA ClientWriteAlone ==
  ASSUME WireInv, gone = {"server"}, NEW i, NEW step, NEW m, ClientWrite(i, step, m)
  PROVE  \/ ClientLeaves("dead")
         \/ /\ ClientGoto(step, m) /\ client' = step /\ call' = call /\ done' = done
            /\ UNCHANGED <<streams, gone, server, command, local, store>> /\ reset' = reset
BY DEF ClientWrite, ClientLeaves, ClientGoto, streams, ends, servervars

LEMMA ClientSendAlone ==
  ASSUME WireInv, gone = {"server"}, ClientSend
  PROVE  WireInv'
<1>1. client = "send" /\ client \notin ClientReads
  BY DEF ClientSend, ClientReads
<1>2. /\ down = <<>> /\ ClientOk(call, ClientNow) /\ call \in Calls \cup {NoCall, Closing}
      /\ done = [call |-> done.call, res |-> done.res]
  BY <1>1, ClientAloneFacts
<1>3. PICK b : b.step = client /\ AloneClient(b)
  BY <1>1, ClientAloneFacts
<1>4. PICK m, i, step : /\ m = [mine EXCEPT !.out = Tail(@)] /\ i = Head(mine.out)
                        /\ step = ClientSendStep
  OBVIOUS
<1>5. ClientWrite(i, step, m)
  BY <1>4 DEF ClientSend, ClientSendStep
<1>6. CASE ClientLeaves("dead")
  BY <1>1, <1>6, ClientLeavesKeeps
<1>7. CASE /\ ClientGoto(step, m) /\ client' = step /\ call' = call /\ done' = done
           /\ UNCHANGED <<streams, gone, server, command, local, store>> /\ reset' = reset
  <2>1. ClientGoto(ClientSendStep, m)
    BY <1>4, <1>7
  <2>2. ClientOk(call, ClientNow')
    BY <1>1, <1>2, <1>4, <2>1, ClientSendOk
  <2>3. PICK c : c = ClientNow'
    OBVIOUS
  <2>4. c.step = ClientSendStep
    BY <1>4, <1>7, <2>3 DEF ClientNow
  <2>5. /\ ClientSendStep \in {"send", "put.piece", "close", "status"}
        /\ ClientSendStep = "put.piece" => call.op = "push_tick"
        /\ ClientSendStep = "status" => call.op # "push_tick"
    BY DEF ClientSendStep
  <2>6. call.op = "push_tick" => call # Closing
    BY DEF Closing
  <2>7. down' = <<>>
    BY <1>2, <1>7 DEF streams
  <2>8. call # Closing => done = NotDone
    BY <1>1, <1>3 DEF AloneClient
  <2>9. AloneClient(c)'
    BY <1>7, <2>4, <2>5, <2>6, <2>7, <2>8 DEF AloneClient
  <2>10. /\ reset' \subseteq reset /\ client' \notin {"closed", "dead"} /\ ClientOk(call', ClientNow')
         /\ call' \in Calls \cup {NoCall, Closing}
         /\ done' = [call |-> done'.call, res |-> done'.res]
    BY <1>2, <1>4, <1>7, <2>2, <2>5
  <2> QED
    BY <1>2, <1>7, <2>3, <2>9, <2>10, ClientAlone
<1> QED
  BY <1>5, <1>6, <1>7, ClientWriteAlone

LEMMA ClientPutAlone ==
  ASSUME WireInv, gone = {"server"}, ClientPut
  PROVE  WireInv'
<1>1. client = "put.piece" /\ client \notin ClientReads
  BY DEF ClientPut, ClientReads
<1>2. /\ down = <<>> /\ ClientOk(call, ClientNow) /\ call \in Calls \cup {NoCall, Closing}
      /\ done = [call |-> done.call, res |-> done.res]
  BY <1>1, ClientAloneFacts
<1>3. PICK b : b.step = client /\ b.mine = mine /\ AloneClient(b)
  BY <1>1, ClientAloneFacts
<1>4. CASE mine.piece = call.len.chunks /\ ~call.len.tail
  <2>1. ClientReturn(Error("WRITE_ERROR")) /\ UNCHANGED <<streams, ends, call, servervars>>
    BY <1>4 DEF ClientPut
  <2>2. PICK v : v = Error("WRITE_ERROR")
    OBVIOUS
  <2>3. ClientNow' = Over(v) /\ ClientOk(call, ClientNow') /\ client' = "idle"
    BY <2>1, <2>2, ClientReturnOk
  <2>4. PICK c : c = ClientNow'
    OBVIOUS
  <2>5. c.step = "idle" /\ c.result = v
    BY <2>3, <2>4, OverOk
  <2>6. v.status = "WRITE_ERROR"
    BY <2>2 DEF Error
  <2>7. /\ UNCHANGED <<streams, gone, server, command, local, store>> /\ reset' = reset
        /\ call' = call /\ done' = done /\ down' = <<>>
    BY <1>2, <2>1 DEF servervars, ends, streams
  <2>8. done = NotDone
    BY <1>1, <1>3, <1>4 DEF AloneClient
  <2>9. Real(c.result)'
    BY <2>5, <2>6, <2>7, <2>8 DEF Real
  <2>10. AloneClient(c)'
    BY <2>5, <2>7, <2>9 DEF AloneClient
  <2>11. /\ reset' \subseteq reset /\ client' \notin {"closed", "dead"} /\ ClientOk(call', ClientNow')
         /\ call' \in Calls \cup {NoCall, Closing}
         /\ done' = [call |-> done'.call, res |-> done'.res]
    BY <1>2, <2>3, <2>7
  <2> QED
    BY <1>2, <2>4, <2>7, <2>10, <2>11, ClientAlone
<1>5. CASE ~(mine.piece = call.len.chunks /\ ~call.len.tail)
  <2>1. PICK i, m, step : /\ i = Item("piece", Piece(call.data, mine.piece)) /\ m = mine
                          /\ step = "get.ack"
    OBVIOUS
  <2>2. ClientWrite(i, step, m)
    BY <1>5, <2>1 DEF ClientPut
  <2>3. CASE ClientLeaves("dead")
    BY <1>1, <2>3, ClientLeavesKeeps
  <2>4. CASE /\ ClientGoto(step, m) /\ client' = step /\ call' = call /\ done' = done
             /\ UNCHANGED <<streams, gone, server, command, local, store>> /\ reset' = reset
    <3>1. /\ mine \in Mines /\ InTick(mine) /\ call \in Calls /\ call.op = "push_tick"
          /\ mine.piece \in 0..call.len.chunks
      BY <1>1, <1>2, ClientKnowsNow
    <3>2. PICK c : c = ClientNow'
      OBVIOUS
    <3>3. c = [step |-> "get.ack", mine |-> mine, result |-> result]
      BY <2>1, <2>4, <3>2 DEF ClientGoto, ClientNow
    <3>4. ClientOk(call, c)
      BY <3>1, <3>3 DEF ClientOk, ClientSteps, ClientReads
    <3>5. down' = <<>>
      BY <1>2, <2>4 DEF streams
    <3>6. AloneClient(c)'
      BY <3>3, <3>5 DEF AloneClient
    <3>7. /\ reset' \subseteq reset /\ client' \notin {"closed", "dead"} /\ ClientOk(call', ClientNow')
          /\ call' \in Calls \cup {NoCall, Closing}
          /\ done' = [call |-> done'.call, res |-> done'.res]
      BY <1>2, <2>1, <2>4, <3>2, <3>4
    <3> QED
      BY <1>2, <2>4, <3>2, <3>6, <3>7, ClientAlone
  <2> QED
    BY <2>2, <2>3, <2>4, ClientWriteAlone
<1> QED
  BY <1>4, <1>5

LEMMA ClientPutAckAlone ==
  ASSUME WireInv, gone = {"server"}, ClientPutAck
  PROVE  WireInv'
<1>1. client = "put.ack" /\ client \notin ClientReads
  BY DEF ClientPutAck, ClientReads
<1>2. /\ down = <<>> /\ ClientOk(call, ClientNow) /\ call \in Calls \cup {NoCall, Closing}
      /\ done = [call |-> done.call, res |-> done.res]
  BY <1>1, ClientAloneFacts
<1>3. PICK b : b.step = client /\ AloneClient(b)
  BY <1>1, ClientAloneFacts
<1>4. PICK i, m, step : /\ i = Item("ack", "SUCCESS") /\ m = [mine EXCEPT !.piece = Before(@)]
                        /\ step = IF mine.piece = 0 THEN "time" ELSE "piece"
  OBVIOUS
<1>5. ClientWrite(i, step, m)
  BY <1>4 DEF ClientPutAck
<1>6. CASE ClientLeaves("dead")
  BY <1>1, <1>6, ClientLeavesKeeps
<1>7. CASE /\ ClientGoto(step, m) /\ client' = step /\ call' = call /\ done' = done
           /\ UNCHANGED <<streams, gone, server, command, local, store>> /\ reset' = reset
  <2>1. ClientGoto(IF mine.piece = 0 THEN "time" ELSE "piece", m)
    BY <1>4, <1>7
  <2>2. ClientOk(call, ClientNow')
    BY <1>1, <1>2, <1>4, <2>1, ClientPutAckOk
  <2>3. PICK c : c = ClientNow'
    OBVIOUS
  <2>4. c.step \in {"time", "piece"}
    BY <1>4, <1>7, <2>3 DEF ClientNow
  <2>5. "client" \notin reset
    BY <1>1, <1>3 DEF AloneClient
  <2>6. AloneClient(c)'
    BY <1>7, <2>4, <2>5 DEF AloneClient
  <2>7. /\ reset' \subseteq reset /\ client' \notin {"closed", "dead"} /\ ClientOk(call', ClientNow')
        /\ call' \in Calls \cup {NoCall, Closing}
        /\ done' = [call |-> done'.call, res |-> done'.res]
    BY <1>2, <1>4, <1>7, <2>2
  <2> QED
    BY <1>2, <1>7, <2>3, <2>6, <2>7, ClientAlone
<1> QED
  BY <1>5, <1>6, <1>7, ClientWriteAlone

\* The next piece is never the last one without bytes: that is the first to be sent.
LEMMA NextPutAlone ==
  ASSUME WireInv, gone = {"server"}, down = <<>>, client = "get.ack", NextPut
  PROVE  /\ client' \notin {"closed", "dead"} /\ ClientOk(call, ClientNow')
         /\ client' \in {"status", "put.piece"}
         /\ client' = "put.piece" => mine'.piece # call.len.chunks
<1>1. ClientOk(call, ClientNow)
  BY ClientAloneFacts
<1>2. call \in Calls /\ call.op = "push_tick" /\ mine.piece \in 0..call.len.chunks
  BY <1>1, ClientKnowsNow
<1>3. /\ ClientOk(call, ClientNow')
      /\ client' = IF mine.piece = 0 THEN "status" ELSE "put.piece"
      /\ mine'.piece = Before(mine.piece)
  BY <1>1, NextPutOk
<1>4. PICK n, p : n = call.len.chunks /\ p = mine.piece
  OBVIOUS
<1>5. n \in Nat
  BY <1>2, <1>4, CallFacts, LengthFacts
<1>6. p # 0 => Before(p) # n
  BY <1>2, <1>4, <1>5, BeforeFacts
<1> QED
  BY <1>3, <1>4, <1>6

LEMMA ClientLosesServer ==
  ASSUME WireInv, gone = {"server"}, ClientEnd \/ ClientReset
  PROVE  WireInv'
<1>1. down = <<>>
  BY DEF ClientEnd, ClientReset
<1>2. /\ ClientOk(call, ClientNow) /\ call \in Calls \cup {NoCall, Closing}
      /\ done = [call |-> done.call, res |-> done.res]
  BY <1>1, ClientAloneFacts
<1>3. PICK b : b.step = client /\ b.mine = mine /\ AloneClient(b)
  BY <1>1, ClientAloneFacts
<1>4. /\ UNCHANGED <<streams, gone, server, command, local, store>> /\ call' = call /\ done' = done
      /\ "client" \notin reset' /\ reset' \subseteq reset
  BY DEF ClientEnd, ClientReset, ends, servervars
<1>5. PICK c, w : /\ c = ClientNow' /\ w = result'
                  /\ c.step = client' /\ c.mine = mine' /\ c.result = w
  <2>1. PICK c : c = ClientNow'
    OBVIOUS
  <2>2. c.step = client' /\ c.mine = mine' /\ c.result = result'
    BY <2>1 DEF ClientNow
  <2> QED
    BY <2>1, <2>2
<1>6. /\ client' \notin {"closed", "dead", "send"} /\ ClientOk(call, ClientNow')
      /\ client' = "put.piece" => mine'.piece # call.len.chunks
      /\ client' = "idle" => Real(w)'
  <2>1. CASE client = "get.ack" /\ NextPut
    BY <1>1, <2>1, NextPutAlone
  <2>2. CASE ClientReturn(Error("READ_ERROR"))
    <3>1. PICK v : v = Error("READ_ERROR")
      OBVIOUS
    <3>2. ClientOk(call, ClientNow') /\ client' = "idle" /\ result' = v
      BY <2>2, <3>1, ClientReturnOk
    <3>3. v.status = "READ_ERROR"
      BY <3>1 DEF Error
    <3>4. gone' = {"server"}
      BY <1>4
    <3> QED
      BY <1>5, <3>2, <3>3, <3>4 DEF Real
  <2>3. CASE client = "status" /\ AfterStatus /\ "client" \in reset
    <3>1. /\ ClientOk(call, ClientNow') /\ client' \in {"id", "len", "idle"}
          /\ client' = "idle" =>
               call.op \notin NameOps \cup PullOps /\ result' = [status |-> "SUCCESS"]
      BY <1>2, <2>3, AfterStatusOk
    <3>2. call.op \in Ops /\ call.op # "push_tick"
      BY <1>2, <1>3, <2>3, ClientKnowsNow, CallFacts DEF AloneClient
    <3>3. client' = "idle" => call.op \in SubscribeOps /\ result'.status = "SUCCESS"
      BY <3>1, <3>2 DEF Ops
    <3>4. client' = "idle" => Real(w)'
      BY <1>4, <1>5, <3>3 DEF Real
    <3> QED
      BY <3>1, <3>4
  <2>4. CASE client = "piece" /\ GotPiece(mine.tick) /\ "client" \in reset
    <3>1. /\ mine \in Mines /\ InTick(mine) /\ call \in Calls /\ mine.tick # NoTick
          /\ call.op = "pull_tick"
      BY <1>2, <1>3, <2>4, ClientKnowsNow DEF AloneClient
    <3>2. [mine EXCEPT !.tick = mine.tick] = mine
      BY <3>1 DEF Mines
    <3>3. client' = "put.ack" /\ mine' = mine
      BY <2>4, <3>1, <3>2 DEF GotPiece, ClientGoto
    <3>4. ClientOk(call, ClientNow')
      BY <3>1, <3>3, OpFacts DEF ClientOk, ClientNow, ClientSteps, ClientReads
    <3> QED
      BY <3>3, <3>4
  <2>5. CASE client = "time" /\ GotTime(Nothing) /\ "client" \in reset
    <3>1. call.op = "pull_tick" /\ done.call = Asked /\ mine.tick = done.res.tick
      BY <1>3, <2>5 DEF AloneClient
    <3>2. PICK v : v = [status |-> "SUCCESS", tick |-> mine.tick, time |-> Nothing]
      OBVIOUS
    <3>3. ClientReturn(v)
      BY <2>5, <3>2 DEF GotTime
    <3>4. ClientOk(call, ClientNow') /\ client' = "idle" /\ result' = v
      BY <3>3, ClientReturnOk
    <3>5. v.status = "SUCCESS" /\ v.tick = done.res.tick
      BY <3>1, <3>2
    <3>6. Asked' = Asked
      BY <1>4 DEF Asked
    <3>7. Real(v)'
      BY <1>4, <3>1, <3>5, <3>6 DEF Real
    <3> QED
      BY <1>5, <3>4, <3>7
  <2> QED
    BY <2>1, <2>2, <2>3, <2>4, <2>5 DEF ClientEnd, ClientReset
<1>7. AloneClient(c)'
  BY <1>4, <1>5, <1>6 DEF AloneClient
<1>8. /\ ClientOk(call', ClientNow') /\ call' \in Calls \cup {NoCall, Closing}
      /\ done' = [call |-> done'.call, res |-> done'.res]
  BY <1>2, <1>4, <1>6
<1> QED
  BY <1>1, <1>4, <1>5, <1>6, <1>7, <1>8, ClientAlone

-----------------------------------------------------------------------------
(* The invariant holds at first and after every step                       *)

LEMMA WireInit ==
  ASSUME Init
  PROVE  WireInv
<1> DEFINE i == Item("command", "open_connection")
           S == [j \in 0..1 |->
                   IF j = 0 THEN [step |-> "command", command |-> "invalid", local |-> NoLocal]
                   ELSE [step |-> "command", command |-> "open_connection", local |-> NoLocal]]
           C == [j \in 0..0 |-> [step |-> "idle", mine |-> NoneOfMine, result |-> Nothing]]
<1>1. /\ up = <<i>> /\ down = <<>> /\ gone = {} /\ reset = {} /\ client = "idle" /\ call = NoCall
      /\ mine = NoneOfMine /\ result = Nothing /\ server = "command" /\ command = "invalid"
      /\ local = NoLocal /\ store = {} /\ done = NotDone
  BY DEF Init
<1>2. /\ i \in UpItems /\ i.kind = "command" /\ i.val = "open_connection"
      /\ "open_connection" \in Commands /\ "invalid" \in Commands
  BY DEF Item, UpItems, Commands
<1>3. TypeInv
  <2>1. up \in Seq(UpItems) /\ down \in Seq(DownItems)
    BY <1>1, <1>2
  <2>2. client \in ClientSteps /\ server \in ServerSteps
    BY <1>1 DEF ClientSteps, ServerSteps, ServerReads
  <2> QED
    BY <1>1, <1>2, <2>1, <2>2, NoneTyped DEF TypeInv, NotDone
<1>4. GoneInv /\ StoreInv /\ ServerInv /\ ClientInv
  BY <1>1 DEF GoneInv, StoreInv, ServerInv, ClientInv
<1>5. Len(up) = 1 /\ up[1] = i /\ Len(down) = 0
  BY <1>1
<1>6. /\ S[0] = [step |-> "command", command |-> "invalid", local |-> NoLocal]
      /\ S[1] = [step |-> "command", command |-> "open_connection", local |-> NoLocal]
  OBVIOUS
<1>7. C[0] = [step |-> "idle", mine |-> NoneOfMine, result |-> Nothing]
  OBVIOUS
<1> HIDE DEF i, S, C
<1>8. ServerRun(S)
  <2>1. S[0] = Settle(ServerNow)
    BY <1>1, <1>6 DEF Settle, ServerNow
  <2>2. ServerOk(S[0]) /\ ServerOk(S[1])
    BY <1>2, <1>6, NoneTyped DEF ServerOk, ServerSteps, ServerReads
  <2>3. S[1] = AfterItem(S[0], "open_connection")
    <3>1. Dispatch("open_connection") = "command"
      BY DEF Dispatch, NameOps, PullOps, SubscribeOps
    <3> QED
      BY <1>6, <3>1 DEF AfterItem, At
  <2>4. 0..Len(up) = {0, 1} /\ 1..Len(up) = {1}
    BY <1>5
  <2>5. up[1].kind = S[1 - 1].step /\ S[1] = AfterItem(S[1 - 1], up[1].val)
    BY <1>2, <1>5, <1>6, <2>3
  <2> QED
    BY <2>1, <2>2, <2>4, <2>5 DEF ServerRun
<1>9. ClientRun(C)
  <2>1. C[0] = ClientNow
    BY <1>1, <1>7 DEF ClientNow
  <2>2. ClientOk(call, C[0])
    BY <1>1, <1>7, NoneTyped DEF ClientOk, ClientSteps, ClientReads
  <2>3. 0..Len(down) = {0} /\ 1..Len(down) = {}
    BY <1>5
  <2> QED
    BY <2>1, <2>2, <2>3 DEF ClientRun
<1>10. Together(C[0], S[1])
  BY <1>6, <1>7 DEF Together, AtRest, Real
<1>11. BothInv
  BY <1>1, <1>5, <1>8, <1>9, <1>10 DEF BothInv
<1> QED
  BY <1>3, <1>4, <1>11 DEF WireInv

LEMMA WireStutters ==
  ASSUME WireInv, UNCHANGED vars
  PROVE  WireInv'
<1>1. /\ up' = up /\ down' = down /\ gone' = gone /\ reset' = reset /\ client' = client
      /\ call' = call /\ mine' = mine /\ result' = result /\ server' = server
      /\ command' = command /\ local' = local /\ store' = store /\ done' = done
  BY DEF vars, streams, ends, clientvars, servervars
<1>2. TypeInv' /\ GoneInv' /\ StoreInv'
  BY <1>1 DEF WireInv, TypeInv, GoneInv, StoreInv
<1>3. ServerNow' = ServerNow /\ ClientNow' = ClientNow
  BY <1>1 DEF ServerNow, ClientNow
<1>4. \A S : ServerRun(S) => ServerRun(S)'
  BY <1>1, <1>3 DEF ServerRun
<1>5. \A C : ClientRun(C) => ClientRun(C)'
  BY <1>1, <1>3 DEF ClientRun
<1>6. \A c, s : Together(c, s) => Together(c, s)'
  BY <1>1, TogetherStays
<1>7. \A s : AloneServer(s) => AloneServer(s)'
  BY <1>1 DEF AloneServer
<1>8. \A c : AloneClient(c) => AloneClient(c)'
  BY <1>1 DEF AloneClient, Real, Asked
<1>9. BothInv'
  <2> SUFFICES ASSUME gone = {}
               PROVE  \E S, C : /\ ServerRun(S)' /\ ClientRun(C)' /\ (up = <<>> \/ down = <<>>)'
                                /\ Together(C[Len(down)], S[Len(up)])'
    BY <1>1 DEF BothInv
  <2>1. PICK S, C : /\ ServerRun(S) /\ ClientRun(C) /\ (up = <<>> \/ down = <<>>)
                    /\ Together(C[Len(down)], S[Len(up)])
    BY DEF WireInv, BothInv
  <2>2. PICK c, s : c = C[Len(down)] /\ s = S[Len(up)]
    OBVIOUS
  <2>3. Together(c, s)'
    BY <1>6, <2>1, <2>2
  <2>4. Together(C[Len(down)], S[Len(up)])'
    BY <1>1, <2>2, <2>3
  <2> QED
    BY <1>1, <1>4, <1>5, <2>1, <2>4
<1>10. ServerInv'
  <2> SUFFICES ASSUME gone = {"client"}
               PROVE  \E S : ServerRun(S)' /\ AloneServer(S[Len(up)])'
    BY <1>1 DEF ServerInv
  <2>1. PICK S, s : ServerRun(S) /\ s = S[Len(up)] /\ AloneServer(s)
    BY DEF WireInv, ServerInv
  <2>2. ServerRun(S)' /\ S[Len(up)'] = s /\ AloneServer(s)'
    BY <1>1, <1>4, <1>7, <2>1
  <2> QED
    BY <2>2
<1>11. ClientInv'
  <2> SUFFICES ASSUME gone = {"server"}
               PROVE  \E C : ClientRun(C)' /\ AloneClient(C[Len(down)])'
    BY <1>1 DEF ClientInv
  <2>1. PICK C, c : ClientRun(C) /\ c = C[Len(down)] /\ AloneClient(c)
    BY DEF WireInv, ClientInv
  <2>2. ClientRun(C)' /\ C[Len(down)'] = c /\ AloneClient(c)'
    BY <1>1, <1>5, <1>8, <2>1
  <2> QED
    BY <2>2
<1> QED
  BY <1>2, <1>9, <1>10, <1>11 DEF WireInv

\* A step of the client.
LEMMA ClientStepKeeps ==
  ASSUME WireInv, ClientStep
  PROVE  WireInv'
<1>1. CASE ClientAck \/ ClientStatus \/ ClientId \/ ClientLen \/ ClientPiece \/ ClientTime
  BY <1>1, ClientReadsItem, ClientReadKeeps
<1>2. CASE ClientClose
  BY <1>2, ClientCloseKeeps
<1>3. CASE ClientSend \/ ClientPut \/ ClientPutAck
  <2>1. client \notin {"closed", "dead"}
    BY <1>3 DEF ClientSend, ClientPut, ClientPutAck
  <2>2. gone = {} \/ gone = {"server"}
    BY <2>1, WhoIsThere DEF WireInv
  <2> QED
    BY <1>3, <2>2, ClientSendKeeps, ClientPutKeeps, ClientPutAckKeeps,
       ClientSendAlone, ClientPutAlone, ClientPutAckAlone
<1>4. CASE ClientEnd \/ ClientReset
  <2>1. client \notin {"closed", "dead"} /\ "server" \in gone
    BY <1>4 DEF ClientEnd, ClientReset
  <2>2. gone = {"server"}
    BY <2>1, WhoIsThere DEF WireInv
  <2> QED
    BY <1>4, <2>2, ClientLosesServer
<1> QED
  BY <1>1, <1>2, <1>3, <1>4 DEF ClientStep

\* A step of the server.
LEMMA ServerStepKeeps ==
  ASSUME WireInv, ServerStep
  PROVE  WireInv'
<1>1. CASE \/ ServerCommand \/ ServerName \/ ServerId \/ ServerAt \/ ServerLen \/ ServerPiece
           \/ ServerAck
  BY <1>1, ServerReadsItem, ServerReadKeeps
<1>2. CASE ServerPieceNothing
  <2>1. gone \in {{}, {"client"}}
    BY <1>2, WhoIsThere DEF WireInv, ServerPieceNothing
  <2> QED
    BY <1>2, <2>1, ServerPieceNothingKeeps
<1>3. CASE \/ ServerPutAck \/ ServerCall \/ ServerStatus \/ ServerReplyId \/ ServerReplyLen
           \/ ServerReplyPiece \/ ServerReplyTime
  <2>1. server \notin {"killed", "stopped"}
    BY <1>3 DEF ServerPutAck, ServerCall, ServerStatus, ServerReplyId, ServerReplyLen,
                ServerReplyPiece, ServerReplyTime
  <2>2. gone = {} \/ gone = {"client"}
    BY <2>1, WhoIsThere DEF WireInv
  <2>3. CASE gone = {"client"}
    BY <1>3, <2>3, ServerMovesAlone
  <2>4. CASE gone = {}
    BY <1>3, <2>4, ServerPutAckKeeps, ServerCallKeeps, ServerStatusKeeps, ServerReplyIdKeeps,
       ServerReplyLenKeeps, ServerReplyPieceKeeps, ServerReplyTimeKeeps
  <2> QED
    BY <2>2, <2>3, <2>4
<1>4. CASE ServerEnd \/ ServerReset
  <2>1. server \notin {"killed", "stopped"} /\ "client" \in gone
    BY <1>4 DEF ServerEnd, ServerReset
  <2>2. gone = {"client"}
    BY <2>1, WhoIsThere DEF WireInv
  <2> QED
    BY <1>4, <2>2, ServerLosesClient
<1> QED
  BY <1>1, <1>2, <1>3, <1>4 DEF ServerStep

LEMMA WireNext ==
  ASSUME WireInv, [Next]_vars
  PROVE  WireInv'
<1>1. ASSUME NEW r \in Calls, Call(r) PROVE WireInv'
  <2>1. client \notin {"closed", "dead"}
    BY <1>1 DEF Call
  <2>2. gone = {} \/ gone = {"server"}
    BY <2>1, WhoIsThere DEF WireInv
  <2> QED
    BY <1>1, <2>2, CallKeeps, CallAlone
<1>2. CASE CloseConnection
  <2>1. client \notin {"closed", "dead"}
    BY <1>2 DEF CloseConnection
  <2>2. gone = {} \/ gone = {"server"}
    BY <2>1, WhoIsThere DEF WireInv
  <2> QED
    BY <1>2, <2>2, CloseConnectionKeeps, CloseConnectionAlone
<1>3. CASE UNCHANGED vars
  BY <1>3, WireStutters
<1> QED
  BY <1>1, <1>2, <1>3, ClientStepKeeps, ServerStepKeeps, ClientCrashKeeps, ServerStopKeeps DEF Next

-----------------------------------------------------------------------------
(* The theorems                                                            *)

\* Wherever client and server are, once each has read what is under way to it they
\* stand at the two ends of one and the same step of one call; an end that has lost the
\* other stands where the code's errors leave it.
THEOREM WireInvariance == Spec => []WireInv
<1> QED
  BY WireInit, WireNext, PTL DEF Spec

\* The locals hold what their declarations in the handlers say: a tick is always as long
\* as its length, and only ticks with a length are stored.
THEOREM TypeCorrect == Spec => []TypeOK
<1>1. WireInv => TypeOK
  <2> SUFFICES ASSUME WireInv PROVE TypeOK
    OBVIOUS
  <2>1. LentTicks = {NoTick} \cup Ticks
    BY DEF LentTicks, Ticks
  <2>2. mine.tick \in LentTicks /\ local.tick \in LentTicks
    BY <2>1 DEF WireInv, TypeInv, Mines, Locals
  <2>3. \A k \in store : k \in Ticks /\ k # NoTick
    <3>1. \A k \in store : k \in Ticks
      BY DEF WireInv, TypeInv
    <3> QED
      BY <3>1, TickFacts
  <2>4. local.name \in Maybe(Names) /\ local.id \in Maybe(Ids) /\ local.at \in Maybe(Times)
    BY DEF WireInv, TypeInv, Locals
  <2>5. /\ gone \subseteq {"client", "server"} /\ reset \subseteq {"client", "server"}
        /\ call \in Calls \cup {NoCall, [op |-> "close_connection"]}
    BY DEF WireInv, TypeInv, Closing
  <2> QED
    BY <2>1, <2>2, <2>3, <2>4, <2>5 DEF TypeOK
<1> QED
  BY <1>1, WireInvariance, PTL

\* The run that the server, or the client, is at the beginning of.
LEMMA ServerThere ==
  ASSUME WireInv, server \in ServerReads
  PROVE  \E S : /\ ServerRun(S)
                /\ gone = {"client"} => AloneServer(S[Len(up)])
<1>1. gone = {} \/ gone = {"client"}
  BY WhoIsThere DEF WireInv, ServerReads
<1>2. CASE gone = {}
  BY <1>2 DEF WireInv, BothInv
<1>3. CASE gone = {"client"}
  BY <1>3 DEF WireInv, ServerInv
<1> QED
  BY <1>1, <1>2, <1>3

LEMMA ClientThere ==
  ASSUME WireInv, client \notin {"closed", "dead"}
  PROVE  \E C : /\ ClientRun(C)
                /\ gone = {"server"} => AloneClient(C[Len(down)])
                /\ gone = {} => \E s : Together(C[Len(down)], s)
<1>1. gone = {} \/ gone = {"server"}
  BY WhoIsThere DEF WireInv
<1>2. CASE gone = {}
  BY <1>2 DEF WireInv, BothInv
<1>3. CASE gone = {"server"}
  BY <1>3 DEF WireInv, ClientInv
<1> QED
  BY <1>1, <1>2, <1>3

\* Whichever of the two reads finds the item it expects: the hand-written read sequences
\* of srv_run_server_thread and of core_srv_client.c fit in every order of reads, writes
\* and losses, and a lost connection never leaves an argument or a length unread.
THEOREM AlwaysInStep == Spec => []InStep
<1>1. WireInv => InStep
  <2> SUFFICES ASSUME WireInv PROVE InStep
    OBVIOUS
  <2>1. up \in Seq(UpItems) /\ down \in Seq(DownItems)
    BY DEF WireInv, TypeInv
  <2>2. ASSUME server \in ServerReads
        PROVE  up = <<>> \/ Head(up).kind = server \/ (server = "piece" /\ NoBytes)
    <3>1. PICK S : ServerRun(S)
      BY <2>2, ServerThere
    <3>2. S[0] = Settle(ServerNow) /\ (up # <<>> => Head(up).kind = S[0].step)
      BY <2>1, <3>1, ServerAtItem
    <3>3. Settle(ServerNow).step = server \/ (server = "piece" /\ NoBytes)
      BY DEF Settle, ServerNow, NoBytes
    <3> QED
      BY <3>2, <3>3
  <2>3. ASSUME client \in ClientReads
        PROVE  down = <<>> \/ Head(down).kind = client
    <3>1. PICK C : ClientRun(C)
      BY <2>3, ClientThere DEF ClientReads
    <3>2. C[0] = ClientNow /\ (down # <<>> => Head(down).kind = C[0].step)
      BY <2>1, <3>1, ClientAtItem
    <3>3. ClientNow.step = client
      BY DEF ClientNow
    <3> QED
      BY <3>2, <3>3
  <2>4. client = "idle" => down = <<>>
    <3>1. ASSUME client = "idle" PROVE down = <<>>
      <4>1. PICK C : ClientRun(C)
        BY <3>1, ClientThere
      <4> QED
        BY <2>1, <3>1, <4>1, ClientAtStep DEF ClientReads
    <3> QED
      BY <3>1
  <2>5. ASSUME server \in {"name", "id", "at", "len"} PROVE "server" \notin reset
    <3> SUFFICES ASSUME "server" \in reset PROVE FALSE
      OBVIOUS
    <3>1. "client" \in gone /\ server \in ServerReads
      BY <2>5 DEF WireInv, GoneInv, ServerReads
    <3>2. gone = {"client"}
      BY <2>5, <3>1, WhoIsThere DEF WireInv
    <3>3. PICK S : ServerRun(S) /\ AloneServer(S[Len(up)])
      BY <3>1, <3>2, ServerThere
    <3>4. up = <<>> /\ S[Len(up)].step \notin {"name", "id", "at", "len"}
      BY <3>3 DEF AloneServer
    <3>5. S[Len(up)] = ServerNow
      BY <2>1, <2>5, <3>3, <3>4, ServerAtItem
    <3> QED
      BY <2>5, <3>4, <3>5 DEF ServerNow
  <2>6. ASSUME client \in {"id", "len"} PROVE "client" \notin reset
    <3> SUFFICES ASSUME "client" \in reset PROVE FALSE
      OBVIOUS
    <3>1. "server" \in gone
      BY DEF WireInv, GoneInv
    <3>2. gone = {"server"}
      BY <2>6, <3>1, WhoIsThere DEF WireInv
    <3>3. PICK C : ClientRun(C) /\ AloneClient(C[Len(down)])
      BY <2>6, <3>2, ClientThere
    <3>4. down = <<>> /\ C[Len(down)].step \notin {"id", "len"}
      BY <3>3 DEF AloneClient
    <3>5. C[Len(down)] = ClientNow
      BY <2>1, <3>3, <3>4, ClientAtItem
    <3> QED
      BY <2>6, <3>4, <3>5 DEF ClientNow
  <2> QED
    BY <2>2, <2>3, <2>4, <2>5, <2>6 DEF InStep, ServerReads, ClientReads
<1> QED
  BY <1>1, WireInvariance, PTL

\* What a call of the client library returns is what became of it at the server, also
\* when the server went away in the middle of it; subscriptions, and the time of a
\* pull_tick, are excepted, as the property says.
THEOREM ResultsAreReal == Spec => []ResultIsReal
<1>1. WireInv => ResultIsReal
  <2> SUFFICES ASSUME WireInv, client = "idle" PROVE Real(result)
    BY DEF ResultIsReal, Real
  <2>1. down \in Seq(DownItems)
    BY DEF WireInv, TypeInv
  <2>2. PICK C : /\ ClientRun(C)
                 /\ gone = {"server"} => AloneClient(C[Len(down)])
                 /\ gone = {} => \E s : Together(C[Len(down)], s)
    BY ClientThere
  <2>3. C[Len(down)] = ClientNow
    BY <2>1, <2>2, ClientAtStep DEF ClientReads
  <2>4. PICK c : c = ClientNow /\ c.step = "idle" /\ c.result = result
    <3>1. PICK c : c = ClientNow
      OBVIOUS
    <3>2. c.step = "idle" /\ c.result = result
      BY <3>1 DEF ClientNow
    <3> QED
      BY <3>1, <3>2
  <2>5. gone = {} \/ gone = {"server"}
    BY WhoIsThere DEF WireInv
  <2>6. CASE gone = {}
    <3>1. PICK s : Together(c, s)
      BY <2>2, <2>3, <2>4, <2>6
    <3> QED
      BY <2>4, <3>1, TogetherSteps DEF AtRest
  <2>7. CASE gone = {"server"}
    BY <2>2, <2>3, <2>4, <2>7 DEF AloneClient
  <2> QED
    BY <2>5, <2>6, <2>7
<1> QED
  BY <1>1, WireInvariance, PTL

\* A tick is stored with every piece in its place, unless its client has died while it
\* sent them; one whose data ends on a full piece is never stored.
THEOREM OnlyWholeTicks == Spec => []StoredWhole
<1>1. WireInv => StoredWhole
  BY DEF WireInv, TypeInv, StoreInv, StoredWhole
<1> QED
  BY <1>1, WireInvariance, PTL

\* When a client closes between two calls its requests lead the server, whatever is still
\* unread of them, to the end of its thread by reads alone.
THEOREM ClosesWhenAnswered == Spec => []AnsweredBeforeClose
<1>1. WireInv => AnsweredBeforeClose
  <2> SUFFICES ASSUME WireInv, client = "closed", server \notin {"killed", "stopped"}
               PROVE  server \in ServerReads \cup {"exit"}
    BY DEF WireInv, GoneInv, AnsweredBeforeClose, ServerReads
  <2>1. gone = {"client"} /\ up \in Seq(UpItems)
    BY WhoIsThere DEF WireInv, GoneInv, TypeInv
  <2>2. PICK S : ServerRun(S) /\ AloneServer(S[Len(up)])
    BY <2>1 DEF WireInv, ServerInv
  <2>3. S[Len(up)].step = "exit"
    BY <2>2 DEF AloneServer
  <2>4. S[0].step \in ServerReads \cup {"exit"}
    BY <2>1, <2>2, <2>3, ServerAtItem
  <2>5. CASE server = "piece"
    BY <2>5 DEF ServerReads
  <2>6. CASE server # "piece"
    BY <2>1, <2>2, <2>4, <2>6, ServerAtItem DEF ServerNow
  <2> QED
    BY <2>5, <2>6
<1> QED
  BY <1>1, WireInvariance, PTL

\* The server executes a call at most once: the breaks that leave its loops early never
\* bring it back to a handler it has run.
THEOREM ExecutedOnce == Spec => AtMostOnce
<1> DEFINE Once == done # NotDone => done' = done \/ (client = "idle" /\ client' = "send")
<1>1. WireInv /\ [Next]_vars => [Once]_vars
  <2> SUFFICES ASSUME WireInv, Next PROVE Once
    OBVIOUS
  <2>1. CASE ServerCall
    <3>1. server = "call" /\ server \notin ServerReads
      BY <2>1 DEF ServerCall, ServerReads
    <3>2. gone = {} \/ gone = {"client"}
      BY <3>1, WhoIsThere DEF WireInv
    <3>3. CASE gone = {}
      <4>1. PICK c, s : Together(c, s) /\ s = ServerNow
        BY <3>1, <3>3, ServerBusy
      <4>2. s.step = "call"
        BY <3>1, <4>1 DEF ServerNow
      <4>3. done = NotDone
        BY <4>1, <4>2, TogetherSteps DEF Waiting
      <4> QED
        BY <4>3
    <3>4. CASE gone = {"client"}
      <4>1. Settle(ServerNow) = ServerNow
        BY <3>1 DEF Settle, ServerNow
      <4>2. done = NotDone
        BY <3>1, <3>4, <4>1, AloneFacts
      <4> QED
        BY <4>2
    <3> QED
      BY <3>2, <3>3, <3>4
  <2>2. CASE \E r \in Calls : Call(r)
    BY <2>2 DEF Call
  <2>3. CASE ~ServerCall /\ ~ \E r \in Calls : Call(r)
    <3>1. done' = done
      <4>1. CASE CloseConnection
        BY <4>1 DEF CloseConnection, servervars
      <4>2. CASE ClientStep \/ ClientCrash
        BY <4>2 DEF ClientStep, ClientCrash, ClientSend, ClientClose, ClientPut, ClientAck,
           ClientStatus, ClientId, ClientLen, ClientPiece, ClientPutAck, ClientTime, ClientEnd,
           ClientReset, ClientWrite, ClientRead, servervars
      <4>3. CASE ServerStep \/ ServerStop
        BY <2>3, <4>3 DEF ServerStep, ServerStop, ServerCommand, ServerName, ServerId, ServerAt,
           ServerLen, ServerPiece, ServerPieceNothing, ServerPutAck, ServerStatus, ServerReplyId,
           ServerReplyLen, ServerReplyPiece, ServerAck, ServerReplyTime, ServerEnd, ServerReset,
           ServerRead, ServerWrite
      <4> QED
        BY <2>3, <4>1, <4>2, <4>3 DEF Next
    <3> QED
      BY <3>1
  <2> QED
    BY <2>1, <2>2, <2>3
<1> QED
  BY <1>1, WireInvariance, PTL DEF Spec, AtMostOnce
=============================================================================
