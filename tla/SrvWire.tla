------------------------------- MODULE SrvWire ------------------------------
(***************************************************************************)
(* One connection of core_srv: a client of core_srv_client.c, the thread   *)
(* srv_run_server_thread that serves it, and the two byte streams between  *)
(* them, one read or write at a time.                                      *)
(*                                                                         *)
(* A stream is the sequence of the items written and not yet read; what a  *)
(* write sends is read whole.  The data of a tick travels in pieces: the   *)
(* last one (len % SRV_BUFFER_LEN bytes, piece "chunks") first, then the   *)
(* full ones from the last to piece 0.  A write or read of no bytes at all *)
(* returns 0 and leaves the stream alone.                                  *)
(*                                                                         *)
(* A read at the end of a stream whose writer has closed it returns 0, but *)
(* the first one returns -1 (connection reset) when the writer left data   *)
(* unread.  Both sides keep the count in a size_t, so that no comparison   *)
(* ever sees the -1: the code goes on as if the read had worked.           *)
(* Writing to a closed stream kills the writer (SIGPIPE) or is lost.       *)
(*                                                                         *)
(* The store is the set of the ticks pushed; which one a pull selects is   *)
(* TickerStore's.  Notifications are not modelled here.                    *)
(***************************************************************************)
EXTENDS Naturals, Sequences

CONSTANTS Names,     \* ticker names
          Ids,       \* ticker ids
          Times,     \* time stamps
          Lengths,   \* lengths of the data pushed
          Data,      \* contents of the data pushed
          Nothing,   \* a value that was never read
          MaxAhead   \* bound: items unread by the server when a call starts

NameOps == {"add_ticker", "get_ticker"}
PullOps == {"pull_tick", "pull_tick_by_datetime", "pull_tick_update"}
SubscribeOps == {"subscribe", "unsubscribe"}

\* len / SRV_BUFFER_LEN, and whether len % SRV_BUFFER_LEN is not 0.
ASSUME WireAssumption ==
  /\ Lengths \subseteq [chunks: Nat, tail: BOOLEAN] /\ Nothing \notin Lengths
  /\ MaxAhead \in Nat

Calls ==
       [op: NameOps, name: Names]
  \cup [op: {"push_tick"}, id: Ids, len: Lengths, data: Data]
  \cup [op: {"pull_tick_by_datetime"}, id: Ids, at: Times]
  \cup [op: {"pull_tick", "pull_tick_update"} \cup SubscribeOps, id: Ids]

Item(kind, val) == [kind |-> kind, val |-> val]
Piece(d, k) == <<d, k>>
Raw(len) == [len |-> len, buf |-> [k \in 0..len.chunks |-> Nothing]]
Whole(len, d) == [len |-> len, buf |-> [k \in 0..len.chunks |-> Piece(d, k)]]
\* The errors that the store's operations return.
Errors(op) == IF op = "add_ticker" THEN {}
              ELSE IF op = "get_ticker" THEN {"UNKNOWN"}
              ELSE IF op \in PullOps THEN {"UNKNOWN_TICKER", "NO_TICKDATA"}
              ELSE {"UNKNOWN_TICKER"}

VARIABLES
  up, down,    \* the streams to the server and to the client
  gone,        \* the ends that have closed the connection
  reset,       \* the ends whose next read at the end of the stream returns -1
  client,      \* what the client does next
  call,        \* its call
  mine,        \* what is left of the request, the tick, the piece it is at
  result,      \* what its last call returned
  server,      \* what the server thread does next
  command,     \* the last command it has read
  local,       \* its arguments, tickdata and len, piece, and rtn
  store,       \* the ticks that have been pushed
  done         \* history: the call that the server executed, and its result

streams == <<up, down>>
ends == <<gone, reset>>
clientvars == <<client, call, mine, result>>
servervars == <<server, command, local, store, done>>
vars == <<streams, ends, clientvars, servervars>>

NoCall == [op |-> "none"]
NotDone == [call |-> NoCall, res |-> Nothing]
NoTick == [len |-> Nothing, buf |-> Nothing]
NoneOfMine == [out |-> <<>>, tick |-> NoTick, piece |-> 0]
NoLocal == [name |-> Nothing, id |-> Nothing, at |-> Nothing,
            tick |-> NoTick, piece |-> 0, rtn |-> Nothing]

\* srv_client_connect has opened the connection and announced itself.
Init ==
  /\ up = <<Item("command", "open_connection")>> /\ down = <<>>
  /\ gone = {} /\ reset = {}
  /\ client = "idle" /\ call = NoCall /\ mine = NoneOfMine /\ result = Nothing
  /\ server = "command" /\ command = "invalid" /\ local = NoLocal
  /\ store = {} /\ done = NotDone

\* An end closes the connection or its process ends.
Close(end, incoming) ==
  /\ gone' = gone \cup {end}
  /\ reset' = IF incoming = <<>> THEN reset
              ELSE reset \cup ({"client", "server"} \ gone')

-----------------------------------------------------------------------------
(* The client                                                              *)

\* The client goes on at step with the locals m, or its call ends.
ClientGoto(step, m) == client' = step /\ mine' = m /\ UNCHANGED result
ClientReturn(v) == client' = "idle" /\ mine' = NoneOfMine /\ result' = v
ClientEnds(step) == client' = step /\ mine' = NoneOfMine /\ UNCHANGED result
Error(e) == [status |-> e]

Request(r) ==
  <<Item("command", r.op)>>
    \o IF r.op \in NameOps THEN <<Item("name", r.name)>>
       ELSE <<Item("id", r.id)>>
              \o IF r.op = "push_tick" THEN <<Item("len", r.len)>>
                 ELSE IF r.op = "pull_tick_by_datetime"
                      THEN <<Item("at", r.at)>> ELSE <<>>

\* A call that returns before the server has read it all (a push that the
\* client refuses) leaves the client free to get ahead of the server.
Call(r) ==
  /\ client = "idle"
  /\ Len(up) <= MaxAhead
  /\ client' = "send"
  /\ call' = r
  /\ mine' = [NoneOfMine EXCEPT
                !.out = Request(r),
                !.piece = IF r.op = "push_tick" THEN r.len.chunks ELSE 0]
  /\ result' = Nothing
  /\ done' = NotDone
  /\ UNCHANGED <<streams, ends, server, command, local, store>>

CloseConnection ==
  /\ client = "idle"
  /\ call' = [op |-> "close_connection"]
  /\ ClientGoto("send",
       [NoneOfMine EXCEPT !.out = <<Item("command", "close_connection")>>])
  /\ UNCHANGED <<streams, ends, servervars>>

\* A write to the server, after which the client goes on at step.
ClientWrite(item, step, m) ==
  /\ \/ /\ "server" \notin gone
        /\ up' = Append(up, item)
        /\ ClientGoto(step, m)
        /\ UNCHANGED <<down, ends>>
     \/ /\ "server" \in gone
        /\ ClientGoto(step, m)
        /\ UNCHANGED <<streams, ends>>
     \/ /\ "server" \in gone
        /\ ClientEnds("dead")
        /\ Close("client", down)
        /\ UNCHANGED streams
  /\ UNCHANGED <<call, servervars>>

\* The request; none of these writes is checked.
ClientSend ==
  /\ client = "send"
  /\ ClientWrite(Head(mine.out),
       IF Len(mine.out) > 1 THEN "send"
       ELSE IF call.op = "push_tick" THEN "put.piece"
       ELSE IF call.op = "close_connection" THEN "close" ELSE "status",
       [mine EXCEPT !.out = Tail(@)])

ClientClose ==
  /\ client = "close"
  /\ ClientEnds("closed")
  /\ Close("client", down)
  /\ UNCHANGED <<streams, call, servervars>>

\* A piece without bytes: the write returns 0.
ClientPut ==
  /\ client = "put.piece"
  /\ IF mine.piece = call.len.chunks /\ ~call.len.tail
     THEN /\ ClientReturn(Error("WRITE_ERROR"))
          /\ UNCHANGED <<streams, ends, call, servervars>>
     ELSE ClientWrite(Item("piece", Piece(call.data, mine.piece)), "get.ack", mine)

\* The client reads the item it waits for.
ClientRead(kind) ==
  /\ client = kind
  /\ down # <<>> /\ Head(down).kind = kind
  /\ down' = Tail(down)
  /\ UNCHANGED <<up, ends, call, servervars>>

\* From piece k on: the next piece, or what follows the last one.
Before(k) == IF k = 0 THEN 0 ELSE k - 1
NextPut == ClientGoto(IF mine.piece = 0 THEN "status" ELSE "put.piece",
                      [mine EXCEPT !.piece = Before(@)])

ClientAck == ClientRead("get.ack") /\ NextPut

AfterStatus ==
  IF call.op \in NameOps THEN ClientGoto("id", mine)
  ELSE IF call.op \in PullOps THEN ClientGoto("len", mine)
  ELSE ClientReturn([status |-> "SUCCESS"])

ClientStatus ==
  /\ ClientRead("status")
  /\ IF Head(down).val = "SUCCESS" THEN AfterStatus
                                   ELSE ClientReturn(Error(Head(down).val))

ClientId == /\ ClientRead("id")
            /\ ClientReturn([status |-> "SUCCESS", id |-> Head(down).val])

ClientLen ==
  /\ ClientRead("len")
  /\ ClientGoto("piece", [mine EXCEPT !.tick = Raw(Head(down).val),
                                      !.piece = Head(down).val.chunks])

\* After a piece, pull_tick acknowledges it; the other pulls do not.
GotPiece(k) ==
  IF call.op = "pull_tick"
  THEN ClientGoto("put.ack", [mine EXCEPT !.tick = k])
  ELSE ClientGoto(IF mine.piece = 0 THEN "time" ELSE "piece",
                  [mine EXCEPT !.tick = k, !.piece = Before(@)])

\* Mutant: a piece is put one place too low.
ClientPieceTooLow ==
  /\ ClientRead("piece")
  /\ GotPiece([mine.tick EXCEPT !.buf[Before(mine.piece)] = Head(down).val])

ClientPiece ==
  /\ ClientRead("piece")
  /\ GotPiece([mine.tick EXCEPT !.buf[mine.piece] = Head(down).val])

ClientPutAck ==
  /\ client = "put.ack"
  /\ ClientWrite(Item("ack", "SUCCESS"), IF mine.piece = 0 THEN "time" ELSE "piece",
                 [mine EXCEPT !.piece = Before(@)])

GotTime(at) ==
  ClientReturn([status |-> "SUCCESS", tick |-> mine.tick, time |-> at])

ClientTime == ClientRead("time") /\ GotTime(Head(down).val)

\* A read returns 0: every read but that of an acknowledgement is checked.
ClientEnd ==
  /\ client \in {"get.ack", "status", "id", "len", "piece", "time"}
  /\ down = <<>> /\ "server" \in gone /\ "client" \notin reset
  /\ IF client = "get.ack" THEN NextPut ELSE ClientReturn(Error("READ_ERROR"))
  /\ UNCHANGED <<streams, ends, call, servervars>>

\* A read returns -1: what it should have read stays as it was.  (The server
\* leaves only requests, pieces and acknowledgements unread.)
ClientReset ==
  /\ down = <<>> /\ "server" \in gone /\ "client" \in reset
  /\ reset' = reset \ {"client"}
  /\ \/ client = "get.ack" /\ NextPut
     \/ client = "status" /\ AfterStatus
     \/ client = "piece" /\ GotPiece(mine.tick)
     \/ client = "time" /\ GotTime(Nothing)
  /\ UNCHANGED <<streams, gone, call, servervars>>

\* The client's process ends in the middle of anything.
ClientCrash ==
  /\ client \notin {"closed", "dead"}
  /\ ClientEnds("dead")
  /\ Close("client", down)
  /\ UNCHANGED <<streams, call, servervars>>

-----------------------------------------------------------------------------
(* The server thread.  Its locals are forgotten when it leaves a handler:  *)
(* InStep says that none is used before it is assigned again.              *)

ServerGoto(step, l) ==
  /\ server' = step
  /\ local' = IF step \in {"command", "exit", "killed", "stopped"} THEN NoLocal ELSE l

ServerRead(kind) ==
  /\ server = kind
  /\ up # <<>> /\ Head(up).kind = kind
  /\ up' = Tail(up)
  /\ UNCHANGED <<down, ends, clientvars, store, done>>

Dispatch(c) ==
  IF c \in NameOps THEN "name"
  ELSE IF c \in {"push_tick"} \cup PullOps \cup SubscribeOps THEN "id"
  ELSE IF c = "close_connection" THEN "exit" ELSE "command"

ServerCommand == /\ ServerRead("command")
                 /\ command' = Head(up).val
                 /\ ServerGoto(Dispatch(command'), local)

ServerName == /\ ServerRead("name")
              /\ ServerGoto("call", [local EXCEPT !.name = Head(up).val])
              /\ UNCHANGED command

ServerId == /\ ServerRead("id")
            /\ ServerGoto(IF command = "push_tick" THEN "len"
                          ELSE IF command = "pull_tick_by_datetime" THEN "at"
                          ELSE "call", [local EXCEPT !.id = Head(up).val])
            /\ UNCHANGED command

\* Mutant: the time is read into the id.
ServerAtSwapped == /\ ServerRead("at")
                   /\ ServerGoto("call", [local EXCEPT !.id = Head(up).val])
                   /\ UNCHANGED command

ServerAt == /\ ServerRead("at")
            /\ ServerGoto("call", [local EXCEPT !.at = Head(up).val])
            /\ UNCHANGED command

ServerLen ==
  /\ ServerRead("len")
  /\ ServerGoto("piece", [local EXCEPT !.tick = Raw(Head(up).val),
                                       !.piece = Head(up).val.chunks])
  /\ UNCHANGED command

NoBytes == local.piece = local.tick.len.chunks /\ ~local.tick.len.tail

ServerPiece ==
  /\ ServerRead("piece")
  /\ ~NoBytes
  /\ ServerGoto("put.ack", [local EXCEPT !.tick.buf[local.piece] = Head(up).val])
  /\ UNCHANGED command

\* A write to the client.  A killed server takes every connection with it.
ServerWrite(item, step, l) ==
  /\ \/ /\ "client" \notin gone
        /\ down' = Append(down, item)
        /\ ServerGoto(step, l)
        /\ UNCHANGED <<up, ends>>
     \/ /\ "client" \in gone
        /\ ServerGoto(step, l)
        /\ UNCHANGED <<streams, ends>>
     \/ /\ "client" \in gone
        /\ ServerGoto("killed", l)
        /\ Close("server", up)
        /\ UNCHANGED streams
  /\ UNCHANGED <<clientvars, command, store, done>>

\* Mutant: a read of no bytes is acknowledged like any other.
ServerPieceNothingAck ==
  /\ server = "piece"
  /\ NoBytes
  /\ ServerWrite(Item("get.ack", "SUCCESS"), "command", local)

\* A read of no bytes returns 0, which is taken for a closed connection.
ServerPieceNothing ==
  /\ server = "piece"
  /\ NoBytes
  /\ ServerGoto("command", local)
  /\ UNCHANGED <<streams, ends, clientvars, command, store, done>>

LessPiece == [local EXCEPT !.piece = Before(@)]

\* Mutants: the loop stops one piece early; nothing is acknowledged.
ServerPutAckEarly ==
  /\ server = "put.ack"
  /\ ServerWrite(Item("get.ack", "SUCCESS"),
                 IF local.piece < 2 THEN "call" ELSE "piece", LessPiece)

ServerPutAckMissing ==
  /\ server = "put.ack"
  /\ ServerGoto(IF local.piece = 0 THEN "call" ELSE "piece", LessPiece)
  /\ UNCHANGED <<streams, ends, clientvars, command, store, done>>

ServerPutAck ==
  /\ server = "put.ack"
  /\ ServerWrite(Item("get.ack", "SUCCESS"),
                 IF local.piece = 0 THEN "call" ELSE "piece", LessPiece)

\* The request as the server has read it.
Received ==
  IF command \in NameOps THEN [op |-> command, name |-> local.name]
  ELSE IF command = "pull_tick_by_datetime"
       THEN [op |-> command, id |-> local.id, at |-> local.at]
  ELSE IF command = "push_tick"
       THEN [op |-> command, id |-> local.id, tick |-> local.tick]
  ELSE [op |-> command, id |-> local.id]

\* The store answers (see TickStore), and so the handler returns v.
Answer(v, l) ==
  /\ done' = [call |-> Received, res |-> v]
  /\ ServerGoto("status", [l EXCEPT !.rtn = v])

ServerCall ==
  /\ server = "call"
  /\ \/ \E e \in Errors(command) : Answer(Error(e), local) /\ UNCHANGED store
     \/ /\ command \in NameOps
        /\ \E n \in Ids : Answer([status |-> "SUCCESS", id |-> n], local)
        /\ UNCHANGED store
     \/ /\ command = "push_tick"
        /\ Answer([status |-> "SUCCESS"], local)
        /\ store' = store \cup {local.tick}
     \/ /\ command \in SubscribeOps
        /\ Answer([status |-> "SUCCESS"], local)
        /\ UNCHANGED store
     \/ /\ command \in PullOps
        /\ \E k \in store, at \in Times :
             Answer([status |-> "SUCCESS", tick |-> k, time |-> at],
                    [local EXCEPT !.tick = k, !.piece = k.len.chunks])
        /\ UNCHANGED store
  /\ UNCHANGED <<streams, ends, clientvars, command>>

ServerStatus ==
  /\ server = "status"
  /\ ServerWrite(Item("status", local.rtn.status),
       IF local.rtn.status # "SUCCESS" THEN "command"
       ELSE IF command \in NameOps THEN "reply.id"
       ELSE IF command \in PullOps THEN "reply.len" ELSE "command", local)

\* Mutant: the break that ends the handler is missing.
ServerReplyIdFallsBack ==
  /\ server = "reply.id"
  /\ ServerWrite(Item("id", local.rtn.id), "call", local)

ServerReplyId == /\ server = "reply.id"
                 /\ ServerWrite(Item("id", local.rtn.id), "command", local)

ServerReplyLen == /\ server = "reply.len"
                  /\ ServerWrite(Item("len", local.tick.len), "reply.piece", local)

\* A write of no bytes returns 0, which is taken for a closed connection.
ServerReplyPiece ==
  /\ server = "reply.piece"
  /\ IF NoBytes
     THEN /\ ServerGoto("command", local)
          /\ UNCHANGED <<streams, ends, clientvars, command, store, done>>
     ELSE LET item == Item("piece", local.tick.buf[local.piece])
          IN  IF command = "pull_tick" THEN ServerWrite(item, "ack", local)
              ELSE ServerWrite(item, IF local.piece = 0 THEN "reply.time"
                                     ELSE "reply.piece", LessPiece)

NextReply == ServerGoto(IF local.piece = 0 THEN "reply.time" ELSE "reply.piece",
                        LessPiece)

ServerAck == ServerRead("ack") /\ NextReply /\ UNCHANGED command

ServerReplyTime == /\ server = "reply.time"
                   /\ ServerWrite(Item("time", local.rtn.time), "command", local)

\* A read returns 0.  The break that follows leaves the switch, except at the
\* command, where it ends the thread, and in the loops over the full pieces,
\* which it leaves for the rest of the handler.
ServerEnd ==
  /\ server \in {"command", "name", "id", "at", "len", "piece", "ack"}
  /\ up = <<>> /\ "client" \in gone /\ "server" \notin reset
  /\ ServerGoto(IF server = "command" THEN "exit"
                ELSE IF server = "piece" /\ local.piece < local.tick.len.chunks
                     THEN "call"
                ELSE IF server = "ack" /\ local.piece < local.tick.len.chunks
                     THEN "reply.time"
                ELSE "command", local)
  /\ UNCHANGED <<streams, ends, clientvars, command, store, done>>

\* A read returns -1: command, arguments, data stay as they were.  (The client
\* leaves replies unread, which the server wrote when it had read the request.)
ServerReset ==
  /\ up = <<>> /\ "client" \in gone /\ "server" \in reset
  /\ reset' = reset \ {"server"}
  /\ \/ server = "command" /\ ServerGoto(Dispatch(command), local)
     \/ server = "piece" /\ ~NoBytes /\ ServerGoto("put.ack", local)
     \/ server = "ack" /\ NextReply
  /\ UNCHANGED <<streams, gone, clientvars, command, store, done>>

\* The server's process ends: stopped, or killed by another connection.
ServerStop ==
  /\ "server" \notin gone
  /\ ServerGoto("stopped", local)
  /\ Close("server", up)
  /\ UNCHANGED <<streams, clientvars, command, store, done>>

-----------------------------------------------------------------------------
ClientStep ==
  \/ ClientSend \/ ClientClose \/ ClientPut \/ ClientAck
  \/ ClientStatus \/ ClientId \/ ClientLen \/ ClientPiece \/ ClientPutAck
  \/ ClientTime \/ ClientEnd \/ ClientReset

ServerStep ==
  \/ ServerCommand \/ ServerName \/ ServerId \/ ServerAt \/ ServerLen \/ ServerPiece
  \/ ServerPieceNothing \/ ServerPutAck \/ ServerCall \/ ServerStatus
  \/ ServerReplyId \/ ServerReplyLen \/ ServerReplyPiece \/ ServerAck
  \/ ServerReplyTime \/ ServerEnd \/ ServerReset

Next == \/ \E r \in Calls : Call(r)
        \/ CloseConnection
        \/ ClientStep \/ ClientCrash
        \/ ServerStep \/ ServerStop

Spec == Init /\ [][Next]_vars

\* Both processes run; nothing makes a client call, close, or end.
FairSpec == Spec /\ WF_vars(ClientStep) /\ WF_vars(ServerStep)

-----------------------------------------------------------------------------
(* Properties                                                              *)

Maybe(S) == S \cup {Nothing}
LentTicks == {NoTick} \cup UNION {[len: {n}, buf: [0..n.chunks -> Maybe(Data \X (0..n.chunks))]] : n \in Lengths}
TypeOK ==
  /\ gone \subseteq {"client", "server"} /\ reset \subseteq {"client", "server"}
  /\ call \in Calls \cup {NoCall, [op |-> "close_connection"]}
  /\ mine.tick \in LentTicks /\ local.tick \in LentTicks
  /\ store \subseteq LentTicks \ {NoTick}
  /\ local.name \in Maybe(Names) /\ local.id \in Maybe(Ids)
  /\ local.at \in Maybe(Times)

\* Client and server stay in step: whichever reads finds the item that it
\* expects, a call leaves no reply behind, and a lost connection never fails at
\* a read whose stale value would then be used as an argument or a length.
InStep ==
  /\ server \in {"command", "name", "id", "at", "len", "piece", "ack"} =>
       \/ up = <<>> \/ Head(up).kind = server
       \/ server = "piece" /\ NoBytes
  /\ client \in {"get.ack", "status", "id", "len", "piece", "time"} =>
       down = <<>> \/ Head(down).kind = client
  /\ client = "idle" => down = <<>>
  /\ server \in {"name", "id", "at", "len"} => "server" \notin reset
  /\ client \in {"id", "len"} => "client" \notin reset

\* The call that the client made, as the server ought to receive it.
Asked == IF call.op = "push_tick"
         THEN [op |-> "push_tick", id |-> call.id, tick |-> Whole(call.len, call.data)]
         ELSE call

\* What a call returns is what became of it: on success the server has executed
\* that very call, with these arguments and this result, an error of the store
\* is the store's, and a failed write or read means that nothing was pushed, or
\* that the server is gone.  (Subscriptions, and the time of a pull_tick, are
\* excepted: see SubscribedWhenToldSo.)
ResultIsReal ==
  client = "idle" /\ result # Nothing =>
    IF result.status = "SUCCESS"
    THEN call.op \notin SubscribeOps =>
           /\ done.call = Asked
           /\ IF call.op = "pull_tick" THEN result.tick = done.res.tick
                                       ELSE result = done.res
    ELSE IF result.status = "WRITE_ERROR" THEN done = NotDone
    ELSE IF result.status = "READ_ERROR" THEN "server" \in gone
    ELSE done = [call |-> Asked, res |-> result]

\* "failed to catch return error" (core_srv_client.c:446): a subscribe or
\* unsubscribe that could not read the server's answer returns an error, so one
\* that returns SUCCESS has been executed.
SubscribedWhenToldSo ==
  client = "idle" /\ call.op \in SubscribeOps /\ result # Nothing =>
    (result.status = "SUCCESS" => done.call = call)

\* A call is executed at most once: the server never runs a handler again, nor
\* for a call the client has given up.
AtMostOnce ==
  [][done # NotDone => done' = done \/ (client = "idle" /\ client' = "send")]_vars

\* A tick gets into the store with every piece of it in its place, unless its
\* client has died while it sent them; one that ends on a full piece never does.
StoredWhole ==
  \A k \in store :
    /\ k.len.tail
    /\ (\E d \in Data : k = Whole(k.len, d)) \/ client = "dead"

\* A client that closes its connection between two calls has been answered: the
\* server is left with no call to execute and no reply or acknowledgement to write,
\* whatever became of the calls, so that no reply is ever what SIGPIPE ends it at.  (A
\* notification to a subscriber that has closed may be: here the process then stops.)
AnsweredBeforeClose ==
  client = "closed" =>
    server \notin {"call", "status", "put.ack", "reply.id", "reply.len", "reply.piece",
                   "reply.time", "killed"}

\* Every call returns: client and server never wait for each other, also when
\* the length is refused, the store has no answer or the server goes away.
Settled == {"idle", "closed", "dead"}
CallReturns == client \notin Settled ~> client \in Settled
=============================================================================
