------------------------------ MODULE FFWsConn ------------------------------
(***************************************************************************)
(* One WebSocket connection, from the upgrade to the last frame            *)
(* (ff-net.c's ff_net_ws_open, ff-ws-conn.c, and ff-ws.c's ff_ws_parse),   *)
(* against a server that may split, interleave, break off and hang up.     *)
(*                                                                         *)
(* The bytes are counted, not spelled: "stream" holds what the server sent *)
(* and the client has not dropped, as frames with a size, and rxLen is how *)
(* many bytes from its front are in the client's buffer.  The upgrade's    *)
(* response is the first frame of the stream.  Every pass of the parse     *)
(* loop, and every call of io.send, is a step.                             *)
(***************************************************************************)
EXTENDS Naturals, Sequences

CONSTANTS
  MaxPayload,   \* FF_WS_MAX_PAYLOAD
  Room,         \* the 16 bytes FF_WS_CONN_BUF has on top of it
  Header,       \* the header's size, by the payload's (ff_ws_parse: 2, 4 or 10)
  ResponseSize, \* the bytes of the server's answer to the upgrade
  ResponseBuf,  \* ff_net_ws_open's buf[8192]
  MaxSpins,     \* its three hundred rounds
  SendSize,     \* the bytes of a control frame the client sends
  MaxIdle,      \* the two hundred empty turns of ff_ws_conn_send
  MaxFrames     \* bound: frames the server sends after its answer

\* Mutant: no room for the header.
BufOfPayload == MaxPayload

\* FF_WS_CONN_BUF
Buf == MaxPayload + Room

ASSUME WsConnAssumption ==
  /\ MaxPayload \in Nat /\ Room \in Nat
  /\ Header \in [0..MaxPayload -> Nat \ {0}]
  /\ \A n \in 0..MaxPayload : Header[n] <= Room
  /\ ResponseSize \in Nat \ {0}
  /\ ResponseBuf \in Nat /\ ResponseBuf <= MaxPayload + Room
  /\ MaxSpins \in Nat /\ SendSize \in Nat \ {0} /\ MaxIdle \in Nat /\ MaxFrames \in Nat

VARIABLES
  stream,   \* the server's frames not yet dropped, oldest first
  flying,   \* bytes sent and not received
  up,       \* has the server not hung up?
  frames,   \* frames sent (bound, and the next frame's name)
  unfinished, \* the server's own view: the fragments of the message it is in
  done,     \* it has closed, or broken the protocol, and sends no more
  items,    \* the messages and pings it has completed, in order
  conn,     \* "upgrading", "open", "ended" (polling returns -1), "freed"
  spins,    \* the upgrade's loop counter
  pc,       \* "idle" between calls, "parse" in the loop, "send" in io.send
  sending,  \* in "send", what is being sent: "pong", "echo" or "close"
  left,     \* its bytes not yet taken by io.send
  idle,     \* empty turns in a row
  rxLen,    \* c->rx_len
  inMsg, msg, msgLen,  \* c->in_msg, the fragments in c->msg, c->msg_len
  main,     \* is it run_once's net, or a replacement still pending next to one?
  closing,  \* c->closing
  closes,   \* close frames begun
  handled   \* pings answered and messages handed up, in order

serverVars == <<up, frames, unfinished, done, items>>
sendVars == <<sending, left, idle>>
msgVars == <<inMsg, msg, msgLen, main>>
bufVars == <<stream, flying, rxLen>>
vars == <<stream, flying, up, frames, unfinished, done, items, conn, spins, pc, sending,
          left, idle, rxLen, inMsg, msg, msgLen, main, closing, closes, handled>>

Response(ok) == [op |-> IF ok THEN "101" ELSE "refused", fin |-> TRUE, len |-> 0, id |-> 0]

Data == {"text", "cont"}

Frames == [op : Data \union {"ping", "pong", "close", "unreadable", "101", "refused"},
           fin : BOOLEAN, len : 0..MaxPayload, id : 0..MaxFrames]

Size(f) == IF f.op \in {"101", "refused"} THEN ResponseSize ELSE Header[f.len] + f.len

Init ==
  /\ \E ok \in BOOLEAN : stream = <<Response(ok)>>
  /\ flying = ResponseSize
  /\ up = TRUE
  /\ frames = 0
  /\ unfinished = <<>>
  /\ done = FALSE
  /\ items = <<>>
  /\ conn = "upgrading"
  /\ spins = 0
  /\ pc = "idle"
  /\ sending = "close"
  /\ left = 0
  /\ idle = 0
  /\ rxLen = 0
  /\ inMsg = FALSE
  /\ msg = <<>>
  /\ msgLen = 0
  /\ main \in BOOLEAN
  /\ closing = FALSE
  /\ closes = 0
  /\ handled = <<>>

----------------------------------------------------------------------------
(* The server, as long as there is a client *)

ServerSends(op, fin, len) ==
  LET f == [op |-> op, fin |-> fin, len |-> len, id |-> frames + 1]
  IN  /\ up /\ ~done /\ conn # "freed"
      /\ frames < MaxFrames
      /\ frames' = frames + 1
      /\ stream' = Append(stream, f)
      /\ flying' = flying + Size(f)
      /\ UNCHANGED <<up, conn, spins, pc, rxLen, closing, closes, handled>>
      /\ UNCHANGED sendVars
      /\ UNCHANGED msgVars

Item(kind, parts) == [kind |-> kind, parts |-> parts]

\* A message, whole or the next fragment of it.
SendData(fin, len) ==
  /\ ServerSends(IF unfinished = <<>> THEN "text" ELSE "cont", fin, len)
  /\ LET parts == Append(unfinished, frames + 1)
     IN  /\ unfinished' = IF fin THEN <<>> ELSE parts
         /\ items' = IF fin THEN Append(items, Item("message", parts)) ELSE items
  /\ UNCHANGED done

\* A ping, also between two fragments.
SendPing ==
  /\ ServerSends("ping", TRUE, 0)
  /\ items' = Append(items, Item("ping", <<frames + 1>>))
  /\ UNCHANGED <<unfinished, done>>

SendPong ==
  /\ ServerSends("pong", TRUE, 0)
  /\ UNCHANGED <<unfinished, done, items>>

SendClose ==
  /\ ServerSends("close", TRUE, 0)
  /\ done' = TRUE
  /\ UNCHANGED <<unfinished, items>>

\* A server that has lost the thread: a frame no parser takes, a continuation of
\* nothing, or a new message on top of an unfinished one.
SendBroken ==
  /\ \E fin \in BOOLEAN :
       \/ ServerSends("unreadable", fin, 0)
       \/ unfinished = <<>> /\ ServerSends("cont", fin, 0)
       \/ unfinished # <<>> /\ ServerSends("text", fin, 0)
  /\ done' = TRUE
  /\ UNCHANGED <<unfinished, items>>

HangUp ==
  /\ up /\ conn # "freed"
  /\ up' = FALSE
  /\ UNCHANGED <<frames, unfinished, done, items, conn, spins, pc, closing, closes, handled>>
  /\ UNCHANGED bufVars
  /\ UNCHANGED sendVars
  /\ UNCHANGED msgVars

Server ==
  \/ \E fin \in BOOLEAN, len \in 0..MaxPayload : SendData(fin, len)
  \/ SendPing \/ SendPong \/ SendClose \/ SendBroken \/ HangUp

----------------------------------------------------------------------------
(* ff_net_ws_open, once the request is out *)

\* The frame at the front of the buffer, and is it all there?  ff_ws_parse refuses
\* an unreadable one on its header, which is all such a frame has here.
Front == Head(stream)
Whole == stream # <<>> /\ rxLen >= Size(Front)

\* drop: the frame at the front leaves the buffer.
Drop ==
  /\ stream' = Tail(stream)
  /\ rxLen' = rxLen - Size(Front)
  /\ UNCHANGED flying

Upgrading == conn = "upgrading" /\ spins < MaxSpins

\* Mutant: the buffer starts empty.
UpgradeDoneForgetful ==
  /\ Upgrading
  /\ Whole /\ Front.op = "101"
  /\ spins' = 0
  /\ conn' = "open"
  /\ stream' = Tail(stream)
  /\ rxLen' = 0
  /\ UNCHANGED flying
  /\ UNCHANGED <<pc, closing, closes, handled>>
  /\ UNCHANGED serverVars
  /\ UNCHANGED sendVars
  /\ UNCHANGED msgVars

\* The answer is all there, and is a 101 for our key: what came after it is the
\* first of the frames, and stays in the buffer.
UpgradeDone ==
  /\ Upgrading
  /\ Whole /\ Front.op = "101"
  /\ spins' = 0
  /\ conn' = "open"
  /\ Drop
  /\ UNCHANGED <<pc, closing, closes, handled>>
  /\ UNCHANGED serverVars
  /\ UNCHANGED sendVars
  /\ UNCHANGED msgVars

\* Not a 101, no end to it, too many rounds, or a socket that died.
UpgradeFails ==
  /\ conn = "upgrading"
  /\ \/ spins = MaxSpins
     \/ Whole /\ Front.op = "refused"
     \/ ~Whole /\ rxLen >= ResponseBuf
     \/ ~Whole /\ ~up
  /\ spins' = 0
  /\ conn' = "freed"
  /\ UNCHANGED <<pc, closing, closes, handled>>
  /\ UNCHANGED serverVars
  /\ UNCHANGED bufVars
  /\ UNCHANGED sendVars
  /\ UNCHANGED msgVars

UpgradeReads ==
  /\ Upgrading
  /\ ~Whole /\ rxLen < ResponseBuf
  /\ \E r \in 0..flying :
       /\ rxLen + r <= ResponseBuf
       /\ rxLen' = rxLen + r
       /\ flying' = flying - r
  /\ spins' = spins + 1
  /\ UNCHANGED <<stream, conn, pc, closing, closes, handled>>
  /\ UNCHANGED serverVars
  /\ UNCHANGED sendVars
  /\ UNCHANGED msgVars

----------------------------------------------------------------------------
(* ff_ws_conn_poll *)

Open == conn = "open"

\* One read for a call, of whatever has arrived; none when there is no room.
PollReads ==
  /\ Open /\ pc = "idle"
  /\ \E r \in IF flying = 0 \/ rxLen >= Buf THEN {0} ELSE 1..flying :
       /\ r = 0 \/ rxLen + r <= Buf
       /\ rxLen' = rxLen + r
       /\ flying' = flying - r
  /\ pc' = "parse"
  /\ UNCHANGED <<stream, conn, spins, closing, closes, handled>>
  /\ UNCHANGED serverVars
  /\ UNCHANGED sendVars
  /\ UNCHANGED msgVars

End ==
  /\ conn' = "ended"
  /\ pc' = "idle"

\* return -1 before anything that is still in the buffer is parsed
PollDead ==
  /\ Open /\ pc = "idle"
  /\ rxLen < Buf
  /\ ~up
  /\ End
  /\ UNCHANGED <<spins, closing, closes, handled>>
  /\ UNCHANGED serverVars
  /\ UNCHANGED bufVars
  /\ UNCHANGED sendVars
  /\ UNCHANGED msgVars

Parsing == Open /\ pc = "parse"

\* return 0: more bytes will finish it
Incomplete ==
  /\ Parsing
  /\ ~Whole
  /\ pc' = "idle"
  /\ UNCHANGED <<conn, spins, closing, closes, handled>>
  /\ UNCHANGED serverVars
  /\ UNCHANGED bufVars
  /\ UNCHANGED sendVars
  /\ UNCHANGED msgVars

\* Mutants: a new message may start on top of an unfinished one; a message may
\* outgrow c->msg.
RefusedUnlessNew ==
  \/ Front.op = "unreadable"
  \/ Front.op = "cont" /\ ~inMsg
  \/ Front.op = "cont" /\ msgLen + Front.len > MaxPayload

RefusedAnyLength ==
  \/ Front.op = "unreadable"
  \/ Front.op = "cont" /\ ~inMsg
  \/ Front.op = "text" /\ inMsg

\* A frame the parser cannot read, or one that is not what the message needs: a
\* message that would not fit c->msg counts too.
Refused ==
  \/ Front.op = "unreadable"
  \/ Front.op = "cont" /\ ~inMsg
  \/ Front.op = "text" /\ inMsg
  \/ Front.op = "cont" /\ msgLen + Front.len > MaxPayload

\* return -1: a frame or a message the client will not have
RefuseFrame ==
  /\ Parsing /\ Whole
  /\ Refused
  /\ End
  /\ UNCHANGED <<spins, closing, closes, handled>>
  /\ UNCHANGED serverVars
  /\ UNCHANGED bufVars
  /\ UNCHANGED sendVars
  /\ UNCHANGED msgVars

StartSend(what) ==
  /\ sending' = what
  /\ left' = SendSize
  /\ idle' = 0
  /\ pc' = "send"

ParsePing ==
  /\ Parsing /\ Whole /\ Front.op = "ping"
  /\ StartSend("pong")
  /\ UNCHANGED <<conn, spins, closing, closes, handled>>
  /\ UNCHANGED serverVars
  /\ UNCHANGED bufVars
  /\ UNCHANGED msgVars

\* The server's close is echoed, unless a close of ours is out already.
ParseClose ==
  /\ Parsing /\ Whole /\ Front.op = "close"
  /\ IF closing
     THEN /\ End
          /\ Drop
          /\ UNCHANGED <<sending, left, idle, closing, closes>>
     ELSE /\ closing' = TRUE
          /\ closes' = closes + 1
          /\ StartSend("echo")
          /\ UNCHANGED <<conn, stream, flying, rxLen>>
  /\ UNCHANGED <<spins, handled>>
  /\ UNCHANGED serverVars
  /\ UNCHANGED msgVars

\* A fragment joins the message; the last one hands it up (return 1), and if it is
\* the welcome of a replacement the loop swaps the sockets before it polls again.
ParseData ==
  /\ Parsing /\ Whole /\ Front.op \in Data
  /\ ~Refused
  /\ LET parts == IF Front.op = "text" THEN <<Front.id>> ELSE Append(msg, Front.id)
     IN  /\ msg' = parts
         /\ msgLen' = (IF Front.op = "text" THEN 0 ELSE msgLen) + Front.len
         /\ inMsg' = ~Front.fin
         /\ handled' = IF Front.fin THEN Append(handled, Item("message", parts)) ELSE handled
         /\ pc' = IF Front.fin THEN "idle" ELSE "parse"
         /\ main' \in IF Front.fin THEN {main, TRUE} ELSE {main}
  /\ Drop
  /\ UNCHANGED <<conn, spins, closing, closes>>
  /\ UNCHANGED serverVars
  /\ UNCHANGED sendVars

ParsePong ==
  /\ Parsing /\ Whole /\ Front.op = "pong"
  /\ Drop
  /\ UNCHANGED <<conn, spins, pc, closing, closes, handled>>
  /\ UNCHANGED serverVars
  /\ UNCHANGED sendVars
  /\ UNCHANGED msgVars

----------------------------------------------------------------------------
(* ff_ws_conn_send, and where it was called from *)

\* io.send took some, not all, of the frame.
SendSome ==
  /\ pc = "send"
  /\ \E r \in 1..left : r < left /\ left' = left - r
  /\ idle' = 0
  /\ UNCHANGED <<conn, spins, pc, sending, closing, closes, handled>>
  /\ UNCHANGED serverVars
  /\ UNCHANGED bufVars
  /\ UNCHANGED msgVars

\* It would block: another empty turn.
SendBlocks ==
  /\ pc = "send"
  /\ idle < MaxIdle
  /\ idle' = idle + 1
  /\ UNCHANGED <<conn, spins, pc, sending, left, closing, closes, handled>>
  /\ UNCHANGED serverVars
  /\ UNCHANGED bufVars
  /\ UNCHANGED msgVars

\* The call ends: everything sent, or the socket is dead, or it has not moved for
\* MaxIdle turns, or there was no mask to be had.  A pong that went out is followed
\* by the next frame, one that did not ends the connection; nobody looks at how
\* the sending of a close went.
SendEnds(ok) ==
  /\ pc = "send"
  /\ CASE sending = "pong" /\ ok ->
            /\ Drop
            /\ handled' = Append(handled, Item("ping", <<Front.id>>))
            /\ pc' = "parse"
            /\ UNCHANGED conn
       [] sending = "pong" /\ ~ok ->
            End /\ UNCHANGED handled /\ UNCHANGED bufVars
       [] sending = "echo" ->
            End /\ Drop /\ UNCHANGED handled
       [] sending = "close" ->
            conn' = "freed" /\ pc' = "idle" /\ UNCHANGED handled /\ UNCHANGED bufVars
  /\ sending' = "close"
  /\ left' = 0
  /\ idle' = 0
  /\ UNCHANGED <<spins, closing, closes>>
  /\ UNCHANGED serverVars
  /\ UNCHANGED msgVars

Sending == SendSome \/ SendBlocks \/ \E ok \in BOOLEAN : SendEnds(ok)

----------------------------------------------------------------------------
(* run_once giving a connection up                                           *)

\* Mutant: an echoed close is followed by another.
LeaveTwice ==
  /\ main /\ conn \in {"open", "ended"} /\ pc = "idle"
  /\ closing' = TRUE
  /\ closes' = closes + 1
  /\ conn' = "ended"
  /\ StartSend("close")
  /\ UNCHANGED <<spins, handled>>
  /\ UNCHANGED serverVars
  /\ UNCHANGED bufVars
  /\ UNCHANGED msgVars

\* The main socket, at a swap or on the way out of the loop: ff_ws_conn_close, which
\* says goodbye once, and ff_net_close.
Leave ==
  /\ main /\ conn \in {"open", "ended"} /\ pc = "idle"
  /\ IF closing
     THEN conn' = "freed" /\ UNCHANGED <<pc, sending, left, idle, closing, closes>>
     ELSE /\ closing' = TRUE
          /\ closes' = closes + 1
          /\ conn' = "ended"
          /\ StartSend("close")
  /\ UNCHANGED <<spins, handled>>
  /\ UNCHANGED serverVars
  /\ UNCHANGED bufVars
  /\ UNCHANGED msgVars

\* A replacement that failed, ran out of time, is replaced itself or outlives the loop:
\* ff_net_close alone.
Abandon ==
  /\ ~main /\ conn \in {"open", "ended"} /\ pc = "idle"
  /\ conn' = "freed"
  /\ UNCHANGED <<spins, pc, closing, closes, handled>>
  /\ UNCHANGED serverVars
  /\ UNCHANGED bufVars
  /\ UNCHANGED sendVars
  /\ UNCHANGED msgVars

----------------------------------------------------------------------------

Upgrade == UpgradeDone \/ UpgradeFails \/ UpgradeReads

Poll ==
  \/ PollReads \/ PollDead
  \/ Incomplete \/ RefuseFrame \/ ParsePing \/ ParseClose \/ ParseData \/ ParsePong
  \/ Sending

Next == Server \/ Upgrade \/ Poll \/ Leave \/ Abandon

Spec == Init /\ [][Next]_vars

\* The worker polls as long as the connection is open.
FairSpec == Spec /\ WF_vars(Upgrade) /\ WF_vars(Poll)
----------------------------------------------------------------------------
(* Properties *)

TypeOK ==
  /\ stream \in Seq(Frames)
  /\ flying \in Nat /\ rxLen \in Nat
  /\ up \in BOOLEAN /\ done \in BOOLEAN
  /\ frames \in 0..MaxFrames
  /\ conn \in {"upgrading", "open", "ended", "freed"}
  /\ spins \in 0..MaxSpins
  /\ pc \in {"idle", "parse", "send"}
  /\ sending \in {"pong", "echo", "close"}
  /\ left \in 0..SendSize /\ idle \in 0..MaxIdle
  /\ main \in BOOLEAN
  /\ inMsg \in BOOLEAN /\ msgLen \in 0..MaxPayload
  /\ closing \in BOOLEAN /\ closes \in Nat
  /\ pc = "send" /\ sending = "pong" => Whole /\ Front.op = "ping"

\* The buffer never overflows, and once the connection is open a full one always
\* begins with a whole frame: a call that skips the read because there is no room
\* cannot be the one that waits for more bytes.
NeverFullAndWaiting ==
  /\ rxLen <= Buf
  /\ conn \in {"open", "ended"} /\ rxLen = Buf => Whole

\* Whatever the reads cut apart or put together, the upgrade's own included, every
\* ping is answered and every message handed up once, whole, and in the order the
\* server finished them; nothing is spliced and nothing follows the end.
Line == INSTANCE MessageLine WITH over <- conn \in {"ended", "freed"}

InOrderAndWhole == Line!Spec

\* The answer to the upgrade has been taken out of the buffer.
Upgraded == stream = <<>> \/ Front.op \notin {"101", "refused"}

\* The client says goodbye once, whether it goes first or answers, and the main socket,
\* one that began as a replacement too, is never freed without a word once it is
\* through its upgrade.  (A replacement nothing came of is.)
OneGoodbye ==
  /\ closes <= 1
  /\ conn = "freed" /\ main /\ Upgraded => closes = 1

\* No message is left in the buffer until the next byte arrives, no full buffer and
\* no stalled send holds the line up: what the server finishes is dealt with, or
\* the connection is over.
EveryItemHandled ==
  \A n \in 1..MaxFrames :
    Len(items) >= n ~> (Len(handled) >= n \/ conn \in {"ended", "freed"})

----------------------------------------------------------------------------
(* Why they hold: the inductive invariant.  The stream is one thread of    *)
(* bytes and one of items, and a drop takes the front of both.             *)

Items == [kind : {"message", "ping"}, parts : Seq(Nat)]

TypesInv ==
  /\ items \in Seq(Items) /\ handled \in Seq(Items)
  /\ msg \in Seq(Nat) /\ unfinished \in Seq(Nat)
  /\ inMsg => msg # <<>>

\* Where the client is decides what it has done.
PhaseInv ==
  /\ pc = "parse" => conn = "open"
  /\ pc = "send" => IF sending = "close" THEN conn = "ended" /\ closing
                    ELSE conn = "open" /\ Whole /\ (sending = "echo" => closing)
  /\ conn = "upgrading" =>
       /\ pc = "idle" /\ ~closing /\ ~inMsg /\ handled = <<>>
       /\ stream # <<>> /\ Front.op \in {"101", "refused"}
  /\ conn = "freed" => closing \/ ~main \/ ~Upgraded
  /\ closes = IF closing THEN 1 ELSE 0

\* Only the first frame is an answer, and none is once the connection is open.
AnswerInv ==
  \A i \in 1..Len(stream) :
    stream[i].op \in {"101", "refused"} => i = 1 /\ conn \in {"upgrading", "freed"}

\* rest[i] is what follows the i-th frame.
Follows(rest) ==
  /\ rest[Len(stream)] = 0
  /\ \A i \in 1..Len(stream) : rest[i - 1] = Size(stream[i]) + rest[i]

\* Every byte of the stream is in the buffer or in flight, and nothing else is.
BytesInv ==
  /\ rxLen <= Buf /\ (conn = "upgrading" => rxLen <= ResponseBuf)
  /\ \E rest \in [0..Len(stream) -> Nat] : Follows(rest) /\ rest[0] = rxLen + flying

\* A frame to a reader with the fragments "before".
Broken(before, f) ==
  \/ f.op = "unreadable"
  \/ f.op = "cont" /\ before = <<>>
  \/ f.op = "text" /\ before # <<>>
Completes(f) == f.op = "ping" \/ (f.op \in Data /\ f.fin)
Completed(before, f) ==
  IF f.op = "ping" THEN Item("ping", <<f.id>>) ELSE Item("message", Append(before, f.id))
After(before, f) ==
  IF f.op \notin Data THEN before ELSE IF f.fin THEN <<>> ELSE Append(before, f.id)

\* What a reader has of a message, and how many items it has seen, after each frame:
\* the server's items, one by one, up to a frame that ends everything.
Reads(parts, count) ==
  /\ parts[0] = (IF inMsg THEN msg ELSE <<>>) /\ count[0] = Len(handled)
  /\ \A i \in 1..Len(stream) :
       LET f == stream[i]
       IN  IF f.op = "close" \/ Broken(parts[i - 1], f)
           THEN i = Len(stream) /\ done /\ count[i] = count[i - 1]
           ELSE /\ parts[i] = After(parts[i - 1], f)
                /\ count[i] = count[i - 1] + (IF Completes(f) THEN 1 ELSE 0)
                /\ Completes(f) => items[count[i]] = Completed(parts[i - 1], f)
  /\ ~done => parts[Len(stream)] = unfinished
  /\ count[Len(stream)] = Len(items)

ItemsInv ==
  conn \in {"upgrading", "open"} =>
    \E parts \in [0..Len(stream) -> Seq(Nat)], count \in [0..Len(stream) -> 0..Len(items)] :
      Reads(parts, count)

IInv == TypeOK /\ TypesInv /\ PhaseInv /\ AnswerInv /\ BytesInv /\ ItemsInv
=============================================================================
