--------------------------- MODULE FFTwitchProofs ---------------------------
(***************************************************************************)
(* For any number of alerts, sockets, reconnects and presses: what the     *)
(* worker of FFTwitch never does.                                          *)
(***************************************************************************)
EXTENDS FFTwitch, TLAPS

USE SessionAssumption, TwitchAssumption

----------------------------------------------------------------------------
(* The messages and the session *)

LEMMA MessageKinds ==
  \A m \in Messages :
    /\ m.type \in {"welcome", "keepalive", "reconnect", "event"}
    /\ m.type = "welcome" => m.keepalive \in Keepalives
    /\ m.type = "reconnect" => m.keepalive = 0 /\ m.url = Resume
    /\ m.type = "event" => m.alert \in 1..MaxAlerts
  <1> SUFFICES ASSUME NEW m \in Messages
               PROVE  /\ m.type \in {"welcome", "keepalive", "reconnect", "event"}
                      /\ m.type = "welcome" => m.keepalive \in Keepalives
                      /\ m.type = "reconnect" => m.keepalive = 0 /\ m.url = Resume
                      /\ m.type = "event" => m.alert \in 1..MaxAlerts
    OBVIOUS
  <1>1. CASE \E k \in Keepalives : m = Welcome(k) BY <1>1 DEF Welcome
  <1>2. CASE m = Keepalive BY <1>2 DEF Keepalive
  <1>3. CASE m = Reconnect(Resume) BY <1>3 DEF Reconnect
  <1>4. CASE \E n \in 1..MaxAlerts : m = Notification(n) BY <1>4 DEF Notification
  <1> QED BY <1>1, <1>2, <1>3, <1>4 DEF Messages

LEMMA Sent ==
  /\ \A k \in Keepalives : Welcome(k) \in Messages /\ Welcome(k).type = "welcome"
  /\ Keepalive \in Messages /\ Keepalive.type = "keepalive"
  /\ Reconnect(Resume) \in Messages /\ Reconnect(Resume).type = "reconnect"
  /\ \A n \in 1..MaxAlerts : /\ Notification(n) \in Messages
                             /\ Notification(n).type = "event" /\ Notification(n).alert = n
  <1>1. /\ \A k \in Keepalives : Welcome(k) \in Messages
        /\ Keepalive \in Messages /\ Reconnect(Resume) \in Messages
        /\ \A n \in 1..MaxAlerts : Notification(n) \in Messages
    BY DEF Messages
  <1> QED BY <1>1 DEF Welcome, Keepalive, Reconnect, Notification

LEMMA Ages == 0 \in OpenedAges /\ 0 \in HeardAges /\ 0 \in HandoverAges
  <1> DEFINE most == CHOOSE k \in Keepalives : \A j \in Keepalives : j <= k
  <1>1. most \in Keepalives OBVIOUS
  <1>2. most \in Nat BY <1>1
  <1> HIDE DEF most
  <1>3. 0 \in 0..(1 + (2 * most + StaleSlack)) BY <1>2
  <1> QED BY <1>3 DEF most, OpenedAges, HeardAges, HandoverAges, StaleAfter

LEMMA NewSessionIs ==
  ASSUME NEW u \in Urls
  PROVE  NewSession(u) \in Sessions /\ NewSession(u).url = u /\ ~NewSession(u).subscribed
  BY Ages DEF NewSession, Sessions

LEMMA OpenedIs ==
  ASSUME NEW s \in Sessions
  PROVE  Opened(s) \in Sessions /\ Opened(s).url = s.url /\ Opened(s).subscribed = s.subscribed
  BY Ages DEF Opened, Sessions

LEMMA ReplacementIs ==
  ASSUME NEW u \in Urls PROVE Opened(ReplacementSession(u)) \in Sessions
  <1> DEFINE s == NewSession(u)
  <1>1. s \in Sessions BY NewSessionIs
  <1> HIDE DEF s
  <1>2. [s EXCEPT !.subscribed = TRUE] \in Sessions BY <1>1 DEF Sessions
  <1>3. ReplacementSession(u) \in Sessions BY <1>2 DEF s, ReplacementSession
  <1> QED BY <1>3, OpenedIs

LEMMA OlderIs ==
  ASSUME NEW s \in Sessions
  PROVE  Older(s) \in Sessions /\ Older(s).url = s.url /\ Older(s).subscribed = s.subscribed
  BY DEF Older, Sessions

LEMMA AfterMessageIs ==
  ASSUME NEW s \in Sessions, NEW m \in Messages
  PROVE  /\ AfterMessage(s, m) \in Sessions
         /\ AfterMessage(s, m).subscribed = s.subscribed
         /\ AfterMessage(s, m).url = IF m.type = "reconnect" THEN Resume ELSE s.url
         /\ MessageStep(s, m) = "subscribe" => m.type = "welcome" /\ ~s.subscribed
         /\ MessageStep(s, m) = "reconnect" <=> m.type = "reconnect"
         /\ MessageStep(s, m) = "emit" <=> Alert(m)
  <1>1. CASE m.type = "welcome"
    BY <1>1, Ages, MessageKinds DEF AfterMessage, MessageStep, Sessions, Alert
  <1>2. CASE m.type = "reconnect"
    BY <1>2, Ages, MessageKinds DEF AfterMessage, MessageStep, Sessions, Alert
  <1>3. CASE m.type = "event" \/ m.type = "keepalive"
    BY <1>3, Ages, MessageKinds DEF AfterMessage, MessageStep, Sessions, Alert
  <1> QED BY <1>1, <1>2, <1>3, MessageKinds

LEMMA AdoptIs ==
  ASSUME NEW s \in Sessions, NEW p \in Sessions
  PROVE  Adopt(s, p) \in Sessions /\ Adopt(s, p).url = s.url /\ Adopt(s, p).subscribed
  BY Ages DEF Adopt, Sessions

----------------------------------------------------------------------------
(* Lines of messages *)

LEMMA AppendIs ==
  ASSUME NEW S, NEW q \in Seq(S), NEW m \in S
  PROVE  /\ Append(q, m) \in Seq(S) /\ Len(Append(q, m)) = Len(q) + 1 /\ Len(q) \in Nat
         /\ \A i \in 1..Len(q) : Append(q, m)[i] = q[i]
         /\ Append(q, m)[Len(q) + 1] = m
  OBVIOUS

LEMMA TailIs ==
  ASSUME NEW S, NEW q \in Seq(S), q # <<>>
  PROVE  /\ Tail(q) \in Seq(S) /\ Len(q) \in Nat \ {0} /\ Len(Tail(q)) = Len(q) - 1
         /\ \A i \in 1..Len(q) - 1 : Tail(q)[i] = q[i + 1]
         /\ Head(q) = q[1] /\ q[1] \in S
  OBVIOUS

\* A newer alert, or none, put at the end.
LEMMA AppendKeeps ==
  ASSUME NEW q \in Seq(Messages), NEW m \in Messages
  PROVE  /\ Rising(q) /\ (Alert(m) => \A i \in 1..Len(q) : Alert(q[i]) => q[i].alert < m.alert)
              => Rising(Append(q, m))
         /\ \A n : Newer(q, n) /\ (Alert(m) => n < m.alert) => Newer(Append(q, m), n)
         /\ \A n : NoneOver(q, n) /\ (Alert(m) => m.alert <= n) => NoneOver(Append(q, m), n)
         /\ AsksToMove(Append(q, m)) => AsksToMove(q) \/ m.type = "reconnect"
  <1> DEFINE a == Append(q, m)
  <1>1. /\ Len(a) = Len(q) + 1 /\ Len(q) \in Nat
        /\ \A i \in 1..Len(q) : a[i] = q[i]
        /\ a[Len(q) + 1] = m
    BY AppendIs
  <1> HIDE DEF a
  <1>2. \A i \in 1..Len(a) : (i \in 1..Len(q) /\ a[i] = q[i]) \/ (i = Len(q) + 1 /\ a[i] = m)
    BY <1>1
  <1>3. ASSUME Rising(q), Alert(m) => \A i \in 1..Len(q) : Alert(q[i]) => q[i].alert < m.alert
        PROVE  Rising(a)
    BY <1>1, <1>2, <1>3 DEF Rising
  <1>4. \A n : Newer(q, n) /\ (Alert(m) => n < m.alert) => Newer(a, n)
    BY <1>2 DEF Newer
  <1>5. \A n : NoneOver(q, n) /\ (Alert(m) => m.alert <= n) => NoneOver(a, n)
    BY <1>2 DEF NoneOver
  <1>6. AsksToMove(a) => AsksToMove(q) \/ m.type = "reconnect"
    BY <1>2 DEF AsksToMove
  <1> QED BY <1>3, <1>4, <1>5, <1>6 DEF a

\* What is left after the first is read.
LEMMA TailKeeps ==
  ASSUME NEW q \in Seq(Messages), q # <<>>
  PROVE  /\ Rising(q) => /\ Rising(Tail(q))
                         /\ Alert(Head(q)) => Newer(Tail(q), Head(q).alert)
         /\ \A n : Newer(q, n) => Newer(Tail(q), n)
         /\ \A n : NoneOver(q, n) => NoneOver(Tail(q), n)
         /\ AsksToMove(Tail(q)) => AsksToMove(q)
         /\ \A i \in 1..Len(Tail(q)) : i + 1 \in 1..Len(q) /\ Tail(q)[i] = q[i + 1]
  <1> DEFINE a == Tail(q)
  <1>1. /\ Len(q) \in Nat \ {0} /\ Len(a) = Len(q) - 1 /\ Head(q) = q[1]
        /\ \A i \in 1..Len(q) - 1 : a[i] = q[i + 1]
    BY TailIs
  <1> HIDE DEF a
  <1>2. \A i \in 1..Len(a) : i + 1 \in 1..Len(q) /\ a[i] = q[i + 1] BY <1>1
  <1>3. Rising(q) => Rising(a)
    BY <1>1, <1>2 DEF Rising
  <1>4. Rising(q) /\ Alert(Head(q)) => Newer(a, Head(q).alert)
    BY <1>1, <1>2 DEF Rising, Newer
  <1>5. \A n : Newer(q, n) => Newer(a, n) BY <1>2 DEF Newer
  <1>6. \A n : NoneOver(q, n) => NoneOver(a, n) BY <1>2 DEF NoneOver
  <1>7. AsksToMove(a) => AsksToMove(q) BY <1>2 DEF AsksToMove
  <1> QED BY <1>2, <1>3, <1>4, <1>5, <1>6, <1>7 DEF a

----------------------------------------------------------------------------
(* The invariant in two halves: the panel, and the sockets with what is on *)
(* them.                                                                   *)

Labels == {"top", "sign in?", "gate", "device", "announce", "poll", "refresh", "identify",
           "open", "dial", "tail", "exited"} \union InLoop

FlagsOK ==
  /\ running \in BOOLEAN /\ enabled \in BOOLEAN
  /\ wantSignIn \in BOOLEAN /\ wantSignOut \in BOOLEAN

LineOK ==
  /\ state \in States /\ code \in BOOLEAN
  /\ token \in {"none", "valid", "refused"}
  /\ pc \in Labels

CodeOK == code /\ running => pc \in {"announce", "poll"}

PanelOK == FlagsOK /\ LineOK /\ CodeOK

SocketsOK ==
  /\ net \in Conns \union {NoConn} /\ pending \in Conns \union {NoConn}
  /\ sess \in Sessions /\ psess \in Sessions
  /\ \A c \in Conns : Len(wire[c].inbox) <= MaxInbox

SocketsIInv == SocketsOK /\ SocketsInv /\ SubscribedInv /\ OrderInv

LEMMA Halves ==
  /\ IInv <=> PanelOK /\ SocketsIInv
  /\ IInv' <=> PanelOK' /\ SocketsIInv'
  BY DEF IInv, TypeOK, PanelOK, FlagsOK, LineOK, CodeOK, SocketsIInv, SocketsOK, SocketsInv, SubscribedInv, OrderInv, Labels

LEMMA StartOK == Init => IInv
  <1> SUFFICES ASSUME Init PROVE IInv OBVIOUS
  <1>1. PanelOK
    <2>1. running = TRUE /\ wantSignIn = FALSE /\ wantSignOut = FALSE /\ code = FALSE /\ enabled \in BOOLEAN
      BY Zenon DEF Init
    <2> QED BY <2>1 DEF Init, PanelOK, FlagsOK, LineOK, CodeOK, States, Labels
  <1> DEFINE none == Closed
  <1>2. /\ none \in Wires /\ none.held = FALSE /\ none.up = FALSE /\ none.owns = FALSE
        /\ none.inbox = <<>> /\ none.url = Home /\ none.subscribes = 0
    BY DEF Closed, Wires
  <1> HIDE DEF none
  <1>3. /\ net = NoConn /\ pending = NoConn /\ sess = NewSession(Home) /\ psess = NewSession(Home)
        /\ wire = [c \in Conns |-> none] /\ sent = 0 /\ emitted = <<>> /\ pc = "top"
    BY DEF Init, none
  <1>4. \A c \in Conns : wire[c] = none BY <1>3
  <1>5. SocketsOK BY <1>2, <1>3, <1>4, NewSessionIs DEF SocketsOK
  <1>6. SocketsInv
    <2>1. wire \in [Conns -> Wires] BY <1>2, <1>3
    <2> QED BY <1>2, <1>3, <1>4, <2>1 DEF SocketsInv, NoSocketLeft, InLoop
  <1>7. SubscribedInv
    BY <1>2, <1>3, <1>4, NewSessionIs DEF SubscribedInv, SubscribesOnce
  <1>8. OrderInv
    BY <1>2, <1>3, <1>4 DEF OrderInv, AlertsOnceInOrder, Rising, NoneOver
  <1> QED BY <1>1, <1>5, <1>6, <1>7, <1>8, Halves DEF SocketsIInv

\* No step leaves a code on the panel of a worker that is not signing in.
LEMMA PanelStep == PanelOK /\ [Next]_vars => PanelOK'
  <1> SUFFICES ASSUME PanelOK, [Next]_vars PROVE PanelOK' OBVIOUS
  <1> USE DEF FlagsOK, LineOK, CodeOK
  <1>0. FlagsOK /\ LineOK /\ CodeOK BY DEF PanelOK
  <1> USE <1>0 DEF Labels, InLoop, States, flags, panel, SetState, Goto
  <1>1. CASE UI
    <2> USE DEF UI, SetEnabled, SignIn, SignOut, Destroy, CountedPress, Press
    <2>1. FlagsOK' BY <1>1
    <2>2. LineOK' BY <1>1
    <2>3. CodeOK' BY <1>1
    <2> QED BY <2>1, <2>2, <2>3 DEF PanelOK
  <1>2. CASE Service
    <2> USE DEF Service, Greet, Beat, Notify, AskReconnect, HangUp, Revoke, Deliver
    <2>1. FlagsOK' BY <1>2
    <2>2. UNCHANGED <<flags, panel, pc>> /\ token' \in {token, "refused"} BY <1>2
    <2>3. LineOK' BY <2>2
    <2>4. CodeOK' BY <2>2
    <2> QED BY <2>1, <2>3, <2>4 DEF PanelOK
  <1>3. CASE Outer
    <2> USE <1>3 DEF Outer, Top, TakeSignIn, Gate, DeviceStart, Announce, DevicePoll, BackOff
    <2>1. FlagsOK'
      <3>1. /\ running' = running /\ enabled' = enabled
            /\ wantSignIn' = wantSignIn \/ wantSignIn' = FALSE
            /\ wantSignOut' = wantSignOut \/ wantSignOut' = FALSE
        OBVIOUS
      <3> QED BY <3>1
    <2>2. LineOK'
      <3>1. CASE Top \/ TakeSignIn \/ Gate BY <3>1
      <3>2. CASE DeviceStart \/ Announce BY <3>2
      <3>3. CASE DevicePoll BY <3>3
      <3>4. CASE BackOff BY <3>4
      <3> QED BY <3>1, <3>2, <3>3, <3>4
    <2>3. CodeOK'
      <3>1. CASE Top BY <3>1
      <3>2. CASE TakeSignIn \/ Gate BY <3>2
      <3>3. CASE DeviceStart \/ Announce BY <3>3
      <3>4. CASE DevicePoll BY <3>4
      <3>5. CASE BackOff BY <3>5
      <3> QED BY <3>1, <3>2, <3>3, <3>4, <3>5
    <2> QED BY <2>1, <2>2, <2>3 DEF PanelOK
  <1>4. CASE Connection
    <2>1. UNCHANGED flags
      BY <1>4 DEF Connection, Refresh, Identify, Open, Dial, LoopOver, PendingFailed, PendingQuiet,
                  PendingWelcomed, MainFailed, MainQuiet, MainMessage, Subscribe, Redial
    <2>2. /\ \/ UNCHANGED panel
             \/ \E st \in {"off", "connecting", "live", "retrying", "failed"} : SetState(st)
          /\ pc \notin {"announce", "poll"}
          /\ token' \in {"none", "valid", "refused"}
          /\ pc' \in {"tail", "identify", "open", "dial", "read", "main", "subscribe", "redial"}
      <3>1. CASE Refresh BY <3>1 DEF Refresh
      <3>2. CASE Identify BY <3>2 DEF Identify
      <3>3. CASE Open BY <3>3 DEF Open
      <3>4. CASE Dial BY <3>4 DEF Dial
      <3>5. CASE LoopOver BY <3>5 DEF LoopOver, GiveUp, LeaveLoop
      <3>6. CASE PendingFailed BY <3>6 DEF PendingFailed
      <3>7. CASE PendingQuiet BY <3>7 DEF PendingQuiet, LeaveLoop
      <3>8. CASE PendingWelcomed BY <3>8 DEF PendingWelcomed, Swap
      <3>9. CASE MainFailed BY <3>9 DEF MainFailed, GiveUp, LeaveLoop, MainTurn
      <3>10. CASE MainQuiet BY <3>10 DEF MainQuiet, GiveUp, LeaveLoop, MainTurn
      <3>11. CASE MainMessage BY <3>11 DEF MainMessage, MainTurn
      <3>12. CASE Subscribe BY <3>12 DEF Subscribe, GiveUp, LeaveLoop
      <3>13. CASE Redial BY <3>13 DEF Redial, LeaveLoop
      <3> QED BY <1>4, <3>1, <3>2, <3>3, <3>4, <3>5, <3>6, <3>7, <3>8, <3>9, <3>10, <3>11, <3>12,
                 <3>13 DEF Connection
    <2>3. code' => code BY <2>2
    <2>4. FlagsOK' BY <2>1
    <2>5. LineOK' BY <2>2
    <2>6. CodeOK' BY <2>1, <2>2, <2>3
    <2> QED BY <2>4, <2>5, <2>6 DEF PanelOK
  <1>5. CASE Tick \/ UNCHANGED vars
    <2>1. FlagsOK' BY <1>5 DEF Tick, vars
    <2>2. LineOK' BY <1>5 DEF Tick, vars
    <2>3. CodeOK' BY <1>5 DEF Tick, vars
    <2> QED BY <2>1, <2>2, <2>3 DEF PanelOK
  <1> QED BY <1>1, <1>2, <1>3, <1>4, <1>5 DEF Next, Worker

----------------------------------------------------------------------------
(* The steps that leave the sockets as they are. *)

\* The worker is outside its loop, or is told nothing; the session keeps the address
\* and the subscriptions it had.
LEMMA StillStep ==
  ASSUME IInv, UNCHANGED <<wire, net, pending, psess, sent, emitted>>,
         pc \in InLoop <=> pc' \in InLoop,
         pc' \in {"subscribe", "redial"} => pc' = pc,
         sess' \in Sessions, sess'.url = Resume => sess'.subscribed,
         net = NoConn \/ (sess'.url = sess.url /\ sess'.subscribed = sess.subscribed)
  PROVE  SocketsIInv'
  <1>1. SocketsIInv BY Halves
  <1>2. SocketsOK' BY <1>1 DEF SocketsIInv, SocketsOK
  <1>3. SocketsInv' BY <1>1 DEF SocketsIInv, SocketsInv, NoSocketLeft
  <1>4. SubscribedInv'
    <2>1. pc' \in {"subscribe", "redial"} => net # NoConn
      BY <1>3 DEF SocketsInv, NoSocketLeft, InLoop
    <2>2. SubscribesOnce' BY <1>1 DEF SocketsIInv, SubscribedInv, SubscribesOnce
    <2>3. pending # NoConn => net # NoConn BY <1>1 DEF SocketsIInv, SocketsInv
    <2>4. SubscribedInv BY <1>1 DEF SocketsIInv
    <2> QED BY <2>1, <2>2, <2>3, <2>4 DEF SubscribedInv
  <1>5. OrderInv' BY <1>1 DEF SocketsIInv, OrderInv, AlertsOnceInOrder
  <1> QED BY <1>2, <1>3, <1>4, <1>5 DEF SocketsIInv

LEMMA StillSteps ==
  ASSUME IInv, UI \/ Revoke \/ Outer \/ Refresh \/ Identify \/ Open \/ Tick \/ UNCHANGED vars
  PROVE  SocketsIInv'
  <1>1. SocketsIInv BY Halves
  <1>2. /\ UNCHANGED <<wire, net, pending, psess, sent, emitted>>
        /\ pc \in InLoop <=> pc' \in InLoop
        /\ pc' \in {"subscribe", "redial"} => pc' = pc
        /\ sess' = sess \/ sess' = Older(sess) \/ (pc \notin InLoop /\ sess' = NewSession(Home))
    <2> USE DEF InLoop, sockets, service, Goto
    <2>1. CASE UI BY <2>1 DEF UI, SetEnabled, SignIn, SignOut, Destroy, CountedPress, Press
    <2>2. CASE Revoke BY <2>2 DEF Revoke
    <2>3. CASE Outer
      BY <2>3 DEF Outer, Top, TakeSignIn, Gate, DeviceStart, Announce, DevicePoll, BackOff
    <2>4. CASE Refresh BY <2>4 DEF Refresh
    <2>5. CASE Identify BY <2>5 DEF Identify
    <2>6. CASE Open BY <2>6 DEF Open
    <2>7. CASE Tick BY <2>7 DEF Tick
    <2>8. CASE UNCHANGED vars BY <2>8 DEF vars
    <2> QED BY <2>1, <2>2, <2>3, <2>4, <2>5, <2>6, <2>7, <2>8
  <1>3. sess \in Sessions BY <1>1 DEF SocketsIInv, SocketsOK
  <1>4. /\ Older(sess) \in Sessions /\ Older(sess).url = sess.url
        /\ Older(sess).subscribed = sess.subscribed
    BY <1>3, OlderIs
  <1>5. NewSession(Home) \in Sessions /\ NewSession(Home).url = Home BY NewSessionIs
  <1>6. pc \notin InLoop => net = NoConn BY <1>1 DEF SocketsIInv, SocketsInv, NoSocketLeft
  <1>7. sess.url = Resume => sess.subscribed BY <1>1 DEF SocketsIInv, SubscribedInv
  <1>8. /\ sess' \in Sessions
        /\ sess'.url = Resume => sess'.subscribed
        /\ net = NoConn \/ (sess'.url = sess.url /\ sess'.subscribed = sess.subscribed)
    <2>1. CASE sess' = sess BY <1>3, <1>7, <2>1
    <2>2. CASE sess' = Older(sess) BY <1>4, <1>7, <2>2
    <2>3. CASE pc \notin InLoop /\ sess' = NewSession(Home) BY <1>5, <1>6, <2>3
    <2> QED BY <1>2, <2>1, <2>2, <2>3
  <1> QED BY <1>2, <1>8, StillStep

\* A closed socket.
LEMMA ClosedIs ==
  /\ Closed \in Wires /\ ~Closed.held /\ ~Closed.up /\ ~Closed.owns /\ Closed.inbox = <<>>
  /\ Closed.url = Home /\ Closed.subscribes = 0
  /\ Rising(Closed.inbox) /\ \A n : NoneOver(Closed.inbox, n) /\ Newer(Closed.inbox, n)
  BY DEF Closed, Wires, Rising, NoneOver, Newer

\* A socket just opened.
LEMMA DialledIs ==
  ASSUME NEW u \in Urls
  PROVE  /\ Dialled(u) \in Wires /\ Dialled(u).held /\ Dialled(u).up /\ ~Dialled(u).owns
         /\ Dialled(u).inbox = <<>> /\ Dialled(u).url = u /\ Dialled(u).subscribes = 0
         /\ Rising(Dialled(u).inbox)
         /\ \A n : NoneOver(Dialled(u).inbox, n) /\ Newer(Dialled(u).inbox, n)
  <1> DEFINE none == Closed
  <1>1. none \in Wires /\ none.inbox = <<>> /\ none.owns = FALSE /\ none.subscribes = 0
    BY DEF Closed, Wires
  <1>2. Dialled(u) = [none EXCEPT !.held = TRUE, !.up = TRUE, !.url = u] BY DEF Dialled
  <1> HIDE DEF none
  <1>3. /\ Dialled(u) \in Wires /\ Dialled(u).held /\ Dialled(u).up /\ ~Dialled(u).owns
        /\ Dialled(u).inbox = <<>> /\ Dialled(u).url = u /\ Dialled(u).subscribes = 0
    BY <1>1, <1>2 DEF Wires
  <1> QED BY <1>3 DEF Rising, NoneOver, Newer

----------------------------------------------------------------------------
(* The steps of the worker that change its sockets *)

\* Sockets are closed, and nothing else happens to them.
LEMMA CloseKeeps ==
  ASSUME SocketsIInv, NEW cs, Close(cs)
  PROVE  /\ wire' \in [Conns -> Wires]
         /\ \A c \in Conns : wire'[c] = IF c \in cs THEN Closed ELSE wire[c]
         /\ \A c \in Conns : Len(wire'[c].inbox) <= MaxInbox
         /\ {c \in Conns : wire'[c].held} = {c \in Conns : wire[c].held} \ cs
         /\ \A c \in Conns :
              /\ ~wire'[c].held => ~wire'[c].up /\ ~wire'[c].owns /\ wire'[c].inbox = <<>>
              /\ wire'[c].inbox # <<>> \/ wire'[c].owns => wire'[c].greeted
         /\ \A c \in Conns : wire'[c].subscribes + (IF wire'[c].url = Resume THEN 1 ELSE 0) <= 1
         /\ sent' = sent => \A c \in Conns :
              /\ Rising(wire'[c].inbox) /\ NoneOver(wire'[c].inbox, sent')
              /\ \A i \in 1..Len(emitted) : Newer(wire'[c].inbox, emitted[i])
  <1>1. \A c \in Conns : wire'[c] = IF c \in cs THEN Closed ELSE wire[c] BY DEF Close
  <1>2. wire \in [Conns -> Wires] BY DEF SocketsIInv, SocketsInv
  <1>3. wire' \in [Conns -> Wires] BY <1>2, ClosedIs DEF Close
  <1>4. \A c \in Conns : Len(wire'[c].inbox) <= MaxInbox
    BY <1>1, ClosedIs DEF SocketsIInv, SocketsOK
  <1>5. {c \in Conns : wire'[c].held} = {c \in Conns : wire[c].held} \ cs BY <1>1, ClosedIs
  <1>6. \A c \in Conns :
          /\ ~wire'[c].held => ~wire'[c].up /\ ~wire'[c].owns /\ wire'[c].inbox = <<>>
          /\ wire'[c].inbox # <<>> \/ wire'[c].owns => wire'[c].greeted
    BY <1>1, ClosedIs DEF SocketsIInv, SocketsInv
  <1>7. \A c \in Conns : wire'[c].subscribes + (IF wire'[c].url = Resume THEN 1 ELSE 0) <= 1
    BY <1>1, ClosedIs DEF SocketsIInv, SubscribedInv, SubscribesOnce
  <1>8. sent' = sent => \A c \in Conns :
          /\ Rising(wire'[c].inbox) /\ NoneOver(wire'[c].inbox, sent')
          /\ \A i \in 1..Len(emitted) : Newer(wire'[c].inbox, emitted[i])
    BY <1>1, ClosedIs DEF SocketsIInv, OrderInv
  <1> QED BY <1>1, <1>3, <1>4, <1>5, <1>6, <1>7, <1>8

\* Out of the loop: both sockets are closed.
LEMMA LeaveStep ==
  ASSUME IInv, NEW to, to \notin InLoop, NEW s \in {sess, NewSession(Home)}, LeaveLoop(to, s),
         UNCHANGED <<sent, emitted>>
  PROVE  SocketsIInv'
  <1>1. SocketsIInv BY Halves
  <1> DEFINE cs == {net, pending} \ {NoConn}
  <1>2. /\ Close(cs) /\ net' = NoConn /\ pending' = NoConn /\ sess' = s
        /\ psess' = NewSession(Home) /\ pc' = to
    BY DEF LeaveLoop, Goto
  <1>3. SocketsOK'
    BY <1>1, <1>2, CloseKeeps, NewSessionIs DEF SocketsIInv, SocketsOK
  <1>4. SocketsInv'
    <2>1. {c \in Conns : wire[c].held} = cs BY <1>1 DEF SocketsIInv, SocketsInv, NoSocketLeft
    <2>2. {c \in Conns : wire'[c].held} = {} BY <1>1, <1>2, <2>1, CloseKeeps
    <2>3. NoSocketLeft' BY <1>2, <2>2 DEF NoSocketLeft, InLoop
    <2>4. sent' \in 0..MaxAlerts BY <1>1 DEF SocketsIInv, SocketsInv
    <2> QED BY <1>1, <1>2, <2>3, <2>4, CloseKeeps DEF SocketsInv
  <1>5. SubscribedInv'
    <2>1. sess'.url = Resume => sess'.subscribed
      BY <1>1, <1>2, NewSessionIs DEF SocketsIInv, SubscribedInv
    <2>2. SubscribesOnce' BY <1>1, <1>2, CloseKeeps DEF SubscribesOnce
    <2> QED BY <1>2, <2>1, <2>2 DEF SubscribedInv, InLoop
  <1>6. OrderInv'
    BY <1>1, <1>2, CloseKeeps DEF SocketsIInv, OrderInv, AlertsOnceInOrder
  <1> QED BY <1>3, <1>4, <1>5, <1>6 DEF SocketsIInv

\* The replacement is given up: the socket being read is left alone.
LEMMA PendingFailedStep == ASSUME IInv, PendingFailed PROVE SocketsIInv'
  <1>1. SocketsIInv BY Halves
  <1>2. /\ Close({pending}) /\ pending' = NoConn /\ psess' = NewSession(Home) /\ pc' = "main"
        /\ pc = "read" /\ pending # NoConn /\ UNCHANGED <<net, sess, sent, emitted>>
    BY DEF PendingFailed, Goto
  <1>3. net \in Conns /\ net # pending /\ wire'[net] = wire[net]
    BY <1>1, <1>2, CloseKeeps DEF SocketsIInv, SocketsInv, SocketsOK
  <1>4. SocketsOK'
    BY <1>1, <1>2, CloseKeeps, NewSessionIs DEF SocketsIInv, SocketsOK
  <1>5. SocketsInv'
    <2>1. {c \in Conns : wire[c].held} = {net, pending}
      BY <1>1, <1>2, <1>3 DEF SocketsIInv, SocketsInv, NoSocketLeft
    <2>2. {c \in Conns : wire'[c].held} = {net} BY <1>1, <1>2, <1>3, <2>1, CloseKeeps
    <2>3. NoSocketLeft' BY <1>2, <1>3, <2>2 DEF NoSocketLeft, InLoop
    <2>4. sent' \in 0..MaxAlerts BY <1>1, <1>2 DEF SocketsIInv, SocketsInv
    <2> QED BY <1>1, <1>2, <2>3, <2>4, CloseKeeps DEF SocketsInv
  <1>6. SubscribedInv'
    <2>1. SubscribesOnce' BY <1>1, <1>2, CloseKeeps DEF SubscribesOnce
    <2> QED BY <1>1, <1>2, <1>3, <2>1 DEF SocketsIInv, SubscribedInv
  <1>7. OrderInv'
    BY <1>1, <1>2, CloseKeeps DEF SocketsIInv, OrderInv, AlertsOnceInOrder
  <1> QED BY <1>4, <1>5, <1>6, <1>7 DEF SocketsIInv

\* The replacement is welcomed: it is read in place of the socket it replaces.
LEMMA PendingWelcomedStep == ASSUME IInv, PendingWelcomed PROVE SocketsIInv'
  <1>1. SocketsIInv BY Halves
  <1> DEFINE q == wire[pending].inbox
             p == AfterMessage(psess, Head(q))
  <1>2. /\ pending # NoConn /\ q # <<>> /\ pc' = "read" /\ UNCHANGED <<sent, emitted>>
        /\ wire' = [wire EXCEPT ![net] = Closed, ![pending].inbox = Tail(q)]
        /\ net' = pending /\ pending' = NoConn
        /\ sess' = Adopt(sess, p) /\ psess' = NewSession(Home)
    <2>1. wire' = [wire EXCEPT ![net] = Closed, ![pending].inbox = Tail(@)]
      BY DEF PendingWelcomed, Swap
    <2>2. pending \in Conns /\ net \in Conns /\ net # pending /\ wire \in [Conns -> Wires]
      BY <1>1 DEF PendingWelcomed, SocketsIInv, SocketsInv, SocketsOK
    <2> QED BY <2>1, <2>2 DEF PendingWelcomed, Swap, Goto
  <1>3. /\ net \in Conns /\ pending \in Conns /\ net # pending /\ wire \in [Conns -> Wires]
        /\ q \in Seq(Messages) /\ sess \in Sessions /\ psess \in Sessions
    <2>1. net \in Conns /\ pending \in Conns /\ net # pending /\ wire \in [Conns -> Wires]
          /\ sess \in Sessions /\ psess \in Sessions
      BY <1>1, <1>2 DEF SocketsIInv, SocketsInv, SocketsOK
    <2> QED BY <2>1 DEF Wires
  <1>4. /\ wire' \in [Conns -> Wires] /\ wire'[net] = Closed
        /\ \A c \in Conns : c # net /\ c # pending => wire'[c] = wire[c]
        /\ wire'[pending] = [wire[pending] EXCEPT !.inbox = Tail(q)]
    <2>1. Tail(q) \in Seq(Messages) BY <1>2, <1>3, TailIs
    <2>2. [wire[pending] EXCEPT !.inbox = Tail(q)] \in Wires BY <1>3, <2>1 DEF Wires
    <2> QED BY <1>2, <1>3, <2>2, ClosedIs
  <1>5. LET w == wire'[pending]
        IN  /\ w.held = wire[pending].held /\ w.up = wire[pending].up /\ w.url = wire[pending].url
            /\ w.inbox = Tail(q) /\ w.greeted = wire[pending].greeted
            /\ w.owns = wire[pending].owns /\ w.subscribes = wire[pending].subscribes
    BY <1>3, <1>4 DEF Wires
  <1>6. sess' \in Sessions /\ sess'.subscribed /\ psess' \in Sessions
    <2>1. Head(q) \in Messages BY <1>2, <1>3, TailIs
    <2>2. p \in Sessions BY <1>3, <2>1, AfterMessageIs
    <2> HIDE DEF p
    <2> QED BY <1>2, <1>3, <2>2, AdoptIs, NewSessionIs
  <1> HIDE DEF p
  <1>7. SocketsOK'
    <2>1. Len(Tail(q)) <= MaxInbox
      <3>1. Len(q) <= MaxInbox BY <1>1, <1>3 DEF SocketsIInv, SocketsOK
      <3> QED BY <1>2, <1>3, <3>1, TailIs
    <2>2. ASSUME NEW c \in Conns PROVE Len(wire'[c].inbox) <= MaxInbox
      <3>1. Len(wire[c].inbox) <= MaxInbox BY <1>1 DEF SocketsIInv, SocketsOK
      <3>2. CASE c = net BY <1>4, <3>2, ClosedIs
      <3>3. CASE c = pending BY <1>5, <2>1, <3>3
      <3>4. CASE c # net /\ c # pending BY <1>4, <3>1, <3>4
      <3> QED BY <3>2, <3>3, <3>4
    <2> QED BY <1>2, <1>3, <1>6, <2>2 DEF SocketsOK
  <1>8. SocketsInv'
    <2>1. {c \in Conns : wire[c].held} = {net, pending}
      BY <1>1, <1>2, <1>3 DEF SocketsIInv, SocketsInv, NoSocketLeft
    <2>2. {c \in Conns : wire'[c].held} = {pending} BY <1>3, <1>4, <1>5, <2>1, ClosedIs
    <2>3. NoSocketLeft' BY <1>2, <1>3, <2>2 DEF NoSocketLeft, InLoop
    <2>4. sent' \in 0..MaxAlerts BY <1>1, <1>2 DEF SocketsIInv, SocketsInv
    <2>5. \A c \in Conns :
            /\ ~wire'[c].held => ~wire'[c].up /\ ~wire'[c].owns /\ wire'[c].inbox = <<>>
            /\ wire'[c].inbox # <<>> \/ wire'[c].owns => wire'[c].greeted
      <3>1. SocketsInv BY <1>1 DEF SocketsIInv
      <3>2. wire[pending].held BY <2>1, <1>3
      <3> QED BY <1>2, <1>4, <1>5, <3>1, <3>2, ClosedIs DEF SocketsInv
    <2> QED BY <1>2, <1>3, <1>4, <2>3, <2>4, <2>5 DEF SocketsInv
  <1>9. SubscribedInv'
    <2>1. ASSUME NEW c \in Conns
          PROVE  wire'[c].subscribes + (IF wire'[c].url = Resume THEN 1 ELSE 0) <= 1
      <3>1. wire[c].subscribes + (IF wire[c].url = Resume THEN 1 ELSE 0) <= 1
        BY <1>1 DEF SocketsIInv, SubscribedInv, SubscribesOnce
      <3>2. CASE c = net BY <1>4, <3>2, ClosedIs
      <3>3. CASE c = pending BY <1>5, <3>1, <3>3
      <3>4. CASE c # net /\ c # pending BY <1>4, <3>1, <3>4
      <3> QED BY <3>2, <3>3, <3>4
    <2>2. SubscribesOnce' BY <2>1 DEF SubscribesOnce
    <2> QED BY <1>2, <1>6, <2>2 DEF SubscribedInv
  <1>10. OrderInv'
    <2>1. \A c \in Conns :
            /\ Rising(wire'[c].inbox) /\ NoneOver(wire'[c].inbox, sent)
            /\ \A i \in 1..Len(emitted) : Newer(wire'[c].inbox, emitted[i])
      BY <1>1, <1>2, <1>3, <1>4, <1>5, ClosedIs, TailKeeps DEF SocketsIInv, OrderInv
    <2> QED BY <1>1, <1>2, <2>1 DEF SocketsIInv, OrderInv, AlertsOnceInOrder
  <1> QED BY <1>7, <1>8, <1>9, <1>10 DEF SocketsIInv

\* A socket is dialled: as the one to be read, or as its replacement.
LEMMA DialStep ==
  ASSUME IInv, pc = "dial", NEW f \in Conns, ~wire[f].held,
         net' = f, wire' = [wire EXCEPT ![f] = Dialled(sess.url)], sess' = Opened(sess),
         pc' = "read", UNCHANGED <<pending, psess, sent, emitted>>
  PROVE  SocketsIInv'
  <1>1. SocketsIInv BY Halves
  <1>2. net = NoConn /\ pending = NoConn
    BY <1>1 DEF SocketsIInv, SocketsInv, NoSocketLeft, InLoop
  <1>3. sess \in Sessions /\ sess.url \in Urls /\ wire \in [Conns -> Wires]
    BY <1>1 DEF SocketsIInv, SocketsInv, SocketsOK, Sessions
  <1> DEFINE new == Dialled(sess.url)
  <1>4. /\ new \in Wires /\ new.held /\ new.up /\ ~new.owns
        /\ new.inbox = <<>> /\ new.url = sess.url /\ new.subscribes = 0
        /\ Rising(new.inbox)
        /\ \A n : NoneOver(new.inbox, n) /\ Newer(new.inbox, n)
    BY <1>3, DialledIs
  <1> HIDE DEF new
  <1>5. /\ wire' \in [Conns -> Wires] /\ wire'[f] = new
        /\ \A c \in Conns : c # f => wire'[c] = wire[c]
    BY <1>3, <1>4 DEF new
  <1>6. sess' \in Sessions /\ sess'.url = sess.url /\ sess'.subscribed = sess.subscribed
    BY <1>3, OpenedIs
  <1>7. SocketsOK' BY <1>1, <1>4, <1>5, <1>6 DEF SocketsIInv, SocketsOK
  <1>8. SocketsInv'
    <2>1. {c \in Conns : wire[c].held} = {}
      BY <1>1, <1>2 DEF SocketsIInv, SocketsInv, NoSocketLeft
    <2>2. {c \in Conns : wire'[c].held} = {f} BY <1>4, <1>5, <2>1
    <2>3. NoSocketLeft' BY <1>2, <2>2 DEF NoSocketLeft, InLoop
    <2> QED BY <1>1, <1>2, <1>4, <1>5, <2>3 DEF SocketsIInv, SocketsInv
  <1>9. SubscribedInv'
    <2>1. SubscribesOnce'
      BY <1>1, <1>4, <1>5 DEF SocketsIInv, SubscribedInv, SubscribesOnce
    <2>2. ~AsksToMove(new.inbox) BY <1>4 DEF AsksToMove
    <2> QED BY <1>1, <1>2, <1>4, <1>5, <1>6, <2>1, <2>2 DEF SocketsIInv, SubscribedInv
  <1>10. OrderInv'
    BY <1>1, <1>2, <1>4, <1>5 DEF SocketsIInv, OrderInv, AlertsOnceInOrder
  <1> QED BY <1>7, <1>8, <1>9, <1>10 DEF SocketsIInv

LEMMA DialSteps == ASSUME IInv, Dial PROVE SocketsIInv'
  <1>1. CASE SetState("retrying") /\ Goto("tail") /\ sess' = NewSession(Home) /\ UNCHANGED <<net, wire>>
    <2>1. SocketsIInv BY Halves
    <2>2. net = NoConn
      BY <2>1 DEF Dial, SocketsIInv, SocketsInv, NoSocketLeft, InLoop
    <2> QED BY <1>1, <2>2, NewSessionIs, StillStep DEF Dial, Goto, InLoop
  <1>2. CASE (\E c \in Conns : ~wire[c].held) /\ net' = Fresh
    <2>1. Fresh \in Conns /\ ~wire[Fresh].held BY <1>2 DEF Fresh
    <2>2. /\ wire' = [wire EXCEPT ![Fresh] = Dialled(sess.url)] /\ sess' = Opened(sess)
          /\ pc = "dial" /\ pc' = "read" /\ UNCHANGED <<pending, psess, sent, emitted>>
      <3>1. net = NoConn
        BY Halves DEF Dial, SocketsIInv, SocketsInv, NoSocketLeft, InLoop
      <3>2. net' # NoConn BY <1>2, <2>1
      <3> QED BY <3>1, <3>2 DEF Dial, Goto
    <2> QED BY <1>2, <2>1, <2>2, DialStep
  <1> QED BY <1>1, <1>2 DEF Dial

\* A replacement is dialled, and one that was being brought up already is closed.
LEMMA RedialStep ==
  ASSUME IInv, pc = "redial", NEW left,
         left = [c \in Conns |-> IF c = pending THEN Closed ELSE wire[c]],
         NEW f \in Conns, ~left[f].held,
         pending' = f, wire' = [left EXCEPT ![f] = Dialled(sess.url)],
         psess' = Opened(ReplacementSession(sess.url)), pc' = "read",
         UNCHANGED <<net, sess, sent, emitted>>
  PROVE  SocketsIInv'
  <1>1. SocketsIInv BY Halves
  <1>2. /\ sess \in Sessions /\ sess.url = Resume /\ sess.subscribed /\ wire \in [Conns -> Wires]
        /\ wire[net].greeted
    BY <1>1 DEF SocketsIInv, SocketsInv, SocketsOK, SubscribedInv
  <1>3. net \in Conns
    BY <1>1 DEF SocketsIInv, SocketsInv, SocketsOK, NoSocketLeft, InLoop
  <1> DEFINE new == Dialled(sess.url)
  <1>4. /\ new \in Wires /\ new.held /\ new.up /\ ~new.owns
        /\ new.inbox = <<>> /\ new.url = Resume /\ new.subscribes = 0
        /\ Rising(new.inbox)
        /\ \A n : NoneOver(new.inbox, n) /\ Newer(new.inbox, n)
    BY <1>2, DialledIs
  <1> HIDE DEF new
  <1>5. {c \in Conns : wire[c].held} = {net, pending} \ {NoConn} /\ pending # net
    BY <1>1, <1>3 DEF SocketsIInv, SocketsInv, NoSocketLeft
  <1>6. left \in [Conns -> Wires] /\ {c \in Conns : left[c].held} = {net}
    BY <1>2, <1>3, <1>5, ClosedIs
  <1>7. f # net BY <1>3, <1>6
  <1>8. /\ wire' \in [Conns -> Wires] /\ wire'[f] = new /\ wire'[net] = wire[net]
        /\ \A c \in Conns : c # f => wire'[c] = wire[c] \/ (c = pending /\ wire'[c] = Closed)
        /\ {c \in Conns : wire'[c].held} = {net, f}
    <2>1. wire' \in [Conns -> Wires] /\ wire'[f] = new /\ \A c \in Conns : c # f => wire'[c] = left[c]
      BY <1>4, <1>6 DEF new
    <2>2. wire'[net] = wire[net] BY <1>3, <1>5, <1>7, <2>1
    <2>3. ASSUME NEW c \in Conns PROVE wire'[c].held <=> c = net \/ c = f
      <3>1. left[c].held <=> c = net BY <1>6
      <3> QED BY <1>4, <2>1, <3>1
    <2>4. {c \in Conns : wire'[c].held} = {net, f} BY <1>3, <2>3
    <2> QED BY <2>1, <2>2, <2>4
  <1>9. psess' \in Sessions BY <1>2, ReplacementIs
  <1>10. SocketsOK'
    BY <1>1, <1>2, <1>4, <1>8, <1>9, ClosedIs DEF SocketsIInv, SocketsOK
  <1>11. SocketsInv'
    <2>1. NoSocketLeft' BY <1>3, <1>8 DEF NoSocketLeft, InLoop
    <2> QED BY <1>1, <1>3, <1>4, <1>7, <1>8, <2>1, ClosedIs DEF SocketsIInv, SocketsInv
  <1>12. SubscribedInv'
    <2>1. SubscribesOnce'
      BY <1>1, <1>4, <1>8, ClosedIs DEF SocketsIInv, SubscribedInv, SubscribesOnce
    <2> QED BY <1>1, <1>2, <1>4, <1>8, <2>1 DEF SocketsIInv, SubscribedInv
  <1>13. OrderInv'
    BY <1>1, <1>4, <1>8, ClosedIs DEF SocketsIInv, OrderInv, AlertsOnceInOrder
  <1> QED BY <1>10, <1>11, <1>12, <1>13 DEF SocketsIInv

LEMMA RedialSteps == ASSUME IInv, Redial PROVE SocketsIInv'
  <1>1. CASE LeaveLoop("open", sess) BY <1>1, LeaveStep DEF Redial, InLoop
  <1>2. CASE ~LeaveLoop("open", sess)
    <2> DEFINE left == [c \in Conns |-> IF c = pending THEN Closed ELSE wire[c]]
               fresh == CHOOSE c \in Conns : ~left[c].held
    <2>1. /\ \E c \in Conns : ~left[c].held
          /\ pending' = fresh /\ wire' = [left EXCEPT ![fresh] = Dialled(sess.url)]
          /\ psess' = Opened(ReplacementSession(sess.url)) /\ pc' = "read" /\ pc = "redial"
          /\ UNCHANGED <<net, sess, sent, emitted>>
      BY <1>2 DEF Redial, Goto
    <2>2. fresh \in Conns /\ ~left[fresh].held BY <2>1
    <2> HIDE DEF fresh
    <2> QED BY <2>1, <2>2, RedialStep
  <1> QED BY <1>1, <1>2

\* Every type asked for: the socket carries the alerts from now on.
LEMMA SubscribeStep ==
  ASSUME IInv, pc = "subscribe", pc' = "read",
         sess' = [sess EXCEPT !.subscribed = TRUE],
         wire' = [wire EXCEPT ![net].owns = TRUE, ![net].subscribes = @ + 1],
         UNCHANGED <<net, pending, psess, sent, emitted>>
  PROVE  SocketsIInv'
  <1>1. SocketsIInv BY Halves
  <1>2. /\ sess \in Sessions /\ ~sess.subscribed /\ wire \in [Conns -> Wires]
        /\ wire[net].greeted /\ pending = NoConn
    BY <1>1 DEF SocketsIInv, SocketsInv, SocketsOK, SubscribedInv
  <1>3. net \in Conns
    BY <1>1 DEF SocketsIInv, SocketsInv, SocketsOK, NoSocketLeft, InLoop
  <1>4. wire[net].url # Resume /\ wire[net].subscribes = 0
    BY <1>1, <1>2, <1>3 DEF SocketsIInv, SubscribedInv
  <1> DEFINE new == [wire[net] EXCEPT !.owns = TRUE, !.subscribes = @ + 1]
  <1>5. /\ new \in Wires /\ new.held = wire[net].held /\ new.up = wire[net].up
        /\ new.inbox = wire[net].inbox /\ new.url = wire[net].url /\ new.subscribes = 1
        /\ new.greeted = wire[net].greeted
    BY <1>2, <1>3, <1>4 DEF Wires
  <1>6. /\ wire' \in [Conns -> Wires] /\ wire'[net] = new
        /\ \A c \in Conns : c # net => wire'[c] = wire[c]
    BY <1>2, <1>3, <1>5
  <1> HIDE DEF new
  <1>7. sess' \in Sessions /\ sess'.subscribed /\ sess'.url = sess.url BY <1>2 DEF Sessions
  <1>8. SocketsOK' BY <1>1, <1>5, <1>6, <1>7 DEF SocketsIInv, SocketsOK
  <1>9. \A c \in Conns : wire'[c].held = wire[c].held /\ wire'[c].inbox = wire[c].inbox
    BY <1>5, <1>6
  <1>10. SocketsInv'
    <2>1. NoSocketLeft' BY <1>1, <1>9 DEF SocketsIInv, SocketsInv, NoSocketLeft, InLoop
    <2>2. wire[net].held BY <1>1, <1>2, <1>3 DEF SocketsIInv, SocketsInv, NoSocketLeft
    <2> QED BY <1>1, <1>2, <1>5, <1>6, <2>1, <2>2 DEF SocketsIInv, SocketsInv
  <1>11. SubscribedInv'
    <2>1. SubscribesOnce'
      BY <1>1, <1>4, <1>5, <1>6 DEF SocketsIInv, SubscribedInv, SubscribesOnce
    <2> QED BY <1>2, <1>7, <2>1 DEF SubscribedInv
  <1>12. OrderInv' BY <1>1, <1>2, <1>9 DEF SocketsIInv, OrderInv, AlertsOnceInOrder
  <1> QED BY <1>8, <1>10, <1>11, <1>12 DEF SocketsIInv

\* A message is read, and if it is an alert it is handed on: it is newer than all
\* that was, and older than all that is still to be read.
LEMMA MainMessageStep == ASSUME IInv, MainMessage PROVE SocketsIInv'
  <1>1. SocketsIInv BY Halves
  <1> DEFINE q == wire[net].inbox
             m == Head(q)
  <1>2. /\ pc \in InLoop /\ q # <<>> /\ wire' = [wire EXCEPT ![net].inbox = Tail(q)]
        /\ sess' = AfterMessage(sess, m)
        /\ emitted' = IF MessageStep(sess, m) = "emit" THEN Append(emitted, m.alert) ELSE emitted
        /\ pc' = CASE MessageStep(sess, m) = "subscribe" -> "subscribe"
                   [] MessageStep(sess, m) = "reconnect" -> "redial"
                   [] OTHER -> "read"
        /\ UNCHANGED <<net, pending, psess, sent>>
    BY DEF MainMessage, MainTurn, Goto, InLoop
  <1>3. /\ net \in Conns /\ wire \in [Conns -> Wires] /\ sess \in Sessions
        /\ wire[net] \in Wires
    BY <1>1, <1>2 DEF SocketsIInv, SocketsInv, SocketsOK, NoSocketLeft
  <1>4. q \in Seq(Messages) BY <1>3 DEF Wires
  <1>5. m \in Messages /\ m = q[1] /\ 1 \in 1..Len(q) /\ Tail(q) \in Seq(Messages)
        /\ Len(Tail(q)) = Len(q) - 1 /\ Len(q) \in Nat
    BY <1>2, <1>4, TailIs
  <1> DEFINE new == [wire[net] EXCEPT !.inbox = Tail(q)]
  <1>6. /\ new \in Wires /\ new.held = wire[net].held /\ new.up = wire[net].up
        /\ new.inbox = Tail(q) /\ new.url = wire[net].url /\ new.subscribes = wire[net].subscribes
        /\ new.greeted = wire[net].greeted /\ new.owns = wire[net].owns
    BY <1>3, <1>5 DEF Wires
  <1>7. /\ wire' \in [Conns -> Wires] /\ wire'[net] = new
        /\ \A c \in Conns : c # net => wire'[c] = wire[c]
    BY <1>2, <1>3, <1>6
  <1> HIDE DEF new
  <1>8. /\ sess' \in Sessions /\ sess'.subscribed = sess.subscribed
        /\ sess'.url = IF m.type = "reconnect" THEN Resume ELSE sess.url
        /\ pc' \in {"subscribe", "redial", "read"}
        /\ pc' = "subscribe" => ~sess.subscribed
        /\ pc' = "redial" => m.type = "reconnect"
        /\ emitted' = IF Alert(m) THEN Append(emitted, m.alert) ELSE emitted
        /\ Alert(m) => m.alert \in 1..MaxAlerts
    BY <1>2, <1>3, <1>5, AfterMessageIs, MessageKinds DEF Alert
  <1>9. m.type = "reconnect" => AsksToMove(q) BY <1>5 DEF AsksToMove
  <1> HIDE DEF m
  <1>10. /\ Rising(q) => Rising(Tail(q)) /\ (Alert(m) => Newer(Tail(q), m.alert))
         /\ \A n : Newer(q, n) => Newer(Tail(q), n)
         /\ \A n : NoneOver(q, n) => NoneOver(Tail(q), n)
         /\ AsksToMove(Tail(q)) => AsksToMove(q)
         /\ \A i \in 1..Len(Tail(q)) : i + 1 \in 1..Len(q) /\ Tail(q)[i] = q[i + 1]
    BY <1>2, <1>4, TailKeeps DEF m
  <1>11. SocketsOK'
    BY <1>1, <1>2, <1>5, <1>6, <1>7, <1>8 DEF SocketsIInv, SocketsOK
  <1>12. \A c \in Conns : c # net => wire'[c].inbox = wire[c].inbox BY <1>7
  <1>13. SocketsInv'
    <2>1. \A c \in Conns : wire'[c].held = wire[c].held BY <1>6, <1>7
    <2>2. NoSocketLeft'
      BY <1>1, <1>2, <1>8, <2>1 DEF SocketsIInv, SocketsInv, NoSocketLeft, InLoop
    <2>3. wire[net].held
      BY <1>1, <1>3, TwitchAssumption DEF SocketsIInv, SocketsInv, NoSocketLeft
    <2> QED BY <1>1, <1>2, <1>6, <1>7, <2>2, <2>3 DEF SocketsIInv, SocketsInv
  <1>14. SubscribedInv'
    <2>1. SubscribesOnce'
      BY <1>1, <1>6, <1>7 DEF SocketsIInv, SubscribedInv, SubscribesOnce
    <2>2. m.type = "reconnect" => sess.subscribed
      BY <1>1, <1>3, <1>9 DEF SocketsIInv, SubscribedInv
    <2>3. wire[net].greeted BY <1>1, <1>2, <1>3 DEF SocketsIInv, SocketsInv
    <2>4. pending # NoConn => pending \in Conns /\ pending # net
      BY <1>1 DEF SocketsIInv, SocketsInv, SocketsOK
    <2> QED BY <1>1, <1>2, <1>3, <1>6, <1>7, <1>8, <1>10, <2>1, <2>2, <2>3, <2>4
         DEF SocketsIInv, SubscribedInv
  <1>15. OrderInv'
    <2>1. \A c \in Conns :
            /\ Rising(wire'[c].inbox) /\ NoneOver(wire'[c].inbox, sent')
            /\ \A i \in 1..Len(emitted) : Newer(wire'[c].inbox, emitted[i])
      BY <1>1, <1>2, <1>6, <1>7, <1>10, <1>12 DEF SocketsIInv, OrderInv
    <2>2. pending # NoConn =>
            /\ wire'[net].owns => ~wire'[pending].owns /\ NoneOver(wire'[pending].inbox, 0)
            /\ \A i \in 1..Len(wire'[net].inbox) :
                 Alert(wire'[net].inbox[i]) => Newer(wire'[pending].inbox, wire'[net].inbox[i].alert)
      <3> SUFFICES ASSUME pending # NoConn
                   PROVE /\ wire'[net].owns => ~wire'[pending].owns /\ NoneOver(wire'[pending].inbox, 0)
                         /\ \A i \in 1..Len(wire'[net].inbox) :
                              Alert(wire'[net].inbox[i])
                                => Newer(wire'[pending].inbox, wire'[net].inbox[i].alert)
        OBVIOUS
      <3>1. pending \in Conns /\ pending # net BY <1>1 DEF SocketsIInv, SocketsInv, SocketsOK
      <3>2. /\ wire[net].owns => ~wire[pending].owns /\ NoneOver(wire[pending].inbox, 0)
            /\ \A i \in 1..Len(q) : Alert(q[i]) => Newer(wire[pending].inbox, q[i].alert)
        BY <1>1 DEF SocketsIInv, OrderInv
      <3>3. wire'[pending] = wire[pending] /\ wire'[net].inbox = Tail(q) /\ wire'[net].owns = wire[net].owns
        BY <1>6, <1>7, <3>1
      <3> HIDE DEF q
      <3> QED BY <1>10, <3>2, <3>3
    <2>3. CASE ~Alert(m)
      BY <1>1, <1>2, <1>8, <2>1, <2>2, <2>3 DEF SocketsIInv, OrderInv, AlertsOnceInOrder
    <2>4. CASE Alert(m)
      <3> DEFINE a == m.alert
                 e == Append(emitted, a)
      <3>1. a \in 1..MaxAlerts /\ emitted' = e /\ emitted \in Seq(1..MaxAlerts)
        BY <1>1, <1>8, <2>4 DEF SocketsIInv, OrderInv
      <3>2. /\ e \in Seq(1..MaxAlerts) /\ Len(e) = Len(emitted) + 1 /\ Len(emitted) \in Nat
            /\ \A i \in 1..Len(emitted) : e[i] = emitted[i]
            /\ e[Len(emitted) + 1] = a
        BY <3>1, AppendIs
      <3>3. /\ a <= sent /\ \A i \in 1..Len(emitted) : emitted[i] < a
        BY <1>1, <1>3, <1>5, <2>4 DEF m, SocketsIInv, OrderInv, NoneOver, Newer
      <3>4. \A c \in Conns : Newer(wire'[c].inbox, a)
        <4> SUFFICES ASSUME NEW c \in Conns PROVE Newer(wire'[c].inbox, a) OBVIOUS
        <4>1. CASE c = net BY <1>1, <1>3, <1>6, <1>7, <1>10, <2>4, <4>1 DEF SocketsIInv, OrderInv
        <4>2. CASE c # net /\ c = pending
          BY <1>1, <1>3, <1>5, <1>12, <2>4, <4>2, TwitchAssumption DEF m, SocketsIInv, OrderInv
        <4>3. CASE c # net /\ c # pending
          <5>1. ~wire[c].held BY <1>1, <4>3 DEF SocketsIInv, SocketsInv, NoSocketLeft
          <5>2. wire'[c].inbox = <<>> BY <1>1, <1>12, <4>3, <5>1 DEF SocketsIInv, SocketsInv
          <5> QED BY <5>2 DEF Newer
        <4> QED BY <4>1, <4>2, <4>3
      <3> HIDE DEF a, e
      <3>5. \A i \in 1..Len(e) : i \in 1..Len(emitted) \/ i = Len(emitted) + 1 BY <3>2
      <3>6. AlertsOnceInOrder'
        <4>1. \A i, j \in 1..Len(emitted) : i < j => emitted[i] < emitted[j]
          BY <1>1 DEF SocketsIInv, OrderInv, AlertsOnceInOrder
        <4>2. ASSUME NEW i \in 1..Len(e), NEW j \in 1..Len(e), i < j PROVE e[i] < e[j]
          <5>1. i \in 1..Len(emitted) BY <3>2, <4>2
          <5>2. CASE j \in 1..Len(emitted) BY <3>2, <4>1, <4>2, <5>1, <5>2
          <5>3. CASE j = Len(emitted) + 1 BY <3>2, <3>3, <5>1, <5>3
          <5> QED BY <3>5, <5>2, <5>3
        <4> QED BY <3>1, <4>2 DEF AlertsOnceInOrder
      <3>7. \A i \in 1..Len(e) : e[i] <= sent
        BY <1>1, <3>2, <3>3, <3>5 DEF SocketsIInv, OrderInv
      <3>8. \A c \in Conns, i \in 1..Len(e) : Newer(wire'[c].inbox, e[i])
        BY <2>1, <3>2, <3>4, <3>5
      <3> QED BY <1>2, <2>1, <2>2, <3>1, <3>2, <3>6, <3>7, <3>8 DEF OrderInv
    <2> QED BY <2>3, <2>4
  <1> QED BY <1>11, <1>13, <1>14, <1>15 DEF SocketsIInv

----------------------------------------------------------------------------
(* The service *)

\* Of the other sockets, none gains anything.
OthersKept(c) ==
  \A d \in Conns : /\ wire'[d].held = wire[d].held /\ wire'[d].up = wire[d].up
                   /\ wire'[d].url = wire[d].url /\ wire'[d].subscribes = wire[d].subscribes
                   /\ d # c => /\ wire'[d].inbox = wire[d].inbox
                               /\ wire'[d].greeted = wire[d].greeted
                               /\ wire'[d].owns => wire[d].owns

\* A socket that comes to own the subscriptions takes them from every other.
TakesOver(c, m) ==
  wire'[c].owns /\ ~wire[c].owns =>
    /\ ~wire[c].greeted /\ wire[c].url = Resume /\ ~Alert(m)
    /\ \A d \in Conns : d # c => ~wire'[d].owns

\* A message arrives.  Alerts come from a socket that owns the subscriptions, and
\* a socket gets them by being moved to, whereupon the other one loses them.
LEMMA ArrivalStep ==
  ASSUME IInv, NEW c \in Conns, NEW m \in Messages,
         wire[c].up, Len(wire[c].inbox) < MaxInbox, wire' \in [Conns -> Wires],
         OthersKept(c),
         wire'[c].inbox = Append(wire[c].inbox, m), wire'[c].greeted,
         TakesOver(c, m),
         m.type = "reconnect" => wire[c].owns,
         Alert(m) => wire[c].owns /\ sent < MaxAlerts /\ m.alert = sent + 1,
         sent' = IF Alert(m) THEN sent + 1 ELSE sent,
         UNCHANGED <<pc, net, pending, sess, psess, emitted>>
  PROVE  SocketsIInv'
  <1> USE DEF SocketsIInv, OthersKept, TakesOver
  <1>1. SocketsIInv BY Halves
  <1> DEFINE q == wire[c].inbox
             a == wire'[c].inbox
  <1>2. wire \in [Conns -> Wires] /\ wire[c] \in Wires /\ sent \in 0..MaxAlerts
    BY <1>1 DEF SocketsInv
  <1>3. q \in Seq(Messages) BY <1>2 DEF Wires
  <1>4. NoneOver(q, sent) /\ Rising(q) BY <1>1 DEF OrderInv
  <1>5. /\ Rising(a)
        /\ \A n : Newer(q, n) /\ (Alert(m) => n < m.alert) => Newer(a, n)
        /\ \A n : NoneOver(q, n) /\ (Alert(m) => m.alert <= n) => NoneOver(a, n)
        /\ AsksToMove(a) => AsksToMove(q) \/ m.type = "reconnect"
    <2>1. Alert(m) => \A i \in 1..Len(q) : Alert(q[i]) => q[i].alert < m.alert
      <3> SUFFICES ASSUME Alert(m), NEW i \in 1..Len(q), Alert(q[i]) PROVE q[i].alert < m.alert
        OBVIOUS
      <3>1. q[i] \in Messages BY <1>3
      <3>2. q[i].alert \in 1..MaxAlerts BY <3>1, MessageKinds DEF Alert
      <3>3. q[i].alert <= sent BY <1>4 DEF NoneOver
      <3> QED BY <1>2, <3>2, <3>3
    <2>2. a = Append(q, m) OBVIOUS
    <2> HIDE DEF a, q
    <2>3. Rising(a) BY <1>3, <1>4, <2>1, <2>2, AppendKeeps
    <2> QED BY <1>3, <2>2, <2>3, AppendKeeps
  <1>6. /\ Len(a) = Len(q) + 1 /\ Len(q) \in Nat
        /\ \A i \in 1..Len(q) : a[i] = q[i]
        /\ a[Len(q) + 1] = m
    BY <1>3, AppendIs
  <1>7. wire[c].held BY <1>1 DEF SocketsInv
  <1>8. (c = net \/ c = pending) /\ net \in Conns /\ pc \in InLoop
    BY <1>1, <1>7, TwitchAssumption DEF SocketsInv, SocketsOK, NoSocketLeft
  <1>9. SocketsOK'
    <2>1. Len(a) <= MaxInbox BY <1>6, TwitchAssumption
    <2> QED BY <1>1, <2>1 DEF SocketsOK
  <1>10. SocketsInv'
    <2>1. NoSocketLeft' BY <1>1 DEF SocketsInv, NoSocketLeft
    <2>2. sent' \in 0..MaxAlerts BY <1>2, TwitchAssumption
    <2> QED BY <1>1, <1>7, <2>1, <2>2 DEF SocketsInv
  <1>11. SubscribedInv'
    <2>1. SubscribesOnce' BY <1>1 DEF SubscribedInv, SubscribesOnce
    <2>2. wire[net].greeted => wire'[net].greeted BY <1>8
    <2>3. (\/ wire'[net].url = Resume \/ wire'[net].subscribes # 0
           \/ wire'[net].owns \/ AsksToMove(wire'[net].inbox)) => sess.subscribed
      BY <1>1, <1>5, <1>8 DEF SubscribedInv
    <2>4. pending # NoConn => wire'[pending].url = Resume
      BY <1>1 DEF SubscribedInv, SocketsOK
    <2>5. pc \in {"subscribe", "redial"} \/ pending # NoConn => wire'[net].greeted
      BY <1>1, <2>2 DEF SubscribedInv
    <2>6. /\ sess.url = Resume => sess.subscribed
          /\ pc = "subscribe" => ~sess.subscribed
          /\ pc = "redial" => sess.url = Resume
          /\ pending # NoConn => sess.subscribed
      BY <1>1 DEF SubscribedInv
    <2> QED BY <2>1, <2>3, <2>4, <2>5, <2>6 DEF SubscribedInv
  <1> HIDE DEF a
  <1>12. OrderInv'
    <2>1. \A d \in Conns : /\ Rising(wire'[d].inbox) /\ NoneOver(wire'[d].inbox, sent')
                           /\ \A i \in 1..Len(emitted) : Newer(wire'[d].inbox, emitted[i])
      <3> SUFFICES ASSUME NEW d \in Conns
                   PROVE  /\ Rising(wire'[d].inbox) /\ NoneOver(wire'[d].inbox, sent')
                          /\ \A i \in 1..Len(emitted) : Newer(wire'[d].inbox, emitted[i])
        OBVIOUS
      <3>1. /\ Rising(wire[d].inbox) /\ NoneOver(wire[d].inbox, sent)
            /\ \A i \in 1..Len(emitted) : Newer(wire[d].inbox, emitted[i]) /\ emitted[i] <= sent
            /\ \A i \in 1..Len(emitted) : emitted[i] \in 1..MaxAlerts
        BY <1>1 DEF OrderInv
      <3>2. wire[d].inbox \in Seq(Messages)
        <4>1. wire[d] \in Wires BY <1>2
        <4> QED BY <4>1 DEF Wires
      <3>3. NoneOver(wire[d].inbox, sent')
        <4> SUFFICES ASSUME NEW i \in 1..Len(wire[d].inbox), Alert(wire[d].inbox[i])
                     PROVE  wire[d].inbox[i].alert <= sent'
          BY DEF NoneOver
        <4>1. wire[d].inbox[i] \in Messages BY <3>2
        <4>2. wire[d].inbox[i].alert \in 1..MaxAlerts BY <4>1, MessageKinds DEF Alert
        <4>3. wire[d].inbox[i].alert <= sent BY <3>1 DEF NoneOver
        <4> QED BY <1>2, <4>2, <4>3
      <3>4. CASE d = c
        <4>1. Alert(m) => m.alert <= sent' /\ \A i \in 1..Len(emitted) : emitted[i] < m.alert
          BY <1>2, <3>1
        <4>2. \A i \in 1..Len(emitted) : Newer(a, emitted[i]) BY <1>5, <3>1, <3>4, <4>1
        <4>3. NoneOver(a, sent') BY <1>5, <3>3, <3>4, <4>1
        <4> QED BY <1>5, <3>4, <4>2, <4>3 DEF a
      <3>5. CASE d # c BY <3>1, <3>3, <3>5
      <3> QED BY <3>4, <3>5
    <2>2. AlertsOnceInOrder' /\ emitted' \in Seq(1..MaxAlerts)
      BY <1>1 DEF OrderInv, AlertsOnceInOrder
    <2>3. \A i \in 1..Len(emitted) : emitted[i] <= sent'
      <3> SUFFICES ASSUME NEW i \in 1..Len(emitted) PROVE emitted[i] <= sent' OBVIOUS
      <3>1. emitted[i] <= sent /\ emitted[i] \in 1..MaxAlerts BY <1>1 DEF OrderInv
      <3> QED BY <1>2, <3>1
    <2>4. ASSUME pending # NoConn
          PROVE  /\ wire'[net].owns => ~wire'[pending].owns /\ NoneOver(wire'[pending].inbox, 0)
                 /\ \A i \in 1..Len(wire'[net].inbox) :
                      Alert(wire'[net].inbox[i])
                        => Newer(wire'[pending].inbox, wire'[net].inbox[i].alert)
      <3>1. /\ pending \in Conns /\ pending # net /\ wire[net].greeted
            /\ wire[net].owns => ~wire[pending].owns /\ NoneOver(wire[pending].inbox, 0)
            /\ \A i \in 1..Len(wire[net].inbox) :
                 Alert(wire[net].inbox[i]) => Newer(wire[pending].inbox, wire[net].inbox[i].alert)
        BY <1>1, <2>4 DEF SocketsInv, SocketsOK, SubscribedInv, OrderInv
      <3>2. CASE c = net
        <4>1. wire'[net].owns => wire[net].owns BY <3>1, <3>2
        <4>2. wire'[pending].inbox = wire[pending].inbox /\ (wire'[pending].owns => wire[pending].owns)
          BY <3>1, <3>2
        <4>3. ASSUME NEW i \in 1..Len(a), Alert(a[i]) PROVE Newer(wire[pending].inbox, a[i].alert)
          <5>1. CASE i \in 1..Len(q) BY <1>6, <3>1, <3>2, <4>3, <5>1
          <5>2. CASE i = Len(q) + 1
            <6>1. a[i] = m /\ Alert(m) BY <1>6, <4>3, <5>2
            <6>2. NoneOver(wire[pending].inbox, 0) BY <3>1, <3>2, <6>1
            <6>3. ASSUME NEW j \in 1..Len(wire[pending].inbox), Alert(wire[pending].inbox[j])
                  PROVE  FALSE
              <7>1. wire[pending] \in Wires BY <1>2, <3>1
              <7>2. wire[pending].inbox \in Seq(Messages) BY <7>1 DEF Wires
              <7>3. wire[pending].inbox[j] \in Messages BY <7>2
              <7>4. wire[pending].inbox[j].alert \in 1..MaxAlerts
                BY <6>3, <7>3, MessageKinds DEF Alert
              <7>5. wire[pending].inbox[j].alert <= 0 BY <6>2, <6>3 DEF NoneOver
              <7> QED BY <7>4, <7>5
            <6> QED BY <6>3 DEF Newer
          <5> QED BY <1>6, <5>1, <5>2
        <4> QED BY <3>1, <3>2, <4>1, <4>2, <4>3 DEF a
      <3>3. CASE c = pending
        <4>1. wire'[net].inbox = wire[net].inbox /\ (wire'[net].owns => wire[net].owns)
          BY <1>8, <3>1, <3>3
        <4>2. wire'[net].owns => ~wire'[pending].owns BY <1>8, <3>1, <3>3, <4>1
        <4>3. wire'[net].owns => NoneOver(a, 0) BY <1>5, <3>1, <3>3, <4>1
        <4>4. ASSUME NEW i \in 1..Len(wire[net].inbox), Alert(wire[net].inbox[i])
              PROVE  Newer(a, wire[net].inbox[i].alert)
          <5>1. wire[net] \in Wires BY <1>2, <1>8
          <5>2. wire[net].inbox \in Seq(Messages) BY <5>1 DEF Wires
          <5>3. wire[net].inbox[i] \in Messages BY <5>2
          <5>4. wire[net].inbox[i].alert \in 1..MaxAlerts BY <4>4, <5>3, MessageKinds DEF Alert
          <5>5. NoneOver(wire[net].inbox, sent) BY <1>1, <1>8 DEF OrderInv
          <5>6. wire[net].inbox[i].alert <= sent BY <4>4, <5>5 DEF NoneOver
          <5>7. Alert(m) => wire[net].inbox[i].alert < m.alert BY <1>2, <5>4, <5>6
          <5> QED BY <1>5, <3>1, <3>3, <4>4, <5>7
        <4> QED BY <3>3, <4>1, <4>2, <4>3, <4>4 DEF a
      <3> QED BY <1>8, <3>2, <3>3
    <2> QED BY <2>1, <2>2, <2>3, <2>4 DEF OrderInv
  <1> QED BY <1>9, <1>10, <1>11, <1>12

LEMMA ArrivalSteps ==
  ASSUME IInv, NEW c \in Conns, Greet(c) \/ Beat(c) \/ Notify(c) \/ AskReconnect(c)
  PROVE  SocketsIInv'
  <1> USE DEF Deliver, sockets
  <1>1. /\ SocketsIInv /\ wire \in [Conns -> Wires] /\ wire[c] \in Wires
        /\ sent \in 0..MaxAlerts
    BY Halves DEF SocketsIInv, SocketsInv
  <1>2. wire[c].inbox \in Seq(Messages) BY <1>1 DEF Wires
  <1>3. ASSUME NEW m \in Messages, wire[c].up, Len(wire[c].inbox) < MaxInbox,
               wire' = [wire EXCEPT ![c].inbox = Append(@, m)], wire[c].greeted,
               m.type = "reconnect" => wire[c].owns,
               Alert(m) => wire[c].owns /\ sent < MaxAlerts /\ m.alert = sent + 1,
               sent' = IF Alert(m) THEN sent + 1 ELSE sent,
               UNCHANGED <<pc, net, pending, sess, psess, emitted>>
        PROVE  SocketsIInv'
    <2>1. Append(wire[c].inbox, m) \in Seq(Messages) BY <1>2
    <2> DEFINE new == [wire[c] EXCEPT !.inbox = Append(wire[c].inbox, m)]
    <2>2. /\ new \in Wires /\ new.held = wire[c].held /\ new.up = wire[c].up
          /\ new.inbox = Append(wire[c].inbox, m) /\ new.url = wire[c].url
          /\ new.subscribes = wire[c].subscribes /\ new.greeted /\ new.owns = wire[c].owns
      BY <1>1, <1>3, <2>1 DEF Wires
    <2>3. wire' \in [Conns -> Wires] /\ wire'[c] = new /\ \A d \in Conns : d # c => wire'[d] = wire[d]
      BY <1>1, <1>3, <2>2
    <2> HIDE DEF new
    <2>4. OthersKept(c) BY <2>2, <2>3 DEF OthersKept
    <2>5. /\ wire'[c].inbox = Append(wire[c].inbox, m) /\ wire'[c].greeted
          /\ TakesOver(c, m)
      BY <2>2, <2>3 DEF TakesOver
    <2> QED BY <1>3, <2>3, <2>4, <2>5, ArrivalStep
  <1>4. CASE Beat(c) BY <1>3, <1>4, Sent DEF Beat, service, Alert
  <1>5. CASE Notify(c)
    <2> DEFINE m == Notification(sent + 1)
    <2>1. sent < MaxAlerts /\ wire[c].owns /\ sent' = sent + 1 BY <1>5 DEF Notify
    <2>2. m \in Messages /\ m.type = "event" /\ m.alert = sent + 1
      BY <1>1, <2>1, Sent, TwitchAssumption
    <2>3. wire[c].greeted BY <1>1, <2>1 DEF SocketsIInv, SocketsInv
    <2>4. wire' = [wire EXCEPT ![c].inbox = Append(@, m)] BY <1>5 DEF Notify
    <2>5. /\ wire[c].up /\ Len(wire[c].inbox) < MaxInbox
          /\ UNCHANGED <<pc, net, pending, sess, psess, emitted>>
      BY <1>5 DEF Notify
    <2> HIDE DEF m
    <2> QED BY <1>3, <2>1, <2>2, <2>3, <2>4, <2>5 DEF Alert
  <1>6. CASE AskReconnect(c)
    <2> DEFINE m == Reconnect(Resume)
    <2>1. /\ wire[c].up /\ Len(wire[c].inbox) < MaxInbox /\ wire[c].owns
          /\ wire' = [wire EXCEPT ![c].inbox = Append(@, m), ![c].asked = @ + 1]
          /\ UNCHANGED <<pc, net, pending, sess, psess, emitted, sent>>
      BY <1>6 DEF AskReconnect
    <2>2. m \in Messages /\ m.type = "reconnect" BY Sent
    <2> HIDE DEF m
    <2>3. wire[c].greeted BY <1>1, <2>1 DEF SocketsIInv, SocketsInv
    <2>4. Append(wire[c].inbox, m) \in Seq(Messages) /\ wire[c].asked + 1 \in Nat
      <3>1. wire[c].asked \in Nat BY <1>1 DEF Wires
      <3> QED BY <1>2, <2>2, <3>1
    <2> DEFINE new == [wire[c] EXCEPT !.inbox = Append(wire[c].inbox, m), !.asked = @ + 1]
    <2>5. /\ new \in Wires /\ new.held = wire[c].held /\ new.up = wire[c].up
          /\ new.inbox = Append(wire[c].inbox, m) /\ new.url = wire[c].url
          /\ new.subscribes = wire[c].subscribes /\ new.greeted /\ new.owns = wire[c].owns
      BY <1>1, <2>3, <2>4 DEF Wires
    <2>6. wire' \in [Conns -> Wires] /\ wire'[c] = new /\ \A d \in Conns : d # c => wire'[d] = wire[d]
      BY <1>1, <2>1, <2>5
    <2> HIDE DEF new
    <2>7. OthersKept(c) BY <2>5, <2>6 DEF OthersKept
    <2>8. /\ wire'[c].inbox = Append(wire[c].inbox, m) /\ wire'[c].greeted
          /\ TakesOver(c, m)
      BY <2>5, <2>6 DEF TakesOver
    <2>9. ~Alert(m) BY <2>2 DEF Alert
    <2> QED BY <2>1, <2>2, <2>6, <2>7, <2>8, <2>9, ArrivalStep
  <1>7. ASSUME NEW m \in Messages, m.type = "welcome",
               wire[c].up, Len(wire[c].inbox) < MaxInbox, ~wire[c].greeted,
               wire' = [d \in Conns |->
                 IF d = c
                 THEN [wire[c] EXCEPT !.inbox = Append(@, m), !.greeted = TRUE,
                                      !.owns = (wire[c].url = Resume)]
                 ELSE [wire[d] EXCEPT !.owns = @ /\ wire[c].url # Resume]],
               UNCHANGED <<pc, net, pending, sess, psess, emitted, sent>>
        PROVE  SocketsIInv'
    <2>1. Append(wire[c].inbox, m) \in Seq(Messages) BY <1>2
    <2> DEFINE moved == wire[c].url = Resume
               new == [wire[c] EXCEPT !.inbox = Append(@, m), !.greeted = TRUE, !.owns = moved]
               other(d) == [wire[d] EXCEPT !.owns = @ /\ ~moved]
    <2>2. moved \in BOOLEAN OBVIOUS
    <2>3. wire' = [d \in Conns |-> IF d = c THEN new ELSE other(d)] BY <1>7
    <2> HIDE DEF moved
    <2>4. /\ new \in Wires /\ new.held = wire[c].held /\ new.up = wire[c].up
          /\ new.inbox = Append(wire[c].inbox, m) /\ new.url = wire[c].url
          /\ new.subscribes = wire[c].subscribes /\ new.greeted /\ (new.owns <=> moved)
      BY <1>1, <2>1, <2>2 DEF Wires
    <2>5. ASSUME NEW d \in Conns
          PROVE  /\ other(d) \in Wires /\ other(d).held = wire[d].held /\ other(d).up = wire[d].up
                 /\ other(d).inbox = wire[d].inbox /\ other(d).url = wire[d].url
                 /\ other(d).subscribes = wire[d].subscribes /\ other(d).greeted = wire[d].greeted
                 /\ (other(d).owns => wire[d].owns /\ ~moved)
      <3>1. wire[d] \in Wires BY <1>1
      <3> QED BY <2>2, <3>1 DEF Wires
    <2> HIDE DEF new, other
    <2>6. wire' \in [Conns -> Wires] /\ wire'[c] = new /\ \A d \in Conns : d # c => wire'[d] = other(d)
      BY <2>3, <2>4, <2>5
    <2>7. wire'[c].owns => wire[c].url = Resume /\ \A d \in Conns : d # c => ~wire'[d].owns
      BY <2>4, <2>5, <2>6 DEF moved
    <2>8. OthersKept(c) BY <2>4, <2>5, <2>6 DEF OthersKept
    <2>9. wire'[c].inbox = Append(wire[c].inbox, m) /\ wire'[c].greeted BY <2>4, <2>6
    <2>10. ~Alert(m) /\ m.type # "reconnect" BY <1>7 DEF Alert
    <2>11. TakesOver(c, m) /\ sent' = IF Alert(m) THEN sent + 1 ELSE sent
      BY <1>7, <2>7, <2>10 DEF TakesOver
    <2>12. wire[c].up /\ Len(wire[c].inbox) < MaxInbox BY <1>7
    <2>13. UNCHANGED <<pc, net, pending, sess, psess, emitted>> BY <1>7
    <2>14. wire' \in [Conns -> Wires] BY <2>6
    <2>15. Alert(m) => wire[c].owns /\ sent < MaxAlerts /\ m.alert = sent + 1 BY <2>10
    <2>16. m \in Messages /\ (m.type = "reconnect" => wire[c].owns) BY <1>7, <2>10
    <2> QED BY <2>8, <2>9, <2>11, <2>12, <2>13, <2>14, <2>15, <2>16, ArrivalStep
  <1>8. CASE Greet(c)
    <2>1. PICK k \in Keepalives :
            wire' = [d \in Conns |->
              IF d = c
              THEN [wire[c] EXCEPT !.inbox = Append(@, Welcome(k)), !.greeted = TRUE,
                                   !.owns = (wire[c].url = Resume)]
              ELSE [wire[d] EXCEPT !.owns = @ /\ wire[c].url # Resume]]
      BY <1>8 DEF Greet
    <2>2. /\ wire[c].up /\ Len(wire[c].inbox) < MaxInbox /\ ~wire[c].greeted
          /\ UNCHANGED <<pc, net, pending, sess, psess, emitted, sent>>
      BY <1>8 DEF Greet
    <2>3. Welcome(k) \in Messages /\ Welcome(k).type = "welcome" BY Sent
    <2> QED BY <1>7, <2>1, <2>2, <2>3
  <1> QED BY <1>4, <1>5, <1>6, <1>8

\* A socket ends: what was sent on it is still there to be read.
LEMMA HangUpStep == ASSUME IInv, NEW c \in Conns, HangUp(c) PROVE SocketsIInv'
  <1> USE DEF SocketsIInv
  <1>1. /\ SocketsIInv /\ wire \in [Conns -> Wires] /\ wire[c] \in Wires
        /\ sent \in 0..MaxAlerts
    BY Halves DEF SocketsInv
  <1> DEFINE new == [wire[c] EXCEPT !.up = FALSE, !.owns = FALSE]
  <1>2. /\ new \in Wires /\ new.held = wire[c].held /\ ~new.up /\ ~new.owns
        /\ new.inbox = wire[c].inbox /\ new.url = wire[c].url
        /\ new.subscribes = wire[c].subscribes /\ new.greeted = wire[c].greeted
    BY <1>1 DEF Wires
  <1>3. /\ wire' \in [Conns -> Wires] /\ wire'[c] = new
        /\ \A d \in Conns : d # c => wire'[d] = wire[d]
        /\ UNCHANGED <<pc, net, pending, sess, psess, emitted, sent>>
    BY <1>1, <1>2 DEF HangUp, sockets
  <1> HIDE DEF new
  <1>4. \A d \in Conns :
          /\ wire'[d].held = wire[d].held /\ wire'[d].inbox = wire[d].inbox
          /\ wire'[d].url = wire[d].url /\ wire'[d].subscribes = wire[d].subscribes
          /\ wire'[d].greeted = wire[d].greeted /\ (wire'[d].owns => wire[d].owns)
          /\ (wire'[d].up => wire[d].up)
    BY <1>2, <1>3
  <1>5. SocketsOK' BY <1>1, <1>3, <1>4 DEF SocketsOK
  <1>6. SocketsInv' BY <1>1, <1>3, <1>4 DEF SocketsInv, NoSocketLeft
  <1>7. net \in Conns \union {NoConn} /\ (pending # NoConn => net \in Conns /\ pending \in Conns)
        /\ (pc \in {"subscribe", "redial"} => net \in Conns)
    BY <1>1 DEF SocketsOK, SocketsInv, NoSocketLeft, InLoop
  <1>8. SubscribedInv'
    <2>1. SubscribesOnce' BY <1>1, <1>4 DEF SubscribedInv, SubscribesOnce
    <2> QED BY <1>1, <1>3, <1>4, <1>7, <2>1 DEF SubscribedInv
  <1>9. OrderInv' BY <1>1, <1>3, <1>4, <1>7 DEF OrderInv, AlertsOnceInOrder
  <1> QED BY <1>5, <1>6, <1>8, <1>9

----------------------------------------------------------------------------
(* The theorems *)

LEMMA TwitchStep == IInv /\ [Next]_vars => IInv'
  <1> SUFFICES ASSUME IInv, [Next]_vars PROVE SocketsIInv' BY Halves, PanelStep
  <1>1. CASE UI \/ Outer \/ Tick \/ UNCHANGED vars BY <1>1, StillSteps
  <1>2. CASE Service BY <1>2, StillSteps, ArrivalSteps, HangUpStep DEF Service
  <1>3. CASE Refresh \/ Identify \/ Open BY <1>3, StillSteps
  <1>4. CASE Dial BY <1>4, DialSteps
  <1>5. CASE LoopOver BY <1>5, LeaveStep DEF LoopOver, GiveUp, InLoop
  <1>6. CASE PendingFailed BY <1>6, PendingFailedStep
  <1>7. CASE PendingQuiet
    <2>1. CASE HandoverExpired(sess) BY <1>7, <2>1, LeaveStep DEF PendingQuiet, InLoop
    <2>2. CASE ~HandoverExpired(sess)
      <3>1. /\ pc = "read" /\ pc' = "main" /\ UNCHANGED <<wire, net, pending, sess, psess, sent, emitted>>
        BY <1>7, <2>2 DEF PendingQuiet, Goto
      <3>2. sess \in Sessions /\ (sess.url = Resume => sess.subscribed)
        BY Halves DEF SocketsIInv, SocketsOK, SubscribedInv
      <3> QED BY <3>1, <3>2, StillStep DEF InLoop
    <2> QED BY <2>1, <2>2
  <1>8. CASE PendingWelcomed BY <1>8, PendingWelcomedStep
  <1>9. CASE MainFailed BY <1>9, LeaveStep DEF MainFailed, GiveUp, InLoop
  <1>10. CASE MainQuiet
    <2>1. CASE IdleStep(sess) = "drop" BY <1>10, <2>1, LeaveStep DEF MainQuiet, GiveUp, InLoop
    <2>2. CASE IdleStep(sess) # "drop"
      <3>1. /\ pc \in {"read", "main"} /\ pc' = "read"
            /\ UNCHANGED <<wire, net, pending, sess, psess, sent, emitted>>
        BY <1>10, <2>2 DEF MainQuiet, MainTurn, Goto
      <3>2. sess \in Sessions /\ (sess.url = Resume => sess.subscribed)
        BY Halves DEF SocketsIInv, SocketsOK, SubscribedInv
      <3> QED BY <3>1, <3>2, StillStep DEF InLoop
    <2> QED BY <2>1, <2>2
  <1>11. CASE MainMessage BY <1>11, MainMessageStep
  <1>12. CASE Subscribe
    <2>1. PICK accepted \in 0..SubCount :
            IF SubscribedStep(accepted, SubCount) = "drop"
            THEN SetState("retrying") /\ GiveUp
            ELSE /\ SetState("live")
                 /\ sess' = [sess EXCEPT !.subscribed = TRUE]
                 /\ wire' = [wire EXCEPT ![net].owns = TRUE, ![net].subscribes = @ + 1]
                 /\ Goto("read")
                 /\ UNCHANGED <<net, pending, psess>>
      BY <1>12 DEF Subscribe
    <2>2. pc = "subscribe" /\ UNCHANGED <<sent, emitted>> BY <1>12 DEF Subscribe
    <2>3. CASE SubscribedStep(accepted, SubCount) = "drop"
      BY <2>1, <2>2, <2>3, LeaveStep DEF GiveUp, InLoop
    <2>4. CASE SubscribedStep(accepted, SubCount) # "drop"
      BY <2>1, <2>2, <2>4, SubscribeStep DEF Goto
    <2> QED BY <2>3, <2>4
  <1>13. CASE Redial BY <1>13, RedialSteps
  <1> QED BY <1>1, <1>2, <1>3, <1>4, <1>5, <1>6, <1>7, <1>8, <1>9, <1>10, <1>11, <1>12, <1>13
       DEF Next, Worker, Connection

\* The whole invariant, of every reachable state.
THEOREM TwitchInvariant == Spec => []IInv
  BY StartOK, TwitchStep, PTL DEF Spec

\* Every variable keeps its type, and no code stays on the panel of a worker that is
\* not signing in (set_line).
THEOREM TwitchTypeOK == Spec => []TypeOK
  <1>1. IInv => TypeOK BY DEF IInv
  <1> QED BY <1>1, TwitchInvariant, PTL

\* Whatever the service asks for and whenever a socket dies, the worker holds the
\* sockets it reads and no other (run_once).
THEOREM TwitchNoSocketLeft == Spec => []NoSocketLeft
  <1>1. IInv => NoSocketLeft BY DEF IInv, SocketsInv
  <1> QED BY <1>1, TwitchInvariant, PTL

\* No socket is subscribed twice, and none that was moved to is subscribed at all
\* (ff_session_init_replacement, ff_session_adopt).
THEOREM TwitchSubscribesOnce == Spec => []SubscribesOnce
  <1>1. IInv => SubscribesOnce BY DEF IInv, SubscribedInv
  <1> QED BY <1>1, TwitchInvariant, PTL

\* However many alerts, reconnects and changeovers: each alert is handed on at most
\* once, and in the order of the service (run_once's read loop).
THEOREM TwitchAlertsOnceInOrder == Spec => []AlertsOnceInOrder
  <1>1. IInv => AlertsOnceInOrder BY DEF IInv, OrderInv
  <1> QED BY <1>1, TwitchInvariant, PTL

----------------------------------------------------------------------------
(* The way out: once running is cleared, what is left of the worker's path *)

\* At most this many steps of the worker are left once running is cleared.
StepsToExit ==
  [l \in Labels |->
   CASE l = "exited" -> 0
    [] l = "top" -> 1
    [] l = "poll" \/ l = "tail" -> 2
    [] l = "announce" \/ l = "read" -> 3
    [] l = "device" \/ l = "dial" \/ l = "subscribe" -> 4
    [] l = "open" -> 5
    [] l = "redial" \/ l = "identify" -> 6
    [] l = "main" \/ l = "refresh" -> 7
    [] l = "gate" -> 8
    [] l = "sign in?" -> 9]

LEMMA StepsToExitOf ==
  /\ StepsToExit["exited"] = 0
  /\ StepsToExit["top"] = 1
  /\ StepsToExit["poll"] = 2 /\ StepsToExit["tail"] = 2
  /\ StepsToExit["announce"] = 3 /\ StepsToExit["read"] = 3
  /\ StepsToExit["device"] = 4 /\ StepsToExit["dial"] = 4 /\ StepsToExit["subscribe"] = 4
  /\ StepsToExit["open"] = 5
  /\ StepsToExit["redial"] = 6 /\ StepsToExit["identify"] = 6
  /\ StepsToExit["main"] = 7 /\ StepsToExit["refresh"] = 7
  /\ StepsToExit["gate"] = 8
  /\ StepsToExit["sign in?"] = 9
  BY DEF StepsToExit, Labels, InLoop

LEMMA StepsToExitIs ==
  \A l \in Labels : StepsToExit[l] \in 0..9 /\ (StepsToExit[l] = 0 <=> l = "exited")
  <1> SUFFICES ASSUME NEW l \in Labels
               PROVE  StepsToExit[l] \in 0..9 /\ (StepsToExit[l] = 0 <=> l = "exited")
    OBVIOUS
  <1>1. CASE l \in {"exited", "top", "poll", "tail", "announce", "read"}
    <2>1. \/ StepsToExit[l] = 0 /\ l = "exited"
          \/ StepsToExit[l] = 1 /\ l # "exited"
          \/ StepsToExit[l] = 2 /\ l # "exited"
          \/ StepsToExit[l] = 3 /\ l # "exited"
      BY <1>1, StepsToExitOf, Zenon
    <2> QED BY <2>1
  <1>2. CASE l \in {"device", "dial", "subscribe", "open", "redial", "identify"}
    <2>1. \/ StepsToExit[l] = 4 /\ l # "exited"
          \/ StepsToExit[l] = 5 /\ l # "exited"
          \/ StepsToExit[l] = 6 /\ l # "exited"
      BY <1>2, StepsToExitOf, Zenon
    <2> QED BY <2>1
  <1>3. CASE l \in {"main", "refresh", "gate", "sign in?"}
    <2>1. \/ StepsToExit[l] = 7 /\ l # "exited"
          \/ StepsToExit[l] = 8 /\ l # "exited"
          \/ StepsToExit[l] = 9 /\ l # "exited"
      BY <1>3, StepsToExitOf, Zenon
    <2> QED BY <2>1
  <1> QED BY <1>1, <1>2, <1>3, Zenon DEF Labels, InLoop

\* Where a worker that is no longer running can go.
WayOut(from, to) ==
  \/ from = "sign in?" /\ to \in {"device", "gate"}
  \/ from = "gate" /\ to \in {"refresh", "top"}
  \/ from = "device" /\ to \in {"announce", "top"}
  \/ from = "announce" /\ to = "poll"
  \/ from \in {"poll", "tail"} /\ to = "top"
  \/ from = "refresh" /\ to \in {"identify", "tail"}
  \/ from = "identify" /\ to \in {"open", "tail"}
  \/ from = "open" /\ to = "dial"
  \/ from \in {"dial", "subscribe"} /\ to \in {"read", "tail"}
  \/ from = "main" /\ to \in {"subscribe", "redial", "read", "tail"}
  \/ from = "redial" /\ to \in {"open", "read"}
  \/ from = "read" /\ to = "tail"
  \/ from = "top" /\ to = "exited"

LEMMA WayOutNears ==
  ASSUME NEW from, NEW to, WayOut(from, to) PROVE StepsToExit[to] < StepsToExit[from]
  <1> DEFINE Falls(m, n) == StepsToExit[from] = m /\ StepsToExit[to] = n
  <1>1. \/ Falls(9, 4) \/ Falls(9, 8) \/ Falls(8, 7) \/ Falls(8, 1) \/ Falls(4, 3) \/ Falls(4, 1)
        \/ Falls(3, 2) \/ Falls(2, 1) \/ Falls(7, 6) \/ Falls(7, 2) \/ Falls(6, 5) \/ Falls(6, 2)
        \/ Falls(5, 4) \/ Falls(4, 2) \/ Falls(7, 4) \/ Falls(7, 3) \/ Falls(6, 3) \/ Falls(1, 0)
    BY StepsToExitOf, Zenon DEF WayOut
  <1> QED BY <1>1

\* The worker takes the way out, whatever it was doing.
LEMMA WorkerLeaves == ASSUME ~running, Worker PROVE UNCHANGED running /\ WayOut(pc, pc')
  <1> USE DEF Goto, flags, WayOut
  <1>1. CASE Top \/ TakeSignIn \/ Gate BY <1>1 DEF Top, TakeSignIn, Gate
  <1>2. CASE DeviceStart \/ Announce \/ DevicePoll BY <1>2 DEF DeviceStart, Announce, DevicePoll
  <1>3. CASE BackOff BY <1>3 DEF BackOff
  <1>4. CASE Refresh \/ Identify \/ Open \/ Dial BY <1>4 DEF Refresh, Identify, Open, Dial
  <1>5. CASE LoopOver BY <1>5 DEF LoopOver, GiveUp, LeaveLoop
  \* The replacement is polled by a worker that is wanted.
  <1>6. CASE PendingFailed \/ PendingQuiet \/ PendingWelcomed
    BY <1>6 DEF PendingFailed, PendingQuiet, PendingWelcomed, Wanted
  <1>7. ASSUME MainTurn PROVE pc = "main" BY <1>7 DEF MainTurn, Wanted
  <1>8. CASE MainFailed BY <1>7, <1>8 DEF MainFailed, GiveUp, LeaveLoop
  <1>9. CASE MainQuiet BY <1>7, <1>9 DEF MainQuiet, GiveUp, LeaveLoop
  <1>10. CASE MainMessage
    <2>1. pc = "main" /\ pc' \in {"subscribe", "redial", "read"} /\ UNCHANGED running
      BY <1>7, <1>10 DEF MainMessage
    <2> QED BY <2>1
  <1>11. CASE Subscribe BY <1>11 DEF Subscribe, GiveUp, LeaveLoop
  <1>12. CASE Redial
    <2>1. pc = "redial" /\ pc' \in {"open", "read"} /\ UNCHANGED running
      BY <1>12 DEF Redial, LeaveLoop
    <2> QED BY <2>1
  <1> QED BY <1>1, <1>2, <1>3, <1>4, <1>5, <1>6, <1>8, <1>9, <1>10, <1>11, <1>12
       DEF Worker, Outer, Connection

\* ff_twitch_destroy's join waits for a bounded number of the worker's own steps, nine at
\* most: once running is cleared it stays cleared, each step of the worker brings
\* it nearer the end, and nothing the service, the network or the clock does sets it
\* back (worker, run_once).  That the steps are taken is ShutdownFinishes' fairness.
THEOREM TwitchShutdownNears ==
  Spec => /\ [](StepsToExit[pc] \in 0..9 /\ (StepsToExit[pc] = 0 <=> pc = "exited"))
          /\ [][~running => /\ ~running'
                            /\ Worker => StepsToExit[pc'] < StepsToExit[pc]
                            /\ ~Worker => pc' = pc]_vars
  <1>1. IInv => StepsToExit[pc] \in 0..9 /\ (StepsToExit[pc] = 0 <=> pc = "exited")
    BY Halves, StepsToExitIs DEF PanelOK, LineOK
  <1>2. [Next]_vars => [~running => /\ ~running'
                                    /\ Worker => StepsToExit[pc'] < StepsToExit[pc]
                                    /\ ~Worker => pc' = pc]_vars
    <2> SUFFICES ASSUME Next, ~running
                 PROVE  ~running' /\ (Worker => StepsToExit[pc'] < StepsToExit[pc]) /\ (~Worker => pc' = pc)
      OBVIOUS
    <2>1. ~UI BY DEF UI, SetEnabled, SignIn, SignOut, Destroy, CountedPress, Press
    <2>2. CASE Worker BY <2>2, WorkerLeaves, WayOutNears
    <2>3. CASE ~Worker
      <3>1. Service \/ Tick BY <2>1, <2>3 DEF Next
      <3>2. CASE Tick BY <2>3, <3>2 DEF Tick, flags
      <3>3. CASE Revoke BY <2>3, <3>3 DEF Revoke, flags
      <3>4. CASE \E c \in Conns : HangUp(c) BY <2>3, <3>4 DEF HangUp, flags
      <3>5. CASE \E c \in Conns : Greet(c) \/ Beat(c) \/ Notify(c) \/ AskReconnect(c)
        <4>1. \E c \in Conns : \E m : Deliver(c, m)
          BY <3>5 DEF Greet, Beat, Notify, AskReconnect
        <4> QED BY <2>3, <4>1 DEF Deliver, flags
      <3> QED BY <3>1, <3>2, <3>3, <3>4, <3>5 DEF Service
    <2> QED BY <2>2, <2>3
  <1> QED BY <1>1, <1>2, TwitchInvariant, PTL DEF Spec
=============================================================================
