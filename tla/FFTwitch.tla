------------------------------ MODULE FFTwitch ------------------------------
(***************************************************************************)
(* The Twitch feed (ff-twitch.c): the worker thread, from the flags the UI *)
(* thread sets down to the sockets of one connection, against the service. *)
(*                                                                         *)
(* A step of the worker ends where another thread or the service may next  *)
(* be noticed: at a read of a flag, a blocking call or a poll.  How long a *)
(* nap lasts, and the attempt counter that only sets its length, are left  *)
(* out: a nap is over whenever the worker takes its next step.             *)
(***************************************************************************)
EXTENDS FFSession, Sequences, FiniteSets

CONSTANTS
  Conns,      \* socket handles
  NoConn,
  Resume,     \* the reconnect URL
  SubCount,   \* FF_ES_SUB_COUNT
  MaxAlerts,  \* bound: alerts the service sends
  MaxAsks,    \* bound: reconnects the service asks for on one socket
  MaxInbox,   \* bound: unread messages on one socket
  MaxPresses  \* bound: switching, signing out and closing in one run

ASSUME TwitchAssumption ==
  /\ NoConn \notin Conns
  /\ Resume \in Urls \ {Home}
  /\ SubCount \in Nat \ {0}
  /\ MaxAlerts \in Nat /\ MaxInbox \in Nat

VARIABLES
  running, enabled, wantSignIn, wantSignOut,  \* the flags, under t->lock
  state,     \* t->state
  code,      \* is there a code in t->code?
  token,     \* the saved sign-in: "none", one that is "valid", or one Twitch refuses
  pc,        \* where the worker is
  net, pending,  \* its sockets
  sess, psess,   \* and their sessions
  wire,      \* the service's and the kernel's side of each socket
  sent,      \* alerts sent so far
  emitted,   \* the alerts handed to t->cb, in order
  presses    \* bound counter

flags == <<running, enabled, wantSignIn, wantSignOut>>
panel == <<state, code>>
sockets == <<net, pending, sess, psess>>
service == <<wire, sent>>
vars == <<running, enabled, wantSignIn, wantSignOut, state, code, token, pc, net, pending,
          sess, psess, wire, sent, emitted, presses>>

States == {"off", "signing in", "connecting", "live", "retrying", "failed"}

\* A socket no one holds.
Closed == [held |-> FALSE, up |-> FALSE, url |-> Home, inbox |-> <<>>, greeted |-> FALSE,
           owns |-> FALSE, asked |-> 0, subscribes |-> 0]

Init ==
  /\ running = TRUE
  /\ enabled \in BOOLEAN
  /\ wantSignIn = FALSE
  /\ wantSignOut = FALSE
  /\ state = "off"
  /\ code = FALSE
  /\ token \in {"none", "valid"}
  /\ pc = "top"
  /\ net = NoConn
  /\ pending = NoConn
  /\ sess = NewSession(Home)
  /\ psess = NewSession(Home)
  /\ wire = [c \in Conns |-> Closed]
  /\ sent = 0
  /\ emitted = <<>>
  /\ presses = 0

----------------------------------------------------------------------------
(* The UI thread: it sets flags, and joins the worker at the end. *)

Press ==
  /\ running
  /\ UNCHANGED <<state, code, token, pc, net, pending, sess, psess, wire, sent, emitted>>

CountedPress ==
  /\ Press
  /\ presses < MaxPresses
  /\ presses' = presses + 1

SetEnabled ==
  /\ CountedPress
  /\ enabled' = ~enabled
  /\ UNCHANGED <<running, wantSignIn, wantSignOut>>

SignIn ==
  /\ Press
  /\ wantSignIn' = TRUE
  /\ UNCHANGED <<running, enabled, wantSignOut, presses>>

SignOut ==
  /\ CountedPress
  /\ wantSignOut' = TRUE
  /\ UNCHANGED <<running, enabled, wantSignIn>>

Destroy ==
  /\ CountedPress
  /\ running' = FALSE
  /\ UNCHANGED <<enabled, wantSignIn, wantSignOut>>

----------------------------------------------------------------------------
(* The service, and the network between *)

Deliver(c, m) ==
  /\ wire[c].up
  /\ Len(wire[c].inbox) < MaxInbox
  /\ UNCHANGED <<token, pc, emitted, presses>>
  /\ UNCHANGED flags
  /\ UNCHANGED panel
  /\ UNCHANGED sockets

\* A session at the reconnect address takes the subscriptions over.
Greet(c) ==
  \E k \in Keepalives :
    /\ ~wire[c].greeted
    /\ Deliver(c, Welcome(k))
    /\ wire' = [d \in Conns |->
         IF d = c
         THEN [wire[c] EXCEPT !.inbox = Append(@, Welcome(k)), !.greeted = TRUE,
                              !.owns = (wire[c].url = Resume)]
         ELSE [wire[d] EXCEPT !.owns = @ /\ wire[c].url # Resume]]
    /\ UNCHANGED sent

Beat(c) ==
  /\ wire[c].greeted
  /\ Deliver(c, Keepalive)
  /\ wire' = [wire EXCEPT ![c].inbox = Append(@, Keepalive)]
  /\ UNCHANGED sent

Notify(c) ==
  /\ wire[c].owns
  /\ sent < MaxAlerts
  /\ Deliver(c, Notification(sent + 1))
  /\ wire' = [wire EXCEPT ![c].inbox = Append(@, Notification(sent + 1))]
  /\ sent' = sent + 1

AskReconnect(c) ==
  /\ wire[c].owns
  /\ wire[c].asked < MaxAsks
  /\ Deliver(c, Reconnect(Resume))
  /\ wire' = [wire EXCEPT ![c].inbox = Append(@, Reconnect(Resume)), ![c].asked = @ + 1]
  /\ UNCHANGED sent

\* The socket ends; of what was sent before, some may still be read.
HangUp(c) ==
  /\ wire[c].up
  /\ wire' = [wire EXCEPT ![c].up = FALSE, ![c].owns = FALSE]
  /\ UNCHANGED <<token, pc, sent, emitted, presses>>
  /\ UNCHANGED flags
  /\ UNCHANGED panel
  /\ UNCHANGED sockets

\* The streamer has disconnected the application in Twitch's settings; it shows
\* when the token is next used.
Revoke ==
  /\ pc = "refresh"
  /\ token = "valid"
  /\ token' = "refused"
  /\ UNCHANGED <<pc, emitted, presses>>
  /\ UNCHANGED flags
  /\ UNCHANGED panel
  /\ UNCHANGED sockets
  /\ UNCHANGED service

Service == (\E c \in Conns : Greet(c) \/ Beat(c) \/ Notify(c) \/ AskReconnect(c) \/ HangUp(c))
             \/ Revoke

----------------------------------------------------------------------------
(* The worker: the outer loop *)

\* set_line
SetState(st) ==
  /\ state' = st
  /\ code' = (code /\ st = "signing in")

Goto(l) == pc' = l

\* while (running), and the sign-out
Top ==
  /\ pc = "top"
  /\ \/ /\ ~running
        /\ Goto("exited")
        /\ UNCHANGED <<wantSignOut, token, state, code>>
     \/ /\ running
        /\ ~wantSignOut
        /\ Goto("sign in?")
        /\ UNCHANGED <<wantSignOut, token, state, code>>
     \/ /\ running
        /\ wantSignOut
        /\ wantSignOut' = FALSE
        /\ token' = "none"
        /\ SetState("off")
        /\ Goto("sign in?")
  /\ UNCHANGED <<running, enabled, wantSignIn, emitted, presses>>
  /\ UNCHANGED sockets
  /\ UNCHANGED service

TakeSignIn ==
  /\ pc = "sign in?"
  /\ wantSignIn' = FALSE
  /\ Goto(IF wantSignIn THEN "device" ELSE "gate")
  /\ UNCHANGED <<running, enabled, wantSignOut, token, emitted, presses>>
  /\ UNCHANGED panel
  /\ UNCHANGED sockets
  /\ UNCHANGED service

\* Mutant: a connection that failed waits for a person too.
GateLiveOnly ==
  /\ pc = "gate"
  /\ Goto(IF enabled /\ state \in {"connecting", "live"} THEN "refresh" ELSE "top")
  /\ UNCHANGED <<token, emitted, presses>>
  /\ UNCHANGED flags
  /\ UNCHANGED panel
  /\ UNCHANGED sockets
  /\ UNCHANGED service

\* Off and failed both wait for a person.
Gate ==
  /\ pc = "gate"
  /\ Goto(IF enabled /\ state \notin {"off", "failed"} THEN "refresh" ELSE "top")
  /\ UNCHANGED <<token, emitted, presses>>
  /\ UNCHANGED flags
  /\ UNCHANGED panel
  /\ UNCHANGED sockets
  /\ UNCHANGED service

\* do_sign_in: a code, or an error
DeviceStart ==
  /\ pc = "device"
  /\ \/ code' = TRUE /\ state' = state /\ Goto("announce")
     \/ SetState("failed") /\ Goto("top")
  /\ UNCHANGED <<token, emitted, presses>>
  /\ UNCHANGED flags
  /\ UNCHANGED sockets
  /\ UNCHANGED service

Announce ==
  /\ pc = "announce"
  /\ SetState("signing in")
  /\ Goto("poll")
  /\ UNCHANGED <<token, emitted, presses>>
  /\ UNCHANGED flags
  /\ UNCHANGED sockets
  /\ UNCHANGED service

\* Until the streamer is done, gives up, or the code expires; a poll that says
\* pending or slow down changes nothing.
DevicePoll ==
  /\ pc = "poll"
  /\ \/ ~running /\ UNCHANGED <<token, state, code>>
     \/ running /\ token' = "valid" /\ SetState("connecting")
     \/ running /\ SetState("failed") /\ UNCHANGED token
  /\ Goto("top")
  /\ UNCHANGED <<emitted, presses>>
  /\ UNCHANGED flags
  /\ UNCHANGED sockets
  /\ UNCHANGED service

\* After run_once: failed and off wait for a person, anything else backs off.
BackOff ==
  /\ pc = "tail"
  /\ IF running /\ enabled /\ state \notin {"failed", "off"}
     THEN SetState("retrying")
     ELSE UNCHANGED panel
  /\ Goto("top")
  /\ UNCHANGED <<token, emitted, presses>>
  /\ UNCHANGED flags
  /\ UNCHANGED sockets
  /\ UNCHANGED service

----------------------------------------------------------------------------
(* run_once, before there is a socket *)

\* Twitch invalidates a refresh token when it renews it; failing to save the
\* new one leaves the old one on disk.  Any 4xx is a refusal, whatever it is for
\* (FFSignIn has what it may be for).
Refresh ==
  /\ pc = "refresh"
  /\ \/ token = "none" /\ SetState("off") /\ Goto("tail") /\ UNCHANGED token
     \/ token # "none" /\ token' = "none" /\ SetState("failed") /\ Goto("tail")
     \/ token # "none" /\ SetState("retrying") /\ Goto("tail") /\ UNCHANGED token
     \/ token = "valid" /\ token' \in {"valid", "refused"} /\ Goto("identify")
          /\ UNCHANGED panel
  /\ UNCHANGED <<emitted, presses>>
  /\ UNCHANGED flags
  /\ UNCHANGED sockets
  /\ UNCHANGED service

Identify ==
  /\ pc = "identify"
  /\ \/ SetState("retrying") /\ Goto("tail") /\ UNCHANGED sess
     \/ sess' = NewSession(Home) /\ Goto("open") /\ UNCHANGED panel
  /\ UNCHANGED <<token, net, pending, psess, emitted, presses>>
  /\ UNCHANGED flags
  /\ UNCHANGED service

Open ==
  /\ pc = "open"
  /\ SetState("connecting")
  /\ Goto("dial")
  /\ UNCHANGED <<token, emitted, presses>>
  /\ UNCHANGED flags
  /\ UNCHANGED sockets
  /\ UNCHANGED service

Fresh == CHOOSE c \in Conns : ~wire[c].held

Dialled(u) == [Closed EXCEPT !.held = TRUE, !.up = TRUE, !.url = u]

Dial ==
  /\ pc = "dial"
  /\ \/ /\ SetState("retrying")
        /\ Goto("tail")
        /\ sess' = NewSession(Home)
        /\ UNCHANGED <<net, wire>>
     \/ /\ \E c \in Conns : ~wire[c].held
        /\ net' = Fresh
        /\ wire' = [wire EXCEPT ![Fresh] = Dialled(sess.url)]
        /\ sess' = Opened(sess)
        /\ Goto("read")
        /\ UNCHANGED panel
  /\ UNCHANGED <<token, pending, psess, sent, emitted, presses>>
  /\ UNCHANGED flags

----------------------------------------------------------------------------
(* run_once, the read loop: the replacement is polled first, then the main *)
(* socket.                                                                 *)

Close(cs) == wire' = [c \in Conns |-> IF c \in cs THEN Closed ELSE wire[c]]

\* Leaving the loop closes both sockets.  The session survives only when the
\* loop is left to dial again, at the reconnect address.
LeaveLoop(to, s) ==
  /\ Close({net, pending} \ {NoConn})
  /\ net' = NoConn
  /\ pending' = NoConn
  /\ sess' = s
  /\ psess' = NewSession(Home)
  /\ Goto(to)

GiveUp == LeaveLoop("tail", NewSession(Home))

\* Mutant: the loop looks at the box and not at the shutdown.
WantedUnlessOff == enabled

Wanted == running /\ enabled

LoopOver ==
  /\ pc = "read"
  /\ ~Wanted
  /\ GiveUp
  /\ UNCHANGED <<token, sent, emitted, presses>>
  /\ UNCHANGED flags
  /\ UNCHANGED panel

\* A poll that finds the socket ended fails at once, and what was read before but
\* not parsed goes with it.
Dead(c) == ~wire[c].up
Quiet(c) == wire[c].inbox = <<>> /\ wire[c].up

\* The replacement is welcomed: the old socket goes, the replacement is read.
Swap(p) ==
  /\ wire' = [wire EXCEPT ![net] = Closed, ![pending].inbox = Tail(@)]
  /\ net' = pending
  /\ pending' = NoConn
  /\ sess' = Adopt(sess, p)
  /\ psess' = NewSession(Home)
  /\ Goto("read")

PendingFailed ==
  /\ pc = "read" /\ Wanted /\ pending # NoConn
  /\ Dead(pending)
  /\ Close({pending})
  /\ pending' = NoConn
  /\ psess' = NewSession(Home)
  /\ Goto("main")
  /\ UNCHANGED <<token, net, sess, sent, emitted, presses>>
  /\ UNCHANGED flags
  /\ UNCHANGED panel

PendingQuiet ==
  /\ pc = "read" /\ Wanted /\ pending # NoConn
  /\ Quiet(pending)
  /\ IF HandoverExpired(sess)
     THEN LeaveLoop("open", sess)
     ELSE Goto("main") /\ UNCHANGED <<wire, net, pending, sess, psess>>
  /\ UNCHANGED <<token, sent, emitted, presses>>
  /\ UNCHANGED flags
  /\ UNCHANGED panel

\* The first message on a socket is its welcome.
PendingWelcomed ==
  /\ pc = "read" /\ Wanted /\ pending # NoConn
  /\ wire[pending].inbox # <<>>
  /\ LET p == AfterMessage(psess, Head(wire[pending].inbox))
     IN  p.welcomed /\ Swap(p)
  /\ UNCHANGED <<token, sent, emitted, presses>>
  /\ UNCHANGED flags
  /\ UNCHANGED panel

\* The main socket is polled now: there is no replacement, or it had its turn.
MainTurn == pc = "main" \/ (pc = "read" /\ Wanted /\ pending = NoConn)

MainFailed ==
  /\ MainTurn
  /\ Dead(net)
  /\ SetState("retrying")
  /\ GiveUp
  /\ UNCHANGED <<token, sent, emitted, presses>>
  /\ UNCHANGED flags

MainQuiet ==
  /\ MainTurn
  /\ Quiet(net)
  /\ IF IdleStep(sess) = "drop"
     THEN SetState("retrying") /\ GiveUp
     ELSE Goto("read") /\ UNCHANGED <<state, code, wire, net, pending, sess, psess>>
  /\ UNCHANGED <<token, sent, emitted, presses>>
  /\ UNCHANGED flags

\* Mutant: an alert is handed on and left to be read again.
MainMessageTwice ==
  /\ MainTurn
  /\ wire[net].inbox # <<>>
  /\ LET m == Head(wire[net].inbox)
         step == MessageStep(sess, m)
     IN  /\ wire' = IF step = "emit" THEN wire ELSE [wire EXCEPT ![net].inbox = Tail(@)]
         /\ sess' = AfterMessage(sess, m)
         /\ emitted' = IF step = "emit" THEN Append(emitted, m.alert) ELSE emitted
         /\ Goto(CASE step = "subscribe" -> "subscribe"
                   [] step = "reconnect" -> "redial"
                   [] OTHER -> "read")
  /\ UNCHANGED <<token, net, pending, psess, sent, presses>>
  /\ UNCHANGED flags
  /\ UNCHANGED panel

MainMessage ==
  /\ MainTurn
  /\ wire[net].inbox # <<>>
  /\ LET m == Head(wire[net].inbox)
         step == MessageStep(sess, m)
     IN  /\ wire' = [wire EXCEPT ![net].inbox = Tail(@)]
         /\ sess' = AfterMessage(sess, m)
         /\ emitted' = IF step = "emit" THEN Append(emitted, m.alert) ELSE emitted
         /\ Goto(CASE step = "subscribe" -> "subscribe"
                   [] step = "reconnect" -> "redial"
                   [] OTHER -> "read")
  /\ UNCHANGED <<token, net, pending, psess, sent, presses>>
  /\ UNCHANGED flags
  /\ UNCHANGED panel

\* One request per alert type; a session that is gone takes none.
Subscribe ==
  /\ pc = "subscribe"
  /\ \E accepted \in 0..SubCount :
       /\ accepted > 0 => wire[net].up
       /\ IF SubscribedStep(accepted, SubCount) = "drop"
          THEN SetState("retrying") /\ GiveUp
          ELSE /\ SetState("live")
               /\ sess' = [sess EXCEPT !.subscribed = TRUE]
               /\ wire' = [wire EXCEPT ![net].owns = TRUE, ![net].subscribes = @ + 1]
               /\ Goto("read")
               /\ UNCHANGED <<net, pending, psess>>
  /\ UNCHANGED <<token, sent, emitted, presses>>
  /\ UNCHANGED flags

\* Mutant: a second reconnect leaves the first replacement open.
RedialLeavesOne ==
  /\ pc = "redial"
  /\ \/ LeaveLoop("open", sess)
     \/ LET fresh == CHOOSE c \in Conns : ~wire[c].held
        IN  /\ pending' = fresh
            /\ wire' = [wire EXCEPT ![fresh] = Dialled(sess.url)]
            /\ psess' = Opened(ReplacementSession(sess.url))
            /\ Goto("read")
            /\ UNCHANGED <<net, sess>>
  /\ UNCHANGED <<token, sent, emitted, presses>>
  /\ UNCHANGED flags
  /\ UNCHANGED panel

\* The replacement, next to the socket it is to replace; one that was being
\* brought up already is closed first.
Redial ==
  /\ pc = "redial"
  /\ \/ LeaveLoop("open", sess)
     \/ LET left == [c \in Conns |-> IF c = pending THEN Closed ELSE wire[c]]
            fresh == CHOOSE c \in Conns : ~left[c].held
        IN  /\ \E c \in Conns : ~left[c].held
            /\ pending' = fresh
            /\ wire' = [left EXCEPT ![fresh] = Dialled(sess.url)]
            /\ psess' = Opened(ReplacementSession(sess.url))
            /\ Goto("read")
            /\ UNCHANGED <<net, sess>>
  /\ UNCHANGED <<token, sent, emitted, presses>>
  /\ UNCHANGED flags
  /\ UNCHANGED panel

InLoop == {"read", "main", "subscribe", "redial"}

\* Nothing reads the replacement's clocks before adopting it resets them.
Tick ==
  /\ pc \in InLoop
  /\ sess' = Older(sess)
  /\ UNCHANGED <<token, pc, net, pending, psess, emitted, presses>>
  /\ UNCHANGED flags
  /\ UNCHANGED panel
  /\ UNCHANGED service

----------------------------------------------------------------------------

UI == SetEnabled \/ SignIn \/ SignOut \/ Destroy

Outer == Top \/ TakeSignIn \/ Gate \/ DeviceStart \/ Announce \/ DevicePoll \/ BackOff

Connection ==
  \/ Refresh \/ Identify \/ Open \/ Dial
  \/ LoopOver
  \/ PendingFailed \/ PendingQuiet \/ PendingWelcomed
  \/ MainFailed \/ MainQuiet \/ MainMessage
  \/ Subscribe \/ Redial

Worker == Outer \/ Connection

Next == UI \/ Service \/ Worker \/ Tick

Spec == Init /\ [][Next]_vars

\* In ff_net_open.  Its connect and its wait for the answer time out; its loop that
\* sends the upgrade request has no bound, and a peer that reads nothing keeps it there.
Upgrading == pc \in {"dial", "redial"}

\* The thread runs, its other blocking calls time out, and the clock goes on; of an
\* upgrade, of the service and of the streamer nothing is assumed.
FairSpec == Spec /\ WF_vars(Worker /\ ~Upgrading) /\ WF_vars(Tick)

----------------------------------------------------------------------------
(* Properties *)

TypeOK ==
  /\ running \in BOOLEAN /\ enabled \in BOOLEAN
  /\ wantSignIn \in BOOLEAN /\ wantSignOut \in BOOLEAN
  /\ state \in States
  /\ code \in BOOLEAN
  /\ token \in {"none", "valid", "refused"}
  /\ pc \in {"top", "sign in?", "gate", "device", "announce", "poll", "refresh", "identify",
             "open", "dial", "tail", "exited"} \union InLoop
  /\ net \in Conns \union {NoConn} /\ pending \in Conns \union {NoConn}
  /\ sess \in Sessions /\ psess \in Sessions
  /\ \A c \in Conns : Len(wire[c].inbox) <= MaxInbox
  /\ emitted \in Seq(1..MaxAlerts)
  /\ code /\ running => pc \in {"announce", "poll"}

\* No alert is shown twice and none overtakes an earlier one, across every
\* reconnect, changeover and drop (ff-session.c, ff-twitch.c's read loop).
AlertsOnceInOrder ==
  \A i, j \in 1..Len(emitted) : i < j => emitted[i] < emitted[j]

\* The worker holds the sockets it reads and no other: none is left open by a
\* second reconnect, a failed changeover or any way out of the loop.
NoSocketLeft ==
  /\ {c \in Conns : wire[c].held} = {net, pending} \ {NoConn}
  /\ net # NoConn <=> pc \in InLoop

\* The alert types are asked for once in the life of a session: never again on
\* the socket Twitch moved them to, however that socket was come by.
SubscribesOnce ==
  \A c \in Conns : wire[c].subscribes + (IF wire[c].url = Resume THEN 1 ELSE 0) <= 1

\* A socket that is read for ever is one that keeps saying something: silence
\* ends it, before the welcome, after it, and during a changeover, unless the worker
\* is held in the upgrade of the replacement.
SilenceEndsIt ==
  \A c \in Conns : <>[](net = c) => \/ []<>(net = c /\ sess.heard = 0)
                                  \/ <>[]Upgrading

\* ff_twitch_destroy's join returns if no upgrade hangs: no nap, device flow,
\* changeover or retry outlives running, and nothing but an upgrade does.
ShutdownFinishes == []<>~Upgrading => (~running ~> pc = "exited")

\* "Reconnecting" is never the last word: while the feed is wanted, the worker
\* that says so tries again.
RetryingRetries ==
  state = "retrying" ~> (pc = "refresh" \/ ~Wanted \/ state # "retrying")

----------------------------------------------------------------------------
(* What the repository says and the code does not do *)

\* ff-session.h: during a changeover the old connection keeps delivering until
\* the new one is welcomed or its thirty seconds are up.  So, while the feed is
\* wanted, the main socket is up and not silent for long, and the replacement
\* still has time, the socket being read is kept or replaced, never given up.
HandoverKept ==
  [][ (/\ pc = "main" /\ pending # NoConn
       /\ wire[net].up /\ ~HandoverExpired(sess)
       /\ \A k \in Keepalives : sess.heard <= StaleAfter(k))
      => net' # NoConn ]_vars

\* A saved sign-in that Twitch would take is used: OBS starting with the box
\* ticked and a token on disk connects by itself, nobody pressing anything.
SavedSignInConnects ==
  [](token = "valid" /\ Wanted /\ ~wantSignIn /\ ~wantSignOut) => <>(pc = "refresh")

\* ff-alert-source.c: the join of ff_twitch_destroy "can wait on a curl request -- up to
\* the 30s CURLOPT_TIMEOUT", so it returns whatever the peer does.
JoinReturns == ~running ~> pc = "exited"

\* README: "Sign out deletes it", also while the feed is connected.
SignOutDeletes == wantSignOut ~> (token = "none" \/ ~running)

----------------------------------------------------------------------------
(* Why they hold: the inductive invariant *)

Messages ==
  {Welcome(k) : k \in Keepalives} \union {Keepalive, Reconnect(Resume)}
    \union {Notification(n) : n \in 1..MaxAlerts}

Wires ==
  [held : BOOLEAN, up : BOOLEAN, url : Urls, inbox : Seq(Messages), greeted : BOOLEAN,
   owns : BOOLEAN, asked : Nat, subscribes : Nat]

\* Every socket the worker reads is another one; one it does not hold is silent.
SocketsInv ==
  /\ wire \in [Conns -> Wires] /\ sent \in 0..MaxAlerts
  /\ pending # NoConn => net # NoConn /\ pending # net
  /\ \A c \in Conns :
       /\ ~wire[c].held => ~wire[c].up /\ ~wire[c].owns /\ wire[c].inbox = <<>>
       /\ wire[c].inbox # <<>> \/ wire[c].owns => wire[c].greeted
  /\ NoSocketLeft

AsksToMove(q) == \E i \in 1..Len(q) : q[i].type = "reconnect"

\* Whoever is told to move, moves, or was moved, has subscribed.
SubscribedInv ==
  /\ sess.url = Resume => sess.subscribed
  /\ pc = "subscribe" => ~sess.subscribed
  /\ pc = "redial" => sess.url = Resume
  /\ net # NoConn /\ (\/ wire[net].url = Resume \/ wire[net].subscribes # 0
                     \/ wire[net].owns \/ AsksToMove(wire[net].inbox))
       => sess.subscribed
  /\ pc \in {"subscribe", "redial"} \/ pending # NoConn => wire[net].greeted
  /\ pending # NoConn => sess.subscribed /\ wire[pending].url = Resume
  /\ SubscribesOnce

Alert(m) == m.type = "event"
Rising(q) ==
  \A i, j \in 1..Len(q) : i < j /\ Alert(q[i]) /\ Alert(q[j]) => q[i].alert < q[j].alert
Newer(q, n) == \A i \in 1..Len(q) : Alert(q[i]) => n < q[i].alert
NoneOver(q, n) == \A i \in 1..Len(q) : Alert(q[i]) => q[i].alert <= n

\* What is unread is newer than what was shown, and what the replacement has is
\* newer than what the socket it replaces was sent before it.
OrderInv ==
  /\ emitted \in Seq(1..MaxAlerts) /\ AlertsOnceInOrder
  /\ \A i \in 1..Len(emitted) : emitted[i] <= sent
  /\ \A c \in Conns :
       /\ Rising(wire[c].inbox) /\ NoneOver(wire[c].inbox, sent)
       /\ \A i \in 1..Len(emitted) : Newer(wire[c].inbox, emitted[i])
  /\ pending # NoConn =>
       /\ wire[net].owns => ~wire[pending].owns /\ NoneOver(wire[pending].inbox, 0)
       /\ \A i \in 1..Len(wire[net].inbox) :
            Alert(wire[net].inbox[i]) => Newer(wire[pending].inbox, wire[net].inbox[i].alert)

IInv == TypeOK /\ SocketsInv /\ SubscribedInv /\ OrderInv
=============================================================================
