----------------------------- MODULE FFSession -----------------------------
(***************************************************************************)
(* The decisions of one EventSub session (ff-session.c), as operators on   *)
(* its struct, and what ff_es_handle takes out of a message.               *)
(*                                                                         *)
(* The code keeps the time at which something happened and subtracts; the  *)
(* model keeps how long ago it happened, which is all the code asks, and   *)
(* stops counting one past the limit it is held against.                   *)
(***************************************************************************)
EXTENDS Naturals

CONSTANTS
  WelcomeSecs,   \* FF_SESSION_WELCOME_SECS
  HandoverSecs,  \* FF_SESSION_HANDOVER_SECS
  StaleSlack,    \* the two seconds of slack in ff_twitch_is_stale
  Keepalives,    \* the intervals the service negotiates
  Urls, Home,    \* the addresses of a socket; FF_TW_URL
  Never          \* a time_t of zero

ASSUME SessionAssumption ==
  /\ WelcomeSecs \in Nat /\ HandoverSecs \in Nat /\ StaleSlack \in Nat
  /\ Keepalives \subseteq Nat \ {0}
  /\ \E k \in Keepalives : \A j \in Keepalives : j <= k  \* an interval is an int
  /\ Home \in Urls
  /\ Never \notin Nat

\* The longest silence ff_twitch_is_stale allows a session with interval k.
StaleAfter(k) == 2 * k + StaleSlack

\* The ages that matter of a silence: up to one past the longest one allowed.
HeardAges == 0..(1 + StaleAfter(CHOOSE k \in Keepalives : \A j \in Keepalives : j <= k))
OpenedAges == 0..WelcomeSecs + 1
HandoverAges == 0..HandoverSecs + 1

\* The messages the session tells apart.  A reconnect carries a null where a
\* welcome has the interval, and obs_data_get_int makes that a zero.
Welcome(k) == [type |-> "welcome", keepalive |-> k]
Reconnect(u) == [type |-> "reconnect", keepalive |-> 0, url |-> u]
\* A keepalive, and all that is only logged: a revocation, a notification we do
\* not act on, a message we cannot read.
Keepalive == [type |-> "keepalive"]
Notification(n) == [type |-> "event", alert |-> n]

Sessions ==
  [welcomed : BOOLEAN, keepalive : Keepalives \union {0}, subscribed : BOOLEAN,
   opened : OpenedAges, heard : HeardAges, handover : HandoverAges \union {Never}, url : Urls]

\* ff_session_init
NewSession(u) ==
  [welcomed |-> FALSE, keepalive |-> 0, subscribed |-> FALSE,
   opened |-> 0, heard |-> 0, handover |-> Never, url |-> u]

\* ff_session_init_replacement
ReplacementSession(u) == [NewSession(u) EXCEPT !.subscribed = TRUE]

\* Mutant: a new socket forgets the subscriptions.
OpenedUnsubscribed(s) ==
  [s EXCEPT !.welcomed = FALSE, !.keepalive = 0, !.opened = 0, !.heard = 0,
            !.subscribed = FALSE]

\* ff_session_opened: the socket's state is new; subscribed and the handover
\* clock are not the socket's.
Opened(s) ==
  [s EXCEPT !.welcomed = FALSE, !.keepalive = 0, !.opened = 0, !.heard = 0]

\* Time passes.
Older(s) ==
  LET next(age, ages) == IF age + 1 \in ages THEN age + 1 ELSE age
  IN  [s EXCEPT !.opened = next(@, OpenedAges),
                !.heard = next(@, HeardAges),
                !.handover = IF @ = Never THEN Never ELSE next(@, HandoverAges)]

\* ff_twitch_is_stale
Stale(s) == s.keepalive > 0 /\ s.heard > StaleAfter(s.keepalive)

\* Mutant: before the welcome there is no interval, and no limit.
IdleStepWelcomedOnly(s) == IF Stale(s) THEN "drop" ELSE "nothing"

\* ff_session_idle
IdleStep(s) ==
  IF s.keepalive = 0
  THEN IF s.opened > WelcomeSecs THEN "drop" ELSE "nothing"
  ELSE IF Stale(s) THEN "drop" ELSE "nothing"

\* ff_session_message: what the caller is told to do ...
MessageStep(s, m) ==
  CASE m.type = "welcome" -> IF s.subscribed THEN "note" ELSE "subscribe"
    [] m.type = "reconnect" -> "reconnect"
    [] m.type = "event" -> "emit"
    [] m.type = "keepalive" -> "nothing"

\* ... and what is left in the struct.
AfterMessage(s, m) ==
  CASE m.type = "welcome" ->
         [s EXCEPT !.heard = 0, !.welcomed = TRUE, !.keepalive = m.keepalive]
    [] m.type = "reconnect" ->
         [s EXCEPT !.heard = 0, !.welcomed = TRUE, !.keepalive = m.keepalive,
                   !.url = m.url, !.handover = 0]
    [] OTHER -> [s EXCEPT !.heard = 0]

\* ff_session_subscribed: subscribed whatever happened, dropped if all failed.
SubscribedStep(accepted, total) ==
  IF accepted = 0 THEN "drop" ELSE IF accepted < total THEN "note" ELSE "nothing"

HandoverExpired(s) == s.handover # Never /\ s.handover > HandoverSecs

\* ff_session_adopt
Adopt(s, p) ==
  [s EXCEPT !.welcomed = p.welcomed, !.keepalive = p.keepalive, !.opened = 0, !.heard = 0,
            !.handover = Never, !.subscribed = TRUE]
=============================================================================
