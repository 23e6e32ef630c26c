------------------------------- MODULE FFSignIn -------------------------------
(***************************************************************************)
(* The saved sign-in (ff-twitch-api.c, and its callers in ff-twitch.c):    *)
(* every alert source has a worker, all workers share one twitch.json, and *)
(* Twitch takes a refresh token once.  Requests and answers may be lost,   *)
(* the file may not be writable, and OBS may die between any two steps,    *)
(* those of a save included.                                               *)
(* FFTwitch is what one worker does with a sign-in that works.             *)
(***************************************************************************)
EXTENDS Naturals, FiniteSets

CONSTANTS
  Workers,     \* the alert sources
  MaxTokens,   \* bound: refresh tokens Twitch hands out
  MaxPresses,  \* bound: how often the viewer presses or changes anything
  MaxFaults    \* bound: crashes, disconnections and files not written

ASSUME SignInAssumption ==
  MaxTokens \in Nat \ {0} /\ MaxPresses \in Nat /\ MaxFaults \in Nat

NoToken == 0

VARIABLES
  file,      \* the refresh token in twitch.json
  tmp,       \* and in twitch.json.tmp
  valid,     \* the refresh tokens Twitch will take
  issued,    \* the last one it handed out
  pc,        \* of each worker
  held,      \* the refresh token it works with, none in a sign-in
  answer,    \* Twitch's answer to it, [status, json, says, token]
  approved,  \* the viewer has typed its code
  state,     \* t->state: "off", "failed", or "on", which is all the others
  enabled,   \* t->enabled
  presses, faults,
  signed,    \* history: there is a sign-in that was stored
  causes     \* and what has happened since that may lose it

worker == <<pc, held, answer>>
vars == <<file, tmp, valid, issued, pc, held, answer, approved, state, enabled,
          presses, faults, signed, causes>>

NoAnswer == [status |-> 0, json |-> FALSE, says |-> "", token |-> NoToken]

\* Any moment at which every worker is at the top of its loop: a new one is OFF, one
\* that is CONNECTING or RETRYING has signed in before.
Init ==
  /\ file \in {NoToken, 1} /\ tmp = NoToken
  /\ valid = {1} /\ issued = 1
  /\ pc = [w \in Workers |-> "idle"]
  /\ held = [w \in Workers |-> NoToken]
  /\ answer = [w \in Workers |-> NoAnswer]
  /\ approved = [w \in Workers |-> FALSE]
  /\ state \in [Workers -> {"off", "on"}]
  /\ enabled \in [Workers -> BOOLEAN]
  /\ presses = 0 /\ faults = 0
  /\ signed = (file = 1)
  /\ causes = {}

Goto(w, label) == pc' = [pc EXCEPT ![w] = label]
\* run_once and do_sign_in keep nothing of what they asked for.
Leave(w, label) ==
  /\ Goto(w, label)
  /\ held' = [held EXCEPT ![w] = NoToken]
  /\ answer' = [answer EXCEPT ![w] = NoAnswer]
Becomes(w, s) == state' = [state EXCEPT ![w] = s]
\* The file no longer holds the token this worker loaded.
Overtaken(w) == IF file = held[w] THEN {} ELSE {"overtaken"}
Fault(cause) ==
  /\ faults < MaxFaults
  /\ faults' = faults + 1
  /\ causes' = causes \union {cause}

(***************************************************************************)
(* What an answer means.  A status of 0 is a request that never completed. *)
(***************************************************************************)
\* ff_twitch_device_poll: the status first, the message second.
PollResult(a) ==
  IF a.status = 0 \/ ~a.json THEN "error"
  ELSE IF a.status = 500 THEN "pending"
  ELSE IF a.status = 200 /\ a.token # NoToken THEN "got"
  ELSE CASE a.says = "authorization_pending" -> "pending"
         [] a.says = "slow_down" -> "slow_down"
         [] a.says \in {"expired", "invalid device code"} -> "expired"
         [] a.says = "denied" -> "denied"
         [] OTHER -> "error"

\* Mutant: every answer that has no token in it is a refusal.
RefreshResultStrict(a) ==
  IF a.status = 200 /\ a.json /\ a.token # NoToken THEN "ok" ELSE "rejected"

\* ff_twitch_refresh.  Without a client ID there is nothing to ask with: form_escape
\* makes nothing of an empty one, "the request would not fit", and that is a refusal.
\* Otherwise any 4xx is.
RefreshResult(a) ==
  IF a.says = "would not fit" THEN "rejected"
  ELSE IF a.status = 0 \/ ~a.json THEN "unreachable"
  ELSE IF a.status = 200 /\ a.token # NoToken THEN "ok"
  ELSE IF a.status = 400 THEN "rejected"
  ELSE "unreachable"

\* Answers without a token in them.
Plain(status, says) == [status |-> status, json |-> TRUE, says |-> says, token |-> NoToken]
NotJson == [status |-> 500, json |-> FALSE, says |-> "", token |-> NoToken]
Unasked == [status |-> 0, json |-> FALSE, says |-> "would not fit", token |-> NoToken]
Trouble == {NoAnswer, NotJson, Plain(500, ""), Plain(200, "")}
Waiting == {Plain(400, "authorization_pending"), Plain(400, "slow_down"), Plain(500, "")}
Refusals == {Plain(400, "invalid device code"), Plain(400, "denied"), NotJson, NoAnswer}
Granted(token) == [status |-> 200, json |-> TRUE, says |-> "", token |-> token]

(***************************************************************************)
(* Twitch.                                                                 *)
(***************************************************************************)
Issue ==
  /\ issued < MaxTokens
  /\ issued' = issued + 1

Answer(w, a) == answer' = [answer EXCEPT ![w] = a] /\ Goto(w, "answered")

\* A refresh token is taken once, and another is given for it.  The answer may
\* be lost, and with it the only copy of the new token.
Renew(w) ==
  /\ pc[w] = "refresh" /\ held[w] \in valid
  /\ Issue
  /\ valid' = (valid \ {held[w]}) \union {issued + 1}
  /\ \/ Answer(w, Granted(issued + 1)) /\ UNCHANGED <<faults, causes>>
     \/ Answer(w, NoAnswer) /\ Fault("answer lost")
  /\ UNCHANGED <<file, tmp, held, approved, state, enabled, presses, signed>>

Reject(w) ==
  /\ pc[w] = "refresh" /\ held[w] \notin valid
  /\ Answer(w, Plain(400, "Invalid refresh token"))
  /\ UNCHANGED <<file, tmp, valid, issued, held, approved, state, enabled, presses,
                 faults, signed, causes>>

\* A refusal that says nothing of the token: too many requests, a mistyped client ID,
\* or an empty one, with which nothing is asked at all.
RefuseAnyway(w) ==
  /\ pc[w] = "refresh"
  /\ \E a \in {Plain(400, "too many requests"), Unasked} : Answer(w, a)
  /\ Fault("refused for something else")
  /\ UNCHANGED <<file, tmp, valid, issued, held, approved, state, enabled, presses, signed>>

Unavailable(w) ==
  /\ pc[w] = "refresh"
  /\ \E a \in Trouble : Answer(w, a)
  /\ UNCHANGED <<file, tmp, valid, issued, held, approved, state, enabled, presses,
                 faults, signed, causes>>

\* The streamer disconnects the app or changes the password.
Disconnect ==
  /\ valid' = {} /\ Fault("disconnected")
  /\ UNCHANGED <<file, tmp, issued, worker, approved, state, enabled, presses, signed>>

\* The streamer types the code.
Approve(w) ==
  /\ pc[w] = "poll" /\ ~approved[w]
  /\ approved' = [approved EXCEPT ![w] = TRUE]
  /\ UNCHANGED <<file, tmp, valid, issued, worker, state, enabled, presses, faults,
                 signed, causes>>

(***************************************************************************)
(* The worker: the connection (its gate, and run_once).                    *)
(***************************************************************************)
\* The loop lets an enabled worker through that is neither OFF nor FAILED; then
\* ff_twitch_token_load, and without a token the worker is OFF.
Load(w) ==
  /\ pc[w] = "idle" /\ enabled[w] /\ state[w] = "on"
  /\ \/ /\ file # NoToken
        /\ held' = [held EXCEPT ![w] = file]
        /\ Goto(w, "refresh")
        /\ UNCHANGED state
     \/ /\ file = NoToken
        /\ Becomes(w, "off")
        /\ UNCHANGED <<pc, held>>
  /\ UNCHANGED <<file, tmp, valid, issued, answer, approved, enabled, presses, faults,
                 signed, causes>>

Refused(w) == pc[w] = "answered" /\ RefreshResult(answer[w]) = "rejected"

\* Mutant: a refused sign-in is kept and tried again.
ForgetNever(w) ==
  /\ Refused(w)
  /\ Leave(w, "idle")
  /\ UNCHANGED <<file, tmp, valid, issued, approved, state, enabled, presses, faults,
                 signed, causes>>

\* Twitch said no: ff_twitch_token_forget removes the file, whatever is in it.
Forget(w) ==
  /\ Refused(w)
  /\ file' = NoToken
  /\ causes' = IF file = NoToken THEN causes ELSE causes \union Overtaken(w)
  /\ Becomes(w, "failed")
  /\ Leave(w, "idle")
  /\ UNCHANGED <<tmp, valid, issued, approved, enabled, presses, faults, signed>>

Retry(w) ==
  /\ pc[w] = "answered" /\ RefreshResult(answer[w]) = "unreachable"
  /\ Leave(w, "idle")
  /\ UNCHANGED <<file, tmp, valid, issued, approved, state, enabled, presses, faults,
                 signed, causes>>

\* Identifying fails, or the connection ends.
Drop(w) ==
  /\ pc[w] = "live"
  /\ Goto(w, "idle")
  /\ UNCHANGED <<file, tmp, valid, issued, held, answer, approved, state, enabled, presses,
                 faults, signed, causes>>

(***************************************************************************)
(* The worker: ff_twitch_token_save, of a renewed token and of a new       *)
(* sign-in's.  obs_data_save_json_safe writes twitch.json.tmp, renames the *)
(* file to twitch.json.bak, which nobody reads, and renames the new one    *)
(* into its place; every worker's save goes through the same two names.    *)
(***************************************************************************)
\* A worker with a token that is not yet in the file.
Carries(w) ==
  pc[w] \in {"answered", "tmp", "aside"} /\ RefreshResult(answer[w]) = "ok"
SignsIn(w) == held[w] = NoToken
Saves(w) == pc[w] \in {"tmp", "aside"}
Overlap(w) == IF \E v \in Workers : v # w /\ Saves(v) THEN {"two saves"} ELSE {}
\* What the token a worker is about to put in the file may cost.
Costs(w) ==
  IF ~SignsIn(w) THEN Overtaken(w)
  ELSE IF answer[w].token \in valid THEN {} ELSE {"disconnected"}

WriteTmp(w) ==
  /\ pc[w] = "answered" /\ Carries(w)
  /\ tmp' = answer[w].token
  /\ Goto(w, "tmp")
  /\ causes' = causes \union Overlap(w)
  /\ UNCHANGED <<file, valid, issued, held, answer, approved, state, enabled, presses,
                 faults, signed>>

SetAside(w) ==
  /\ pc[w] = "tmp"
  /\ file' = NoToken
  /\ Goto(w, "aside")
  /\ causes' = causes \union Costs(w)
  /\ UNCHANGED <<tmp, valid, issued, held, answer, approved, state, enabled, presses,
                 faults, signed>>

\* A sign-in that is stored is a new one: what happened before it is no cause.
Put(w) ==
  /\ pc[w] = "aside" /\ tmp # NoToken
  /\ file' = tmp /\ tmp' = NoToken
  /\ \/ /\ SignsIn(w)
        /\ signed' = TRUE
        /\ causes' = Costs(w) \union (IF tmp = answer[w].token THEN Overlap(w) ELSE {"two saves"})
        /\ Becomes(w, "on")
        /\ Leave(w, "idle")
     \/ /\ ~SignsIn(w)
        /\ Leave(w, "live")
        /\ UNCHANGED <<state, signed, causes>>
  /\ UNCHANGED <<valid, issued, approved, enabled, presses, faults>>

\* A renewed token that is not stored is only logged; a sign-in that cannot be stored
\* is not one.
NotSaved(w) ==
  /\ Carries(w)
  /\ \/ pc[w] = "aside" /\ tmp = NoToken /\ UNCHANGED <<tmp, faults, causes>>
     \/ /\ Fault("not saved")
        /\ tmp' \in IF pc[w] = "answered" THEN {tmp, NoToken} ELSE {tmp}
  /\ \/ SignsIn(w) /\ Becomes(w, "failed") /\ Leave(w, "idle")
     \/ ~SignsIn(w) /\ Leave(w, "live") /\ UNCHANGED state
  /\ UNCHANGED <<file, valid, issued, approved, enabled, presses, signed>>

Save(w) == WriteTmp(w) \/ SetAside(w) \/ Put(w) \/ NotSaved(w)

(***************************************************************************)
(* The worker: the buttons (do_sign_in, and the top of the loop).          *)
(***************************************************************************)
Press == presses < MaxPresses /\ presses' = presses + 1

\* ff_twitch_device_start has a code to show, or not.
DeviceStart(w) ==
  /\ pc[w] = "idle" /\ Press
  /\ \/ Goto(w, "poll") /\ UNCHANGED state
     \/ Becomes(w, "failed") /\ UNCHANGED pc
  /\ UNCHANGED <<file, tmp, valid, issued, held, answer, approved, enabled, faults,
                 signed, causes>>

\* One poll and its answer; a token in it is saved at once.
DevicePoll(w) ==
  /\ pc[w] = "poll"
  /\ \/ /\ \E a \in Waiting : PollResult(a) \in {"pending", "slow_down"}
        /\ UNCHANGED <<valid, issued, pc, answer, approved, state>>
     \/ /\ \E a \in Refusals : PollResult(a) \notin {"got", "pending", "slow_down"}
        /\ Goto(w, "idle") /\ Becomes(w, "failed")
        /\ approved' = [approved EXCEPT ![w] = FALSE]
        /\ UNCHANGED <<valid, issued, answer>>
     \/ /\ approved[w] /\ Issue
        /\ PollResult(Granted(issued + 1)) = "got"
        /\ valid' = valid \union {issued + 1}
        /\ Answer(w, Granted(issued + 1))
        /\ approved' = [approved EXCEPT ![w] = FALSE]
        /\ UNCHANGED state
  /\ UNCHANGED <<file, tmp, held, enabled, presses, faults, signed, causes>>

SignOut(w) ==
  /\ pc[w] = "idle" /\ Press
  /\ file' = NoToken
  /\ causes' = causes \union {"signed out"}
  /\ Becomes(w, "off")
  /\ UNCHANGED <<tmp, valid, issued, worker, approved, enabled, faults, signed>>

\* The check box in the properties.
Enable(w) ==
  /\ Press
  /\ enabled' = [enabled EXCEPT ![w] = ~@]
  /\ UNCHANGED <<file, tmp, valid, issued, worker, approved, state, faults, signed, causes>>

\* The source goes, once its worker has ended in good order, and comes back.
Restart(w) ==
  /\ pc[w] \in {"idle", "live", "poll"} /\ Press
  /\ Goto(w, "idle") /\ Becomes(w, "off")
  /\ approved' = [approved EXCEPT ![w] = FALSE]
  /\ UNCHANGED <<file, tmp, valid, issued, held, answer, enabled, faults, signed, causes>>

\* OBS dies, also between the renames of a save.
Crash ==
  /\ IF \E w \in Workers : Carries(w)
     THEN Fault("crash")
     ELSE faults < MaxFaults /\ faults' = faults + 1 /\ UNCHANGED causes
  /\ pc' = [w \in Workers |-> "idle"]
  /\ held' = [w \in Workers |-> NoToken] /\ answer' = [w \in Workers |-> NoAnswer]
  /\ approved' = [w \in Workers |-> FALSE]
  /\ state' = [w \in Workers |-> "off"]
  /\ UNCHANGED <<file, tmp, valid, issued, enabled, presses, signed>>

Connection(w) == Load(w) \/ Forget(w) \/ Retry(w) \/ Save(w)
Twitch(w) == Renew(w) \/ Reject(w) \/ RefuseAnyway(w) \/ Unavailable(w)
Viewer(w) == DeviceStart(w) \/ Approve(w) \/ SignOut(w) \/ Enable(w) \/ Restart(w)

Next ==
  \/ \E w \in Workers :
       Connection(w) \/ Drop(w) \/ DevicePoll(w) \/ Twitch(w) \/ Viewer(w)
  \/ Disconnect \/ Crash

\* Workers run, requests time out, and Twitch is not unreachable forever.  A
\* connection may live as long as it likes, and nobody has to press a button.
Fairness ==
  \A w \in Workers :
    WF_vars(Connection(w)) /\ WF_vars(Twitch(w)) /\ SF_vars(Reject(w))

Spec == Init /\ [][Next]_vars /\ Fairness

(***************************************************************************)
(* Properties.                                                             *)
(***************************************************************************)
\* Tokens that are on their way to the file.
OnItsWay == {answer[w].token : w \in {v \in Workers : Carries(v)}}

\* A stored sign-in goes on working, however many workers renew it and whatever
\* Twitch answers: the token on disk, or one on its way there, is one Twitch takes,
\* unless it was signed out or disconnected, the new token was lost with an answer, a
\* crash or a file that could not be written, two saves ran into each other, a worker
\* was refused for something that is not the token's fault, or one dealt with a token
\* that was no longer the one in the file (ff_twitch_refresh, run_once on its result,
\* ff_twitch_token_save).
SignedInUnlessCause ==
  signed /\ causes = {} => file \in valid \/ OnItsWay \intersect valid # {}

\* A worker that is let through the gate and has no connection.
Trying(w) == enabled[w] /\ state[w] = "on" /\ pc[w] \notin {"live", "poll"}

\* A sign-in that cannot work again does not stay on disk while a worker goes on
\* trying: the token goes, and the panel says to sign in again (run_once on
\* FF_REFRESH_REJECTED).  With every worker off, failed, disabled, or on a connection
\* made before, nobody tries, and it does stay.
DeadTokenGoes ==
  \A r \in 1..MaxTokens :
    (file = r /\ r \notin valid) ~> (file # r \/ \A w \in Workers : ~Trying(w))

\* The comment on FF_REFRESH_REJECTED in run_once: the token goes because Twitch
\* answered and said no, to a token that cannot work again.
OnlyDeadTokensForgotten ==
  [][\A w \in Workers :
       Refused(w) /\ state'[w] = "failed" => held[w] \notin valid]_vars

(***************************************************************************)
(* Why it stays so: the inductive invariant.                               *)
(***************************************************************************)
Answers == [status : {0, 200, 400, 500}, json : BOOLEAN,
            says : {"", "Invalid refresh token", "too many requests", "would not fit"},
            token : 0..issued]

TypeOK ==
  /\ issued \in 1..MaxTokens
  /\ file \in 0..issued /\ tmp \in 0..issued /\ valid \subseteq 1..issued
  /\ pc \in [Workers -> {"idle", "refresh", "answered", "tmp", "aside", "live", "poll"}]
  /\ held \in [Workers -> 0..issued] /\ answer \in [Workers -> Answers]
  /\ approved \in [Workers -> BOOLEAN]
  /\ state \in [Workers -> {"off", "failed", "on"}] /\ enabled \in [Workers -> BOOLEAN]
  /\ presses \in Nat /\ faults \in Nat /\ signed \in BOOLEAN

\* A worker that asks, asks with a token; one that saves has a token to save, and
\* without a cause nobody else is at it.
HeldInv ==
  \A w \in Workers :
    /\ pc[w] = "refresh" \/ (pc[w] = "answered" /\ ~Carries(w)) => ~SignsIn(w)
    /\ Saves(w) => Carries(w)
    /\ Saves(w) /\ causes = {} =>
         tmp = answer[w].token /\ \A v \in Workers : v # w => ~Saves(v)

\* A worker that was refused over the token in the file had a dead one, or there is a
\* cause.
DeadInv ==
  \A w \in Workers :
    Refused(w) /\ held[w] = file /\ causes = {} => held[w] \notin valid

\* A token on its way is nobody else's, as long as nobody else's save has put it in
\* the file, or another in its place.
ApartInv ==
  \A w \in Workers :
    Carries(w) /\ (Saves(w) => tmp = answer[w].token) =>
      LET t == answer[w].token
      IN  /\ t # NoToken /\ t # file /\ (pc[w] = "answered" => t # tmp)
          /\ \A v \in Workers : held[v] # t
          /\ \A v \in Workers : v # w /\ Carries(v) => answer[v].token # t

\* When it is stored over the token it was given for, it still works; and it does
\* once that token has been set aside.
FreshInv ==
  \A w \in Workers :
    Carries(w) /\ causes = {} /\ (pc[w] # "aside" => ~SignsIn(w) /\ held[w] = file)
      => answer[w].token \in valid

IInv == TypeOK /\ HeldInv /\ DeadInv /\ ApartInv /\ FreshInv /\ SignedInUnlessCause
=============================================================================
