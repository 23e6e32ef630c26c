--------------------------- MODULE FFSignInProofs ---------------------------
(***************************************************************************)
(* For any number of workers, tokens, presses and faults: a stored sign-in *)
(* goes on working unless something that may lose it has happened.         *)
(***************************************************************************)
EXTENDS FFSignIn, TLAPS

USE SignInAssumption DEF NoToken

\* What the answers of Twitch mean to the worker that asked.
LEMMA AnswersMean ==
  /\ RefreshResult(Plain(400, "Invalid refresh token")) = "rejected"
  /\ RefreshResult(Plain(400, "too many requests")) = "rejected"
  /\ RefreshResult(Unasked) = "rejected"
  /\ RefreshResult(NoAnswer) = "unreachable"
  <1>1. RefreshResult(Plain(400, "Invalid refresh token")) = "rejected"
    BY DEF RefreshResult, Plain
  <1>2. RefreshResult(Plain(400, "too many requests")) = "rejected" BY DEF RefreshResult, Plain
  <1>3. RefreshResult(Unasked) = "rejected" BY DEF RefreshResult, Unasked
  <1>4. RefreshResult(NoAnswer) = "unreachable" BY DEF RefreshResult, NoAnswer
  <1> QED BY <1>1, <1>2, <1>3, <1>4, Zenon

\* A renewal is an answer that is taken.
LEMMA GrantedMeans ==
  ASSUME NEW t \in Nat, t # NoToken
  PROVE  RefreshResult(Granted(t)) = "ok" /\ Granted(t).token = t
  BY DEF RefreshResult, Granted, NoToken

\* And what they are.
LEMMA AnswersTyped ==
  ASSUME issued \in 1..MaxTokens
  PROVE  /\ NoAnswer \in Answers /\ Unasked \in Answers
         /\ Plain(400, "Invalid refresh token") \in Answers
         /\ Plain(400, "too many requests") \in Answers
         /\ \A a \in Answers : RefreshResult(a) = "ok" => a.token # NoToken
         /\ \A a \in Answers : a.token \in 0..issued
  <1>1. 0 \in 0..issued OBVIOUS
  <1>2. NoAnswer \in Answers BY <1>1 DEF Answers, NoAnswer
  <1>3. Unasked \in Answers BY <1>1 DEF Answers, Unasked
  <1>4. Plain(400, "Invalid refresh token") \in Answers BY <1>1 DEF Answers, Plain
  <1>5. Plain(400, "too many requests") \in Answers BY <1>1 DEF Answers, Plain
  <1>6. \A a \in Answers : RefreshResult(a) = "ok" => a.token # NoToken
    BY DEF RefreshResult
  <1>7. \A a \in Answers : a.token \in 0..issued BY DEF Answers
  <1> QED BY <1>2, <1>3, <1>4, <1>5, <1>6, <1>7, Zenon

\* An answer that says nothing of the token.
LEMMA TroubleMeans ==
  ASSUME issued \in 1..MaxTokens, NEW a \in Trouble
  PROVE  a \in Answers /\ RefreshResult(a) = "unreachable"
  <1>1. 0 \in 0..issued OBVIOUS
  <1>2. CASE a = NoAnswer BY <1>1, <1>2 DEF Answers, RefreshResult, NoAnswer
  <1>3. CASE a = NotJson BY <1>1, <1>3 DEF Answers, RefreshResult, NotJson
  <1>4. CASE a = Plain(500, "")
    <2>1. Plain(500, "") \in Answers BY <1>1 DEF Answers, Plain
    <2>2. RefreshResult(Plain(500, "")) = "unreachable" BY DEF RefreshResult, Plain
    <2> QED BY <1>4, <2>1, <2>2, Zenon
  <1>5. CASE a = Plain(200, "")
    <2>1. Plain(200, "") \in Answers BY <1>1 DEF Answers, Plain
    <2>2. RefreshResult(Plain(200, "")) = "unreachable" BY DEF RefreshResult, Plain
    <2> QED BY <1>5, <2>1, <2>2, Zenon
  <1> QED BY <1>2, <1>3, <1>4, <1>5, Zenon DEF Trouble

LEMMA AnswersGrow ==
  ASSUME 0..issued \subseteq 0..issued' PROVE Answers \subseteq Answers'
  <1> SUFFICES ASSUME NEW a \in Answers PROVE a \in Answers' OBVIOUS
  <1>1. /\ a = [status |-> a.status, json |-> a.json, says |-> a.says, token |-> a.token]
        /\ a.status \in {0, 200, 400, 500} /\ a.json \in BOOLEAN
        /\ a.says \in {"", "Invalid refresh token", "too many requests", "would not fit"}
        /\ a.token \in 0..issued
    BY DEF Answers
  <1>2. a.token \in 0..issued' BY <1>1
  <1> QED BY <1>1, <1>2 DEF Answers

LEMMA AnswersStay == issued' = issued => Answers' = Answers
  BY DEF Answers

\* Every worker has an answer of the right type, and a token if it carries one.
LEMMA CarriesToken ==
  ASSUME TypeOK, NEW w \in Workers
  PROVE  /\ answer[w] \in Answers /\ answer[w].token \in 0..issued
         /\ Carries(w) => answer[w].token # NoToken
  <1>1. answer[w] \in Answers /\ issued \in 1..MaxTokens BY DEF TypeOK
  <1> QED BY <1>1, AnswersTyped DEF Carries

LEMMA SignInInit == Init => IInv
  <1> SUFFICES ASSUME Init PROVE IInv OBVIOUS
  <1>0. issued = 1 /\ issued \in 1..MaxTokens BY DEF Init
  <1>1. NoAnswer \in Answers BY <1>0, AnswersTyped
  <1>2. TypeOK
    <2>1. signed = TRUE \/ signed = FALSE BY Zenon DEF Init
    <2>2. file \in 0..issued /\ tmp \in 0..issued /\ valid \subseteq 1..issued
      BY <1>0 DEF Init
    <2>3. 0 \in 0..issued /\ 0 \in Nat BY <1>0
    <2>4. state \in [Workers -> {"off", "failed", "on"}] BY DEF Init
    <2> QED BY <1>0, <1>1, <2>1, <2>2, <2>3, <2>4 DEF Init, TypeOK
  <1>3. HeldInv /\ DeadInv /\ ApartInv /\ FreshInv
    BY DEF Init, HeldInv, DeadInv, ApartInv, FreshInv, Carries, Saves, Refused
  <1>4. SignedInUnlessCause BY DEF Init, SignedInUnlessCause
  <1> QED BY <1>2, <1>3, <1>4 DEF IInv

\* The property, said of the workers.
LEMMA SignedIn ==
  /\ SignedInUnlessCause <=>
       (signed /\ causes = {} =>
          file \in valid \/ \E v \in Workers : Carries(v) /\ answer[v].token \in valid)
  /\ SignedInUnlessCause' <=>
       (signed' /\ causes' = {} =>
          \/ file' \in valid'
          \/ \E v \in Workers : Carries(v)' /\ answer'[v].token \in valid')
  BY DEF SignedInUnlessCause, OnItsWay

\* A worker that is left alone is where it was.
LEMMA WorkerSame ==
  ASSUME NEW v \in Workers, UNCHANGED <<pc[v], held[v], answer[v]>>
  PROVE  /\ Carries(v)' <=> Carries(v)
         /\ Saves(v)' <=> Saves(v)
         /\ Refused(v)' <=> Refused(v)
         /\ SignsIn(v)' <=> SignsIn(v)
         /\ pc'[v] = pc[v] /\ held'[v] = held[v] /\ answer'[v] = answer[v]
  BY DEF Carries, Saves, Refused, SignsIn, RefreshResult

\* A step that leaves the tokens and the workers as they are.
LEMMA StillStep ==
  ASSUME IInv, TypeOK',
         UNCHANGED <<file, tmp, valid, issued, pc, held, answer, signed, causes>>
  PROVE  IInv'
  <1>1. \A v \in Workers : /\ Carries(v)' <=> Carries(v)
                           /\ Saves(v)' <=> Saves(v)
                           /\ Refused(v)' <=> Refused(v)
                           /\ SignsIn(v)' <=> SignsIn(v)
    BY WorkerSame
  <1>2. HeldInv' BY <1>1 DEF IInv, HeldInv
  <1>3. DeadInv' BY <1>1 DEF IInv, DeadInv
  <1>4. ApartInv' BY <1>1 DEF IInv, ApartInv
  <1>5. FreshInv' BY <1>1 DEF IInv, FreshInv
  <1>6. SignedInUnlessCause' BY <1>1, SignedIn DEF IInv
  <1> QED BY <1>2, <1>3, <1>4, <1>5, <1>6 DEF IInv

\* A step of one worker or of Twitch, before and after which the worker carries no
\* token: nothing new is valid, and the files stay as they are.
LEMMA QuietStep ==
  ASSUME IInv, NEW w \in Workers, TypeOK',
         UNCHANGED <<file, tmp, valid, signed, issued>>, causes' = {} => causes = {},
         \A v \in Workers : v # w => UNCHANGED <<pc[v], held[v], answer[v]>>,
         ~Carries(w), ~Carries(w)', ~Saves(w)',
         held'[w] \in {held[w], file, NoToken},
         pc'[w] \in {"refresh", "answered"} => held'[w] # NoToken,
         Refused(w)' /\ causes' = {} => held'[w] \notin valid
  PROVE  IInv'
  <1>1. \A v \in Workers : v # w => /\ Carries(v)' <=> Carries(v)
                                    /\ Saves(v)' <=> Saves(v)
                                    /\ Refused(v)' <=> Refused(v)
                                    /\ SignsIn(v)' <=> SignsIn(v)
                                    /\ pc'[v] = pc[v] /\ held'[v] = held[v]
                                    /\ answer'[v] = answer[v]
    BY WorkerSame
  <1>2. HeldInv' BY <1>1 DEF IInv, HeldInv, SignsIn
  <1>3. DeadInv' BY <1>1 DEF IInv, DeadInv
  <1>4. ApartInv'
    <2> SUFFICES ASSUME NEW v \in Workers, Carries(v)', Saves(v)' => tmp' = answer'[v].token
                 PROVE  LET t == answer'[v].token
                        IN  /\ t # NoToken /\ t # file' /\ (pc'[v] = "answered" => t # tmp')
                            /\ \A u \in Workers : held'[u] # t
                            /\ \A u \in Workers : u # v /\ Carries(u)' => answer'[u].token # t
      BY DEF ApartInv
    <2>1. v # w /\ Carries(v) /\ answer'[v] = answer[v] /\ (Saves(v) => tmp = answer[v].token)
      BY <1>1
    <2> QED BY <1>1, <2>1 DEF IInv, ApartInv
  <1>5. FreshInv' BY <1>1 DEF IInv, FreshInv
  <1>6. SignedInUnlessCause' BY <1>1, SignedIn DEF IInv
  <1> QED BY <1>2, <1>3, <1>4, <1>5, <1>6 DEF IInv

\* Twitch answers without a token.
LEMMA AnswerStep ==
  ASSUME IInv, NEW w \in Workers, NEW a \in Answers, pc[w] = "refresh",
         answer' = [answer EXCEPT ![w] = a], pc' = [pc EXCEPT ![w] = "answered"],
         UNCHANGED <<file, tmp, valid, issued, held, approved, state, enabled, presses, signed>>,
         faults' \in Nat, causes' = {} => causes = {},
         RefreshResult(a) # "ok",
         RefreshResult(a) = "rejected" => causes' # {} \/ held[w] \notin valid
  PROVE  IInv'
  <1>1. TypeOK BY DEF IInv
  <1>2. answer'[w] = a /\ pc'[w] = "answered" BY <1>1 DEF TypeOK
  <1>3. TypeOK' BY <1>1 DEF TypeOK, Answers
  <1>4. RefreshResult(answer[w])' = RefreshResult(a)
    <2>1. RefreshResult(answer[w])' = RefreshResult(answer'[w]) BY DEF RefreshResult
    <2> QED BY <1>2, <2>1
  <1>5. ~Carries(w) /\ ~Carries(w)' /\ ~Saves(w)' BY <1>2, <1>4 DEF Carries, Saves
  <1>6. held'[w] = held[w] /\ held[w] # NoToken BY DEF IInv, HeldInv, SignsIn
  <1>7. Refused(w)' /\ causes' = {} => held'[w] \notin valid BY <1>4, <1>6 DEF Refused
  <1>8. \A v \in Workers : v # w => UNCHANGED <<pc[v], held[v], answer[v]>>
    BY <1>1 DEF TypeOK
  <1> QED BY <1>3, <1>5, <1>6, <1>7, <1>8, QuietStep

LEMMA TwitchSteps ==
  ASSUME IInv, NEW w \in Workers, Reject(w) \/ RefuseAnyway(w) \/ Unavailable(w) PROVE IInv'
  <1> USE DEF Goto, Answer, Fault
  <1>0. TypeOK /\ issued \in 1..MaxTokens /\ faults \in Nat BY DEF IInv, TypeOK
  <1>1. CASE Reject(w)
    <2> DEFINE no == Plain(400, "Invalid refresh token")
    <2>1. no \in Answers /\ RefreshResult(no) = "rejected"
      BY <1>0, AnswersTyped, AnswersMean
    <2>2. /\ pc[w] = "refresh" /\ pc' = [pc EXCEPT ![w] = "answered"]
          /\ answer' = [answer EXCEPT ![w] = no] /\ held[w] \notin valid
          /\ UNCHANGED <<file, tmp, valid, issued, held, approved, state, enabled, presses,
                         signed, faults, causes>>
      BY <1>1 DEF Reject
    <2> HIDE DEF no
    <2> QED BY <1>0, <2>1, <2>2, AnswerStep
  <1>2. CASE RefuseAnyway(w)
    <2> DEFINE busy == Plain(400, "too many requests")
    <2>1. busy \in Answers /\ RefreshResult(busy) = "rejected"
          /\ Unasked \in Answers /\ RefreshResult(Unasked) = "rejected"
      BY <1>0, AnswersTyped, AnswersMean
    <2>2. \E a \in {busy, Unasked} : answer' = [answer EXCEPT ![w] = a]
      BY <1>2 DEF RefuseAnyway
    <2>3. /\ pc[w] = "refresh" /\ pc' = [pc EXCEPT ![w] = "answered"] /\ causes' # {}
          /\ UNCHANGED <<file, tmp, valid, issued, held, approved, state, enabled, presses, signed>>
          /\ faults' = faults + 1
      BY <1>2 DEF RefuseAnyway
    <2> HIDE DEF busy
    <2>4. faults' \in Nat BY <1>0, <2>3
    <2>5. PICK a : a \in Answers /\ RefreshResult(a) = "rejected" /\ answer' = [answer EXCEPT ![w] = a]
      BY <2>1, <2>2
    <2> QED BY <2>3, <2>4, <2>5, AnswerStep
  <1>3. CASE Unavailable(w)
    <2>1. PICK a \in Trouble : answer' = [answer EXCEPT ![w] = a] BY <1>3 DEF Unavailable
    <2>2. a \in Answers /\ RefreshResult(a) = "unreachable"
      BY <1>0, <2>1, TroubleMeans
    <2>3. /\ pc[w] = "refresh" /\ pc' = [pc EXCEPT ![w] = "answered"]
          /\ UNCHANGED <<file, tmp, valid, issued, held, approved, state, enabled, presses,
                         signed, faults, causes>>
      BY <1>3 DEF Unavailable
    <2> QED BY <1>0, <2>1, <2>2, <2>3, AnswerStep
  <1> QED BY <1>1, <1>2, <1>3

LEMMA LoadStep == ASSUME IInv, NEW w \in Workers, Load(w) PROVE IInv'
  <1> USE DEF Goto, Becomes
  <1>0. TypeOK BY DEF IInv
  <1>1. /\ UNCHANGED <<file, tmp, valid, issued, answer, approved, enabled, presses, faults,
                       signed, causes>>
        /\ pc[w] = "idle"
        /\ \/ /\ file # NoToken /\ UNCHANGED state
              /\ held' = [held EXCEPT ![w] = file] /\ pc' = [pc EXCEPT ![w] = "refresh"]
           \/ state' = [state EXCEPT ![w] = "off"] /\ UNCHANGED <<pc, held>>
    BY DEF Load
  <1>2. TypeOK'
    <2>1. file \in 0..issued /\ Answers' = Answers BY <1>0, <1>1, AnswersStay DEF TypeOK
    <2> QED BY <1>0, <1>1, <2>1 DEF TypeOK
  <1>3. CASE file # NoToken /\ held' = [held EXCEPT ![w] = file] /\ pc' = [pc EXCEPT ![w] = "refresh"]
    <2>1. pc'[w] = "refresh" /\ held'[w] = file BY <1>0, <1>3 DEF TypeOK
    <2>2. ~Carries(w) /\ ~Carries(w)' /\ ~Saves(w)' /\ ~Refused(w)'
      BY <1>1, <2>1 DEF Carries, Saves, Refused
    <2>3. \A v \in Workers : v # w => UNCHANGED <<pc[v], held[v], answer[v]>>
      BY <1>0, <1>1, <1>3 DEF TypeOK
    <2> QED BY <1>1, <1>2, <1>3, <2>1, <2>2, <2>3, QuietStep
  <1>4. CASE UNCHANGED <<pc, held>> BY <1>1, <1>2, <1>4, StillStep
  <1> QED BY <1>1, <1>3, <1>4

\* A worker that carries nothing goes to another place where it carries nothing.
LEMMA IdleStep ==
  ASSUME IInv, NEW w \in Workers, NEW label \in {"idle", "poll"},
         pc[w] \in {"idle", "live", "poll"}, pc' = [pc EXCEPT ![w] = label],
         UNCHANGED <<file, tmp, valid, issued, held, answer, signed, causes, enabled>>,
         approved' \in [Workers -> BOOLEAN], state' \in [Workers -> {"off", "failed", "on"}],
         presses' \in Nat, faults' \in Nat
  PROVE  IInv'
  <1>0. TypeOK BY DEF IInv
  <1>1. pc'[w] = label BY <1>0 DEF TypeOK
  <1>2. TypeOK' BY <1>0, AnswersStay DEF TypeOK
  <1>3. ~Carries(w) /\ ~Carries(w)' /\ ~Saves(w)' /\ ~Refused(w)'
    BY <1>1 DEF Carries, Saves, Refused
  <1>4. \A v \in Workers : v # w => UNCHANGED <<pc[v], held[v], answer[v]>>
    BY <1>0 DEF TypeOK
  <1> QED BY <1>1, <1>2, <1>3, <1>4, QuietStep

LEMMA ViewerSteps ==
  ASSUME IInv, NEW w \in Workers,
         Drop(w) \/ DeviceStart(w) \/ Approve(w) \/ Enable(w) \/ Restart(w)
  PROVE  IInv'
  <1> USE DEF Goto, Becomes, Press, worker
  <1>0. /\ TypeOK /\ presses \in Nat /\ faults \in Nat /\ approved \in [Workers -> BOOLEAN]
        /\ state \in [Workers -> {"off", "failed", "on"}] /\ enabled \in [Workers -> BOOLEAN]
    BY DEF IInv, TypeOK
  <1>1. presses' \in Nat /\ faults' \in Nat
    <2>1. presses' = presses \/ presses' = presses + 1
      BY DEF Drop, DeviceStart, Approve, Enable, Restart
    <2>2. faults' = faults BY DEF Drop, DeviceStart, Approve, Enable, Restart
    <2> QED BY <1>0, <2>1, <2>2
  <1>2. UNCHANGED <<file, tmp, valid, issued, held, answer, signed, causes>>
    BY DEF Drop, DeviceStart, Approve, Enable, Restart
  <1>3. CASE Drop(w) BY <1>0, <1>1, <1>2, <1>3, IdleStep DEF Drop
  <1>4. CASE DeviceStart(w)
    <2>1. CASE pc' = [pc EXCEPT ![w] = "poll"]
      <3>1. state' \in [Workers -> {"off", "failed", "on"}] /\ UNCHANGED <<enabled, approved>>
        BY <1>0, <1>4 DEF DeviceStart
      <3> QED BY <1>0, <1>1, <1>2, <1>4, <2>1, <3>1, IdleStep DEF DeviceStart
    <2>2. CASE UNCHANGED pc
      <3>1. state' \in [Workers -> {"off", "failed", "on"}] /\ UNCHANGED <<enabled, approved>>
        BY <1>0, <1>4 DEF DeviceStart
      <3>2. TypeOK' BY <1>0, <1>1, <1>2, <2>2, <3>1, AnswersStay DEF TypeOK
      <3> QED BY <1>2, <2>2, <3>2, StillStep
    <2> QED BY <1>4, <2>1, <2>2 DEF DeviceStart
  <1>5. CASE Approve(w)
    <2>1. TypeOK' BY <1>0, <1>1, <1>2, <1>5, AnswersStay DEF Approve, TypeOK
    <2> QED BY <1>2, <1>5, <2>1, StillStep DEF Approve
  <1>6. CASE Enable(w)
    <2>1. enabled' \in [Workers -> BOOLEAN] /\ UNCHANGED <<pc, approved, state>>
      BY <1>0, <1>6 DEF Enable
    <2>2. TypeOK' BY <1>0, <1>1, <1>2, <2>1, AnswersStay DEF TypeOK
    <2> QED BY <1>2, <2>1, <2>2, StillStep
  <1>7. CASE Restart(w)
    <2>1. /\ state' \in [Workers -> {"off", "failed", "on"}] /\ approved' \in [Workers -> BOOLEAN]
          /\ UNCHANGED enabled
      BY <1>0, <1>7 DEF Restart
    <2> QED BY <1>0, <1>1, <1>2, <1>7, <2>1, IdleStep DEF Restart
  <1> QED BY <1>3, <1>4, <1>5, <1>6, <1>7

\* A worker that stops asking, or that has saved: nothing is new, and the file is as
\* it was, gone, or holds what this worker alone had put into twitch.json.tmp.
LEMMA ParkStep ==
  ASSUME IInv, NEW w \in Workers, TypeOK', pc'[w] \in {"idle", "live"}, held'[w] = NoToken,
         \A v \in Workers : v # w => UNCHANGED <<pc[v], held[v], answer[v]>>,
         UNCHANGED <<valid, issued>>,
         \/ file' \in {file, NoToken} /\ tmp' \in {tmp, NoToken}
            /\ (causes' = {} => causes = {} /\ tmp' = tmp)
         \/ /\ Saves(w) /\ file' = tmp /\ tmp' = NoToken
            /\ causes' = {} => /\ tmp = answer[w].token
                               /\ \A v \in Workers : v # w => ~Saves(v),
         signed' /\ causes' = {} =>
           \/ file' \in valid
           \/ \E v \in Workers : v # w /\ Carries(v) /\ answer[v].token \in valid
  PROVE  IInv'
  <1>1. \A v \in Workers : v # w => /\ Carries(v)' <=> Carries(v)
                                    /\ Saves(v)' <=> Saves(v)
                                    /\ Refused(v)' <=> Refused(v)
                                    /\ SignsIn(v)' <=> SignsIn(v)
                                    /\ pc'[v] = pc[v] /\ held'[v] = held[v]
                                    /\ answer'[v] = answer[v]
    BY WorkerSame
  <1>2. ~Carries(w)' /\ ~Saves(w)' /\ ~Refused(w)' BY DEF Carries, Saves, Refused
  <1>3. \A v \in Workers : Refused(v) => held[v] # NoToken
    BY DEF IInv, HeldInv, Refused, Carries, SignsIn
  <1>4. HeldInv' BY <1>1, <1>2 DEF IInv, HeldInv
  <1>5. DeadInv'
    <2> SUFFICES ASSUME NEW v \in Workers, Refused(v)', held'[v] = file', causes' = {}
                 PROVE  held'[v] \notin valid'
      BY DEF DeadInv
    <2>1. v # w /\ Refused(v) /\ held'[v] = held[v] /\ held[v] # NoToken BY <1>1, <1>2, <1>3
    <2>2. CASE file' = file /\ causes = {} BY <2>1, <2>2 DEF IInv, DeadInv
    <2>3. CASE Saves(w) /\ file' = tmp /\ tmp = answer[w].token
      <3>1. Carries(w) BY <2>3 DEF IInv, HeldInv
      <3> QED BY <2>1, <2>3, <3>1 DEF IInv, ApartInv
    <2> QED BY <2>1, <2>2, <2>3
  <1>6. ApartInv'
    <2> SUFFICES ASSUME NEW v \in Workers, Carries(v)', Saves(v)' => tmp' = answer'[v].token
                 PROVE  LET t == answer'[v].token
                        IN  /\ t # NoToken /\ t # file' /\ (pc'[v] = "answered" => t # tmp')
                            /\ \A u \in Workers : held'[u] # t
                            /\ \A u \in Workers : u # v /\ Carries(u)' => answer'[u].token # t
      BY DEF ApartInv
    <2>1. v # w /\ Carries(v) /\ answer'[v] = answer[v] /\ pc'[v] = pc[v] BY <1>1, <1>2
    <2>2. answer[v].token # NoToken BY <2>1, CarriesToken DEF IInv
    <2>3. (Saves(v) => tmp = answer[v].token /\ tmp' = tmp) /\ (pc[v] = "answered" \/ Saves(v))
      BY <1>1, <2>1, <2>2 DEF Carries, Saves
    <2>4. LET t == answer[v].token
          IN  /\ t # file /\ (pc[v] = "answered" => t # tmp)
              /\ \A u \in Workers : held[u] # t
              /\ \A u \in Workers : u # v /\ Carries(u) => answer[u].token # t
      BY <2>1, <2>3 DEF IInv, ApartInv
    <2>5. answer[v].token # file' /\ (pc[v] = "answered" => answer[v].token # tmp')
      BY <2>2, <2>3, <2>4
    <2>6. \A u \in Workers : held'[u] # answer[v].token BY <1>1, <2>2, <2>4
    <2>7. \A u \in Workers : u # v /\ Carries(u)' => answer'[u].token # answer[v].token
      BY <1>1, <1>2, <2>4
    <2> QED BY <2>1, <2>2, <2>5, <2>6, <2>7
  <1>7. FreshInv'
    <2> SUFFICES ASSUME NEW v \in Workers, Carries(v)', causes' = {},
                        pc'[v] # "aside" => ~SignsIn(v)' /\ held'[v] = file'
                 PROVE  answer'[v].token \in valid'
      BY DEF FreshInv
    <2>1. /\ v # w /\ Carries(v) /\ answer'[v] = answer[v] /\ pc'[v] = pc[v]
          /\ held'[v] = held[v] /\ (pc[v] # "aside" => held[v] # NoToken /\ held[v] = file')
      BY <1>1, <1>2 DEF SignsIn
    <2>2. CASE file' \in {file, NoToken} /\ causes = {}
      BY <2>1, <2>2 DEF IInv, FreshInv, SignsIn
    <2>3. CASE Saves(w) /\ file' = tmp /\ tmp = answer[w].token
               /\ \A u \in Workers : u # w => ~Saves(u)
      <3>1. Carries(w) BY <2>3 DEF IInv, HeldInv
      <3>2. held[v] # tmp BY <2>3, <3>1 DEF IInv, ApartInv
      <3>3. pc[v] # "aside" BY <2>1, <2>3 DEF Saves
      <3> QED BY <2>1, <2>3, <3>2, <3>3
    <2> QED BY <2>2, <2>3
  <1>8. SignedInUnlessCause' BY <1>1, SignedIn
  <1> QED BY <1>4, <1>5, <1>6, <1>7, <1>8 DEF IInv

LEMMA ForgetStep == ASSUME IInv, NEW w \in Workers, Forget(w) PROVE IInv'
  <1> USE DEF Goto, Leave, Overtaken, Becomes
  <1>0. TypeOK /\ issued \in 1..MaxTokens BY DEF IInv, TypeOK
  <1>1. /\ Refused(w) /\ pc'[w] = "idle" /\ held'[w] = NoToken
        /\ \A v \in Workers : v # w => UNCHANGED <<pc[v], held[v], answer[v]>>
        /\ UNCHANGED <<tmp, valid, issued, signed>> /\ file' = NoToken
        /\ (causes' = {} => causes = {} /\ file \in {held[w], NoToken})
    BY <1>0 DEF TypeOK, Forget
  <1>2. TypeOK'
    <2>1. NoAnswer \in Answers /\ Answers' = Answers BY <1>0, <1>1, AnswersTyped, AnswersStay
    <2> QED BY <1>0, <2>1 DEF TypeOK, Forget
  <1>3. ASSUME signed', causes' = {}
        PROVE  \E v \in Workers : v # w /\ Carries(v) /\ answer[v].token \in valid
    <2>1. signed /\ causes = {} /\ file \in {held[w], NoToken} BY <1>1, <1>3
    <2>2. file \notin valid BY <1>0, <1>1, <2>1 DEF TypeOK, IInv, DeadInv
    <2>3. ~Carries(w) BY <1>1 DEF Carries, Refused
    <2> QED BY <2>1, <2>2, <2>3, SignedIn DEF IInv
  <1> QED BY <1>1, <1>2, <1>3, ParkStep

LEMMA RetryStep == ASSUME IInv, NEW w \in Workers, Retry(w) PROVE IInv'
  <1> USE DEF Goto, Leave
  <1>0. TypeOK /\ issued \in 1..MaxTokens BY DEF IInv, TypeOK
  <1>1. /\ pc'[w] = "idle" /\ held'[w] = NoToken
        /\ \A v \in Workers : v # w => UNCHANGED <<pc[v], held[v], answer[v]>>
        /\ UNCHANGED <<file, tmp, valid, issued, signed, causes>>
    BY <1>0 DEF TypeOK, Retry
  <1>2. TypeOK'
    <2>1. NoAnswer \in Answers /\ Answers' = Answers BY <1>0, <1>1, AnswersTyped, AnswersStay
    <2> QED BY <1>0, <2>1 DEF TypeOK, Retry
  <1>3. ~Carries(w) BY DEF Retry, Carries
  <1> QED BY <1>1, <1>2, <1>3, ParkStep, SignedIn DEF IInv

LEMMA WriteTmpStep == ASSUME IInv, NEW w \in Workers, WriteTmp(w) PROVE IInv'
  <1> USE DEF Goto
  <1>0. TypeOK BY DEF IInv
  <1>1. /\ pc[w] = "answered" /\ pc'[w] = "tmp" /\ Carries(w) /\ tmp' = answer[w].token
        /\ UNCHANGED <<file, valid, issued, held, answer, signed>>
        /\ \A v \in Workers : v # w => pc'[v] = pc[v]
        /\ (causes' = {} => causes = {} /\ \A v \in Workers : v # w => ~Saves(v))
    BY <1>0 DEF TypeOK, WriteTmp, Overlap
  <1>2. \A v \in Workers : v # w => /\ Carries(v)' <=> Carries(v)
                                    /\ Saves(v)' <=> Saves(v)
                                    /\ Refused(v)' <=> Refused(v)
                                    /\ SignsIn(v)' <=> SignsIn(v)
    BY <1>1, WorkerSame
  <1>3. RefreshResult(answer[w])' = RefreshResult(answer[w]) BY <1>1 DEF RefreshResult
  <1>4. Carries(w)' /\ Saves(w)' /\ ~Refused(w)' /\ (SignsIn(w)' <=> SignsIn(w))
    BY <1>1, <1>3 DEF Carries, Saves, Refused, SignsIn
  <1>5. TypeOK'
    <2>1. tmp' \in 0..issued' /\ Answers' = Answers
      BY <1>0, <1>1, CarriesToken, AnswersStay
    <2> QED BY <1>0, <2>1 DEF TypeOK, WriteTmp
  <1>6. HeldInv' BY <1>1, <1>2, <1>4 DEF IInv, HeldInv
  <1>7. DeadInv' BY <1>1, <1>2, <1>4 DEF IInv, DeadInv
  <1>8. LET t == answer[w].token
        IN  /\ t # NoToken /\ t # file /\ \A u \in Workers : held[u] # t
            /\ \A u \in Workers : u # w /\ Carries(u) => answer[u].token # t
    <2>1. ~Saves(w) BY <1>1 DEF Saves
    <2> QED BY <1>1, <2>1 DEF IInv, ApartInv
  <1>9. ApartInv'
    <2> SUFFICES ASSUME NEW v \in Workers, Carries(v)', Saves(v)' => tmp' = answer'[v].token
                 PROVE  LET t == answer'[v].token
                        IN  /\ t # NoToken /\ t # file' /\ (pc'[v] = "answered" => t # tmp')
                            /\ \A u \in Workers : held'[u] # t
                            /\ \A u \in Workers : u # v /\ Carries(u)' => answer'[u].token # t
      BY DEF ApartInv
    <2>1. CASE v = w BY <1>1, <1>2, <1>8, <2>1
    <2>2. CASE v # w
      <3>1. Carries(v) /\ answer[v].token # answer[w].token BY <1>2, <1>8, <2>2
      <3>2. ~Saves(v) BY <1>1, <1>2, <2>2, <3>1
      <3>3. LET t == answer[v].token
            IN  /\ t # NoToken /\ t # file /\ \A u \in Workers : held[u] # t
                /\ \A u \in Workers : u # v /\ Carries(u) => answer[u].token # t
        BY <3>1, <3>2 DEF IInv, ApartInv
      <3>4. \A u \in Workers : Carries(u)' => Carries(u) BY <1>1, <1>2
      <3> QED BY <1>1, <3>1, <3>3, <3>4
    <2> QED BY <2>1, <2>2
  <1>10. FreshInv'
    <2> SUFFICES ASSUME NEW v \in Workers, Carries(v)', causes' = {},
                        pc'[v] # "aside" => ~SignsIn(v)' /\ held'[v] = file'
                 PROVE  answer'[v].token \in valid'
      BY DEF FreshInv
    <2>1. Carries(v) /\ causes = {} /\ (pc[v] # "aside" => ~SignsIn(v) /\ held[v] = file)
      BY <1>1, <1>2, <1>4
    <2> QED BY <1>1, <2>1 DEF IInv, FreshInv
  <1>11. SignedInUnlessCause'
    <2>1. \A v \in Workers : Carries(v) => Carries(v)' BY <1>2, <1>4
    <2> QED BY <1>1, <2>1, SignedIn DEF IInv
  <1> QED BY <1>5, <1>6, <1>7, <1>9, <1>10, <1>11 DEF IInv

LEMMA SetAsideStep == ASSUME IInv, NEW w \in Workers, SetAside(w) PROVE IInv'
  <1> USE DEF Goto
  <1>0. TypeOK BY DEF IInv
  <1>1. /\ pc[w] = "tmp" /\ pc'[w] = "aside" /\ file' = NoToken
        /\ UNCHANGED <<tmp, valid, issued, held, answer, signed>>
        /\ \A v \in Workers : v # w => pc'[v] = pc[v]
        /\ (causes' = {} => causes = {} /\ Costs(w) = {})
    BY <1>0 DEF TypeOK, SetAside
  <1>2. \A v \in Workers : v # w => /\ Carries(v)' <=> Carries(v)
                                    /\ Saves(v)' <=> Saves(v)
                                    /\ Refused(v)' <=> Refused(v)
                                    /\ SignsIn(v)' <=> SignsIn(v)
    BY <1>1, WorkerSame
  <1>3. RefreshResult(answer[w])' = RefreshResult(answer[w]) BY <1>1 DEF RefreshResult
  <1>4. Saves(w) /\ Carries(w) BY <1>1 DEF IInv, HeldInv, Saves
  <1>5. Carries(w)' /\ Saves(w)' /\ ~Refused(w)' /\ (SignsIn(w)' <=> SignsIn(w))
    BY <1>1, <1>3, <1>4 DEF Carries, Saves, Refused, SignsIn
  <1>6. TypeOK'
    <2>1. 0 \in 0..issued' /\ Answers' = Answers BY <1>0, <1>1, AnswersStay DEF TypeOK
    <2> QED BY <1>0, <1>1, <2>1 DEF TypeOK, SetAside
  <1>7. HeldInv' BY <1>1, <1>2, <1>4, <1>5 DEF IInv, HeldInv
  <1>8. DeadInv'
    <2>1. \A v \in Workers : Refused(v)' => held'[v] # NoToken
      BY <1>1, <1>2, <1>5 DEF IInv, HeldInv, Refused, Carries, SignsIn
    <2> QED BY <1>1, <2>1 DEF DeadInv
  <1>9. ApartInv'
    <2> SUFFICES ASSUME NEW v \in Workers, Carries(v)', Saves(v)' => tmp' = answer'[v].token
                 PROVE  LET t == answer'[v].token
                        IN  /\ t # NoToken /\ t # file' /\ (pc'[v] = "answered" => t # tmp')
                            /\ \A u \in Workers : held'[u] # t
                            /\ \A u \in Workers : u # v /\ Carries(u)' => answer'[u].token # t
      BY DEF ApartInv
    <2>1. Carries(v) /\ (Saves(v) => tmp = answer[v].token) BY <1>1, <1>2, <1>4, <1>5
    <2>2. \A u \in Workers : Carries(u)' => Carries(u) BY <1>2, <1>4
    <2>3. pc'[v] = "answered" => pc[v] = "answered" BY <1>1
    <2> QED BY <1>1, <2>1, <2>2, <2>3 DEF IInv, ApartInv
  <1>10. causes' = {} => answer[w].token \in valid
    <2> SUFFICES ASSUME causes = {}, Costs(w) = {} PROVE answer[w].token \in valid BY <1>1
    <2>1. CASE SignsIn(w) BY <2>1 DEF Costs
    <2>2. CASE ~SignsIn(w)
      <3>1. held[w] = file BY <2>2 DEF Costs, Overtaken
      <3> QED BY <1>4, <2>2, <3>1 DEF IInv, FreshInv
    <2> QED BY <2>1, <2>2
  <1>11. FreshInv'
    <2> SUFFICES ASSUME NEW v \in Workers, v # w, Carries(v)', causes' = {},
                        pc'[v] # "aside" => ~SignsIn(v)' /\ held'[v] = file'
                 PROVE  answer'[v].token \in valid'
      BY <1>1, <1>10 DEF FreshInv
    <2>1. Carries(v) /\ pc[v] = "aside" /\ causes = {} BY <1>1, <1>2 DEF SignsIn
    <2> QED BY <1>1, <2>1 DEF IInv, FreshInv
  <1>12. SignedInUnlessCause' BY <1>1, <1>5, <1>10, SignedIn
  <1> QED BY <1>6, <1>7, <1>8, <1>9, <1>11, <1>12 DEF IInv

LEMMA PutStep == ASSUME IInv, NEW w \in Workers, Put(w) PROVE IInv'
  <1> USE DEF Goto, Leave, Becomes
  <1>0. TypeOK /\ issued \in 1..MaxTokens BY DEF IInv, TypeOK
  <1>1. /\ pc[w] = "aside" /\ file' = tmp /\ tmp' = NoToken /\ tmp # NoToken
        /\ pc'[w] \in {"idle", "live"} /\ held'[w] = NoToken
        /\ UNCHANGED <<valid, issued, approved, enabled, presses, faults>>
        /\ \A v \in Workers : v # w => UNCHANGED <<pc[v], held[v], answer[v]>>
    BY <1>0 DEF TypeOK, Put
  <1>2. Saves(w) /\ Carries(w) BY <1>1 DEF IInv, HeldInv, Saves
  <1>3. causes' = {} => /\ tmp = answer[w].token /\ answer[w].token \in valid
                        /\ \A v \in Workers : v # w => ~Saves(v)
    <2>1. CASE SignsIn(w)
      <3> SUFFICES ASSUME causes' = {}
                   PROVE  /\ tmp = answer[w].token /\ answer[w].token \in valid
                          /\ \A v \in Workers : v # w => ~Saves(v)
        OBVIOUS
      <3>1. causes' = Costs(w) \union (IF tmp = answer[w].token THEN Overlap(w) ELSE {"two saves"})
        BY <2>1 DEF Put
      <3>2. Costs(w) = {} /\ tmp = answer[w].token /\ Overlap(w) = {} BY <3>1
      <3>3. answer[w].token \in valid BY <2>1, <3>2 DEF Costs
      <3>4. \A v \in Workers : v # w => ~Saves(v) BY <3>2 DEF Overlap
      <3> QED BY <3>2, <3>3, <3>4
    <2>2. CASE ~SignsIn(w)
      <3>1. causes' = causes BY <2>2 DEF Put
      <3> QED BY <1>1, <1>2, <3>1 DEF IInv, HeldInv, FreshInv
    <2> QED BY <2>1, <2>2
  <1>4. TypeOK'
    <2>0. 0 \in 0..issued BY <1>0
    <2>1. NoAnswer \in Answers /\ Answers' = Answers /\ 0 \in 0..issued
      BY <1>0, <1>1, <2>0, AnswersTyped, AnswersStay
    <2>2. file' \in 0..issued /\ tmp' \in 0..issued BY <1>0, <1>1, <2>1 DEF TypeOK
    <2>3. /\ pc' \in [Workers -> {"idle", "refresh", "answered", "tmp", "aside", "live", "poll"}]
          /\ held' \in [Workers -> 0..issued] /\ answer' \in [Workers -> Answers]
          /\ state' \in [Workers -> {"off", "failed", "on"}]
      BY <1>0, <2>1 DEF TypeOK, Put
    <2>4. signed' \in BOOLEAN
      <3>1. signed' = TRUE \/ signed' = signed BY DEF Put
      <3>2. signed \in BOOLEAN BY <1>0 DEF TypeOK
      <3> QED BY <3>1, <3>2
    <2> QED BY <1>0, <1>1, <2>1, <2>2, <2>3, <2>4 DEF TypeOK
  <1> QED BY <1>1, <1>2, <1>3, <1>4, ParkStep

LEMMA NotSavedStep == ASSUME IInv, NEW w \in Workers, NotSaved(w) PROVE IInv'
  <1> USE DEF Goto, Leave, Becomes, Fault
  <1>0. TypeOK /\ issued \in 1..MaxTokens BY DEF IInv, TypeOK
  <1>1. /\ Carries(w) /\ pc'[w] \in {"idle", "live"} /\ held'[w] = NoToken
        /\ UNCHANGED <<file, valid, issued, approved, enabled, presses, signed>>
        /\ tmp' \in {tmp, NoToken}
        /\ \A v \in Workers : v # w => UNCHANGED <<pc[v], held[v], answer[v]>>
    BY <1>0 DEF TypeOK, NotSaved
  <1>2. causes' # {}
    <2>1. CASE pc[w] = "aside" /\ tmp = NoToken /\ UNCHANGED causes
      <3>1. Saves(w) /\ answer[w].token # NoToken BY <1>0, <1>1, <2>1, CarriesToken DEF Saves
      <3> QED BY <2>1, <3>1 DEF IInv, HeldInv
    <2>2. CASE Fault("not saved") BY <2>2
    <2> QED BY <2>1, <2>2 DEF NotSaved
  <1>3. TypeOK'
    <2>0. 0 \in 0..issued BY <1>0
    <2>1. NoAnswer \in Answers /\ Answers' = Answers /\ 0 \in 0..issued
      BY <1>0, <1>1, <2>0, AnswersTyped, AnswersStay
    <2>2. tmp' \in 0..issued BY <1>0, <1>1, <2>1 DEF TypeOK
    <2>3. /\ pc' \in [Workers -> {"idle", "refresh", "answered", "tmp", "aside", "live", "poll"}]
          /\ held' \in [Workers -> 0..issued] /\ answer' \in [Workers -> Answers]
          /\ state' \in [Workers -> {"off", "failed", "on"}]
      <3>1. /\ pc' = [pc EXCEPT ![w] = "idle"] \/ pc' = [pc EXCEPT ![w] = "live"]
            /\ held' = [held EXCEPT ![w] = NoToken] /\ answer' = [answer EXCEPT ![w] = NoAnswer]
        BY DEF NotSaved
      <3>2. state' = state \/ state' = [state EXCEPT ![w] = "failed"] BY DEF NotSaved
      <3>3. state' \in [Workers -> {"off", "failed", "on"}] BY <1>0, <3>2 DEF TypeOK
      <3> QED BY <1>0, <2>1, <3>1, <3>3 DEF TypeOK
    <2>4. faults' \in Nat
      <3>1. faults' = faults \/ faults' = faults + 1 BY DEF NotSaved
      <3>2. faults \in Nat BY <1>0 DEF TypeOK
      <3> QED BY <3>1, <3>2
    <2> QED BY <1>0, <1>1, <2>1, <2>2, <2>3, <2>4 DEF TypeOK
  <1> QED BY <1>1, <1>2, <1>3, ParkStep

\* A renewed token is a new one.
LEMMA RenewStep == ASSUME IInv, NEW w \in Workers, Renew(w) PROVE IInv'
  <1> USE DEF Goto, Answer, Issue, Fault
  <1> DEFINE new == issued + 1
  <1>0. /\ TypeOK /\ issued \in 1..MaxTokens /\ new \in 1..MaxTokens /\ issued' = new
        /\ pc[w] = "refresh" /\ held[w] \in valid /\ valid' = (valid \ {held[w]}) \union {new}
        /\ UNCHANGED <<file, tmp, held, approved, state, enabled, presses, signed>>
    <2>1. TypeOK /\ issued \in 1..MaxTokens BY DEF IInv, TypeOK
    <2>2. issued < MaxTokens BY DEF Renew
    <2>3. new \in 1..MaxTokens BY <2>1, <2>2
    <2> QED BY <2>1, <2>3 DEF Renew
  <1>1. /\ pc' = [pc EXCEPT ![w] = "answered"]
        /\ \/ answer' = [answer EXCEPT ![w] = Granted(new)] /\ UNCHANGED <<faults, causes>>
           \/ answer' = [answer EXCEPT ![w] = NoAnswer] /\ causes' # {} /\ faults' = faults + 1
    BY DEF Renew
  <1>2. RefreshResult(Granted(new)) = "ok" /\ Granted(new).token = new
        /\ RefreshResult(NoAnswer) = "unreachable"
    <2>1. new \in Nat /\ new # NoToken BY <1>0 DEF NoToken
    <2>2. RefreshResult(Granted(new)) = "ok" /\ Granted(new).token = new BY <2>1, GrantedMeans
    <2> QED BY <2>2, AnswersMean, Zenon
  <1>3. /\ new \notin valid /\ file # new /\ tmp # new /\ new # NoToken
        /\ \A v \in Workers : held[v] # new
    BY <1>0 DEF TypeOK
  <1>4. \A v \in Workers : answer[v].token # new
    <2> SUFFICES ASSUME NEW v \in Workers PROVE answer[v].token # new OBVIOUS
    <2>1. answer[v].token \in 0..issued BY <1>0, CarriesToken
    <2> QED BY <1>0, <2>1
  <1>5. TypeOK'
    <2>1. Granted(new) \in Answers' /\ NoAnswer \in Answers'
      BY <1>0 DEF Answers, Granted, NoAnswer
    <2>2. 0..issued \subseteq 0..issued' /\ 1..issued \subseteq 1..issued'
      BY <1>0
    <2>3. Answers \subseteq Answers' BY <2>2, AnswersGrow
    <2> HIDE DEF new
    <2>4. answer' \in [Workers -> Answers'] BY <1>0, <1>1, <2>1, <2>3 DEF TypeOK
    <2>5. faults' \in Nat
      <3>1. faults \in Nat BY <1>0 DEF TypeOK
      <3>2. faults' = faults \/ faults' = faults + 1 BY <1>1
      <3> QED BY <3>1, <3>2
    <2>6. valid' \subseteq 1..issued'
      <3>1. valid \subseteq 1..issued /\ new \in 1..issued' BY <1>0 DEF TypeOK
      <3> QED BY <1>0, <2>2, <3>1
    <2>7. held' \in [Workers -> 0..issued'] /\ file' \in 0..issued' /\ tmp' \in 0..issued'
      BY <1>0, <2>2 DEF TypeOK
    <2> QED BY <1>0, <1>1, <2>4, <2>5, <2>6, <2>7 DEF TypeOK
  <1> HIDE DEF new
  <1>6. pc'[w] = "answered" /\ \A v \in Workers : v # w => UNCHANGED <<pc[v], held[v], answer[v]>>
    BY <1>0, <1>1 DEF TypeOK
  <1>7. \A v \in Workers : v # w => /\ Carries(v)' <=> Carries(v)
                                    /\ Saves(v)' <=> Saves(v)
                                    /\ Refused(v)' <=> Refused(v)
                                    /\ SignsIn(v)' <=> SignsIn(v)
                                    /\ pc'[v] = pc[v] /\ held'[v] = held[v]
                                    /\ answer'[v] = answer[v]
    BY <1>6, WorkerSame
  <1>8. /\ ~Carries(w) /\ ~Saves(w) /\ ~Saves(w)' /\ ~Refused(w)' /\ held[w] # NoToken
        /\ Carries(w)' => answer'[w].token = new
        /\ causes' = {} => Carries(w)' /\ causes = {}
    <2>1. RefreshResult(answer[w])' = RefreshResult(answer'[w]) BY DEF RefreshResult
    <2>2. answer'[w] = Granted(new) \/ answer'[w] = NoAnswer BY <1>0, <1>1 DEF TypeOK
    <2>3. held[w] # NoToken BY <1>0 DEF TypeOK
    <2>4. causes' = {} => answer'[w] = Granted(new) /\ causes = {} BY <1>0, <1>1 DEF TypeOK
    <2>5. ~Carries(w) /\ ~Saves(w) /\ ~Saves(w)' BY <1>0, <1>6 DEF Carries, Saves
    <2>6. ~Refused(w)' BY <1>2, <2>1, <2>2 DEF Refused
    <2>7. Carries(w)' => answer'[w].token = new BY <1>2, <2>1, <2>2 DEF Carries
    <2>8. answer'[w] = Granted(new) => Carries(w)' BY <1>2, <1>6, <2>1 DEF Carries
    <2> QED BY <2>3, <2>4, <2>5, <2>6, <2>7, <2>8
  <1>9. HeldInv' BY <1>0, <1>7, <1>8 DEF IInv, HeldInv, SignsIn
  <1>10. DeadInv' BY <1>0, <1>3, <1>7, <1>8 DEF IInv, DeadInv
  <1>11. ApartInv'
    <2> SUFFICES ASSUME NEW v \in Workers, Carries(v)', Saves(v)' => tmp' = answer'[v].token
                 PROVE  LET t == answer'[v].token
                        IN  /\ t # NoToken /\ t # file' /\ (pc'[v] = "answered" => t # tmp')
                            /\ \A u \in Workers : held'[u] # t
                            /\ \A u \in Workers : u # v /\ Carries(u)' => answer'[u].token # t
      BY DEF ApartInv
    <2>1. CASE v = w BY <1>0, <1>3, <1>4, <1>7, <1>8, <2>1
    <2>2. CASE v # w
      <3>1. Carries(v) /\ answer'[v] = answer[v] /\ (Saves(v) => tmp = answer[v].token)
        BY <1>0, <1>7, <2>2
      <3> QED BY <1>0, <1>4, <1>7, <1>8, <2>2, <3>1 DEF IInv, ApartInv
    <2> QED BY <2>1, <2>2
  <1>12. \A v \in Workers : Carries(v) /\ causes = {} => answer[v].token # held[w]
    BY DEF IInv, HeldInv, ApartInv
  <1>13. FreshInv'
    <2> SUFFICES ASSUME NEW v \in Workers, Carries(v)', causes' = {},
                        pc'[v] # "aside" => ~SignsIn(v)' /\ held'[v] = file'
                 PROVE  answer'[v].token \in valid'
      BY DEF FreshInv
    <2>1. CASE v = w BY <1>0, <1>8, <2>1
    <2>2. CASE v # w
      <3>1. /\ Carries(v) /\ answer'[v] = answer[v] /\ causes = {}
            /\ (pc[v] # "aside" => ~SignsIn(v) /\ held[v] = file)
        BY <1>0, <1>7, <1>8, <2>2
      <3>2. answer[v].token \in valid BY <3>1 DEF IInv, FreshInv
      <3> QED BY <1>0, <1>12, <3>1, <3>2
    <2> QED BY <2>1, <2>2
  <1>14. SignedInUnlessCause'
    <2>1. causes' = {} => Carries(w)' /\ answer'[w].token \in valid' BY <1>0, <1>8
    <2> QED BY <2>1, SignedIn
  <1> QED BY <1>5, <1>9, <1>10, <1>11, <1>13, <1>14 DEF IInv

\* And so is the token of a new sign-in.
LEMMA DevicePollStep == ASSUME IInv, NEW w \in Workers, DevicePoll(w) PROVE IInv'
  <1> USE DEF Goto, Answer, Issue, Becomes
  <1> DEFINE new == issued + 1
  <1>0. /\ TypeOK /\ issued \in 1..MaxTokens /\ pc[w] = "poll"
        /\ UNCHANGED <<file, tmp, held, enabled, presses, faults, signed, causes>>
    BY DEF IInv, TypeOK, DevicePoll
  <1>1. \/ UNCHANGED <<valid, issued, pc, answer, approved, state>>
        \/ /\ pc' = [pc EXCEPT ![w] = "idle"] /\ state' = [state EXCEPT ![w] = "failed"]
           /\ approved' = [approved EXCEPT ![w] = FALSE] /\ UNCHANGED <<valid, issued, answer>>
        \/ /\ issued < MaxTokens /\ issued' = new /\ valid' = valid \union {new}
           /\ answer' = [answer EXCEPT ![w] = Granted(new)]
           /\ pc' = [pc EXCEPT ![w] = "answered"]
           /\ approved' = [approved EXCEPT ![w] = FALSE] /\ UNCHANGED state
    BY DEF DevicePoll
  <1>2. CASE UNCHANGED <<valid, issued, pc, answer, approved, state>>
    <2>1. TypeOK' BY <1>0, <1>2, AnswersStay DEF TypeOK
    <2> QED BY <1>0, <1>2, <2>1, StillStep
  <1>3. CASE /\ pc' = [pc EXCEPT ![w] = "idle"] /\ state' = [state EXCEPT ![w] = "failed"]
             /\ approved' = [approved EXCEPT ![w] = FALSE] /\ UNCHANGED <<valid, issued, answer>>
    <2>1. /\ approved' \in [Workers -> BOOLEAN] /\ state' \in [Workers -> {"off", "failed", "on"}]
          /\ presses' \in Nat /\ faults' \in Nat
      BY <1>0, <1>3 DEF TypeOK
    <2> QED BY <1>0, <1>3, <2>1, IdleStep
  <1>4. CASE /\ issued < MaxTokens /\ issued' = new /\ valid' = valid \union {new}
             /\ answer' = [answer EXCEPT ![w] = Granted(new)]
             /\ pc' = [pc EXCEPT ![w] = "answered"]
             /\ approved' = [approved EXCEPT ![w] = FALSE] /\ UNCHANGED state
    <2>1. new \in 1..MaxTokens BY <1>0, <1>4
    <2>2. RefreshResult(Granted(new)) = "ok" /\ Granted(new).token = new
      <3>1. new \in Nat /\ new # NoToken BY <1>0 DEF NoToken
      <3> QED BY <3>1, GrantedMeans
    <2>3. /\ new \notin valid /\ file # new /\ tmp # new /\ new # NoToken
          /\ \A v \in Workers : held[v] # new
      BY <1>0 DEF TypeOK
    <2>4. \A v \in Workers : answer[v].token # new
      <3> SUFFICES ASSUME NEW v \in Workers PROVE answer[v].token # new OBVIOUS
      <3>1. answer[v].token \in 0..issued BY <1>0, CarriesToken
      <3> QED BY <1>0, <3>1
    <2>5. TypeOK'
      <3>1. Granted(new) \in Answers'
        <4>1. new \in 0..issued' BY <1>0, <1>4, <2>1
        <4> QED BY <4>1 DEF Answers, Granted
      <3>2. 0..issued \subseteq 0..issued' /\ 1..issued \subseteq 1..issued' BY <1>0, <1>4
      <3>3. Answers \subseteq Answers' BY <3>2, AnswersGrow
      <3> HIDE DEF new
      <3>4. answer' \in [Workers -> Answers'] BY <1>0, <1>4, <3>1, <3>3 DEF TypeOK
      <3>5. valid' \subseteq 1..issued'
        <4>1. valid \subseteq 1..issued /\ new \in 1..issued' BY <1>0, <1>4, <2>1 DEF TypeOK
        <4> QED BY <1>4, <3>2, <4>1
      <3>6. held' \in [Workers -> 0..issued'] /\ file' \in 0..issued' /\ tmp' \in 0..issued'
        BY <1>0, <3>2 DEF TypeOK
      <3> QED BY <1>0, <1>4, <2>1, <3>4, <3>5, <3>6 DEF TypeOK
    <2> HIDE DEF new
    <2>6. /\ pc'[w] = "answered" /\ answer'[w] = Granted(new)
          /\ \A v \in Workers : v # w => UNCHANGED <<pc[v], held[v], answer[v]>>
      BY <1>0, <1>4 DEF TypeOK
    <2>7. \A v \in Workers : v # w => /\ Carries(v)' <=> Carries(v)
                                      /\ Saves(v)' <=> Saves(v)
                                      /\ Refused(v)' <=> Refused(v)
                                      /\ SignsIn(v)' <=> SignsIn(v)
                                      /\ pc'[v] = pc[v] /\ held'[v] = held[v]
                                      /\ answer'[v] = answer[v]
      BY <2>6, WorkerSame
    <2>8. /\ ~Carries(w) /\ ~Saves(w)' /\ ~Saves(w) /\ ~Refused(w)' /\ Carries(w)'
          /\ answer'[w].token = new
      <3>1. RefreshResult(answer[w])' = RefreshResult(answer'[w]) BY DEF RefreshResult
      <3> QED BY <1>0, <2>2, <2>6, <3>1 DEF Carries, Saves, Refused
    <2>9. HeldInv'
      <3> SUFFICES ASSUME NEW v \in Workers
                   PROVE  /\ pc'[v] = "refresh" \/ (pc'[v] = "answered" /\ ~Carries(v)')
                               => ~SignsIn(v)'
                          /\ Saves(v)' => Carries(v)'
                          /\ Saves(v)' /\ causes' = {} =>
                               /\ tmp' = answer'[v].token
                               /\ \A u \in Workers : u # v => ~Saves(u)'
        BY DEF HeldInv
      <3>1. CASE v = w BY <2>6, <2>8, <3>1
      <3>2. CASE v # w
        <4>1. \A u \in Workers : Saves(u)' => Saves(u) BY <2>7, <2>8
        <4> QED BY <1>0, <2>7, <3>2, <4>1 DEF IInv, HeldInv
      <3> QED BY <3>1, <3>2
    <2>10. DeadInv' BY <1>0, <1>4, <2>3, <2>7, <2>8 DEF IInv, DeadInv
    <2>11. ApartInv'
      <3> SUFFICES ASSUME NEW v \in Workers, Carries(v)', Saves(v)' => tmp' = answer'[v].token
                   PROVE  LET t == answer'[v].token
                          IN  /\ t # NoToken /\ t # file' /\ (pc'[v] = "answered" => t # tmp')
                              /\ \A u \in Workers : held'[u] # t
                              /\ \A u \in Workers : u # v /\ Carries(u)' => answer'[u].token # t
        BY DEF ApartInv
      <3>1. CASE v = w BY <1>0, <2>3, <2>4, <2>7, <2>8, <3>1
      <3>2. CASE v # w
        <4>1. Carries(v) /\ answer'[v] = answer[v] /\ (Saves(v) => tmp = answer[v].token)
          BY <1>0, <2>7, <3>2
        <4> QED BY <1>0, <2>4, <2>7, <2>8, <3>2, <4>1 DEF IInv, ApartInv
      <3> QED BY <3>1, <3>2
    <2>12. FreshInv' BY <1>0, <1>4, <2>7, <2>8 DEF IInv, FreshInv
    <2>13. SignedInUnlessCause' BY <1>4, <2>8, SignedIn
    <2> QED BY <2>5, <2>9, <2>10, <2>11, <2>12, <2>13 DEF IInv
  <1> QED BY <1>1, <1>2, <1>3, <1>4

\* Signing out and disconnecting are causes.
LEMMA CauseSteps ==
  ASSUME IInv, Disconnect \/ \E w \in Workers : SignOut(w) PROVE IInv'
  <1> USE DEF Fault, worker, Press, Becomes
  <1>0. TypeOK BY DEF IInv
  <1>1. /\ UNCHANGED <<tmp, pc, held, answer, issued, approved, enabled, signed>> /\ causes' # {}
        /\ valid' \subseteq valid /\ file' \in {file, NoToken}
        /\ presses' \in Nat /\ faults' \in Nat /\ state' \in [Workers -> {"off", "failed", "on"}]
    <2>0. presses \in Nat /\ faults \in Nat /\ state \in [Workers -> {"off", "failed", "on"}]
      BY <1>0 DEF TypeOK
    <2>1. CASE Disconnect
      <3>1. faults' = faults + 1 /\ presses' = presses /\ state' = state BY <2>1 DEF Disconnect
      <3>2. /\ UNCHANGED <<tmp, pc, held, answer, issued, approved, enabled, signed, file>>
            /\ causes' # {} /\ valid' = {}
        BY <2>1 DEF Disconnect
      <3> QED BY <2>0, <3>1, <3>2
    <2>2. ASSUME NEW w \in Workers, SignOut(w)
          PROVE  /\ UNCHANGED <<tmp, pc, held, answer, issued, approved, enabled, signed, valid>>
                 /\ causes' # {} /\ file' = NoToken /\ presses' \in Nat /\ faults' \in Nat
                 /\ state' \in [Workers -> {"off", "failed", "on"}]
      <3>1. presses' = presses + 1 /\ faults' = faults /\ state' = [state EXCEPT ![w] = "off"]
        BY <2>2 DEF SignOut
      <3>2. causes' = causes \union {"signed out"} BY <2>2 DEF SignOut
      <3>3. causes' # {} BY <3>2
      <3>4. /\ UNCHANGED <<tmp, pc, held, answer, issued, approved, enabled, signed, valid>>
            /\ file' = NoToken
        BY <2>2 DEF SignOut
      <3> QED BY <2>0, <3>1, <3>3, <3>4
    <2> QED BY <2>1, <2>2
  <1>2. TypeOK'
    <2>1. 0 \in 0..issued BY <1>0 DEF TypeOK
    <2> QED BY <1>0, <1>1, <2>1, AnswersStay DEF TypeOK
  <1>3. \A v \in Workers : /\ Carries(v)' <=> Carries(v)
                           /\ Saves(v)' <=> Saves(v)
                           /\ Refused(v)' <=> Refused(v)
                           /\ SignsIn(v)' <=> SignsIn(v)
    BY <1>1, WorkerSame
  <1>4. HeldInv' BY <1>1, <1>3 DEF IInv, HeldInv
  <1>5. ApartInv' BY <1>1, <1>3 DEF IInv, ApartInv
  <1>6. DeadInv' /\ FreshInv' BY <1>1 DEF DeadInv, FreshInv
  <1>7. SignedInUnlessCause' BY <1>1 DEF SignedInUnlessCause
  <1> QED BY <1>2, <1>4, <1>5, <1>6, <1>7 DEF IInv

\* A crash that loses a token on its way is a cause; without one the file is as good
\* as it was.
LEMMA CrashStep == ASSUME IInv, Crash PROVE IInv'
  <1> USE DEF Fault
  <1>0. TypeOK /\ issued \in 1..MaxTokens BY DEF IInv, TypeOK
  <1>1. TypeOK'
    <2>1. issued' = issued BY DEF Crash
    <2>2. NoAnswer \in Answers /\ Answers' = Answers BY <1>0, <2>1, AnswersTyped, AnswersStay
    <2>3. faults' \in Nat BY <1>0 DEF TypeOK, Crash
    <2>4. 0 \in 0..issued BY <1>0
    <2> QED BY <1>0, <2>2, <2>3, <2>4 DEF TypeOK, Crash
  <1>2. \A v \in Workers : pc'[v] = "idle" BY DEF Crash
  <1>3. HeldInv' /\ DeadInv' /\ ApartInv' /\ FreshInv'
    BY <1>2 DEF HeldInv, DeadInv, ApartInv, FreshInv, Carries, Saves, Refused
  <1>4. SignedInUnlessCause'
    <2> SUFFICES ASSUME signed', causes' = {} PROVE file' \in valid' BY SignedIn
    <2>1. /\ UNCHANGED <<file, valid, signed, causes>>
          /\ \A v \in Workers : ~Carries(v)
      BY DEF Crash
    <2> QED BY <2>1, SignedIn DEF IInv
  <1> QED BY <1>1, <1>3, <1>4 DEF IInv

LEMMA SignInStep == IInv /\ [Next]_vars => IInv'
  <1> SUFFICES ASSUME IInv, [Next]_vars PROVE IInv' OBVIOUS
  <1>1. ASSUME NEW w \in Workers, Connection(w) PROVE IInv'
    BY <1>1, LoadStep, ForgetStep, RetryStep, WriteTmpStep, SetAsideStep, PutStep, NotSavedStep
    DEF Connection, Save
  <1>2. ASSUME NEW w \in Workers, Twitch(w) PROVE IInv'
    BY <1>2, TwitchSteps, RenewStep DEF Twitch
  <1>3. ASSUME NEW w \in Workers, Drop(w) \/ DevicePoll(w) \/ Viewer(w) PROVE IInv'
    BY <1>3, ViewerSteps, DevicePollStep, CauseSteps DEF Viewer
  <1>4. CASE Disconnect \/ Crash BY <1>4, CauseSteps, CrashStep
  <1>5. CASE UNCHANGED vars
    <2>1. UNCHANGED <<file, tmp, valid, issued, pc, held, answer, approved, state, enabled,
                      presses, faults, signed, causes>>
      BY <1>5 DEF vars
    <2>2. TypeOK' BY <2>1, AnswersStay DEF IInv, TypeOK
    <2> QED BY <2>1, <2>2, StillStep
  <1> QED BY <1>1, <1>2, <1>3, <1>4, <1>5 DEF Next

\* The whole invariant, of every reachable state: what the workers hold and carry, and
\* that one of it works as long as nothing has happened that may lose it
\* (ff_twitch_token_save's three steps, run_once, do_sign_in).
THEOREM SignInInvariant == Spec => []IInv
  BY SignInInit, SignInStep, PTL DEF Spec

\* Every variable keeps its type: no token is on disk, held, or taken by Twitch
\* that Twitch did not hand out (ff_twitch_token_load, ff_twitch_token_save).
THEOREM SignInTypeOK == Spec => []TypeOK
  <1>1. IInv => TypeOK BY DEF IInv
  <1> QED BY <1>1, SignInInvariant, PTL

\* A stored sign-in goes on working for any number of sources that share it, unless
\* one of the causes has happened (ff_twitch_refresh, run_once on its result, and
\* ff_twitch_token_save).
THEOREM SignInStaysSignedIn == Spec => []SignedInUnlessCause
  <1>1. IInv => SignedInUnlessCause BY DEF IInv
  <1> QED BY <1>1, SignInInvariant, PTL
=============================================================================
