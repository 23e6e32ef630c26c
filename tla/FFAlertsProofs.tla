--------------------------- MODULE FFAlertsProofs ---------------------------
(***************************************************************************)
(* For a queue of any size and any events, settings and presets: the ring  *)
(* is a queue, and the alert overlay implements AlertFifo.                 *)
(***************************************************************************)
EXTENDS FFAlerts, TLAPS, SequenceTheorems

----------------------------------------------------------------------------
(* The ring *)

\* Positions on a ring of M slots, less than one turn apart: the modulus is a
\* subtraction or nothing.
LEMMA OneTurn ==
  ASSUME NEW M \in Nat \ {0}, NEW h \in 0..M-1, NEW i \in 0..M
  PROVE  (h + i) % M = IF h + i < M THEN h + i ELSE h + i - M
  <1> DEFINE n == h + i
  <1>1. n \in Nat /\ n < M + M OBVIOUS
  <1>2. n = (n \div M) * M + (n % M) BY <1>1
  <1>3. n \div M \in Nat /\ n % M \in 0..M-1 BY <1>1
  <1>4. CASE n \div M = 0 BY <1>1, <1>2, <1>3, <1>4
  <1>5. CASE n \div M = 1 BY <1>1, <1>2, <1>3, <1>5
  <1>6. CASE n \div M > 1
    <2>1. (n \div M) * M >= 2 * M BY <1>1, <1>3, <1>6
    <2> QED BY <1>1, <1>2, <1>3, <2>1
  <1> QED BY <1>3, <1>4, <1>5, <1>6

\* A slot is its own position.
LEMMA AtHead == ASSUME NEW M \in Nat \ {0}, NEW h \in 0..M-1 PROVE (h + (1 - 1)) % M = h
  <1>1. 0 \in 0..M OBVIOUS
  <1>2. (h + 0) % M = IF h + 0 < M THEN h + 0 ELSE h + 0 - M BY <1>1, OneTurn
  <1> QED BY <1>2

\* A position is a slot.
LEMMA RingSlot ==
  ASSUME NEW M \in Nat \ {0}, NEW h \in 0..M-1, NEW i \in 0..M
  PROVE  (h + i) % M \in 0..M-1
  BY OneTurn

\* The position after the last of c waiting is none of theirs.
LEMMA RingApart ==
  ASSUME NEW M \in Nat \ {0}, NEW h \in 0..M-1, NEW c \in 0..M-1, NEW i \in 0..M-1, i < c
  PROVE  (h + i) % M # (h + c) % M
  <1>1. i \in 0..M /\ c \in 0..M OBVIOUS
  <1>2. (h + i) % M = IF h + i < M THEN h + i ELSE h + i - M BY <1>1, OneTurn
  <1>3. (h + c) % M = IF h + c < M THEN h + c ELSE h + c - M BY <1>1, OneTurn
  <1> QED BY <1>2, <1>3

\* Counting from the next slot is counting one further.
LEMMA RingNext ==
  ASSUME NEW M \in Nat \ {0}, NEW h \in 0..M-1, NEW i \in 0..M-1
  PROVE  (((h + 1) % M) + i) % M = (h + (i + 1)) % M
  <1> DEFINE g == (h + 1) % M
  <1>0. 1 \in 0..M /\ i \in 0..M /\ i + 1 \in 0..M OBVIOUS
  <1>1. g = IF h + 1 < M THEN h + 1 ELSE h + 1 - M BY <1>0, OneTurn
  <1>2. g \in 0..M-1 BY <1>1
  <1> HIDE DEF g
  <1>3. (g + i) % M = IF g + i < M THEN g + i ELSE g + i - M BY <1>0, <1>2, OneTurn
  <1>4. (h + (i + 1)) % M = IF h + (i + 1) < M THEN h + (i + 1) ELSE h + (i + 1) - M
    BY <1>0, OneTurn
  <1>5. (g + i) % M = (h + (i + 1)) % M BY <1>1, <1>2, <1>3, <1>4
  <1> QED BY <1>5 DEF g

Alert == Events \union {NoEvent}

\* The fields of a queue, one by one.
LEMMA QueueFields ==
  ASSUME NEW q \in Queues
  PROVE  /\ QueueMax \in Nat \ {0}
         /\ q.head \in 0..QueueMax - 1
         /\ q.count \in 0..QueueMax
         /\ q.dropped \in Nat
         /\ q.items \in [0..QueueMax - 1 -> Alert]
  BY QueueAssumption DEF Queues, Slots, Alert

\* What waits is a sequence as long as the count.
LEMMA WaitingIsSeq ==
  ASSUME NEW q \in Queues
  PROVE  /\ Waiting(q) \in Seq(Alert)
         /\ Len(Waiting(q)) = q.count
         /\ \A i \in 1..q.count : Waiting(q)[i] = q.items[(q.head + (i - 1)) % QueueMax]
  <1>1. q.count \in Nat BY QueueFields
  <1>2. ASSUME NEW i \in 1..q.count
        PROVE  q.items[(q.head + (i - 1)) % QueueMax] \in Alert
    <2>1. i - 1 \in 0..QueueMax BY QueueFields
    <2>2. (q.head + (i - 1)) % QueueMax \in 0..QueueMax - 1 BY <2>1, QueueFields, RingSlot
    <2> QED BY <2>2, QueueFields
  <1>3. Waiting(q) \in [1..q.count -> Alert] BY <1>2 DEF Waiting
  <1>4. Waiting(q) \in Seq(Alert) BY <1>1, <1>3, SeqDef
  <1>5. DOMAIN Waiting(q) = 1..q.count BY DEF Waiting
  <1>6. Len(Waiting(q)) = q.count BY <1>1, <1>4, <1>5, LenProperties
  <1> QED BY <1>4, <1>6 DEF Waiting

\* Two sequences of the same length and the same elements.
LEMMA SameSeq ==
  ASSUME NEW n \in Nat, NEW a \in Seq(Alert), NEW b \in Seq(Alert), Len(a) = n, Len(b) = n,
         \A i \in 1..n : a[i] = b[i]
  PROVE  a = b
  BY SeqEqual

\* A queue with room takes an event at its end; a full one refuses it.
LEMMA PushAppends ==
  ASSUME NEW q \in Queues, NEW e \in Events
  PROVE  /\ Push(q, e) \in Queues
         /\ ~Full(q) => /\ Waiting(Push(q, e)) = Append(Waiting(q), e)
                        /\ Push(q, e).dropped = q.dropped
         /\ Full(q) => /\ Waiting(Push(q, e)) = Waiting(q)
                       /\ Push(q, e).dropped = q.dropped + 1
  <1>1. CASE Full(q)
    <2>1. Push(q, e) = [q EXCEPT !.dropped = @ + 1] BY <1>1 DEF Push
    <2>2. Push(q, e) \in Queues BY <2>1 DEF Queues
    <2>3. Waiting(Push(q, e)) = Waiting(q) BY <2>1 DEF Waiting, Queues
    <2>4. Push(q, e).dropped = q.dropped + 1 BY <2>1 DEF Queues
    <2> QED BY <1>1, <2>2, <2>3, <2>4
  <1>2. CASE ~Full(q)
    <2> DEFINE end == (q.head + q.count) % QueueMax
               p == Push(q, e)
    <2>1. q.count \in 0..QueueMax - 1 BY <1>2, QueueFields DEF Full
    <2>2. end \in 0..QueueMax - 1 BY <2>1, QueueFields, RingSlot
    <2> HIDE DEF end
    <2>3. p = [q EXCEPT !.items[end] = e, !.count = @ + 1] BY <1>2 DEF Push, end
    <2>4. /\ p.head = q.head
          /\ p.count = q.count + 1
          /\ p.dropped = q.dropped
          /\ p.items = [q.items EXCEPT ![end] = e]
      BY <2>3 DEF Queues
    <2>5. p.items \in [Slots -> Events \union {NoEvent}]
      BY <2>2, <2>4, QueueFields DEF Slots, Alert
    <2>6. q.count + 1 \in 0..QueueMax BY <2>1, QueueFields
    <2>7. p \in Queues BY <2>3, <2>5, <2>4, <2>6 DEF Queues
    <2> HIDE DEF p
    <2>8. Waiting(q) \in Seq(Alert) /\ Len(Waiting(q)) = q.count BY WaitingIsSeq
    <2>9. e \in Alert BY DEF Alert
    <2>10. /\ Append(Waiting(q), e) \in Seq(Alert)
           /\ Len(Append(Waiting(q), e)) = q.count + 1
           /\ \A i \in 1..q.count : Append(Waiting(q), e)[i] = Waiting(q)[i]
           /\ Append(Waiting(q), e)[q.count + 1] = e
      BY <2>8, <2>9, AppendProperties
    <2>11. ASSUME NEW i \in 1..q.count + 1
           PROVE  Waiting(p)[i] = Append(Waiting(q), e)[i]
      <3> DEFINE at == (q.head + (i - 1)) % QueueMax
      <3>1. i - 1 \in 0..QueueMax - 1 /\ i - 1 \in 0..QueueMax BY <2>1, QueueFields
      <3>2. Waiting(p)[i] = p.items[at] BY <2>4, <2>7, WaitingIsSeq
      <3>3. at \in 0..QueueMax - 1 BY <3>1, QueueFields, RingSlot
      <3>4. CASE i = q.count + 1
        <4>1. i - 1 = q.count BY <2>1, <3>4, QueueFields
        <4>2. at = end BY <4>1 DEF end
        <4>3. Waiting(p)[i] = e BY <2>2, <2>4, <3>2, <4>2, QueueFields
        <4> QED BY <2>10, <3>4, <4>3
      <3>5. CASE i # q.count + 1
        <4>1. i \in 1..q.count /\ i - 1 < q.count BY <2>1, <3>5, QueueFields
        <4>2. at # end BY <2>1, <3>1, <4>1, QueueFields, RingApart DEF end
        <4>3. Waiting(p)[i] = q.items[at] BY <2>2, <2>4, <3>2, <3>3, <4>2, QueueFields
        <4>4. Waiting(q)[i] = q.items[at] BY <4>1, WaitingIsSeq
        <4> QED BY <2>10, <4>1, <4>3, <4>4
      <3> QED BY <3>4, <3>5
    <2>12. Waiting(p) \in Seq(Alert) /\ Len(Waiting(p)) = q.count + 1
      BY <2>4, <2>7, WaitingIsSeq
    <2>13. q.count + 1 \in Nat BY <2>6, QueueFields
    <2>14. Waiting(p) = Append(Waiting(q), e)
      BY <2>10, <2>11, <2>12, <2>13, SameSeq
    <2> QED BY <1>2, <2>4, <2>7, <2>14 DEF p
  <1> QED BY <1>1, <1>2

\* Popping takes the front off.
LEMMA PopTakesFront ==
  ASSUME NEW q \in Queues, q.count > 0
  PROVE  /\ Pop(q) \in Queues
         /\ Pop(q).dropped = q.dropped
         /\ Waiting(q) # <<>>
         /\ Oldest(q) = Head(Waiting(q))
         /\ Waiting(Pop(q)) = Tail(Waiting(q))
  <1> DEFINE p == Pop(q)
  <1>1. q.count \in 1..QueueMax /\ q.count - 1 \in 0..QueueMax /\ q.count - 1 \in Nat
    BY QueueFields
  <1>2. /\ p.head = (q.head + 1) % QueueMax
        /\ p.count = q.count - 1
        /\ p.items = q.items
        /\ p.dropped = q.dropped
    BY DEF Pop, Queues
  <1>3. 1 \in 0..QueueMax /\ 0 \in 0..QueueMax BY QueueFields
  <1>4. p.head \in Slots BY <1>2, <1>3, QueueFields, RingSlot DEF Slots
  <1>5. p \in Queues
    <2>1. p = [q EXCEPT !.head = p.head, !.count = q.count - 1]
      BY <1>2 DEF Pop, Queues
    <2> QED BY <1>1, <1>2, <1>4, <2>1 DEF Queues
  <1> HIDE DEF p
  <1>6. Waiting(q) \in Seq(Alert) /\ Len(Waiting(q)) = q.count BY WaitingIsSeq
  <1>7. Waiting(q) # <<>> BY <1>1, <1>6
  <1>8. Oldest(q) = Head(Waiting(q))
    <2>1. Head(Waiting(q)) = Waiting(q)[1] BY <1>6, <1>7, HeadTailProperties
    <2>2. 1 \in 1..q.count BY <1>1
    <2>3. Waiting(q)[1] = q.items[(q.head + (1 - 1)) % QueueMax] BY <2>2, WaitingIsSeq
    <2>4. (q.head + (1 - 1)) % QueueMax = q.head BY QueueFields, AtHead
    <2> QED BY <2>1, <2>3, <2>4 DEF Oldest
  <1>9. /\ Tail(Waiting(q)) \in Seq(Alert)
        /\ Len(Tail(Waiting(q))) = q.count - 1
        /\ \A i \in 1..q.count - 1 : Tail(Waiting(q))[i] = Waiting(q)[i + 1]
    BY <1>6, <1>7, HeadTailProperties
  <1>10. ASSUME NEW i \in 1..q.count - 1
         PROVE  Waiting(p)[i] = Tail(Waiting(q))[i]
    <2>1. i - 1 \in 0..QueueMax - 1 /\ i + 1 \in 1..q.count BY <1>1, QueueFields
    <2>2. Waiting(p)[i] = p.items[(p.head + (i - 1)) % QueueMax]
      BY <1>2, <1>5, WaitingIsSeq
    <2>3. (p.head + (i - 1)) % QueueMax = (q.head + ((i - 1) + 1)) % QueueMax
      BY <1>2, <2>1, QueueFields, RingNext
    <2>4. (i - 1) + 1 = (i + 1) - 1 BY <2>1
    <2>5. Waiting(q)[i + 1] = q.items[(q.head + ((i + 1) - 1)) % QueueMax]
      BY <2>1, WaitingIsSeq
    <2> QED BY <1>2, <1>9, <2>2, <2>3, <2>4, <2>5
  <1>11. Waiting(p) \in Seq(Alert) /\ Len(Waiting(p)) = q.count - 1
    BY <1>2, <1>5, WaitingIsSeq
  <1>12. Waiting(p) = Tail(Waiting(q)) BY <1>1, <1>9, <1>10, <1>11, SameSeq
  <1> QED BY <1>2, <1>5, <1>7, <1>8, <1>12 DEF p

\* Clearing leaves nothing waiting, and keeps the count of the refused.
LEMMA ClearEmpties ==
  ASSUME NEW q \in Queues
  PROVE  Clear(q) \in Queues /\ Waiting(Clear(q)) = <<>> /\ Clear(q).dropped = q.dropped
  <1>1. 0 \in Slots /\ 0 \in 0..QueueMax BY QueueFields DEF Slots
  <1>2. Clear(q) \in Queues /\ Clear(q).count = 0 /\ Clear(q).dropped = q.dropped
    BY <1>1 DEF Clear, Queues
  <1> QED BY <1>2, WaitingIsSeq

----------------------------------------------------------------------------
(* The overlay *)

\* The initial states, for every invariant at once.
LEMMA AlertsInit == Init => TypeOK /\ LockInv /\ ArtIsWanted /\ SilentWhenIdle
  <1> SUFFICES ASSUME Init PROVE TypeOK /\ LockInv /\ ArtIsWanted /\ SilentWhenIdle
    OBVIOUS
  <1> USE AlertsAssumption, QueueAssumption DEF Init
  <1>1. EmptyQueue \in Queues /\ EmptyQueue.count = 0
    BY DEF EmptyQueue, Queues, Slots
  <1>2. queue = EmptyQueue /\ queue.count = 0 /\ 1..queue.count = {} BY <1>1
  <1>3. playing = FALSE /\ artDirty \in BOOLEAN /\ sounding \in BOOLEAN OBVIOUS
  <1>4. inCall \in [Callers -> Events \union {NoEvent}] /\ 0 \in Nat OBVIOUS
  <1>5. TypeOK BY <1>1, <1>2, <1>3, <1>4 DEF TypeOK
  <1>6. LockInv BY DEF LockInv, Callers
  <1>7. ArtIsWanted BY DEF ArtIsWanted, Layers
  <1>8. SilentWhenIdle BY DEF SilentWhenIdle
  <1> QED BY <1>5, <1>6, <1>7, <1>8

\* An event pushed or still waiting is an event.
LEMMA WaitingStaysEvents ==
  ASSUME NEW q \in Queues, \A i \in 1..q.count : Waiting(q)[i] # NoEvent,
         NEW e \in Events
  PROVE  /\ \A i \in 1..Push(q, e).count : Waiting(Push(q, e))[i] # NoEvent
         /\ q.count > 0 => /\ \A i \in 1..Pop(q).count : Waiting(Pop(q))[i] # NoEvent
                           /\ Oldest(q) \in Events
  <1>1. /\ Waiting(q) \in Seq(Alert) /\ Len(Waiting(q)) = q.count
        /\ q.count \in Nat /\ e # NoEvent /\ e \in Alert
    BY WaitingIsSeq, QueueFields, QueueAssumption DEF Alert
  <1>2. /\ Push(q, e) \in Queues /\ Waiting(Push(q, e)) \in Seq(Alert)
        /\ Len(Waiting(Push(q, e))) = Push(q, e).count
    BY PushAppends, WaitingIsSeq
  <1>3. ASSUME NEW i \in 1..Push(q, e).count PROVE Waiting(Push(q, e))[i] # NoEvent
    <2>1. CASE Full(q) BY <1>1, <1>2, <1>3, <2>1, PushAppends
    <2>2. CASE ~Full(q)
      <3>1. Waiting(Push(q, e)) = Append(Waiting(q), e) BY <2>2, PushAppends
      <3>2. /\ Len(Append(Waiting(q), e)) = q.count + 1
            /\ \A j \in 1..q.count : Append(Waiting(q), e)[j] = Waiting(q)[j]
            /\ Append(Waiting(q), e)[q.count + 1] = e
        BY <1>1, AppendProperties
      <3> QED BY <1>1, <1>2, <1>3, <3>1, <3>2
    <2> QED BY <2>1, <2>2
  <1>4. ASSUME q.count > 0
        PROVE  /\ \A i \in 1..Pop(q).count : Waiting(Pop(q))[i] # NoEvent
               /\ Oldest(q) \in Events
    <2>1. /\ Pop(q) \in Queues /\ Len(Waiting(Pop(q))) = Pop(q).count
          /\ Waiting(Pop(q)) = Tail(Waiting(q)) /\ Oldest(q) = Head(Waiting(q))
      BY <1>4, PopTakesFront, WaitingIsSeq
    <2>2. Waiting(q) # <<>> BY <1>4, PopTakesFront
    <2>3. /\ Len(Tail(Waiting(q))) = q.count - 1
          /\ \A i \in 1..q.count - 1 : Tail(Waiting(q))[i] = Waiting(q)[i + 1]
          /\ Head(Waiting(q)) = Waiting(q)[1]
      BY <1>1, <2>2, HeadTailProperties
    <2>4. Waiting(q)[1] \in Alert /\ Waiting(q)[1] # NoEvent
      BY <1>1, <1>4, ElementOfSeq
    <2>5. Oldest(q) \in Events BY <2>1, <2>3, <2>4 DEF Alert
    <2> QED BY <1>1, <2>1, <2>3, <2>5
  <1> QED BY <1>3, <1>4

\* Every step keeps the types, and the queue's alerts real ones.
LEMMA AlertsTypeStep == TypeOK /\ [Next]_vars => TypeOK'
  <1> SUFFICES ASSUME TypeOK, [Next]_vars PROVE TypeOK' OBVIOUS
  <1> USE AlertsAssumption, QueueAssumption DEF TypeOK, screenVars
  <1>1. ASSUME NEW c \in Callers, NEW e \in Events, Offer(c, e) PROVE TypeOK'
    BY <1>1 DEF Offer
  <1>2. ASSUME NEW c \in Callers, Enqueue(c) PROVE TypeOK'
    <2>1. inCall[c] \in Events BY <1>2 DEF Enqueue
    <2>2. Push(queue, inCall[c]) \in Queues BY <2>1, PushAppends
    <2>3. \A i \in 1..queue'.count : Waiting(queue')[i] # NoEvent
      BY <1>2, <2>1, WaitingStaysEvents DEF Enqueue
    <2> QED BY <1>2, <2>2, <2>3 DEF Enqueue
  <1>3. CASE Skip BY <1>3 DEF Skip
  <1>4. CASE OnClear
    <2>1. Clear(queue) \in Queues /\ Clear(queue).count = 0
      BY ClearEmpties DEF Clear, Queues
    <2> QED BY <1>4, <2>1 DEF OnClear
  <1>5. ASSUME NEW new \in Settings, AlertUpdate(new) PROVE TypeOK'
    BY <1>5 DEF AlertUpdate
  <1>6. CASE TickLoad BY <1>6 DEF TickLoad
  <1>7. CASE TickOn BY <1>7 DEF TickOn, Ticking
  <1>8. CASE TickIdle BY <1>8 DEF TickIdle
  <1>9. CASE TickStart
    <2>1. queue.count > 0 /\ queue' = Pop(queue) /\ showing' = Oldest(queue)
      BY <1>9 DEF TickStart, StartAlert
    <2>2. PICK e \in Events : TRUE
      <3>1. 1 \in 1..queue.count BY <2>1, QueueFields
      <3>2. Waiting(queue)[1] \in Alert /\ Waiting(queue)[1] # NoEvent
        BY <3>1, WaitingIsSeq, ElementOfSeq
      <3> QED BY <3>2 DEF Alert
    <2>3. Oldest(queue) \in Events /\ \A i \in 1..queue'.count : Waiting(queue')[i] # NoEvent
      BY <2>1, <2>2, WaitingStaysEvents
    <2>4. Pop(queue) \in Queues BY <2>1, PopTakesFront
    <2> QED BY <1>9, <2>1, <2>3, <2>4 DEF TickStart, StartAlert
  <1>10. CASE Render BY <1>10 DEF Render, Layers
  <1>11. CASE DestroyChildren BY <1>11 DEF DestroyChildren
  <1>12. CASE DestroyJoin BY <1>12 DEF DestroyJoin
  <1>13. CASE DestroyRest BY <1>13 DEF DestroyRest
  <1>14. CASE UNCHANGED vars BY <1>14 DEF vars
  <1> QED
    BY <1>1, <1>2, <1>3, <1>4, <1>5, <1>6, <1>7, <1>8, <1>9, <1>10, <1>11, <1>12, <1>13,
       <1>14 DEF Next, Tick, Destroy

\* The types of the alert source hold in every state.
THEOREM AlertsTypeOK == Spec => []TypeOK
  <1>1. Init => TypeOK BY AlertsInit
  <1> QED BY <1>1, AlertsTypeStep, PTL DEF Spec

----------------------------------------------------------------------------
(* The art, the sound and the lock *)

\* A step that changes the pack, the wanted preset or the art leaves the load
\* pending or done.
LEMMA ArtStep == TypeOK /\ ArtIsWanted /\ [Next]_vars => ArtIsWanted'
  <1> SUFFICES ASSUME TypeOK, ArtIsWanted, [Next]_vars PROVE ArtIsWanted' OBVIOUS
  <1> USE DEF ArtIsWanted, Layers, screenVars
  <1>1. ASSUME NEW c \in Callers, NEW e \in Events, Offer(c, e) PROVE ArtIsWanted'
    BY <1>1 DEF Offer
  <1>2. ASSUME NEW c \in Callers, Enqueue(c) PROVE ArtIsWanted' BY <1>2 DEF Enqueue
  <1>3. CASE Skip BY <1>3 DEF Skip
  <1>4. CASE OnClear BY <1>4 DEF OnClear
  <1>5. ASSUME NEW new \in Settings, AlertUpdate(new) PROVE ArtIsWanted'
    BY <1>5 DEF AlertUpdate, TypeOK
  <1>6. CASE TickLoad BY <1>6 DEF TickLoad
  <1>7. CASE TickOn BY <1>7 DEF TickOn
  <1>8. CASE TickIdle BY <1>8 DEF TickIdle
  <1>9. CASE TickStart BY <1>9 DEF TickStart, StartAlert, TypeOK
  <1>10. CASE Render BY <1>10 DEF Render
  <1>11. CASE DestroyChildren BY <1>11 DEF DestroyChildren
  <1>12. CASE DestroyJoin BY <1>12 DEF DestroyJoin
  <1>13. CASE DestroyRest BY <1>13 DEF DestroyRest
  <1>14. CASE UNCHANGED vars BY <1>14 DEF vars
  <1> QED
    BY <1>1, <1>2, <1>3, <1>4, <1>5, <1>6, <1>7, <1>8, <1>9, <1>10, <1>11, <1>12, <1>13,
       <1>14 DEF Next, Tick, Destroy

\* Once loaded, the art is that of the alert and pack now chosen, for any
\* packs and settings.
THEOREM AlertsArtIsWanted == Spec => []ArtIsWanted
  <1>1. Init => ArtIsWanted BY AlertsInit
  <1> QED BY <1>1, ArtStep, AlertsTypeOK, PTL DEF Spec

\* Every step that ends an alert, frees the child or starts another sound.
LEMMA SoundStep == TypeOK /\ SilentWhenIdle /\ [Next]_vars => SilentWhenIdle'
  <1> SUFFICES ASSUME TypeOK, SilentWhenIdle, [Next]_vars PROVE SilentWhenIdle' OBVIOUS
  <1> USE DEF SilentWhenIdle, screenVars
  <1>1. ASSUME NEW c \in Callers, NEW e \in Events, Offer(c, e) PROVE SilentWhenIdle'
    BY <1>1 DEF Offer
  <1>2. ASSUME NEW c \in Callers, Enqueue(c) PROVE SilentWhenIdle' BY <1>2 DEF Enqueue
  <1>3. CASE Skip BY <1>3 DEF Skip
  <1>4. CASE OnClear BY <1>4 DEF OnClear
  <1>5. ASSUME NEW new \in Settings, AlertUpdate(new) PROVE SilentWhenIdle'
    BY <1>5 DEF AlertUpdate, EnsureSoundChild, TypeOK
  <1>6. CASE TickLoad BY <1>6 DEF TickLoad
  <1>7. CASE TickOn BY <1>7 DEF TickOn
  <1>8. CASE TickIdle BY <1>8 DEF TickIdle, AirFree, Ticking, TypeOK
  <1>9. CASE TickStart BY <1>9 DEF TickStart, StartAlert, EnsureSoundChild, TypeOK
  <1>10. CASE Render BY <1>10 DEF Render
  <1>11. CASE DestroyChildren BY <1>11 DEF DestroyChildren
  <1>12. CASE DestroyJoin BY <1>12 DEF DestroyJoin
  <1>13. CASE DestroyRest BY <1>13 DEF DestroyRest
  <1>14. CASE UNCHANGED vars BY <1>14 DEF vars
  <1> QED
    BY <1>1, <1>2, <1>3, <1>4, <1>5, <1>6, <1>7, <1>8, <1>9, <1>10, <1>11, <1>12, <1>13,
       <1>14 DEF Next, Tick, Destroy

\* No sound without its alert, whatever is skipped, edited or destroyed when.
THEOREM AlertsSilentWhenIdle == Spec => []SilentWhenIdle
  <1>1. Init => SilentWhenIdle BY AlertsInit
  <1> QED BY <1>1, SoundStep, AlertsTypeOK, PTL DEF Spec

\* No caller enters the queue's lock once alert_destroy is past it.
LEMMA LockStep == TypeOK /\ LockInv /\ [Next]_vars => LockInv'
  <1> SUFFICES ASSUME TypeOK, LockInv, [Next]_vars PROVE LockInv' OBVIOUS
  <1> USE AlertsAssumption DEF LockInv, screenVars, Callers
  <1>1. ASSUME NEW c \in Callers, NEW e \in Events, Offer(c, e) PROVE LockInv'
    BY <1>1 DEF Offer, TypeOK
  <1>2. ASSUME NEW c \in Callers, Enqueue(c) PROVE LockInv'
    BY <1>2 DEF Enqueue, TypeOK
  <1>3. CASE Skip BY <1>3 DEF Skip
  <1>4. CASE OnClear BY <1>4 DEF OnClear
  <1>5. ASSUME NEW new \in Settings, AlertUpdate(new) PROVE LockInv'
    BY <1>5 DEF AlertUpdate
  <1>6. CASE TickLoad BY <1>6 DEF TickLoad
  <1>7. CASE TickOn BY <1>7 DEF TickOn
  <1>8. CASE TickIdle BY <1>8 DEF TickIdle
  <1>9. CASE TickStart BY <1>9 DEF TickStart
  <1>10. CASE Render BY <1>10 DEF Render
  <1>11. CASE DestroyChildren BY <1>11 DEF DestroyChildren, UIFree
  <1>12. CASE DestroyJoin BY <1>12 DEF DestroyJoin
  <1>13. CASE DestroyRest BY <1>13 DEF DestroyRest
  <1>14. CASE UNCHANGED vars BY <1>14 DEF vars
  <1> QED
    BY <1>1, <1>2, <1>3, <1>4, <1>5, <1>6, <1>7, <1>8, <1>9, <1>10, <1>11, <1>12, <1>13,
       <1>14 DEF Next, Tick, Destroy

\* The lock outlives every call that takes it.
THEOREM AlertsLockOutlivesCallers == Spec => []LockOutlivesCallers
  <1>1. Init => LockInv BY AlertsInit
  <1>2. LockInv => LockOutlivesCallers BY DEF LockInv, LockOutlivesCallers, Callers
  <1> QED BY <1>1, <1>2, LockStep, AlertsTypeOK, PTL DEF Spec

----------------------------------------------------------------------------
(* The overlay is a bounded queue *)

\* The empty overlay is the empty line.
LEMMA FifoInit == Init => Fifo!Init
  <1> SUFFICES ASSUME Init PROVE Fifo!Init OBVIOUS
  <1>1. EmptyQueue \in Queues /\ EmptyQueue.count = 0 /\ EmptyQueue.dropped = 0
    BY QueueAssumption DEF EmptyQueue, Queues, Slots
  <1>2. Waiting(queue) = <<>> BY <1>1, WaitingIsSeq DEF Init
  <1> QED BY <1>1, <1>2 DEF Init, Fifo!Init

\* Every step of the three threads is a step of the line, or none.
LEMMA FifoStep == TypeOK /\ [Next]_vars => [Fifo!Next]_Fifo!fifoVars
  <1> SUFFICES ASSUME TypeOK, [Next]_vars PROVE [Fifo!Next]_Fifo!fifoVars OBVIOUS
  <1> USE DEF Fifo!fifoVars, screenVars
  <1> DEFINE Same == UNCHANGED <<queue, playing, showing>>
  <1>0. Same => UNCHANGED Fifo!fifoVars OBVIOUS
  <1>1. ASSUME NEW c \in Callers, NEW e \in Events, Offer(c, e) PROVE Same
    BY <1>1 DEF Offer
  <1>2. ASSUME NEW c \in Callers, Enqueue(c) PROVE Fifo!Next
    <2> DEFINE e == inCall[c]
    <2>1. e \in Events /\ queue \in Queues BY <1>2 DEF Enqueue, TypeOK
    <2>2. queue' = Push(queue, e) /\ playing' = playing /\ showing' = showing
      BY <1>2 DEF Enqueue
    <2>3. Len(Waiting(queue)) = queue.count BY <2>1, WaitingIsSeq
    <2>4. queue.count \in 0..QueueMax /\ QueueMax \in Nat BY <2>1, QueueFields
    <2> HIDE DEF e
    <2>5. CASE Full(queue)
      <3>1. queue.count = QueueMax BY <2>4, <2>5 DEF Full
      <3>2. Fifo!Refuse BY <2>1, <2>2, <2>3, <2>5, <3>1, PushAppends DEF Fifo!Refuse
      <3> QED BY <3>2 DEF Fifo!Next
    <2>6. CASE ~Full(queue)
      <3>1. queue.count < QueueMax BY <2>4, <2>6 DEF Full
      <3>2. Fifo!Join(e) BY <2>1, <2>2, <2>3, <2>6, <3>1, PushAppends DEF Fifo!Join
      <3> QED BY <2>1, <3>2 DEF Fifo!Next
    <2> QED BY <2>5, <2>6
  <1>3. CASE Skip BY <1>3, <1>0 DEF Skip
  <1>4. CASE OnClear
    <2>1. queue \in Queues BY DEF TypeOK
    <2>2. Fifo!ClearLine BY <1>4, <2>1, ClearEmpties DEF OnClear, Fifo!ClearLine
    <2> QED BY <2>2 DEF Fifo!Next
  <1>5. ASSUME NEW new \in Settings, AlertUpdate(new) PROVE Same
    BY <1>5 DEF AlertUpdate
  <1>6. CASE TickLoad BY <1>6, <1>0 DEF TickLoad
  <1>7. CASE TickOn BY <1>7, <1>0 DEF TickOn
  <1>8. CASE TickIdle
    <2>1. queue' = queue /\ showing' = showing /\ playing' = FALSE BY <1>8 DEF TickIdle
    <2>2. CASE playing
      <3>1. Fifo!Finish BY <2>1, <2>2 DEF Fifo!Finish, TypeOK
      <3> QED BY <3>1 DEF Fifo!Next
    <2>3. CASE ~playing BY <2>1, <2>3, <1>0 DEF TypeOK
    <2> QED BY <2>2, <2>3
  <1>9. CASE TickStart
    <2>1. queue \in Queues /\ queue.count > 0 /\ queue' = Pop(queue)
          /\ showing' = Oldest(queue) /\ playing' = TRUE
      BY <1>9 DEF TickStart, StartAlert, TypeOK
    <2>2. Fifo!Air BY <2>1, PopTakesFront DEF Fifo!Air
    <2> QED BY <2>2 DEF Fifo!Next
  <1>10. CASE Render BY <1>10, <1>0 DEF Render
  <1>11. CASE DestroyChildren BY <1>11, <1>0 DEF DestroyChildren
  <1>12. CASE DestroyJoin BY <1>12, <1>0 DEF DestroyJoin
  <1>13. CASE DestroyRest BY <1>13, <1>0 DEF DestroyRest
  <1>14. CASE UNCHANGED vars BY <1>14, <1>0 DEF vars
  <1> HIDE DEF Same
  <1> QED
    BY <1>0, <1>1, <1>2, <1>3, <1>4, <1>5, <1>6, <1>7, <1>8, <1>9, <1>10, <1>11, <1>12,
       <1>13, <1>14 DEF Next, Tick, Destroy

\* The alert overlay implements AlertFifo: alerts go on the air in the order
\* they took the lock, each once, and only a full line refuses.
THEOREM AlertsIsFifo == Spec => IsFifo
  <1> QED BY FifoInit, FifoStep, AlertsTypeOK, PTL DEF Spec, IsFifo, Fifo!Spec
=============================================================================
