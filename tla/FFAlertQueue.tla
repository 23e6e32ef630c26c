---------------------------- MODULE FFAlertQueue ----------------------------
(***************************************************************************)
(* The ring of pending alerts (ff-alert-queue.c), as operators on the      *)
(* struct: its callers hold the alert source's qlock around each of them.  *)
(***************************************************************************)
EXTENDS Naturals, Sequences

CONSTANTS
  Events,    \* the events that may be queued
  NoEvent,   \* the zeroed struct ff_alert_event of an unused slot
  QueueMax   \* FF_ALERT_QUEUE_MAX

ASSUME QueueAssumption == QueueMax \in Nat \ {0} /\ NoEvent \notin Events

Slots == 0 .. QueueMax - 1

Queues == [items : [Slots -> Events \union {NoEvent}], head : Slots,
           count : 0..QueueMax, dropped : Nat]

EmptyQueue ==
  [items |-> [i \in Slots |-> NoEvent], head |-> 0, count |-> 0, dropped |-> 0]

Full(q) == q.count >= QueueMax

\* Mutant: a full queue makes room by losing its oldest.
PushOverOldest(q, e) ==
  [q EXCEPT !.items[(q.head + q.count) % QueueMax] = e,
            !.head = IF Full(q) THEN (@ + 1) % QueueMax ELSE @,
            !.count = IF Full(q) THEN @ ELSE @ + 1]

\* A full queue refuses the newest and counts it.
Push(q, e) ==
  IF Full(q)
  THEN [q EXCEPT !.dropped = @ + 1]
  ELSE [q EXCEPT !.items[(q.head + q.count) % QueueMax] = e, !.count = @ + 1]

Oldest(q) == q.items[q.head]

Pop(q) == [q EXCEPT !.head = (@ + 1) % QueueMax, !.count = @ - 1]

\* Clearing forgets what waits, not how many were ever dropped.
Clear(q) == [q EXCEPT !.head = 0, !.count = 0]

\* The alerts waiting, oldest first.
Waiting(q) == [i \in 1..q.count |-> q.items[(q.head + (i - 1)) % QueueMax]]
=============================================================================
