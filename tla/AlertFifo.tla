----------------------------- MODULE AlertFifo -----------------------------
(***************************************************************************)
(* What the alert overlay promises, with no ring, lock, timer or art: a    *)
(* bounded first-in first-out line of alerts and one alert on the air at a *)
(* time.  An alert that finds the line full is refused and counted, never  *)
(* put in place of one that is already waiting.                            *)
(***************************************************************************)
EXTENDS Naturals, Sequences

CONSTANTS Events, NoEvent, Capacity

VARIABLES line, refused, onAir

fifoVars == <<line, refused, onAir>>

Init ==
  /\ line = <<>>
  /\ refused = 0
  /\ onAir = NoEvent

Join(e) ==
  /\ Len(line) < Capacity
  /\ line' = Append(line, e)
  /\ UNCHANGED <<refused, onAir>>

Refuse ==
  /\ Len(line) = Capacity
  /\ refused' = refused + 1
  /\ UNCHANGED <<line, onAir>>

\* The next alert may follow the last one without a gap.
Air ==
  /\ line # <<>>
  /\ onAir' = Head(line)
  /\ line' = Tail(line)
  /\ UNCHANGED refused

Finish ==
  /\ onAir # NoEvent
  /\ onAir' = NoEvent
  /\ UNCHANGED <<line, refused>>

\* The streamer empties the line; the alert on the air is left alone.
ClearLine ==
  /\ line' = <<>>
  /\ UNCHANGED <<refused, onAir>>

Next == (\E e \in Events : Join(e)) \/ Refuse \/ Air \/ Finish \/ ClearLine

Spec == Init /\ [][Next]_fifoVars
=============================================================================
