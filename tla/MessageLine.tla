---------------------------- MODULE MessageLine ----------------------------
(***************************************************************************)
(* What a WebSocket connection promises the layer above: the items the     *)
(* server completes -- messages and pings -- are dealt with one by one, in *)
(* the order it completed them, each whole and each once, until the        *)
(* connection is over.                                                     *)
(***************************************************************************)
EXTENDS Naturals, Sequences

VARIABLES items, handled, over

lineVars == <<items, handled, over>>

Init == items = <<>> /\ handled = <<>> /\ over = FALSE

Complete ==
  /\ Len(items') = Len(items) + 1
  /\ SubSeq(items', 1, Len(items)) = items
  /\ UNCHANGED <<handled, over>>

Handle ==
  /\ ~over
  /\ Len(handled) < Len(items)
  /\ handled' = Append(handled, items[Len(handled) + 1])
  /\ UNCHANGED <<items, over>>

Finish ==
  /\ ~over
  /\ over' = TRUE
  /\ UNCHANGED <<items, handled>>

Next == Complete \/ Handle \/ Finish

Spec == Init /\ [][Next]_lineVars
=============================================================================
