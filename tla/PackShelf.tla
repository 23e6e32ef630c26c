------------------------------ MODULE PackShelf ------------------------------
(***************************************************************************)
(* What installing a pack promises: each id's place on the shelf is empty  *)
(* or holds one version, versions are exchanged by setting the old one     *)
(* aside first, and the last copy of an installed pack is never thrown     *)
(* away.  FFPackInstall is shown to implement it, crashes included.        *)
(***************************************************************************)
CONSTANTS
  Ids,       \* the packs
  Versions,  \* what may be installed
  Empty      \* nothing on the shelf

VARIABLES
  shelf,  \* what a scan finds in place, by id
  aside   \* the whole copies that stand beside it, by id

vars == <<shelf, aside>>

Init ==
  /\ shelf = [id \in Ids |-> Empty]
  /\ aside = [id \in Ids |-> {}]

Put(id, v) ==
  /\ shelf[id] = Empty
  /\ shelf' = [shelf EXCEPT ![id] = v]
  /\ \/ UNCHANGED aside
     \/ aside' = [aside EXCEPT ![id] = @ \ {v}]

SetAside(id) ==
  /\ shelf[id] # Empty
  /\ shelf' = [shelf EXCEPT ![id] = Empty]
  /\ aside' = [aside EXCEPT ![id] = @ \union {shelf[id]}]

ThrowAway(id, v) ==
  /\ shelf[id] # Empty \/ aside[id] \ {v} # {}
  /\ aside' = [aside EXCEPT ![id] = @ \ {v}]
  /\ UNCHANGED shelf

Next ==
  \E id \in Ids :
    \/ SetAside(id)
    \/ \E v \in Versions : Put(id, v) \/ ThrowAway(id, v)

Spec == Init /\ [][Next]_vars
=============================================================================
