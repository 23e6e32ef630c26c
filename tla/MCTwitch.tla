------------------------------ MODULE MCTwitch ------------------------------
(***************************************************************************)
(* FFTwitch for TLC.  One unit of time is the shortest limit: a session    *)
(* not welcomed for more than one unit, silent for more than two, or       *)
(* changing over for more than one is given up.                            *)
(***************************************************************************)
EXTENDS FFTwitch

CONSTANTS c1, c2, c3, home, resume

MCConns == {c1, c2, c3}
MCUrls == {home, resume}
MCKeepalives == {1}
=============================================================================
