------------------------------- MODULE MCSignIn -------------------------------
(***************************************************************************)
(* FFSignIn for TLC: two alert sources.                                    *)
(***************************************************************************)
EXTENDS FFSignIn
=============================================================================
