------------------------------ MODULE MCWsConn ------------------------------
(***************************************************************************)
(* FFWsConn for TLC: payloads of up to two units, the largest with a       *)
(* longer header, and a buffer the two just fit in.  An answer of two      *)
(* units can come with two more behind it.                                 *)
(***************************************************************************)
EXTENDS FFWsConn

MCHeader == [n \in 0..MaxPayload |-> IF n = MaxPayload THEN 2 ELSE 1]
=============================================================================
