----------------------------- MODULE MCAudioTap -----------------------------
(***************************************************************************)
(* FFAudioTap for TLC: three sources, one of them without audio, that two  *)
(* names go round between.                                                 *)
(***************************************************************************)
EXTENDS FFAudioTap

CONSTANTS mic, deck, text, one, two

MCSrcs == {mic, deck, text}
MCNames == {one, two}
MCHasAudio == [s \in MCSrcs |-> s # text]
=============================================================================
