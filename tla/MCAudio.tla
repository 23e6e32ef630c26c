------------------------------- MODULE MCAudio -------------------------------
(***************************************************************************)
(* FFAudio for TLC: one source and the master mix, one reader, a frame of  *)
(* two words.  The modulus is 8, so that seq wraps inside a run and a      *)
(* reader that loads it then sees the zero that means "nothing published". *)
(***************************************************************************)
EXTENDS FFAudio

CONSTANTS bands, level, render, mic, one

MCWords == {bands, level}
MCReaders == {render}
MCSrcs == {mic}
MCNames == {one}
MCHasAudio == [x \in MCSrcs |-> TRUE]
=============================================================================
