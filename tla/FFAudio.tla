------------------------------- MODULE FFAudio -------------------------------
(***************************************************************************)
(* An instance's audio from the callbacks to the screen: the tap of        *)
(* ff-audio.c, whose callbacks publish through the handoff of              *)
(* ff-handoff.c, and the threads that read it.                             *)
(*                                                                         *)
(* FFHandoff has one writer.  Here ff_handoff_publish is run by whichever  *)
(* callbacks run, each with its own copy of the counter, and that they are *)
(* one writer is something to show: this module implements FFHandoff.      *)
(*                                                                         *)
(* A callback makes one frame at most; one that makes several is several   *)
(* that follow each other.                                                 *)
(***************************************************************************)
EXTENDS FFHandoff

CONSTANTS Srcs, Master, Names, NoName, None, HasAudio, MaxRenames  \* those of FFAudioTap

VARIABLES
  mode, sourceName, weak, masterConnected, at, want, life, registered, feeding, src,
  raised, renames, strayed,  \* those of FFAudioTap, with at for its pc
  step,  \* of each callback in ff_handoff_publish: "out", "loaded" or "odd"
  base,  \* its s: the counter as it was loaded
  done   \* the words it has copied in

T == INSTANCE FFAudioTap WITH pc <- at

ASSUME AudioAssumption == T!AudioTapAssumption

Feeds == T!Feeds
tapVars == <<mode, sourceName, weak, masterConnected, at, want, life, registered, feeding, src,
             raised, renames, strayed>>
publishVars == <<step, base, done>>
audioVars == <<vars, tapVars, publishVars>>

AudioInit ==
  /\ Init
  /\ T!Init
  /\ step = [f \in Feeds |-> "out"]
  /\ base = [f \in Feeds |-> 0]
  /\ done = [f \in Feeds |-> {}]

----------------------------------------------------------------------------
(* ff_handoff_publish, on the thread of a callback *)

\* The analysis made no frame.
NoFrame(f) ==
  /\ step[f] = "out"
  /\ T!Publish(f)
  /\ UNCHANGED vars
  /\ UNCHANGED publishVars

\* s = h->seq
LoadSeq(f) ==
  /\ feeding[f] = "publish" /\ step[f] = "out"
  /\ seq + 2 <= MaxSeq
  /\ step' = [step EXCEPT ![f] = "loaded"]
  /\ base' = [base EXCEPT ![f] = seq]
  /\ UNCHANGED done
  /\ UNCHANGED vars
  /\ UNCHANGED tapVars

\* h->seq = s + 1
StoreOdd(f) ==
  /\ step[f] = "loaded"
  /\ NoFullLap
  /\ seq' = base[f] + 1
  /\ step' = [step EXCEPT ![f] = "odd"]
  /\ UNCHANGED <<slot, stored, base, done>>
  /\ UNCHANGED readerVars
  /\ UNCHANGED tapVars

\* Mutant: the slot of the newest frame, not of the next one.
TargetInUse(f) == (U32(base[f]) \div 2) % 2

Target(f) == (U32(base[f] + 2) \div 2) % 2

\* One word of h->slot[((s + 2) / 2) & 1] = *f, before the odd store in a build
\* that does not keep it behind.
StoreWord(f, w) ==
  /\ step[f] = "odd" \/ (step[f] = "loaded" /\ ~StoresInOrder)
  /\ w \notin done[f]
  /\ slot' = [slot EXCEPT ![Target(f)][w] = base[f] \div 2 + 1]
  /\ done' = [done EXCEPT ![f] = @ \union {w}]
  /\ stored' = stored \union {w}
  /\ UNCHANGED <<seq, step, base>>
  /\ UNCHANGED readerVars
  /\ UNCHANGED tapVars

\* h->seq = s + 2, and the callback is left
StoreEven(f) ==
  /\ step[f] = "odd"
  /\ done[f] = Words
  /\ NoFullLap
  /\ seq' = base[f] + 2
  /\ stored' = {}
  /\ step' = [step EXCEPT ![f] = "out"]
  /\ base' = [base EXCEPT ![f] = 0]
  /\ done' = [done EXCEPT ![f] = {}]
  /\ T!Publish(f)
  /\ UNCHANGED slot
  /\ UNCHANGED readerVars

Publish(f) ==
  \/ NoFrame(f)
  \/ LoadSeq(f)
  \/ StoreOdd(f)
  \/ \E w \in Words : StoreWord(f, w)
  \/ StoreEven(f)

----------------------------------------------------------------------------
(* The rest of the tap, and the readers *)

\* ff_audio_destroy: nobody is inside ff_audio_read by now either.
DestroySignals == T!DestroySignals /\ \A r \in Readers : pc[r] = "idle"

Tap ==
  /\ \/ T!Scene
     \/ \E f \in Feeds : T!FeedBegins(f) \/ T!Analyse(f)
     \/ T!OnSignal
     \/ T!Describe
     \/ \E n \in Names \union {NoName} : T!Configure("source", n)
     \/ T!Configure("master", NoName)
     \/ T!ConfigureSteps
     \/ DestroySignals
     \/ T!DestroyConnections
     \/ T!DestroyRest
  /\ UNCHANGED vars
  /\ UNCHANGED publishVars

\* ff_audio_read
BeginRead(r) ==
  /\ life = "live"
  /\ Call(r)
  /\ UNCHANGED tapVars
  /\ UNCHANGED publishVars

ReadStep(r) ==
  /\ InCall(r)
  /\ UNCHANGED tapVars
  /\ UNCHANGED publishVars

----------------------------------------------------------------------------

AudioNext ==
  \/ Tap
  \/ \E f \in Feeds : Publish(f)
  \/ \E r \in Readers : BeginRead(r) \/ ReadStep(r)

AudioSpec == AudioInit /\ [][AudioNext]_audioVars

\* A reader that is inside the call keeps running.  Nothing is assumed of a callback,
\* which may be descheduled for ever between any two stores.
FairAudioSpec == AudioSpec /\ \A r \in Readers : WF_audioVars(ReadStep(r))

----------------------------------------------------------------------------
(* Properties *)

\* Whatever sources come, go and change names, and whichever callbacks run, the
\* counter and the slots are written as one writer writes them, one frame at a time:
\* what ff_handoff_publish takes for granted and ff_audio.c has to provide.
OneWriter == Spec

----------------------------------------------------------------------------
(* The invariant behind OneWriter *)

\* A callback that publishes is where FFHandoff's writer is, with the same words
\* copied in; when none publishes, no frame is in flight.
PublishInv ==
  /\ seq \in Nat
  /\ step \in [Feeds -> {"out", "loaded", "odd"}]
  /\ base \in [Feeds -> Nat]
  /\ done \in [Feeds -> SUBSET Words]
  /\ \A f \in Feeds :
       /\ step[f] = "out" => done[f] = {}
       /\ step[f] # "out" =>
            /\ feeding[f] = "publish"
            /\ base[f] % 2 = 0 /\ base[f] + 2 <= MaxSeq
            /\ done[f] = stored
       /\ step[f] = "loaded" => seq = base[f] /\ (StoresInOrder => stored = {})
       /\ step[f] = "odd" => seq = base[f] + 1
  /\ (\A f \in Feeds : step[f] = "out") => seq % 2 = 0 /\ stored = {}
=============================================================================
