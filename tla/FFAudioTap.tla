----------------------------- MODULE FFAudioTap -----------------------------
(***************************************************************************)
(* Where an instance's audio comes from (ff-audio.c): the master mix, or a *)
(* source followed by name, with sources created, renamed and removed, and *)
(* audio callbacks running, on other threads.                              *)
(*                                                                         *)
(* Every callback that runs publishes through the instance's handoff,      *)
(* which allows one writer: FFHandoff rests on AtMostOneFeed, and FFAudio  *)
(* puts the two together.                                                  *)
(*                                                                         *)
(* A section under conn_lock that waits for nothing is one step.  The one  *)
(* that may wait is the removal of a callback, which libobs grants when    *)
(* the callback is not running.  lock is only ever held across one call of *)
(* the analysis, and so is part of the step that makes the call.           *)
(***************************************************************************)
EXTENDS Naturals, FiniteSets

CONSTANTS
  Srcs,       \* the sources of the scene
  Master,     \* the master mix
  Names,      \* the names they are given
  NoName,     \* the empty string
  None,       \* a NULL weak reference
  HasAudio,   \* which of the sources have OBS_SOURCE_AUDIO
  MaxRenames  \* bound: renames in one run

ASSUME AudioTapAssumption ==
  /\ Master \notin Srcs /\ None \notin Srcs
  /\ NoName \notin Names
  /\ HasAudio \in [Srcs -> BOOLEAN]
  /\ MaxRenames \in Nat

Feeds == Srcs \union {Master}

VARIABLES
  mode, sourceName, weak, masterConnected,  \* of struct ff_audio, under conn_lock
  pc, want,    \* ff_audio_configure: where it is and what it was called with
  life,        \* ff_audio_destroy's progress
  registered,  \* how often our callback is in the list of each feed
  feeding,     \* and whether that list is calling it: "no", "analyse", "publish"
  src,         \* the sources: [life, name]
  raised,      \* source_create and source_rename signals not yet handled
  renames,     \* bound counter
  strayed      \* history: the source we follow was renamed while we did

tapVars == <<mode, sourceName, weak, masterConnected>>
callVars == <<pc, want, life>>
sceneVars == <<src, raised, renames>>
vars == <<mode, sourceName, weak, masterConnected, pc, want, life, registered, feeding, src,
          raised, renames, strayed>>

Init ==
  /\ mode = "master"
  /\ sourceName = NoName
  /\ weak = None
  /\ masterConnected = FALSE
  /\ pc = "idle"
  /\ want = [mode |-> "master", name |-> NoName]
  /\ life = "live"
  /\ registered = [f \in Feeds |-> 0]
  /\ feeding = [f \in Feeds |-> "no"]
  /\ src = [s \in Srcs |-> [life |-> "none", name |-> NoName]]
  /\ raised = 0
  /\ renames = 0
  /\ strayed = FALSE

Live(s) == src[s].life = "live"

\* The conn_lock is only ever held from one step to the next by a configure that
\* has begun to reconnect.
ConnFree == pc \in {"idle", "lock"}

----------------------------------------------------------------------------
(* The scene, on the UI thread and others *)

Named(n) == {s \in Srcs : Live(s) /\ src[s].name = n}

\* A signal reaches us as long as we are connected to it.
Raise == raised' = IF life = "live" THEN raised + 1 ELSE raised

Create(s, n) ==
  /\ src[s].life = "none"
  /\ Named(n) = {}
  /\ src' = [src EXCEPT ![s] = [life |-> "live", name |-> n]]
  /\ Raise
  /\ UNCHANGED <<registered, feeding, renames, strayed>>
  /\ UNCHANGED tapVars
  /\ UNCHANGED callVars

Rename(s, n) ==
  /\ renames < MaxRenames
  /\ Live(s)
  /\ Named(n) = {}
  /\ src' = [src EXCEPT ![s].name = n]
  /\ renames' = renames + 1
  /\ strayed' = (strayed \/ weak = s)
  /\ Raise
  /\ UNCHANGED <<registered, feeding>>
  /\ UNCHANGED tapVars
  /\ UNCHANGED callVars

\* The last reference goes, and with it the source's list of callbacks.  Nobody is
\* told.  None of them is running, nor runs again: libobs's part of the bargain.
Expire(s) ==
  /\ Live(s)
  /\ feeding[s] = "no"
  /\ src' = [src EXCEPT ![s] = [life |-> "gone", name |-> NoName]]
  /\ registered' = [registered EXCEPT ![s] = 0]
  /\ UNCHANGED <<feeding, raised, renames, strayed>>
  /\ UNCHANGED tapVars
  /\ UNCHANGED callVars

----------------------------------------------------------------------------
(* The audio threads: master_cb and source_cb *)

FeedBegins(f) ==
  /\ registered[f] > 0
  /\ feeding[f] = "no"
  /\ feeding' = [feeding EXCEPT ![f] = "analyse"]
  /\ UNCHANGED <<registered, strayed>>
  /\ UNCHANGED tapVars
  /\ UNCHANGED callVars
  /\ UNCHANGED sceneVars

\* Mutant: the callback asks for conn_lock.
AnalyseUnderConn(f) ==
  /\ feeding[f] = "analyse"
  /\ ConnFree
  /\ feeding' = [feeding EXCEPT ![f] = "publish"]
  /\ UNCHANGED <<registered, strayed>>
  /\ UNCHANGED tapVars
  /\ UNCHANGED callVars
  /\ UNCHANGED sceneVars

\* feed: the analysis, under lock and never under conn_lock
Analyse(f) ==
  /\ feeding[f] = "analyse"
  /\ feeding' = [feeding EXCEPT ![f] = "publish"]
  /\ UNCHANGED <<registered, strayed>>
  /\ UNCHANGED tapVars
  /\ UNCHANGED callVars
  /\ UNCHANGED sceneVars

\* ... and the frame, when there is one, under no lock
Publish(f) ==
  /\ feeding[f] = "publish"
  /\ feeding' = [feeding EXCEPT ![f] = "no"]
  /\ UNCHANGED <<registered, strayed>>
  /\ UNCHANGED tapVars
  /\ UNCHANGED callVars
  /\ UNCHANGED sceneVars

Feed(f) == FeedBegins(f) \/ Analyse(f) \/ Publish(f)

----------------------------------------------------------------------------
(* Connections, under conn_lock *)

HaveLive == weak # None /\ Live(weak)

\* have_live_source: an expired reference is cleared when it is looked at.
AfterLook == IF HaveLive THEN weak ELSE None

\* Mutant: the source mode's callback only.
DisconnectSource ==
  /\ HaveLive => feeding[weak] = "no"
  /\ registered' = [f \in Feeds |-> IF HaveLive /\ f = weak THEN registered[f] - 1 ELSE registered[f]]
  /\ masterConnected' = FALSE
  /\ weak' = None

\* disconnect_all: waits for callbacks that are running, and cannot reach an
\* expired source.
DisconnectAll ==
  /\ masterConnected => feeding[Master] = "no"
  /\ HaveLive => feeding[weak] = "no"
  /\ registered' = [f \in Feeds |->
       IF (masterConnected /\ f = Master) \/ (HaveLive /\ f = weak)
       THEN registered[f] - 1
       ELSE registered[f]]
  /\ masterConnected' = FALSE
  /\ weak' = None

Register(fs) == registered' = [f \in Feeds |-> IF f \in fs THEN registered[f] + 1 ELSE registered[f]]

\* The sources connect_source can find under this name: one, or none.
Audible(n) == {s \in Named(n) : HasAudio[s]}

\* Mutant: a master mix that could not be connected is taken for connected.
ConnectMasterTrusting ==
  /\ masterConnected' = TRUE
  /\ Register({Master}) \/ Register({})

\* connect_master may fail, and is then tried again by the next configure.
ConnectMaster ==
  \/ masterConnected' = TRUE /\ Register({Master})
  \/ masterConnected' = FALSE /\ Register({})

\* connect_source, when nothing is followed
ConnectSource(n) ==
  /\ weak' = IF Audible(n) = {} THEN None ELSE CHOOSE s \in Audible(n) : TRUE
  /\ Register(Audible(n))

\* Mutant: a reference that has expired still counts.
OnSignalTrusting ==
  /\ life # "gone" /\ raised > 0 /\ ConnFree
  /\ raised' = raised - 1
  /\ IF mode = "source" /\ weak = None
     THEN ConnectSource(sourceName) /\ strayed' = (strayed /\ Audible(sourceName) = {})
     ELSE UNCHANGED <<weak, registered, strayed>>
  /\ UNCHANGED <<mode, sourceName, masterConnected, feeding, src, renames>>
  /\ UNCHANGED callVars

\* on_source_signal
OnSignal ==
  /\ life # "gone" /\ raised > 0 /\ ConnFree
  /\ raised' = raised - 1
  /\ IF mode = "source" /\ ~HaveLive
     THEN ConnectSource(sourceName) /\ strayed' = (strayed /\ Audible(sourceName) = {})
     ELSE UNCHANGED <<weak, registered, strayed>>
  /\ UNCHANGED <<mode, sourceName, masterConnected, feeding, src, renames>>
  /\ UNCHANGED callVars

\* ff_audio_describe, for the panels: looking is all it changes
Describe ==
  /\ life = "live" /\ ConnFree
  /\ mode = "source"
  /\ weak' = AfterLook
  /\ UNCHANGED <<mode, sourceName, masterConnected, registered, feeding, strayed>>
  /\ UNCHANGED callVars
  /\ UNCHANGED sceneVars

----------------------------------------------------------------------------
(* ff_audio_configure, from the instance's update on the video thread *)

Configure(m, n) ==
  /\ life = "live" /\ pc = "idle"
  /\ pc' = "lock"
  /\ want' = [mode |-> m, name |-> n]
  /\ UNCHANGED <<life, registered, feeding, strayed>>
  /\ UNCHANGED tapVars
  /\ UNCHANGED sceneVars

Same == mode = want.mode /\ (want.mode = "master" \/ sourceName = want.name)

\* Nothing to do: connected, and to what is wanted.
KeepConnection ==
  /\ pc = "lock"
  /\ Same /\ (masterConnected \/ HaveLive)
  /\ pc' = "idle"
  /\ UNCHANGED <<want, life, registered, feeding, strayed>>
  /\ UNCHANGED tapVars
  /\ UNCHANGED sceneVars

BeginReconnect ==
  /\ pc = "lock"
  /\ ~(Same /\ (masterConnected \/ HaveLive))
  /\ pc' = "disconnect"
  /\ weak' = IF Same THEN None ELSE weak
  /\ UNCHANGED <<mode, sourceName, masterConnected, want, life, registered, feeding, strayed>>
  /\ UNCHANGED sceneVars

Disconnect ==
  /\ pc = "disconnect"
  /\ DisconnectAll
  /\ pc' = "connect"
  /\ UNCHANGED <<mode, sourceName, want, life, feeding, strayed>>
  /\ UNCHANGED sceneVars

Connect ==
  /\ pc = "connect"
  /\ mode' = want.mode
  /\ IF want.mode = "master"
     THEN ConnectMaster /\ UNCHANGED <<sourceName, weak>>
     ELSE ConnectSource(want.name) /\ sourceName' = want.name /\ UNCHANGED masterConnected
  /\ strayed' = FALSE
  /\ pc' = "idle"
  /\ UNCHANGED <<want, life, feeding>>
  /\ UNCHANGED sceneVars

ConfigureSteps == KeepConnection \/ BeginReconnect \/ Disconnect \/ Connect

----------------------------------------------------------------------------
(* ff_audio_destroy: no configure and no describe runs by now *)

\* Mutant: the signals are let go while a handler runs.
DestroySignalsAtOnce ==
  /\ life = "live" /\ pc = "idle"
  /\ life' = "deaf"
  /\ UNCHANGED <<pc, want, registered, feeding, strayed>>
  /\ UNCHANGED tapVars
  /\ UNCHANGED sceneVars

\* signal_handler_disconnect returns when no handler is running.
DestroySignals ==
  /\ life = "live" /\ pc = "idle"
  /\ raised = 0
  /\ life' = "deaf"
  /\ UNCHANGED <<pc, want, registered, feeding, strayed>>
  /\ UNCHANGED tapVars
  /\ UNCHANGED sceneVars

DestroyConnections ==
  /\ life = "deaf"
  /\ DisconnectAll
  /\ life' = "disconnected"
  /\ UNCHANGED <<mode, sourceName, pc, want, feeding, strayed>>
  /\ UNCHANGED sceneVars

DestroyRest ==
  /\ life = "disconnected"
  /\ life' = "gone"
  /\ UNCHANGED <<pc, want, registered, feeding, strayed>>
  /\ UNCHANGED tapVars
  /\ UNCHANGED sceneVars

Destroy == DestroySignals \/ DestroyConnections \/ DestroyRest

----------------------------------------------------------------------------

Scene ==
  \/ \E s \in Srcs, n \in Names : Create(s, n) \/ Rename(s, n)
  \/ \E s \in Srcs : Expire(s)

Next ==
  \/ Scene
  \/ \E f \in Feeds : Feed(f)
  \/ OnSignal
  \/ Describe
  \/ \E n \in Names \union {NoName} : Configure("source", n)
  \/ Configure("master", NoName)
  \/ ConfigureSteps
  \/ Destroy

Spec == Init /\ [][Next]_vars

\* A callback and a handler that have begun run on.  A thread that waits to remove a
\* callback gets its turn between two runs of it, which are milliseconds apart.
FairSpec ==
  /\ Spec
  /\ \A f \in Feeds : WF_vars(Analyse(f)) /\ WF_vars(Publish(f))
  /\ WF_vars(OnSignal)
  /\ WF_vars(KeepConnection \/ BeginReconnect \/ Connect) /\ SF_vars(Disconnect)
  /\ SF_vars(DestroyConnections) /\ WF_vars(DestroyRest)

----------------------------------------------------------------------------
(* Properties *)

TypeOK ==
  /\ mode \in {"master", "source"}
  /\ sourceName \in Names \union {NoName}
  /\ weak \in Srcs \union {None}
  /\ masterConnected \in BOOLEAN
  /\ pc \in {"idle", "lock", "disconnect", "connect"}
  /\ want \in [mode : {"master", "source"}, name : Names \union {NoName}]
  /\ life \in {"live", "deaf", "disconnected", "gone"}
  /\ registered \in [Feeds -> Nat]
  /\ feeding \in [Feeds -> {"no", "analyse", "publish"}]
  /\ src \in [Srcs -> [life : {"none", "live", "gone"}, name : Names \union {NoName}]]
  /\ raised \in Nat /\ renames \in 0..MaxRenames
  /\ strayed \in BOOLEAN

\* The frames of an instance have one writer: our callback is in one list, once,
\* however modes, names, failed connections and dying sources follow each other.
\* The handoff's seqlock is right for one writer only.
AtMostOneFeed ==
  /\ \A f \in Feeds : registered[f] <= 1
  /\ \A f, g \in Feeds :
       (registered[f] > 0 \/ feeding[f] # "no") /\ (registered[g] > 0 \/ feeding[g] # "no")
         => f = g

\* What ff_audio_describe would answer.
SaysOK == IF mode = "source" THEN HaveLive ELSE masterConnected

\* The panel says all is well exactly when something feeds this instance.
SaysWhatItHears ==
  life = "live" /\ ConnFree => (SaysOK <=> \E f \in Feeds : registered[f] > 0)

\* Nobody is inside the tap, or will come in, when its locks and its analysis are
\* freed: no audio callback, and no signal handler.
NobodyInside ==
  life = "gone" => raised = 0 /\ \A f \in Feeds : registered[f] = 0 /\ feeding[f] = "no"

\* No order of the locks ties configure, the audio callbacks and the handlers
\* together: the video thread always gets out of ff_audio_configure, and the
\* destruction of the tap, once begun, ends.
CallsReturn ==
  /\ (pc # "idle") ~> (pc = "idle")
  /\ (life = "deaf") ~> (life = "gone")

\* The source the instance is to follow exists, and it follows none.
Missing(s) ==
  /\ life = "live" /\ mode = "source"
  /\ ~HaveLive
  /\ s \in Audible(sourceName)

\* "Rendering silence until it appears": a source of the wanted name is found
\* whenever it comes, also when it comes in the middle of a configure, provided the
\* one it replaces was not renamed while it was being followed.
AppearingIsFollowed ==
  \A s \in Srcs : (Missing(s) /\ ~strayed) ~> (~Missing(s) \/ strayed)

----------------------------------------------------------------------------
(* What the repository says and the code does not do *)

\* The same without the proviso: after a rename, the name and the source followed
\* part, and nothing that happens to the one brings the tap back to the other.
NameIsFollowed == \A s \in Srcs : Missing(s) ~> ~Missing(s)

----------------------------------------------------------------------------
(* The inductive invariant behind AtMostOneFeed, SaysWhatItHears and       *)
(* NobodyInside                                                            *)

\* The fields of struct ff_audio say exactly where our callback is registered,
\* and never two places; the source followed has existed.
ConnInv ==
  /\ \A f \in Feeds : registered[f] =
       IF (f = Master /\ masterConnected) \/ (HaveLive /\ f = weak) THEN 1 ELSE 0
  /\ masterConnected => mode = "master" /\ weak = None
  /\ weak # None => mode = "source" /\ src[weak].life # "none"
  /\ pc = "connect" => ~masterConnected /\ weak = None

\* A callback runs only as long as it is registered.
FeedInv == \A f \in Feeds : feeding[f] # "no" => registered[f] > 0

\* Two sources never share a name.
NamesInv == \A s, t \in Srcs : Live(s) /\ Live(t) /\ src[s].name = src[t].name => s = t

\* What each step of ff_audio_destroy has waited for.
DestroyInv ==
  /\ life # "live" => raised = 0 /\ pc = "idle"
  /\ life \in {"disconnected", "gone"} => ~masterConnected /\ weak = None

IInv == TypeOK /\ ConnInv /\ FeedInv /\ NamesInv /\ DestroyInv
=============================================================================
