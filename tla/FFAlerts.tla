------------------------------ MODULE FFAlerts ------------------------------
(***************************************************************************)
(* The alert source (ff-alert-source.c): three threads around one queue.   *)
(*                                                                         *)
(*   the Twitch worker    ff_alert_enqueue                                 *)
(*   the UI thread        the test, skip and clear buttons                 *)
(*   the video thread     alert_update, alert_tick, alert_render           *)
(*                                                                         *)
(* A section under qlock is one step.  The check of kinds[].enabled before *)
(* it, and the read-modify-write of elapsed, hold no lock: each is a step  *)
(* of its own.  Time is counted in ticks.  alert_update runs on the video  *)
(* thread because libobs defers the update of a video source to its tick.  *)
(***************************************************************************)
EXTENDS FFAlertQueue, FiniteSets

CONSTANTS
  Kinds,        \* enum ff_alert_kind
  Settings,     \* the settings the streamer tries, as records (see Unset below)
  StartSettings,
  Unset,        \* the empty string: no preset, no sound
  AlertPresets, \* the <<pack, preset>> pairs of kind "alert" that are installed
  worker, ui    \* the two threads that call ff_alert_enqueue

ASSUME AlertsAssumption ==
  /\ StartSettings \in Settings
  /\ \A st \in Settings : st.duration \in Nat
  /\ \A e \in Events : e.kind \in Kinds
  /\ \A p \in AlertPresets : p[1] # Unset
  /\ worker # ui

Callers == {worker, ui}

VARIABLES
  settings,  \* what alert_update last copied out of obs_data
  queue,     \* a->queue
  inCall,    \* per caller: the event between the enabled check and qlock
  offered,   \* events offered to ff_alert_enqueue so far
  playing,
  elapsed,
  loadedElapsed, \* the tick's copy of elapsed while it adds dt; Unset outside
  showing,   \* the event start_alert last put on screen
  want,      \* a->want_preset
  art,       \* what the renderer holds: a <<pack, preset>> or Unset
  artDirty,
  soundPath,
  sound,     \* the file the media child holds; Unset when there is no child
  sounding,  \* was the child restarted and not stopped or released since?
  life       \* alert_destroy's progress

screenVars == <<showing, want, artDirty, soundPath, sound, sounding>>
vars == <<settings, queue, inCall, offered, playing, elapsed, loadedElapsed, showing, want,
          art, artDirty, soundPath, sound, sounding, life>>

Init ==
  /\ settings = StartSettings
  /\ queue = EmptyQueue
  /\ inCall = [c \in Callers |-> NoEvent]
  /\ offered = {}
  /\ playing = FALSE
  /\ elapsed = 0
  /\ loadedElapsed = Unset
  /\ showing = NoEvent
  /\ want = Unset
  /\ art = Unset
  /\ artDirty = (StartSettings.pack # Unset)
  /\ soundPath = StartSettings.sharedSound
  /\ sound \in {StartSettings.sharedSound, Unset}
  /\ sounding = FALSE
  /\ life = "live"

Ticking == loadedElapsed # Unset

----------------------------------------------------------------------------
(* ff_alert_enqueue, on the worker or under the test button *)

\* An event of a kind that is switched off is ignored.
Offer(c, e) ==
  /\ life \in IF c = worker THEN {"live", "joining"} ELSE {"live"}
  /\ inCall[c] = NoEvent
  /\ e \notin offered
  /\ offered' = offered \union {e}
  /\ inCall' = [inCall EXCEPT ![c] = IF settings.enabled[e.kind] THEN e ELSE NoEvent]
  /\ UNCHANGED <<settings, queue, playing, elapsed, loadedElapsed, art, life>>
  /\ UNCHANGED screenVars

Enqueue(c) ==
  /\ inCall[c] # NoEvent
  /\ queue' = Push(queue, inCall[c])
  /\ inCall' = [inCall EXCEPT ![c] = NoEvent]
  /\ UNCHANGED <<settings, offered, playing, elapsed, loadedElapsed, art, life>>
  /\ UNCHANGED screenVars

----------------------------------------------------------------------------
(* The buttons *)

\* The UI thread is between two of its callbacks.
UIFree == life = "live" /\ inCall[ui] = NoEvent

\* on_skip: a store from the UI thread, whatever the tick is doing.
Skip ==
  /\ UIFree
  /\ elapsed' = settings.duration
  /\ UNCHANGED <<settings, queue, inCall, offered, playing, loadedElapsed, art, life>>
  /\ UNCHANGED screenVars

OnClear ==
  /\ UIFree
  /\ queue' = Clear(queue)
  /\ UNCHANGED <<settings, inCall, offered, playing, elapsed, loadedElapsed, art, life>>
  /\ UNCHANGED screenVars

----------------------------------------------------------------------------
(* The video thread *)

\* ensure_sound_child: no path, no child; a child that cannot be made stays
\* missing, and one that exists is given the file.
EnsureSoundChild(path) ==
  /\ sound' \in IF path = Unset \/ sound # Unset THEN {path} ELSE {path, Unset}

AlertUpdate(new) ==
  /\ life = "live"
  /\ ~Ticking
  /\ settings' = new
  /\ artDirty' = (artDirty \/ new.pack # settings.pack)
  /\ soundPath' = new.sharedSound
  /\ EnsureSoundChild(new.sharedSound)
  /\ sounding' = (sounding /\ new.sharedSound # Unset)
  /\ UNCHANGED <<queue, inCall, offered, playing, elapsed, loadedElapsed, showing, want, art, life>>

\* The kind's own choice, or the shared one.
PresetOf(k) == IF settings.preset[k] # Unset THEN settings.preset[k] ELSE settings.sharedPreset
SoundOf(k) == IF settings.sound[k] # Unset THEN settings.sound[k] ELSE settings.sharedSound

\* Mutant: the art is not reloaded when the preset changes.
StartAlertKeepsArt(e) ==
  /\ showing' = e
  /\ want' = PresetOf(e.kind)
  /\ artDirty' = artDirty
  /\ soundPath' = SoundOf(e.kind)
  /\ EnsureSoundChild(SoundOf(e.kind))
  /\ sounding' = (sound' # Unset)
  /\ elapsed' = 0
  /\ playing' = TRUE

StartAlert(e) ==
  /\ showing' = e
  /\ want' = PresetOf(e.kind)
  /\ artDirty' = (artDirty \/ want # PresetOf(e.kind))
  /\ soundPath' = SoundOf(e.kind)
  /\ EnsureSoundChild(SoundOf(e.kind))
  /\ sounding' = (sound' # Unset)
  /\ elapsed' = 0
  /\ playing' = TRUE

\* alert_tick, first half: the load of "a->elapsed += dt"
TickLoad ==
  /\ life = "live"
  /\ ~Ticking
  /\ playing
  /\ loadedElapsed' = elapsed
  /\ UNCHANGED <<settings, queue, inCall, offered, playing, elapsed, art, life>>
  /\ UNCHANGED screenVars

\* ... the store, when the alert still has time to run
TickOn ==
  /\ Ticking
  /\ loadedElapsed + 1 < settings.duration
  /\ elapsed' = loadedElapsed + 1
  /\ loadedElapsed' = Unset
  /\ UNCHANGED <<settings, queue, inCall, offered, playing, art, life>>
  /\ UNCHANGED screenVars

\* Mutant: a skipped alert has more than its duration behind it.
AirFreeExactly ==
  \/ ~playing /\ ~Ticking
  \/ Ticking /\ loadedElapsed + 1 = settings.duration

\* The tick found nothing on the air, or the alert on it is over.
AirFree ==
  \/ ~playing /\ ~Ticking
  \/ Ticking /\ loadedElapsed + 1 >= settings.duration

\* Mutant: the sound runs on after the picture.
TickIdleNoisy ==
  /\ life = "live"
  /\ AirFree
  /\ settings.paused \/ queue.count = 0
  /\ playing' = FALSE
  /\ elapsed' = IF Ticking THEN 0 ELSE elapsed
  /\ loadedElapsed' = Unset
  /\ UNCHANGED <<settings, queue, inCall, offered, showing, want, art, artDirty, soundPath,
                 sound, sounding, life>>

\* ... over, and nothing may start: the picture and its sound stop
TickIdle ==
  /\ life = "live"
  /\ AirFree
  /\ settings.paused \/ queue.count = 0
  /\ playing' = FALSE
  /\ elapsed' = IF Ticking THEN 0 ELSE elapsed
  /\ sounding' = (sounding /\ ~Ticking)
  /\ loadedElapsed' = Unset
  /\ UNCHANGED <<settings, queue, inCall, offered, showing, want, art, artDirty, soundPath,
                 sound, life>>

\* ... and the oldest waiting alert starts
TickStart ==
  /\ life = "live"
  /\ AirFree
  /\ ~settings.paused
  /\ queue.count > 0
  /\ StartAlert(Oldest(queue))
  /\ queue' = Pop(queue)
  /\ loadedElapsed' = Unset
  /\ UNCHANGED <<settings, inCall, offered, art, life>>

\* The renderer's layers for a preset: none when the pack has no such preset,
\* or has one of another kind.
Layers(pack, preset) == IF <<pack, preset>> \in AlertPresets THEN <<pack, preset>> ELSE Unset

\* alert_render: the deferred load, inside the graphics context
Render ==
  /\ life = "live"
  /\ ~Ticking
  /\ artDirty
  /\ art' = Layers(settings.pack, want)
  /\ artDirty' = FALSE
  /\ UNCHANGED <<settings, queue, inCall, offered, playing, elapsed, loadedElapsed, showing,
                 want, soundPath, sound, sounding, life>>

----------------------------------------------------------------------------
(* alert_destroy: no callback of the source runs by now; the worker may *)

DestroyChildren ==
  /\ UIFree
  /\ ~Ticking
  /\ life' = "joining"
  /\ sound' = Unset
  /\ sounding' = FALSE
  /\ UNCHANGED <<settings, queue, inCall, offered, playing, elapsed, loadedElapsed, showing,
                 want, art, artDirty, soundPath>>

\* ff_twitch_destroy returns once the worker thread has left its callback.
DestroyJoin ==
  /\ life = "joining"
  /\ inCall[worker] = NoEvent
  /\ life' = "joined"
  /\ UNCHANGED <<settings, queue, inCall, offered, playing, elapsed, loadedElapsed, art>>
  /\ UNCHANGED screenVars

\* Mutant: the lock goes before the worker has been joined.
DestroyRestUnjoined ==
  /\ life \in {"joining", "joined"}
  /\ life' = "gone"
  /\ UNCHANGED <<settings, queue, inCall, offered, playing, elapsed, loadedElapsed, art>>
  /\ UNCHANGED screenVars

\* pthread_mutex_destroy, the renderer, the packs, the struct
DestroyRest ==
  /\ life = "joined"
  /\ life' = "gone"
  /\ UNCHANGED <<settings, queue, inCall, offered, playing, elapsed, loadedElapsed, art>>
  /\ UNCHANGED screenVars

----------------------------------------------------------------------------

Tick == TickLoad \/ TickOn \/ TickIdle \/ TickStart

Destroy == DestroyChildren \/ DestroyJoin \/ DestroyRest

Next ==
  \/ \E c \in Callers, e \in Events : Offer(c, e)
  \/ \E c \in Callers : Enqueue(c)
  \/ Skip
  \/ OnClear
  \/ \E new \in Settings : AlertUpdate(new)
  \/ Tick
  \/ Render
  \/ Destroy

Spec == Init /\ [][Next]_vars

\* The video thread ticks every frame, and a caller inside ff_alert_enqueue
\* gets qlock in the end.
FairSpec == Spec /\ WF_vars(Tick) /\ \A c \in Callers : WF_vars(Enqueue(c))

----------------------------------------------------------------------------
(* Properties *)

TypeOK ==
  /\ settings \in Settings
  /\ queue \in Queues
  /\ inCall \in [Callers -> Events \union {NoEvent}]
  /\ offered \subseteq Events
  /\ playing \in BOOLEAN
  /\ elapsed \in Nat
  /\ loadedElapsed \in Nat \union {Unset}
  /\ showing \in Events \union {NoEvent}
  /\ art \in AlertPresets \union {Unset}
  /\ artDirty \in BOOLEAN
  /\ sounding \in BOOLEAN
  /\ life \in {"live", "joining", "joined", "gone"}
  /\ playing => showing # NoEvent
  /\ \A i \in 1..queue.count : Waiting(queue)[i] # NoEvent

\* The overlay is a bounded first-in first-out line: whatever the threads'
\* order, alerts go on the air in the order they took qlock, each once, and
\* only the newest is refused when QueueMax are waiting.
Fifo == INSTANCE AlertFifo
  WITH Capacity <- QueueMax,
       line <- Waiting(queue),
       refused <- queue.dropped,
       onAir <- IF playing THEN showing ELSE NoEvent

IsFifo == Fifo!Spec

\* The art on screen is that of the alert on screen: once the pending load is
\* done, the renderer holds the wanted preset of the pack now chosen.
ArtIsWanted == ~artDirty => art = Layers(settings.pack, want)

\* No sound outlives its alert, not even one that was skipped, or edited or
\* destroyed under it; and the child that sounds holds the file a->sound_path
\* says it holds.
SilentWhenIdle == sounding => playing /\ sound # Unset /\ sound = soundPath

\* The worker never holds or waits for a lock that alert_destroy has destroyed.
LockOutlivesCallers == life = "gone" => \A c \in Callers : inCall[c] = NoEvent

\* As long as the streamer does not leave the overlay paused, every alert that
\* joined the line leaves it: aired, or cleared.
EveryAlertLeaves ==
  (<>[](~settings.paused)) =>
    \A e \in Events :
      (\E i \in 1..queue.count : Waiting(queue)[i] = e)
        ~> (life # "live" \/ \A i \in 1..queue.count : Waiting(queue)[i] # e)

\* A skip ends the alert it was pressed for: once elapsed has reached the
\* duration, an alert that is still on the air never goes back below it.
SkipHolds ==
  [][ (/\ playing /\ elapsed >= settings.duration
       /\ playing' /\ showing' = showing /\ settings' = settings)
      => elapsed' >= settings.duration ]_vars

----------------------------------------------------------------------------
(* The strengthening of LockOutlivesCallers that is inductive *)

\* What each step of alert_destroy has waited for.
LockInv ==
  /\ life # "live" => inCall[ui] = NoEvent
  /\ life \in {"joined", "gone"} => inCall[worker] = NoEvent
=============================================================================
