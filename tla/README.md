# Foxfire: TLA+ models, checks and proofs

Foxfire is a pair of OBS plugins written in C. **obs-foxfire** draws shader packs that
react to audio; **foxfire-alerts** is an overlay that shows Twitch follows, subs, raids and
the like. This directory models the parts of it where threads, sockets, retries and
reloads meet, checks the models with TLC and proves the most important facts with TLAPS.

Paths such as `ff-twitch.c:395` are relative to `src/` of the repository.

* [The system](#the-system)
* [The modules](#the-modules)
* [The runs](#the-runs)
* [Fairness](#fairness)
* [The proofs](#the-proofs)
* [What the checks found](#what-the-checks-found)
* [What is left out](#what-is-left-out)
* [Plan](#plan)

## The system

Four kinds of thread run through the code: the **audio threads** of libobs (the master mix
and every source's own pump), the **video thread** (tick, render and, because libobs defers
them, the settings updates of video sources), the **UI thread** (properties, buttons, dock)
and, one per alert source, the **Twitch worker**, which this code starts itself.

```
 audio thread            video thread                UI thread
 ------------            ------------                ---------
 ff-audio: feed          ff-props: update            ff-props: buttons, pack scan
   ff-analysis             ff-audio: configure       ff-dock: meters by proc handler
   ff-handoff publish      ff-layers: load           ff-alert-source: test/skip/clear
        |                ff-props: render               |            |
        +--> seqlock -->   ff-handoff read              |            +--> flags
                           ff-viseme, ff-layers         |                   |
                         ff-alert-source: tick  <-- queue (qlock)       ff-twitch worker
                                                        ^                   |
                                                        +--- enqueue -------+
                                                             ff-session, ff-eventsub
                                                             ff-ws-conn, ff-ws, ff-net
                                                             ff-twitch-api (HTTPS, token file)
```

| Component | State it keeps | Operations | Hard behaviour | What makes it correct |
|---|---|---|---|---|
| Frame handoff (`ff-handoff.c`) | `seq`, two slots | publish, read, seq | reader copies while the writer stores; counter wraps; stores pass each other | no torn frame, never an older frame, every read returns |
| Audio tap (`ff-audio.c`) | mode, name, weak reference, `master_connected`, two locks | configure, two audio callbacks, signal handler, describe, destroy | four threads, sources renamed and removed, callbacks removed under a lock | one writer for the handoff, a followed name is followed, status is true, nothing hangs or outlives what is freed |
| Analysis (`ff-analysis.c`) | window, smoothing, beat detector | push, set_params | numeric; 5-hop refractory period | no two beats within it |
| Viseme tracking (`ff-viseme.c`) | shape, candidate, timers | update | hysteresis on a noisy signal | a shape holds for its minimum; G and H never appear |
| Layers (`ff-layers.c`) | layers, parameters, textures, ping/pong | load, render, set_defaults, apply_settings | three sources for each value; an effect that fails to compile | Restore Defaults gives back the preset; the bound texture is the wanted one |
| Instance (`ff-props.c`) | packs, pack/preset id, status, reload flag, `state_lock` | create, update, render, properties, buttons, destroy | the UI thread replaces the packs under the video thread; reload is deferred | no pack is used after it is freed; a reload asked for is done; the status describes what is on screen |
| Packs and licence (`ff-pack.c`, `ff-licence.c`) | the packs directory | scan, install, validate, verify | crash between renames; two processes, one directory | a failed install never loses the pack that was there |
| Alert queue (`ff-alert-queue.c`) | ring, head, count, dropped | push, pop, clear | full, empty, wrapping | bounded, first in first out, refuses the newest |
| Alert source (`ff-alert-source.c`) | queue, playback, art, sound, settings | enqueue, tick, render, update, test/skip/clear, destroy | three threads, one lock and some unlocked fields | every alert airs once in order, with its own art and sound, and nothing outlives it |
| Twitch worker (`ff-twitch.c`) | flags, state, code, message; sockets and sessions of one connection | create, enable, sign in, sign out, snapshot, destroy; the worker's loop | changeover between two sockets, retries, naps, joining | alerts once and in order, no socket leaked, a retrying feed retries, the join returns |
| EventSub session (`ff-session.c`, `ff-eventsub.c`) | id, keepalive, clocks, reconnect URL | opened, message, idle, expired | welcome, keepalive and reconnect timeouts overlap | subscribes once, silence is noticed |
| Twitch API (`ff-twitch-api.c`) | the saved refresh token | device code, token, refresh, subscribe | failure that is not refusal, refusal that is not the token's; one file, two sources, two renames a save | the sign-in is deleted for cause only |
| WebSocket (`ff-ws-conn.c`, `ff-ws.c`) | receive buffer, message buffer, closing | poll, send, close, parse | frames cut apart or put together by reads; a full buffer; a stalled peer | whole messages, once, in order; never full and waiting; one goodbye |
| Transport (`ff-net.c`) | socket or TLS handle | HTTP request, WebSocket upgrade, recv, send | bytes behind the 101; a send loop with no bound | nothing lost at the upgrade; the upgrade ends |
| Dock (`ff-dock.cpp`) | rows, pending echoes, stale meters | poll, pick, edit | echo of one's own edit; a source that dies | the row shows the source's value |
| Shells (`ff-source.c`, `ff-filter.c`, `ff-transition.c`, `plugin-main.c`, `alerts-main.c`) | a pointer | libobs callbacks | none of their own | forwarding |

The interactions that carry risk are six shared structures, all of them modelled: the
seqlock between the audio thread and its readers (FFHandoff, and FFAudio for the tap that
feeds it), the alert
queue between the worker and the tick (FFAlerts), the worker's flags between the UI and the
worker (FFTwitch), the packs list and the settings between the UI and the video thread
(FFInstance), the packs directory between OBS processes (FFPackInstall), and the saved
sign-in between the workers of several alert sources (FFSignIn).

The full list of what is hard to test in this code, each item at its line and with the
properties that watch it, is `hazards` in PROJECT.json.

## The modules

| Module | Models | Note |
|---|---|---|
| FFHandoff | `ff-handoff.c` | one writer, any number of readers, word by word |
| FFHandoffProofs | | its theorems, and those of FFAudio |
| AlertFifo | | what the overlay promises: a bounded line and one alert on the air |
| FFAlertQueue | `ff-alert-queue.c` | the ring, as operators on a record |
| FFAlerts | `ff-alert-source.c` | three threads around the ring; implements AlertFifo |
| FFAlertsProofs | | its theorems, and the lemmas about the ring |
| FFSession | `ff-session.c`, `ff-eventsub.c` | the session, as operators on a record |
| FFTwitch | `ff-twitch.c`, `ff-twitch-api.c` | the worker, the flags, the sockets, the service |
| FFTwitchProofs | | its theorems, and the lemmas about inboxes |
| MessageLine | | what a connection promises: finished messages, handed up in order |
| FFWsConn | `ff-net.c`, `ff-ws-conn.c`, `ff-ws.c` | one connection, byte counts; implements MessageLine |
| FFWsConnProofs | | its theorems, and that it implements MessageLine |
| FFAudioTap | `ff-audio.c` | where the audio comes from |
| FFAudioTapProofs | | its theorems |
| FFAudio | `ff-audio.c`, `ff-handoff.c` | FFAudioTap with its callbacks publishing through the handoff; implements FFHandoff |
| FFPack | `ff-pack.c`, `ff-licence.c` | which packs are refused, and what a licence unlocks, as operators on a manifest |
| FFRenderer | `ff-layers.c` | loading, settings, gradients, images, the render loop, as operators on the layer array |
| FFInstance | `ff-props.c` | one source between its properties page and the video thread; uses the two above |
| FFInstanceProofs | | its theorems, and the lemmas about the operators of the two |
| PackShelf | | what installing promises: whole versions, and never the last copy lost |
| FFPackInstall | `ff-pack.c` | processes that install into one directory and die; implements PackShelf |
| FFPackInstallProofs | | its theorems, and that it implements PackShelf |
| FFSignIn | `ff-twitch-api.c`, `ff-twitch.c` | several workers and one saved sign-in |
| FFSignInProofs | | its theorems |
| MC*M* | | the constants of module FF*M* for TLC |

**Steps.** A section of code under a lock that waits for nothing is one action. Where the
code gives the lock up, reads a field without it, blocks, or calls out, the action ends.
`FFAlerts` therefore splits `ff_alert_enqueue` at the unlocked look at
`kinds[].enabled`, and `a->elapsed += dt` into its load and its store. `FFTwitch` steps
from one read of a flag, blocking call or poll to the next; an upgrade is one such call, and
the worker may stay in it (`Upgrading`). `FFWsConn` steps once per pass
of the parse loop and once per call of `io.send`. `FFAudioTap` keeps `ff_audio_configure`
in pieces because the removal of a callback may have to wait with `conn_lock` held.

**FFHandoff.** `seq` counts stores without wrapping and `U32` wraps it wherever the code
looks at it, so that "has the counter come round" is visible to the properties and the
code still only sees 32 bits. A frame is a function from words to the number of the
publish that wrote the word; it is torn when two words differ. `StoresInOrder` says
whether the plain stores of the frame stay behind the odd store of `seq`: they do on
x86-64; C11 does not promise it, since a release store only orders what comes before it.
What the code promises without it is `WholeUnlessPassed`.

**FFAlerts.** `queue` is the ring; `inCall` is who is between the enabled check and
`qlock`; `loadedElapsed` is the tick's read of `elapsed`. `alert_update` runs on the video
thread: the comment in the source calls it the UI thread's, but libobs defers updates of
video sources to the tick. Time is counted in ticks.

**FFSession, FFTwitch.** The record `sess` has the fields of `struct ff_session` that
decide something; clocks are ages capped just above the largest limit they are compared
with. `wire[c]` is what the service and the network hold of socket `c`. Nap lengths and the
attempt counter that sets them are left out: a nap ends whenever the worker steps next.
The replacement's own session is not aged while it waits: what `ff-twitch.c` tests during a
changeover is the main session's clock. Fields that are dead between two connections are
reset so that states do not differ by them.

**FFPackInstall.** A directory is a function from the files of a pack to the zip each came
out of, so that "whole" can be said. The steps are those of `ff_packs_install_zip`: a file
extracted or removed at a time, and each rename, which moves a directory at once and fails
when something is in the way or for reasons of its own. `Crash` ends a call between any two
of them; the next call of any process may get the same process id, and finds what was left
under its names. The zip's listing is a sequence of entries with their top folder and
whether they climb out or are links.

**FFPack, FFRenderer, FFInstance.** A manifest is a record of what `ff_pack_load_dir` looks
at; licence fields are usable or not, and a field keeps the JSON type its author wrote,
because libobs reads a value of another type as false or 0. A parameter is what `struct
ff_param` says of it: live value, pristine value, the viewer's image and the bound one, the
ramp and whether it is out of date; a range whose ends are crossed is none. FFInstance
splits the callbacks of the page where they let go of `state_lock`, and the update at its
ends: it reads the ids before the lock, and libobs clears its count of deferred updates
after it, unless another was asked for meanwhile. `disk` is what is installed and `packs`
what was last scanned: they differ, and effects and images are read from `disk` when layers
are loaded. OBS runs one callback at a time, on one UI thread.

The settings are under no lock (`ff-props.c:64-71`), so the update is two actions. `Erase` takes
`state_lock`, decides what will be loaded and erases the old layer keys; `Update` loads, records
the defaults and applies the settings as they are by then. In between a control can be turned,
but a callback that needs the lock waits (`Locked`). `page` is what the properties page shows: the
controls of what was loaded when it was built (`Build`), whatever has been picked or loaded
since, so `Turn` may write a key the old preset's control stands for. Three pieces of state are
history: `built` is what the layers came from, the version that was listed and the one that was
on disk; `owner` is, for each key, what was loaded when it was set and what page it was set on.

**FFSignIn.** Twitch takes a refresh token once and gives another for it; `valid` is what it
would take. An answer is a status, whether it was JSON, what it says and the token in it;
`PollResult` and `RefreshResult` translate the two classifications. A token that works may be
refused too (`RefuseAnyway`): too many requests, a mistyped client ID, or an empty one with
which nothing is asked. A worker loads a token only past its gate: enabled, and neither OFF nor
FAILED (`Load`), and it starts OFF (`Restart`, `Crash`). A save is what `obs_data_save_json_safe`
does: `WriteTmp` writes `twitch.json.tmp`, `SetAside` renames the file to `.bak`, which nothing
reads, `Put` renames the new one into its place; all workers use the same names, `Crash` comes
between any two of them, and `NotSaved` is a save that fails at any of them. `signed` and
`causes` are history: what has happened since a sign-in was stored that may lose it. Access
tokens and the clock are left out: every connection begins with a refresh. That Twitch gives
a new refresh token with every renewal is a simplification; the code stores whatever it gives.

**FFWsConn.** `stream` is what the server has sent and the client not yet dropped, and
`rxLen` how much of it is in the client's buffer. Frames have an opcode, a fin bit, a
payload size and a header size; masks, hashes and the text of headers are left out, the
order of `ff_ws_parse`'s refusals is kept. `main` is whether the connection is `run_once`'s `net` or a
replacement beside it. The first is closed with a goodbye (`Leave`); a replacement that failed,
ran out of time or is replaced itself is freed by `ff_net_close` alone (`Abandon`); a whole
message on one may be the welcome that makes it the main socket.

**FFAudioTap.** `registered[f]` counts how often the callback is in the list of feed `f`
and `feeding[f]` whether it is being called. One assumption is made about libobs: a source
whose weak references have expired runs no audio callback (`Expire` waits for it). If
libobs still pumped a source while tearing it down, `disconnect_all` (`ff-audio.c:94`)
could not reach the callback, and two writers, or a freed tap, would be possible; nothing
in the repository settles it. `strayed` is a history variable.

**FFAudio.** FFHandoff has one writer by construction. Here every callback that FFAudioTap has
in `feed` runs `ff_handoff_publish` with a counter, `base`, and a copy of its own, so that two
of them could work in each other's slots; `OneWriter` is that they never do. It extends
FFHandoff, whose readers it takes as they are, and instantiates FFAudioTap, all of whose steps
it takes; `Publish` of the tap becomes the stores. As nobody configures a tap that is being
destroyed, nobody reads it: no other thread is inside the instance by then
(`ff-props.c:559`).

## The runs

| Run | Checks | Distinct states |
|---|---|---|
| Handoff | FFAudio: a source that comes and goes, the master mix, one reader, a frame of two words, ten stores to `seq`, a counter modulo 8 | 292,724 |
| Alerts | a queue of two, three events of two kinds, three settings | 131,626 |
| Twitch | three sockets, two alerts, two reconnect requests, one press of a button | 2,638,998 |
| TwitchLive | the same with one alert and one reconnect, under fairness | 112,090 |
| WsConn | payloads of 0 to 2, three frames after the answer, a send that may stall, the main socket or a replacement | 300,068 |
| Audio | three sources, one without audio, two names, two renames | 120,504 |
| Install | two processes, two process ids, two versions of one pack, a zip that does not validate and one with a link, two files | 1,209,604 |
| Instance | two packs, five versions, three layers, three settings, three changes by the viewer or the disk | 476,658 |
| SignIn | two workers, three tokens, two presses of a button, one fault | 186,434 |
| TwitchHandover, TwitchSavedSignIn, InstanceStatus | one disputed sentence each, see [below](#what-the-checks-found) | |

**Why the bounds are enough.**

* *Handoff.* Modulus 8 with ten stores wraps the counter inside a run, and gives a reader a
  full lap to be overtaken by; two tries exercise the retry and giving up; two words are
  what tearing needs. Readers write nothing that is shared, so one is enough; a source and
  the master mix are the two feeds that a switch has to keep apart, and what names and
  several sources add is in the Audio run. The proofs cover all sizes.
* *Alerts.* Three events against a queue of two fill it, wrap it and refuse one. The
  settings differ in each field some property is about: enabled, paused, duration, pack,
  art, sound. The order itself is proved for every length.
* *Twitch.* Three sockets are a connection, its replacement and the one after both; two
  reconnect requests on one socket are the second reconnect during a changeover; two
  alerts are what order and duplication need. All time limits are one or two units:
  what matters is which of them passes first, and a unit that passes may be either.
* *WsConn.* The buffer is the largest payload plus the room of its header, as in the
  code, so the largest frame just fits; three frames are a fragment, a control frame
  between, and the end of the message. An answer of two units leaves two for what the
  server sends behind it.
* *Audio.* Two renames are what it takes to move a name from one source to another.
* *Install.* Two processes with two ids use each other's and a dead one's; two versions are
  an old and a new one; a directory of two files can be half there. Processes, process ids
  and versions are interchangeable, and TLC takes them as symmetric.
* *Instance.* Three changes are an edit, a switch and what comes between them, or an
  install, a switch and a way back; each may come while the update for an earlier one is
  anywhere. The manifests hold a preset of each kind that matters, one that is lost in a
  later version, a layer that does not compile between two that do, a version the licence
  does not reach and one that writes its flag in the wrong type. The instance is a source;
  a filter and a transition differ in `Fits` only.
* *SignIn.* Two workers are what it takes to overtake one, or to meet in one save; three tokens
  are a sign-in and two renewals of it, or a renewal lost and a new sign-in; one fault is a
  crash, a write or an answer lost, and the theorem covers any number of each. With four
  tokens and two faults `SignedInUnlessCause` was checked over 1,487,543 states.

**What the passing properties say.**

* Handoff: `NoTornFrame`, `CopyIsNewest`, `FrameNeverGoesBack`, all three for builds that keep
  stores in order; `ReadReturns`; `ReadBounded`, the same with a number and without fairness:
  a step of a reader in the call leaves less to do, and nobody gives it more; `OneWriter`
  (refinement of FFHandoff): the callbacks of the tap store as one publisher does.
  What is left of the first three when stores may pass the odd one is `WholeUnlessPassed`: until another
  publish has ended, a reader's copy is the newest frame, whole; after that a word can be of
  the publish that follows it, and of no other. It is proved for every build, and TLC finds
  no error in it with Handoff.cfg and `StoresInOrder = FALSE` (590,448 states; no run is kept).
* Alerts: `IsFifo` (refinement of AlertFifo), `ArtIsWanted`, `SilentWhenIdle`,
  `LockOutlivesCallers`, `EveryAlertLeaves`.
* Twitch: `AlertsOnceInOrder`, `NoSocketLeft`, `SubscribesOnce`.
* TwitchLive: `SilenceEndsIt`, unless the worker is held in an upgrade; `ShutdownFinishes`, if no
  upgrade hangs, and `JoinReturns` below is what that condition costs; `RetryingRetries`.
* WsConn: `InOrderAndWhole` (refinement of MessageLine), `NeverFullAndWaiting`,
  `OneGoodbye`, `EveryItemHandled`.
* Install: `DestIsWhole`, and `IsShelf` (refinement of PackShelf): under a pack's id there is
  a whole version or nothing, and a step never destroys the last copy of an installed pack.
* Instance: `UpdateIsRebuild`, the incremental update against its reference, a source created
  anew; `PanelShowsWhatIsDrawn`; `KeysGoWithTheSwitch`: a value does not outlive the preset that
  was loaded when it was set; `PickDraws`: a pick loads layers, if the pack is in the list as it
  was when it was last loaded; `StackInOrder`; `PaidIsEntitled`: layers compiled from the version
  that was scanned are ones the viewer is entitled to; `ReloadHappens`. The conditions are the
  code's: without them the sentences of its comments fail (`KeysBelong`,
  `PickAlwaysDraws`, `DrawnIsEntitled`, [below](#what-the-checks-found)).
* SignIn: `SignedInUnlessCause`. The causes are signing out, disconnecting, a crash or an answer
  lost while a token is on its way, a save that failed, two saves at once, a token overtaken by
  another worker's, and a refusal of something else. `DeadTokenGoes`, while some worker tries.
* Audio: `AtMostOneFeed`, which is why `OneWriter` holds;
  `SaysWhatItHears`, `NobodyInside`, `CallsReturn`, `AppearingIsFollowed`.

Each is stated and explained in its module, and each has a mutant in PROJECT.json: a
plausible bug in one definition under which TLC finds the property violated. The mutants
stand in the modules next to what they change, marked `Mutant:`.

`TypeOK` of FFHandoff, FFAlerts, FFAudioTap, FFPackInstall, FFSignIn and FFTwitch is a part of
what the proofs establish and no run repeats it.

Deadlock is not checked, because the system really stops: the tap or the source is destroyed,
the worker has exited, the connection is freed, nobody installs, edits or signs in any more.

## Fairness

Fairness is given to threads that the code or libobs keeps running, never to the peer, the
network or the user; only FFSignIn, whose liveness property is about what a refusal does,
assumes that requests end and that Twitch is not unreachable for ever.

| Module | Fair | Because |
|---|---|---|
| FFAudio | each reader inside a call: WF | a thread that is running a loop runs on; the writer may stop anywhere |
| FFAlerts | the tick: WF; a caller inside `ff_alert_enqueue`: WF | libobs ticks every frame; a caller past the check goes on to the lock, which is held for moments only |
| FFTwitch | the worker outside an upgrade: WF; the clock: WF | every other blocking call of the worker has a time-out; the loop that sends the upgrade request has none (`ff-net.c:248-258`), so `ShutdownFinishes` has the premise that no upgrade lasts for ever, and `SilenceEndsIt` an exception for one that does; time passes |
| FFWsConn | the upgrade and the poll: WF | the worker calls them in a loop |
| FFAudioTap | a callback, a handler and a configure that have begun: WF; the removal of a callback: SF | they hold no lock that is not granted; the remover is enabled between any two runs of a callback, milliseconds apart, and libobs's mutex does not pass it over for ever |
| FFInstance | a callback that has begun: WF; the deferred update: WF, once to enter and end it and once to return from it | a UI callback runs to its end; libobs ticks every source every frame, and an update takes no lock that is kept |
| FFSignIn | a worker past its gate and in a save: WF; a request ends: WF, and a dead token is refused: SF | the worker's loop runs on, and at the gate it waits for ever if it is disabled, OFF or FAILED; a request has a time-out; a dead token is found out only if Twitch is not unreachable for ever |

`Tick` of FFTwitch is the clock: without it a socket could stay silent for no time at all.
`EveryAlertLeaves` needs that the streamer does not leave the overlay paused for ever;
that is its premise, not fairness.

## The proofs

`FFHandoffProofs` (assuming `HandoffAssumption`: at least one try and a modulus that is a
multiple of four, as 2^32 is):

* `HandoffInvariant`: `IInv` always holds, in every build. The properties are not inductive. What
  makes them so is `SlotsInv`, which says what both slots hold at every word of a publish;
  `CopyInv`, that a copying reader loaded an even counter less than a modulus ago;
  `NearCopyInv`, `CopyIsNewest` restated with the true difference of counters; and
  `FrameInv`, that no accepted frame is newer than the newest. Wrapped and true differences
  are tied by the lemmas `U32Parity`, `U32Slot` and `UnlappedIs`.
* `HandoffWholeUnlessPassed`: what any build promises of a copy, for every frame size, number
  of readers and number of tries.
* `HandoffInOrderNeverTorn`, `HandoffInOrderCopyIsNewest`, `HandoffInOrderNeverGoesBack`: the
  properties of the run Handoff, each with the premise `StoresInOrder`. It is a fact about
  the processor and the compiler, not about the code: the release store of `ff-handoff.c:13`
  does not give it, and without it TLC refutes the first of them.
* `HandoffReadBounded`: in every build, whatever order its stores take, `ff_handoff_read` is
  wait-free. `StepsLeft`, the attempts left times the steps of one and the rest of this one, is
  a natural number that each step of the reader lowers until it leaves, and no other step
  changes; a reader in the call always has a step, because its guards cover every case. It
  rests on `AttemptInv` and on the lemmas `OneWordLess` and `OneAttemptLess`.

  The guard `NoFullLap` keeps the writer from lapping a copying reader by a whole modulus,
  after which the counter would look unchanged. On the real counter that is 2^31 publishes
  during one copy of one frame: more than a year at the rate frames come.

Its second part is about FFAudio, assumes `AudioAssumption` (that of FFAudioTap) as well, and
cites the theorems of FFAudioTapProofs through an instance of that module:

* `AudioImplementsTap`: every step is a step of FFAudioTap or leaves it alone, so that all that
  is proved of the tap holds here (`TapInvariant`).
* `AudioImplementsHandoff`: every step is a step of FFHandoff or a stutter, for any sources,
  names, readers, and frames, in order or not. It needs `PublishInv`: a callback
  between two stores is exactly where FFHandoff's writer is, with the same words copied in, and
  when none is, no frame is in flight. That is inductive only because no two callbacks
  publish, which the tap's invariant gives (`OnePublishes`).
* `AudioWholeUnlessPassed`, and under `StoresInOrder` `AudioInOrderFramesRight`: so the safety
  properties of the frames hold of the plugin's own writer; `AudioFreedQuiet`: the handoff is freed with no frame in flight.

`FFAlertsProofs` (assuming `AlertsAssumption` and `QueueAssumption`, which say what kinds of
values the constants are):

* `AlertsTypeOK`, `AlertsArtIsWanted`, `AlertsSilentWhenIdle`: inductive with the types.
* `AlertsLockOutlivesCallers`: strengthened by `LockInv`, what each step of
  `alert_destroy` has waited for.
* `AlertsIsFifo`: every step of FFAlerts is a step of AlertFifo or a stutter, for every
  queue length. It rests on `PushAppends`, `PopTakesFront` and `ClearEmpties`: what the
  ring's operations do to the sequence of waiting alerts, by the modular arithmetic of
  `RingSlot`, `RingApart` and `RingNext`.

`FFAudioTapProofs` (assuming `AudioTapAssumption`: the master mix, the null reference and the
empty name are none of the sources and names):

* `AudioInvariant`: `IInv` always holds. `AtMostOneFeed` is not inductive, because it says
  nothing of the fields the code decides by; `ConnInv` adds that the mode, the weak
  reference and `master_connected` say exactly where the callback is registered, `FeedInv`
  that it runs only there, `NamesInv` that a name finds one source, and `DestroyInv` what
  each step of `ff_audio_destroy` has waited for.
* `AudioOneWriter`, `AudioSaysWhatItHears`, `AudioNobodyInside`: the safety properties of
  the run, for any number of sources and names.

`FFPackInstallProofs` (assuming `PackInstallAssumption`: each zip has an id and is valid or
not, a whole pack has a manifest, and nothing is neither a zip nor a process id):

* `InstallInvariant`: `IInv` always holds. `DestIsWhole` says what lies under a pack's id, and
  nothing of where it comes from: `CallInv` adds what a call knows of its own `tmp` and `bak`
  at each label, which nobody else touches because nobody else has its process id, and
  `CopyInv` that while a backup is being taken apart and the pack is not in place, another
  whole backup exists that nobody takes apart.
* `InstallTypeOK`, `InstallDestIsWhole`, and `InstallIsShelf`: every step of FFPackInstall,
  crashes and cleanups included, is a step of PackShelf or a stutter, for any number of
  processes, process ids, packs and files. `CopyInv` is the invariant that makes this true.

`FFSignInProofs` (assuming `SignInAssumption`, which bounds tokens, presses and faults by any
numbers):

* `SignInInvariant`, `SignInTypeOK`, `SignInStaysSignedIn`: `SignedInUnlessCause` for any
  number of workers and tokens, through every step of a save. `HeldInv` says that a worker asks
  with a token, that one which saves has a token to save and that, without a cause, the `.tmp`
  holds it; `DeadInv` that a worker refused over the token in the file had a dead one; `ApartInv`
  that a token on its way is nobody else's; `FreshInv` that one which is about to replace the
  token it was given for, or has set it aside, still works. Without a cause, then, between the
  two renames, when there is no file, the token in the `.tmp` is good and about to be put there.

`FFTwitchProofs` (assuming `TwitchAssumption` and `SessionAssumption`: the limits are natural
numbers, the service's keepalive intervals are positive and have a longest, the address to
move to is not the usual one, there is something to subscribe to):

* `TwitchInvariant`: `IInv` always holds. Its parts are `SocketsInv`, which sockets the worker
  holds and that one it does not hold is silent; `SubscribedInv`, that whoever is told to move,
  is moving or was moved has subscribed; and `OrderInv`, which is `AlertsOnceInOrder` extended
  to what is unread: it is newer than what was shown, rises along each inbox, and what the
  replacement has is newer than what the socket it replaces was sent before it.
* `TwitchTypeOK`, `TwitchNoSocketLeft`, `TwitchSubscribesOnce` and `TwitchAlertsOnceInOrder`, for
  any number of sockets, alerts, reconnects and presses.
* `TwitchShutdownNears`: what `ShutdownFinishes` rests on. Once `running` is cleared it stays
  cleared, the worker takes one of the ways out (`WayOut`, `WorkerLeaves`), each of its steps
  lowers `StepsToExit` (`WayOutNears`), which is nine at most and zero only at the end, and
  nothing the service, the network or the clock does raises it. That it takes them is
  fairness, and an upgrade that hangs takes none.

`FFWsConnProofs` (assuming `WsConnAssumption`: sizes are natural numbers, a header is at most as
long as the room kept for it, and the answer's buffer is no larger than the connection's):

* `WsConnInvariant`: `IInv` always holds. `PhaseInv` says what each place in the code has done,
  `AnswerInv` that an answer is only ever the first frame, `BytesInv` that the bytes of the
  stream are those in the buffer and those in flight, `ItemsInv` that reading the stream on
  from here gives the server's remaining items. Both of the last are sums over the stream.
  Rather than by recursion they are stated with witnesses: a function
  that gives what follows each frame, and two that give what a reader has of a message and how
  many items it has seen after it. A drop shifts the witnesses, an append extends them.
* `WsConnTypeOK`, `WsConnNeverFullAndWaiting`, `WsConnOneGoodbye` (of the main socket: a
  replacement may be freed without a word), and `WsConnInOrderAndWhole`: every step is a step of MessageLine or a stutter, for every length of stream and every
  buffer size.

`FFInstanceProofs` (assuming `InstanceAssumption`: a key is a layer and a parameter, manifests
name known packs and list presets and layers in arrays, ranges have integer ends, which stand
for the code's floats, and scenes were saved with values of the right kind):

* `InstanceInvariant`: `IInv` always holds. `Due` says whether an update is asked for that will
  read the settings as they are now, or will be by the callback that is running; what is true
  at rest is what is true when nothing is due. `PickInv` follows a pick from the callback's
  first step to the status line; `LayersInv` and `SetInv` say that every parameter of the layers
  is one of those that were loaded (`Loaded`, with `Grown` for what may have changed of it
  since) and has the viewer's value; `DefaultsInv` that the recorded defaults are pristine;
  `ListInv` and `EntitledInv` that no list names a refused pack, and that what is loaded was
  neither refused nor blocked; `UpdateInv` that between the two halves of an update the instance
  already has the ids it is for. What `LayersInv` and `DefaultsInv` say of the layers is
  suspended while they are being replaced (`Replacing`): keys and ids are the new preset's, the
  layers still the old one's.
* The lemmas `NewIsFresh`, `ApplyGrows`, `BakeGrows` and `ParamIsRebuilt` say what loading, a
  setting and a bake make of one parameter; `ApplyIs`, `BakeIs` and `ShapedIs` lift them to the
  layers.
* `InstanceTypeOK`, `InstanceKeysGo`, `InstancePaidIsEntitled`, `InstancePickDraws`,
  `InstancePanelShowsWhatIsDrawn`, `InstanceUpdateIsRebuild` and `InstanceStackInOrder`: every
  invariant of the run, for any packs, versions, presets, layers, parameters, and changes.
* The last is about a loop. `Stacked` is a recursive function, and what it computes after any
  number of layers is proved with least counterexamples instead of an induction rule: by
  `Least`, a set of natural numbers that has no least element is empty. `LoopExists` shows so
  that the recursion defines a function, `StackedIs` that `Stacked` is the one, and
  `StackedChains` that each draw reads what the one before it wrote, because a layer that
  draws or is skipped keeps the chain (`PassChains`).

Every `IInv` was an invariant of a TLC run on the constants of the module's configuration
before it was proved; those of FFWsConn with the witnesses computed by recursive functions.

**Only model-checked.** The liveness properties: liveness under fairness and ENABLED are beyond
the prover. What two of them rest on is proved: `ReadBounded` for `ReadReturns`, and
`TwitchShutdownNears` for `ShutdownFinishes`; what TLC adds is that the steps they count can
be taken and are.
No module that is proved about has a `RECURSIVE` operator.

## What the checks found

Three sentences of the repository are refuted by a run that TLC must find violated, with an
entry in PROJECT.json that quotes the lines.

1. **TwitchHandover** (`ff-session.c:26`): the reconnect message's null keepalive
   overwrites the negotiated one, so the first quiet poll of a changeover applies the
   welcome time-out to the old socket and drops both.
2. **TwitchSavedSignIn** (`ff-twitch.c:531`): a worker starts in OFF, and OFF waits for
   Connect to be pressed, also when a sign-in is saved and the box is ticked.
3. **InstanceStatus** (`ff-props.c:617`): every update rewrites the status, some load layers.
   A version the licence does not reach, installed over one it does, is named as blocked
   while the earlier version's layers are still drawn. The comments say that a blocked pack
   loads no layers and renders nothing.

Nine more are stated in the modules, and TLC refutes them when they are added to a
configuration as described; no run is kept for them:

* `NoTornFrame` as an invariant of Handoff.cfg with `StoresInOrder = FALSE` (`ff-handoff.c:13`):
  the odd store is a release store, which does not keep the frame's plain stores behind it. On
  arm64, which is built for (`CMakePresets.json:32`), a reader can accept a torn frame;
  `tests/test_handoff.c:32` counts on none. A fence after the odd store would settle it.
* `JoinReturns` as a property of TwitchLive.cfg (`ff-net.c:248`): the loop that sends the upgrade
  request has no bound and does not look at `running`. A peer that accepts the connection and
  reads nothing holds the worker there, and the join in `ff_twitch_destroy` with it; the comment
  at `ff-alert-source.c:385` gives that join thirty seconds.
* `OnlyDeadTokensForgotten` as a property of SignIn.cfg (`ff-twitch-api.c:257`): every 4xx on a
  refresh deletes the token, 429 and a mistyped client ID included, and an empty client ID does
  without Twitch being asked (line 234). The comments at `ff-twitch-api.c:258` and
  `ff-twitch.c:318` say that only a token which cannot work again goes.
* `KeysBelong` as an invariant of Instance.cfg (`ff-props.c:620`): layer keys are erased once in an
  update, and the page that is open may still be the old preset's: a control turned between the
  erasing and the applying leaves its value to the new preset's parameter of that name, against
  the comment at line 127.
* `PickAlwaysDraws` as an invariant of Instance.cfg (`ff-props.c:614`): an update loads when the ids
  have changed. A missing pack is installed, and between two updates another one is picked and
  then it: the ids are the same, the status clears, and nothing is drawn. Installing it without
  picking anything ends the same way, until Reload is pressed.
* `DrawnIsEntitled` as an invariant of Instance.cfg (`ff-props.c:624`): the gate looks at the
  manifest that was listed, effects are compiled from what is on disk. A version the licence does
  not reach, installed by another source since the scan, is drawn after the next load, against
  the comment at line 199.
* `SkipHolds` as a property of Alerts.cfg (`ff-alert-source.c:533`): the skip button stores
  `elapsed` from the UI thread between the tick's load and store, and is lost. The comment
  at line 107 says only the video thread writes it.
* `SignOutDeletes` as a property of TwitchLive.cfg with two presses (`ff-twitch.c:515`):
  signing out is looked at only between connections, so a healthy one goes on, token and all.
* `NameIsFollowed` as a property of Audio.cfg (`ff-audio.c:150`): a followed source renamed
  away is still followed, and when it goes, the source that has its name by then is not
  looked for.

Also seen while modelling, without a run of their own:

* Switching the feed off while it is live leaves the state LIVE (`ff-twitch.c:368`).
* After a changeover whose replacement is slow to be welcomed, the panel stays at
  CONNECTING until the next state change.
* Alerts already on the old socket when the replacement is welcomed are closed away unread
  (`ff-twitch.c:394`), and a read error ends a connection before frames already buffered
  are parsed (`ff-ws-conn.c:340`).
* The last of the upgrade's reads is never looked at (`ff-net.c:265-296`).
* A close frame without a code is answered with 1005, which may not be sent.
* An alert of a kind that has just been switched off can still join the queue: the check of
  `kinds[].enabled` (`ff-alert-source.c:260`) is made before the lock is taken.
* If OBS dies, the answer is lost or the write fails between a refresh and the saving of the
  new token, the token on disk is one Twitch no longer takes (`ff-twitch.c:334`): the next
  refusal removes it (`DeadTokenGoes`) and the streamer has to sign in again.
* If OBS dies between the two renames of a save, the sign-in is in `twitch.json.bak`, which
  `ff_twitch_token_load` does not read (`ff-twitch-api.c:391`, `408-421`).
* Two workers that save at once share one `twitch.json.tmp`: one may put the other's token in
  place, and the other then finds nothing to rename ("two saves").
* While every worker is disabled, OFF or FAILED a dead token stays on disk: nobody tries it.
* With two alert sources on one sign-in, a worker that loaded a token another has renewed
  since is refused, and `ff_twitch_token_forget` deletes the file with the other's good
  token; a renewal that comes late is stored over a newer sign-in. `SignedInUnlessCause`
  names both as the cause "overtaken".
* A crash between the two renames leaves the pack in `.bak-<id>-<pid>`, whole but with a name
  that scans skip (`ff-pack.c:330`), and nothing moves it back. `IsShelf` counts it as a
  copy.
* Layers come from the list, their effects and images from the disk at that moment: a load
  after an install by another source, before a rescan, mixes two versions (`DrawnIsEntitled` is
  the worst of it). `UpdateIsRebuild` compares with the same mixture.
* A replacement that is given up, or outlived by the connection, is freed without a close frame
  (`ff-twitch.c:380`, `410`, `476`, `502`), also after it has answered pings.
* Opening the page may repair the selected preset without asking for an update, so the page
  then shows a preset that is not loaded until the next edit.
* `on_pack_changed` uses `first`, a pointer into the list, after it has let go of the lock
  (`ff-props.c:333`); it is safe as long as only the UI thread replaces the list.

## What is left out

* **Pure data**: the sanitiser and the wording of alert text, names of alert kinds, JSON,
  URLs, masking, SHA-1, base64, image decoding, signatures, the FFT. They are functions
  with unit tests of their own.
* **Drawing and layout**: shaders, GPU calls, Qt widgets, property pages.
* **The dock** (`ff-dock.cpp`): Qt widgets on the UI thread that poll the instances through two
  procedures which only read. What could go wrong there is between Qt's signals and libobs's,
  neither of which is in the repository.
* **Numerics** (`ff-analysis.c`, `ff-viseme.c`): single-threaded arithmetic on floating-point
  envelopes; an abstraction to loudness classes would have to invent the order in which
  they cross the thresholds.
* **Within the instance**: animation, the built-in uniforms, the mouth's five controls, the
  audio settings (FFAudioTap has them), the canvas size, and how the page lays its widgets
  out. libobs's part (deferred updates, `obs_data`, `os_safe_replace`) is modelled from how
  the code uses it and marked external.
* **Shells and tools**: libobs registration, Python authoring tools, build files, vendored
  kissfft and monocypher.
* **Unbounded counters** (`frames_rendered`, `dropped` in the runs' bounds, publishes
  beyond `MaxSeq`): bounded by the constants named `Max...`.
* **The diagnostic stall** of `ff-audio.c:28`, which exists for tests.

## Plan

Done: every part of the system that has concurrency, failure or ordering in it is checked, and
every safety property of a passing run is proved, its refinements included. The statements that
hold only on conditions carry them, and what each condition costs is listed under
[What the checks found](#what-the-checks-found). What would come
next are the facts that the other liveness properties rest on, as `ReadBounded` is for
`ReadReturns` and `TwitchShutdownNears` for `ShutdownFinishes`: that a configure which waits
for a callback waits for one that holds no lock, and that each step of an alert's life brings
its end nearer.
