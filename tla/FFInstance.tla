------------------------------ MODULE FFInstance ------------------------------
(***************************************************************************)
(* One visualizer, filter or transition (ff-props.c) and the packs it      *)
(* draws from: the UI thread runs the properties page's callbacks, the     *)
(* video thread runs the deferred update and draws, and packs are replaced *)
(* on disk from outside.  A callback is a sequence of steps, and the other *)
(* thread runs between any two of them.  state_lock guards the instance,   *)
(* not the settings: while the update holds it, what needs it waits, and a *)
(* control on the page can still be turned.                                *)
(***************************************************************************)
EXTENDS FFPack, FFRenderer, FiniteSets

CONSTANTS
  Packs,          \* pack ids
  Versions,       \* what may be installed
  Manifest,       \* the manifest of each version
  InstanceKind,   \* "source", "filter" or "transition"
  DefaultPack,    \* ff_instance_defaults
  DefaultPreset,
  Values,         \* what a viewer may set each settings key to on the page
  SavedKeys,      \* what a scene may have been saved with
  MaxChanges      \* bound: how often the viewer or the disk changes something

ASSUME InstanceAssumption ==
  /\ InstanceKind \in {"source", "filter", "transition"}
  /\ DefaultPack \in Packs
  /\ None \notin Versions /\ MaxChanges \in Nat
  /\ \A k \in Keys : k = <<k[1], k[2]>>
  /\ \A v \in Versions : Manifest[v].id \in Packs /\ None \notin PresetIds(Manifest[v])
  /\ \A v \in Versions : LET presets == Manifest[v].presets
                         IN  IsArray(presets) /\ \A i \in DOMAIN presets : IsArray(presets[i].layers)
  /\ \A v \in Versions : \A e \in DOMAIN Effects[v] : \A n \in DOMAIN Effects[v][e].params :
       Effects[v][e].params[n].lo \in Int /\ Effects[v][e].params[n].hi \in Int
  /\ \A saved \in SavedKeys :
       saved = [k \in Keys |-> saved[k]] /\ \A k \in Keys : saved[k] \in Values[k] \union {None}

VARIABLES
  disk,      \* the version of each pack that is installed
  packs,     \* in->packs: the version of each pack the last scan found
  settings,  \* the pack and preset in the settings object
  keys,      \* and the layer parameters the viewer has set
  owner,     \* where each of them was set: what was loaded, and whose control it was
  defaults,  \* the defaults of the layer parameters
  inst,      \* pack_id, preset_id, status, reload_pending, initialised
  layers,    \* the renderer's layer array
  built,     \* what they were last loaded from, and whether it is still there
  page,      \* the properties page: whose controls it has, and which
  pending,   \* libobs's defer_update_count
  ui,        \* the callback the UI thread is in, and whether the last one picked a pack
  video,     \* the update the video thread is in
  changes    \* how many changes there have been

settingsVars == <<settings, keys, owner, defaults>>
rendererVars == <<layers, built>>
vars == <<disk, packs, settings, keys, owner, defaults, inst, layers, built, page, pending,
          ui, video, changes>>

NoKeys == [k \in Keys |-> None]

(***************************************************************************)
(* The list.                                                               *)
(***************************************************************************)
\* ff_packs_scan: a pack that is refused is an error line and not in the list.
Scanned ==
  [p \in Packs |-> IF disk[p] = None \/ Refused(Manifest[disk[p]]) THEN None ELSE disk[p]]

\* preset_kind_matches.
Fits(kind) ==
  CASE InstanceKind = "filter" -> kind = "effects"
    [] InstanceKind = "transition" -> kind = "transition"
    [] OTHER -> kind \in {"visualizer", "overlay"}

\* populate_preset_list: the presets that are put in, their ids, and the first's
\* (a set, for want of one when there is none).
Fitting(pack) ==
  IF packs[pack] = None THEN {}
  ELSE LET presets == Manifest[packs[pack]].presets
       IN  {i \in 1..Len(presets) : Fits(presets[i].kind)}

Ids(pack, indices) == {Manifest[packs[pack]].presets[i].id : i \in indices}
OfferedPresets(pack) == Ids(pack, Fitting(pack))
FirstOffered(pack) ==
  Ids(pack, {i \in Fitting(pack) : \A j \in Fitting(pack) : i <= j})

\* populate_pack_list: packs with something to offer, and the current one.
OfferedPacks == {p \in Packs : packs[p] # None /\ (OfferedPresets(p) # {} \/ p = inst.pack)}

(***************************************************************************)
(* ff_instance_create scans and runs the first update, with the settings   *)
(* the scene was saved with.                                               *)
(***************************************************************************)
Init ==
  /\ disk \in [Packs -> Versions \union {None}]
  /\ \A p \in Packs : disk[p] # None => Manifest[disk[p]].id = p
  /\ packs = Scanned
  /\ settings = [pack |-> DefaultPack, preset |-> DefaultPreset]
  /\ keys \in SavedKeys
  /\ owner = [k \in Keys |-> [loaded |-> <<DefaultPack, DefaultPreset>>,
                              page |-> <<DefaultPack, DefaultPreset>>]]
  /\ defaults = NoKeys
  /\ inst = [pack |-> None, preset |-> None, status |-> "", reload |-> FALSE,
             initialised |-> FALSE]
  /\ layers = <<>>
  /\ built = [pack |-> None, preset |-> None, listed |-> None, from |-> None, same |-> FALSE]
  /\ page = [pack |-> None, preset |-> None, keys |-> {}]
  /\ pending = 0
  /\ ui = [picked |-> FALSE, todo |-> <<>>, found |-> packs, first |-> None]
  /\ video = [pc |-> "update", pack |-> settings.pack, preset |-> settings.preset,
              reload |-> FALSE, count |-> 0]
  /\ changes = 0

(***************************************************************************)
(* The UI thread.                                                          *)
(***************************************************************************)
\* Mutant: the update is asked for before the flag it is to find is set.
StepsAskFirst(why) ==
  CASE why = "open" -> <<"scan", "swap", "build", "look", "repair">>
    [] why = "pack" -> <<"look", "repair", "ask">>
    [] why = "install" -> <<"unpack", "scan", "swap", "ask">>
    [] why = "reload" -> <<"scan", "swap", "ask", "flag">>
    [] OTHER -> <<"ask">>

\* Mutant: the preset of the old pack stays selected.
StepsUnrepaired(why) ==
  CASE why = "open" -> <<"scan", "swap", "build", "look", "repair">>
    [] why = "install" -> <<"unpack", "scan", "swap", "ask">>
    [] why = "reload" -> <<"scan", "swap", "flag", "ask">>
    [] OTHER -> <<"ask">>

\* The steps of each callback.  OBS runs the pack's callback when the page is
\* opened, too, and then asks for no update; after an edit it does.
Steps(why) ==
  CASE why = "open" -> <<"scan", "swap", "build", "look", "repair">>
    [] why = "pack" -> <<"look", "repair", "ask">>
    [] why = "install" -> <<"unpack", "scan", "swap", "ask">>
    [] why = "reload" -> <<"scan", "swap", "flag", "ask">>
    [] OTHER -> <<"ask">>

Change ==
  /\ changes < MaxChanges
  /\ changes' = changes + 1

Begin(why) ==
  /\ ui.todo = <<>> /\ inst.initialised
  /\ ui' = [ui EXCEPT !.picked = (why = "pack"), !.todo = Steps(why)]
  /\ UNCHANGED <<disk, packs, defaults, inst, rendererVars, page, pending, video>>

PickPack(p) ==
  /\ p \in OfferedPacks \ {settings.pack}
  /\ Change /\ Begin("pack")
  /\ settings' = [settings EXCEPT !.pack = p]
  /\ UNCHANGED <<keys, owner>>

PickPreset(id) ==
  /\ id \in OfferedPresets(settings.pack) \ {settings.preset}
  /\ Change /\ Begin("preset")
  /\ settings' = [settings EXCEPT !.preset = id]
  /\ UNCHANGED <<keys, owner>>

\* A control on the page: the page has the controls it was built with, whatever
\* has been picked or loaded since, and they write the settings without a lock.
Turn(k, v) ==
  /\ k \in page.keys /\ v # keys[k]
  /\ Change /\ Begin("knob")
  /\ keys' = [keys EXCEPT ![k] = v]
  /\ owner' = [owner EXCEPT ![k] =
                 IF v = None THEN None
                 ELSE [loaded |-> <<inst.pack, inst.preset>>, page |-> <<page.pack, page.preset>>]]
  /\ UNCHANGED settings

\* OBS's Restore Defaults clears every value the viewer has set.
RestoreDefaults ==
  /\ Change /\ Begin("restore")
  /\ settings' = [pack |-> DefaultPack, preset |-> DefaultPreset]
  /\ keys' = NoKeys /\ owner' = NoKeys

\* ff_instance_properties, on_install_changed and on_reload.
Press(why) ==
  /\ why \in {"open", "install", "reload"}
  /\ Change /\ Begin(why)
  /\ UNCHANGED <<settings, keys, owner>>

\* The update holds state_lock.
Locked == video.pc = "load"

\* The callback's next step, which leaves the rest.
Step(step) == ui.todo # <<>> /\ Head(ui.todo) = step
Done == ui' = [ui EXCEPT !.todo = Tail(@)]

\* ff_packs_install_zip has installed a pack or refused to.
Unpack ==
  /\ Step("unpack") /\ Done
  /\ \/ \E v \in Versions :
          /\ disk' = [disk EXCEPT ![Manifest[v].id] = v]
          /\ built' = [built EXCEPT !.same = @ /\ Manifest[v].id # built.pack]
     \/ UNCHANGED <<disk, built>>
  /\ UNCHANGED <<packs, settingsVars, inst, layers, page, pending, video, changes>>

\* refresh_packs: into a fresh list without the lock, which then replaces it.
Scan ==
  /\ Step("scan")
  /\ ui' = [ui EXCEPT !.todo = Tail(@), !.found = Scanned]
  /\ UNCHANGED <<disk, packs, settingsVars, inst, rendererVars, page, pending, video, changes>>

Swap ==
  /\ Step("swap") /\ Done /\ ~Locked
  /\ packs' = ui.found
  /\ UNCHANGED <<disk, settingsVars, inst, rendererVars, page, pending, video, changes>>

\* ff_renderer_add_properties: the controls of what is loaded.  A callback that
\* returns TRUE has OBS draw the page again with the same ones.
Build ==
  /\ Step("build") /\ Done /\ ~Locked
  /\ page' = [pack |-> inst.pack, preset |-> inst.preset, keys |-> ExposedKeys(layers)]
  /\ UNCHANGED <<disk, packs, settingsVars, inst, rendererVars, pending, video, changes>>

\* on_pack_changed under the lock: is the preset offered, and what is first?
Look ==
  /\ Step("look") /\ ~Locked
  /\ \E first \in IF settings.preset \in OfferedPresets(settings.pack)
                    \/ OfferedPresets(settings.pack) = {}
                 THEN {None} ELSE FirstOffered(settings.pack) :
       ui' = [ui EXCEPT !.todo = Tail(@), !.first = first]
  /\ UNCHANGED <<disk, packs, settingsVars, inst, rendererVars, page, pending, video, changes>>

Repair ==
  /\ Step("repair")
  /\ settings' = IF ui.first = None THEN settings ELSE [settings EXCEPT !.preset = ui.first]
  /\ ui' = [ui EXCEPT !.todo = Tail(@), !.first = None]
  /\ UNCHANGED <<disk, packs, keys, owner, defaults, inst, rendererVars, page, pending, video,
                 changes>>

Flag ==
  /\ Step("flag") /\ Done /\ ~Locked
  /\ inst' = [inst EXCEPT !.reload = TRUE]
  /\ UNCHANGED <<disk, packs, settingsVars, rendererVars, page, pending, video, changes>>

\* obs_source_update only counts.
Ask ==
  /\ Step("ask") /\ Done
  /\ pending' = pending + 1
  /\ UNCHANGED <<disk, packs, settingsVars, inst, rendererVars, page, video, changes>>

Callback == Unpack \/ Scan \/ Swap \/ Build \/ Look \/ Repair \/ Flag \/ Ask

\* A pack is installed by another source, or deleted by hand.
Elsewhere ==
  /\ Change
  /\ \E p \in Packs, v \in Versions \union {None} :
       /\ v # None => Manifest[v].id = p
       /\ v # disk[p]
       /\ disk' = [disk EXCEPT ![p] = v]
       /\ built' = [built EXCEPT !.same = @ /\ p # built.pack]
  /\ UNCHANGED <<packs, settingsVars, inst, layers, page, pending, ui, video>>

(***************************************************************************)
(* The video thread.                                                       *)
(***************************************************************************)
\* libobs's tick runs the update that was asked for; it reads the ids first.
UpdateBegin ==
  /\ video.pc = "idle" /\ pending > 0
  /\ video' = [pc |-> "update", pack |-> settings.pack, preset |-> settings.preset,
               reload |-> FALSE, count |-> pending]
  /\ UNCHANGED <<disk, packs, settingsVars, inst, rendererVars, page, pending, ui, changes>>

Status(pack, preset) ==
  IF packs[pack] = None THEN "missing"
  ELSE IF Blocks(Manifest[packs[pack]]) THEN "blocked"
  ELSE IF preset \notin PresetIds(Manifest[packs[pack]]) THEN "no_preset"
  ELSE ""

\* The first update is not a switch: its settings were saved with the scene.
Changed ==
  inst.initialised /\ <<inst.pack, inst.preset>> # <<video.pack, video.preset>>

Reload == Changed \/ inst.reload \/ ~inst.initialised

\* ff_renderer_load of the preset of a listed version, compiled from disk.
\* Missing, blocked and of an unknown preset are all no layers.
LayersOf(listed, preset, from) ==
  IF \/ listed = None
     \/ Blocks(Manifest[listed])
     \/ preset \notin PresetIds(Manifest[listed])
  THEN <<>>
  ELSE Load(FindPreset(Manifest[listed], preset).layers, from)

\* Mutant: a switch leaves the old preset's values.
EraseKeeps ==
  /\ video.pc = "update"
  /\ inst' = [inst EXCEPT !.pack = video.pack, !.preset = video.preset,
                          !.status = Status(video.pack, video.preset), !.reload = FALSE]
  /\ video' = [video EXCEPT !.pc = "load", !.reload = Reload]
  /\ UNCHANGED <<disk, packs, settingsVars, rendererVars, page, pending, ui, changes>>

\* ff_instance_update takes the lock and decides what is to be loaded; a switch
\* takes the layer keys with it.
Erase ==
  /\ video.pc = "update"
  /\ inst' = [inst EXCEPT !.pack = video.pack, !.preset = video.preset,
                          !.status = Status(video.pack, video.preset), !.reload = FALSE]
  /\ video' = [video EXCEPT !.pc = "load", !.reload = Reload]
  /\ IF Changed THEN keys' = NoKeys /\ owner' = NoKeys /\ defaults' = NoKeys
     ELSE UNCHANGED <<keys, owner, defaults>>
  /\ UNCHANGED <<disk, packs, settings, rendererVars, page, pending, ui, changes>>

\* Mutant: every update records the defaults, from what is live.
UpdateRecords ==
  /\ Locked
  /\ LET file == disk[inst.pack]
         loaded == IF video.reload THEN LayersOf(packs[inst.pack], inst.preset, file) ELSE layers
     IN  /\ defaults' = [k \in Keys |-> IF k \in ExposedKeys(loaded)
                                        THEN ParamAt(loaded, k).def ELSE None]
         /\ layers' = Apply(loaded, keys, file)
         /\ built' = IF video.reload
                     THEN [pack |-> inst.pack, preset |-> inst.preset, listed |-> packs[inst.pack],
                           from |-> file, same |-> TRUE]
                     ELSE built
  /\ inst' = [inst EXCEPT !.initialised = TRUE]
  /\ video' = [video EXCEPT !.pc = "end"]
  /\ UNCHANGED <<disk, packs, settings, keys, owner, page, pending, ui, changes>>

\* The rest of it, with the settings there are by now: only a load records the
\* defaults; every update applies the settings.
Update ==
  /\ Locked
  /\ LET file == disk[inst.pack]
         loaded == IF video.reload THEN LayersOf(packs[inst.pack], inst.preset, file) ELSE layers
     IN  /\ defaults' = IF video.reload THEN SetDefaults(loaded, defaults) ELSE defaults
         /\ layers' = Apply(loaded, keys, file)
         /\ built' = IF video.reload
                     THEN [pack |-> inst.pack, preset |-> inst.preset, listed |-> packs[inst.pack],
                           from |-> file, same |-> TRUE]
                     ELSE built
  /\ inst' = [inst EXCEPT !.initialised = TRUE]
  /\ video' = [video EXCEPT !.pc = "end"]
  /\ UNCHANGED <<disk, packs, settings, keys, owner, page, pending, ui, changes>>

\* libobs: the count is cleared only if nothing was asked for meanwhile.
UpdateEnd ==
  /\ video.pc = "end"
  /\ pending' = IF pending = video.count THEN 0 ELSE pending
  /\ video' = [pc |-> "idle", pack |-> None, preset |-> None, reload |-> FALSE, count |-> 0]
  /\ UNCHANGED <<disk, packs, settingsVars, inst, rendererVars, page, ui, changes>>

\* A frame: what matters here is that a gradient out of date is baked.
Render ==
  /\ video.pc = "idle" /\ Bake(layers) # layers
  /\ layers' = Bake(layers)
  /\ UNCHANGED <<disk, packs, settingsVars, inst, built, page, pending, ui, video, changes>>

Video == UpdateBegin \/ Erase \/ Update \/ UpdateEnd \/ Render

Viewer ==
  \/ \E p \in Packs : PickPack(p)
  \/ \E id \in OfferedPresets(settings.pack) : PickPreset(id)
  \/ \E k \in Keys : \E v \in Values[k] : Turn(k, v)
  \/ RestoreDefaults
  \/ \E why \in {"open", "install", "reload"} : Press(why)

Next == Viewer \/ Callback \/ Elsewhere \/ Video

\* An update that was entered returns: the steps of video that Erase and Update take.
UpdateReturns ==
  \/ video.pc = "update" /\ video' = [video EXCEPT !.pc = "load", !.reload = Reload]
  \/ video.pc = "load" /\ video' = [video EXCEPT !.pc = "end"]

\* A callback that was entered runs on, and the video thread keeps ticking.
Fairness ==
  /\ WF_vars(Callback)
  /\ WF_vars(UpdateBegin \/ UpdateEnd)
  /\ WF_video(UpdateReturns)

Spec == Init /\ [][Next]_vars /\ Fairness

(***************************************************************************)
(* Properties.                                                             *)
(***************************************************************************)
PresetNames == {DefaultPreset} \union UNION {PresetIds(Manifest[v]) : v \in Versions}

\* The types; a layer that is there has the parameters its effect declares.
TypeOK ==
  /\ disk \in [Packs -> Versions \union {None}] /\ packs \in [Packs -> Versions \union {None}]
  /\ settings \in [pack : Packs, preset : PresetNames]
  /\ \A k \in Keys : keys[k] \in Values[k] \union {None}
  /\ DOMAIN defaults = Keys /\ DOMAIN owner = Keys
  /\ inst.status \in {"", "missing", "blocked", "no_preset"}
  /\ inst.pack \in Packs \union {None} /\ inst.preset \in PresetNames \union {None}
  /\ \A i \in DOMAIN layers : layers[i].ok \/ DOMAIN layers[i].params = {}
  /\ pending \in 0..(MaxChanges + 1) /\ changes \in 0..MaxChanges
  /\ video.pc \in {"idle", "update", "load", "end"} /\ page.keys \subseteq Keys

\* No update has been asked for that has not been done.
Quiet == inst.initialised /\ pending = 0 /\ video.pc = "idle" /\ ui.todo = <<>>

\* Updates are incremental: one that only touches a knob loads nothing, decodes
\* an image only if the pick has changed and bakes a ramp only if a stop has.
\* Whatever order edits, switches, reloads and frames came in, the next frame
\* draws what a source created now with these settings would, as long as the
\* files its layers were loaded from are still the ones on disk
\* (ff_instance_update, ff_renderer_apply_settings).
UpdateIsRebuild ==
  Quiet /\ built.same =>
    Bake(layers) = Bake(Apply(LayersOf(built.listed, inst.preset, built.from), keys, built.from))

\* A page opened now shows a setting, or its default where there is none.  That
\* is what is drawn with, after any edits and Restore Defaults: the defaults are
\* the preset's, never a value the viewer had set (ff_renderer_set_defaults).
PanelShowsWhatIsDrawn ==
  Quiet => \A k \in ExposedKeys(layers) :
             LET p == ParamAt(layers, k)
                 shown == IF keys[k] = None THEN defaults[k] ELSE keys[k]
             IN  CASE p.type = "number" -> p.def = Clamp(p, shown)
                   [] p.type = "gradient" -> p.def = shown
                   [] OTHER -> p.picked = shown

\* No value outlives the preset that was loaded when it was set, whatever page it
\* was set on: not one set before the switch, nor one set after the viewer had
\* picked the new preset and before the video thread came to it (erase_layer_keys).
KeysGoWithTheSwitch ==
  inst.initialised =>
    \A k \in Keys : keys[k] # None => owner[k].loaded = <<inst.pack, inst.preset>>

\* What the comment on is_layer_key says, "left behind, ff_renderer_apply_settings
\* would feed one shader's value to the same-named knob of another": no value set on
\* one preset's control is there for another's.
KeysBelong ==
  inst.initialised =>
    \A k \in Keys : keys[k] # None => owner[k].page = <<inst.pack, inst.preset>>

\* The viewer's last act was to pick a pack with a preset of this kind that may be
\* drawn, and every update asked for is done.
PackPicked ==
  /\ Quiet /\ ui.picked /\ OfferedPresets(settings.pack) # {}
  /\ ~Blocks(Manifest[packs[settings.pack]])

\* Then one of the pack's presets is loaded, though the preset of the old pack was
\* still selected, if the pack was in the list as it is now when something was last
\* loaded from it (on_pack_changed, ff_instance_update).
PickDraws ==
  PackPicked /\ built.listed = packs[settings.pack] =>
    /\ built.pack = settings.pack /\ built.preset \in OfferedPresets(settings.pack)
    /\ layers # <<>>

\* What the comment in on_pack_changed says its repair achieves, where without it the
\* source "then draws NOTHING": a pick always leaves something loaded.
PickAlwaysDraws == PackPicked => layers # <<>>

\* However many layers failed to load, and which, no layer draws into the
\* target it reads, and each reads what the one before it drew
\* (ff_renderer_render).
StackInOrder ==
  LET draws == Drawn(layers)
  IN  \A i \in 1..Len(draws) :
        /\ draws[i].reads # draws[i].writes
        /\ draws[i].reads = IF i = 1 THEN "input" ELSE draws[i - 1].writes

\* A version that does not say it is licensed, however it writes that, or that comes
\* with a genuine licence for this pack which covers its release.
Entitled(m) ==
  m.licensed.type # "absent" /\ (m.licensed.type = "boolean" => m.licensed.value) =>
    /\ m.licence # NoFile /\ Genuine(m.licence)
    /\ m.licence.pack = m.id
    /\ m.released.value <= m.licence.through

\* Layers that were compiled from the version that was scanned are of one the viewer
\* is entitled to: nothing refused or blocked is ever loaded (ff_pack_load_dir,
\* licence_blocks).
PaidIsEntitled ==
  layers # <<>> /\ built.from = built.listed => Entitled(Manifest[built.from])

\* What the comment on licence_blocks says, "a pack someone is not entitled to loads
\* ZERO layers", of the version the layers were compiled from, scanned or not.
DrawnIsEntitled ==
  layers # <<>> /\ built.from # None => Entitled(Manifest[built.from])

\* Every reload that was asked for is done (on_reload).
ReloadHappens == inst.reload ~> ~inst.reload

\* What the comments on licence_blocks and add_licence_line say, "a blocked pack
\* loads zero layers": while the status line refuses the pack, nothing is drawn.
BlockedDrawsNothing == inst.status = "blocked" => layers = <<>>

(***************************************************************************)
(* Why they hold: the inductive invariant.                                 *)
(***************************************************************************)
\* What is left of a callback that will ask for an update, and of one that will not.
AskTodos ==
  {<<"look", "repair", "ask">>, <<"repair", "ask">>,
   <<"unpack", "scan", "swap", "ask">>, <<"scan", "swap", "ask">>, <<"swap", "ask">>,
   <<"scan", "swap", "flag", "ask">>, <<"swap", "flag", "ask">>, <<"flag", "ask">>, <<"ask">>}
PageTodos ==
  {<<"scan", "swap", "build", "look", "repair">>, <<"swap", "build", "look", "repair">>,
   <<"build", "look", "repair">>, <<"look", "repair">>, <<"repair">>, <<>>}

Listing == [Packs -> Versions \union {None}]

TypesInv ==
  /\ keys = [k \in Keys |-> keys[k]] /\ owner = [k \in Keys |-> owner[k]]
  /\ defaults = [k \in Keys |-> defaults[k]]
  /\ inst \in [pack : Packs \union {None}, preset : PresetNames \union {None},
               status : {"", "missing", "blocked", "no_preset"},
               reload : BOOLEAN, initialised : BOOLEAN]
  /\ built \in [pack : Packs \union {None}, preset : PresetNames \union {None},
                listed : Versions \union {None}, from : Versions \union {None}, same : BOOLEAN]
  /\ ui \in [picked : BOOLEAN, todo : AskTodos \union PageTodos, found : Listing,
             first : PresetNames \union {None}]
  /\ video \in [pc : {"idle", "update", "load", "end"}, pack : Packs \union {None},
                preset : PresetNames \union {None}, reload : BOOLEAN, count : Nat]
  /\ video.pc # "idle" =>
       video.pack \in Packs /\ video.preset \in PresetNames /\ video.count <= pending

\* Before the first update is over, which has the settings the scene was saved with.
StartInv ==
  ~inst.initialised =>
    /\ video.pc \in {"update", "load"} /\ (video.pc = "load" => video.reload)
    /\ video.pack = DefaultPack /\ video.preset = DefaultPreset
    /\ ui.todo = <<>> /\ ~ui.picked /\ layers = <<>>
    /\ \A k \in Keys : owner[k].loaded = <<DefaultPack, DefaultPreset>>

\* From Erase on, the instance is at what the update was for.
UpdateInv == video.pc = "load" => inst.pack = video.pack /\ inst.preset = video.preset

\* Layers are being replaced, and what is in the settings is for the new ones.
Replacing == video.pc = "load" /\ video.reload

\* An update is asked for, or will be.
Asking == ui.todo \in AskTodos
Due == Asking \/ IF video.pc = "idle" THEN pending > 0 ELSE pending # video.count

CountInv == pending + (IF Asking THEN 1 ELSE 0) <= changes

\* No list names a pack that is refused.
ListInv ==
  \A list \in {packs, ui.found} : \A p \in Packs : list[p] # None => ~Refused(Manifest[list[p]])

EntitledInv ==
  layers # <<>> => LET m == Manifest[built.listed] IN ~Refused(m) /\ ~Blocks(m)

\* A preset of the pack, if it has one.
Of(pack, preset) == preset \in OfferedPresets(pack) \/ OfferedPresets(pack) = {}

\* From the pick of a pack until the viewer does something else.
PickInv ==
  ui.picked =>
    /\ ui.todo \in {<<"look", "repair", "ask">>, <<"repair", "ask">>, <<"ask">>, <<>>}
    /\ ui.todo = <<"repair", "ask">> =>
         Of(settings.pack, IF ui.first = None THEN settings.preset ELSE ui.first)
    /\ ui.todo \in {<<"ask">>, <<>>} => Of(settings.pack, settings.preset)
    /\ ~Due =>
         IF video.pc = "update"
         THEN video.pack = settings.pack /\ video.preset = settings.preset
         ELSE /\ inst.pack = settings.pack /\ inst.preset = settings.preset
              /\ inst.status = Status(settings.pack, settings.preset)

\* The layers as they were loaded, and a parameter of theirs since.
Loaded == LayersOf(built.listed, built.preset, built.from)

Grown(p, q, b) ==
  /\ p = [type |-> q.type, lo |-> q.lo, hi |-> q.hi, user |-> q.user, def |-> p.def,
          preset |-> q.preset, path |-> q.path, picked |-> p.picked, bound |-> p.bound,
          baked |-> p.baked, dirty |-> p.dirty]
  /\ ~Exposed(q) => p = q
  /\ q.type \in {"number", "gradient"} => p.picked = q.picked /\ p.bound = q.bound
  /\ q.type \in {"number", "texture"} => p.baked = q.baked /\ p.dirty = q.dirty
  /\ q.type = "gradient" => p.dirty \in BOOLEAN /\ (p.dirty \/ p.baked = p.def)
  /\ q.type = "texture" =>
       p.def = q.def /\ (Exposed(q) /\ b.same => p.bound = Binding(q.path, p.picked, b.from))

LayersInv ==
  inst.initialised =>
    /\ layers = [i \in DOMAIN Loaded |->
                   [ok |-> Loaded[i].ok,
                    params |-> [n \in DOMAIN Loaded[i].params |-> layers[i].params[n]]]]
    /\ \A i \in DOMAIN Loaded : \A n \in DOMAIN Loaded[i].params :
         Grown(layers[i].params[n], Loaded[i].params[n], built)
    /\ built.same => built.from = disk[built.pack]
    /\ ~Replacing => built.pack = inst.pack /\ built.preset = inst.preset

\* A parameter with the viewer's value, or without one.
Set(p, u) ==
  CASE p.type = "number" -> p.def = IF u = None THEN p.preset ELSE Clamp(p, u)
    [] p.type = "gradient" -> p.def = IF u = None THEN p.preset ELSE u
    [] OTHER -> p.picked = u

SetInv ==
  inst.initialised /\ ~Due /\ video.pc \notin {"update", "load"} =>
    \A i \in DOMAIN layers : \A n \in DOMAIN layers[i].params :
      Exposed(layers[i].params[n]) => Set(layers[i].params[n], keys[<<i, n>>])

DefaultsInv ==
  inst.initialised /\ ~Replacing =>
    \A k \in ExposedKeys(layers) :
      LET p == ParamAt(layers, k)
      IN  defaults[k] = IF p.type = "texture" THEN None ELSE p.preset

IInv ==
  /\ TypeOK /\ TypesInv /\ StartInv /\ UpdateInv /\ CountInv /\ ListInv /\ KeysGoWithTheSwitch
  /\ EntitledInv /\ PickInv /\ LayersInv /\ SetInv /\ DefaultsInv
=============================================================================
