-------------------------- MODULE FFInstanceProofs --------------------------
(***************************************************************************)
(* For any packs, presets, parameters and changes: what one source of      *)
(* FFInstance shows, draws and keeps.                                      *)
(***************************************************************************)
EXTENDS FFInstance, WellFoundedInduction, TLAPS

LEMMA Constants ==
  /\ DefaultPack \in Packs /\ DefaultPreset \in PresetNames
  /\ None \notin Versions /\ MaxChanges \in Nat
  BY InstanceAssumption DEF PresetNames

----------------------------------------------------------------------------
(* Callbacks *)

Todos == AskTodos \union PageTodos

LEMMA StepsAre ==
  /\ \A why \in {"pack", "preset", "knob", "restore", "install", "reload"} : Steps(why) \in AskTodos
  /\ Steps("open") \in PageTodos
  /\ Steps("pack") = <<"look", "repair", "ask">>
  BY DEF Steps, AskTodos, PageTodos


LEMMA ShortTuples ==
  \A a, b, c, d, e :
    /\ Head(<<a>>) = a /\ Tail(<<a>>) = <<>>
    /\ Head(<<a, b>>) = a /\ Tail(<<a, b>>) = <<b>>
    /\ Head(<<a, b, c>>) = a /\ Tail(<<a, b, c>>) = <<b, c>>
    /\ Head(<<a, b, c, d>>) = a /\ Tail(<<a, b, c, d>>) = <<b, c, d>>
    /\ Head(<<a, b, c, d, e>>) = a /\ Tail(<<a, b, c, d, e>>) = <<b, c, d, e>>
  OBVIOUS

LEMMA Apart == AskTodos \cap PageTodos = {} /\ <<>> \in PageTodos /\ <<>> \notin AskTodos
  BY DEF AskTodos, PageTodos

\* What a step leaves.
LEMMA AskTodoIs ==
  ASSUME NEW t \in AskTodos
  PROVE  /\ Head(t) # "ask" => Tail(t) \in AskTodos
         /\ Head(t) = "ask" => Tail(t) = <<>>
  <1>1. CASE t = <<"look", "repair", "ask">> BY <1>1, ShortTuples DEF AskTodos
  <1>2. CASE t = <<"repair", "ask">> BY <1>2, ShortTuples DEF AskTodos
  <1>3. CASE t = <<"unpack", "scan", "swap", "ask">> BY <1>3, ShortTuples DEF AskTodos
  <1>4. CASE t = <<"scan", "swap", "ask">> BY <1>4, ShortTuples DEF AskTodos
  <1>5. CASE t = <<"swap", "ask">> BY <1>5, ShortTuples DEF AskTodos
  <1>6. CASE t = <<"scan", "swap", "flag", "ask">> BY <1>6, ShortTuples DEF AskTodos
  <1>7. CASE t = <<"swap", "flag", "ask">> BY <1>7, ShortTuples DEF AskTodos
  <1>8. CASE t = <<"flag", "ask">> BY <1>8, ShortTuples DEF AskTodos
  <1>9. CASE t = <<"ask">> BY <1>9, ShortTuples DEF AskTodos
  <1> QED BY <1>1, <1>2, <1>3, <1>4, <1>5, <1>6, <1>7, <1>8, <1>9 DEF AskTodos

LEMMA PageTodoIs ==
  ASSUME NEW t \in PageTodos, t # <<>>
  PROVE  Head(t) # "ask" /\ Tail(t) \in PageTodos
  <1>1. CASE t = <<"scan", "swap", "build", "look", "repair">> BY <1>1, ShortTuples DEF PageTodos
  <1>2. CASE t = <<"swap", "build", "look", "repair">> BY <1>2, ShortTuples DEF PageTodos
  <1>3. CASE t = <<"build", "look", "repair">> BY <1>3, ShortTuples DEF PageTodos
  <1>4. CASE t = <<"look", "repair">> BY <1>4, ShortTuples DEF PageTodos
  <1>5. CASE t = <<"repair">> BY <1>5, ShortTuples DEF PageTodos
  <1> QED BY <1>1, <1>2, <1>3, <1>4, <1>5 DEF PageTodos

\* Of the callback of a pick.
LEMMA PickTodoIs ==
  ASSUME NEW t \in {<<"look", "repair", "ask">>, <<"repair", "ask">>, <<"ask">>, <<>>}, t # <<>>
  PROVE  \/ Head(t) = "look" /\ Tail(t) = <<"repair", "ask">>
         \/ Head(t) = "repair" /\ t = <<"repair", "ask">> /\ Tail(t) = <<"ask">>
         \/ Head(t) = "ask" /\ t = <<"ask">> /\ Tail(t) = <<>>
  <1>1. CASE t = <<"look", "repair", "ask">> BY <1>1, ShortTuples
  <1>2. CASE t = <<"repair", "ask">> BY <1>2, ShortTuples
  <1>3. CASE t = <<"ask">> BY <1>3, ShortTuples
  <1> QED BY <1>1, <1>2, <1>3

----------------------------------------------------------------------------
(* What the parts of the invariant hang on *)

LEMMA OfferedAre ==
  ASSUME packs \in Listing, NEW p \in Packs, NEW id \in OfferedPresets(p)
  PROVE  packs[p] \in Versions /\ id \in PresetIds(Manifest[packs[p]]) /\ id \in PresetNames
         /\ id # None
  <1>1. packs[p] # None BY DEF OfferedPresets, Ids, Fitting
  <1>2. packs[p] \in Versions BY <1>1 DEF Listing
  <1>3. id \in PresetIds(Manifest[packs[p]]) BY <1>1 DEF OfferedPresets, Ids, Fitting, PresetIds
  <1>4. None \notin PresetIds(Manifest[packs[p]]) BY <1>2, InstanceAssumption
  <1> QED BY <1>2, <1>3, <1>4 DEF PresetNames

LEMMA FirstIsOffered ==
  ASSUME NEW p PROVE FirstOffered(p) \subseteq OfferedPresets(p)
  BY DEF FirstOffered, OfferedPresets, Ids

UiTypes == [picked : BOOLEAN, todo : AskTodos \union PageTodos, found : Listing,
            first : PresetNames \union {None}]
InstTypes == [pack : Packs \union {None}, preset : PresetNames \union {None},
              status : {"", "missing", "blocked", "no_preset"},
              reload : BOOLEAN, initialised : BOOLEAN]
BuiltTypes == [pack : Packs \union {None}, preset : PresetNames \union {None},
               listed : Versions \union {None}, from : Versions \union {None}, same : BOOLEAN]
VideoTypes == [pc : {"idle", "update", "load", "end"}, pack : Packs \union {None},
               preset : PresetNames \union {None}, reload : BOOLEAN, count : Nat]

LEMMA TypesAre ==
  ASSUME TypesInv
  PROVE  /\ keys = [k \in Keys |-> keys[k]] /\ owner = [k \in Keys |-> owner[k]]
         /\ defaults = [k \in Keys |-> defaults[k]]
         /\ inst \in InstTypes /\ built \in BuiltTypes /\ ui \in UiTypes /\ video \in VideoTypes
         /\ video.pc # "idle" =>
              video.pack \in Packs /\ video.preset \in PresetNames /\ video.count <= pending
  BY Zenon DEF TypesInv, InstTypes, BuiltTypes, UiTypes, VideoTypes

LEMMA TypesMade ==
  ASSUME keys' = [k \in Keys |-> keys'[k]], owner' = [k \in Keys |-> owner'[k]],
         defaults' = [k \in Keys |-> defaults'[k]],
         inst' \in InstTypes, built' \in BuiltTypes, ui' \in UiTypes, video' \in VideoTypes,
         video'.pc # "idle" =>
           video'.pack \in Packs /\ video'.preset \in PresetNames /\ video'.count <= pending'
  PROVE  TypesInv'
  BY Zenon DEF TypesInv, InstTypes, BuiltTypes, UiTypes, VideoTypes

LEMMA GrownSame ==
  ASSUME NEW p, NEW q, NEW b, NEW c, Grown(p, q, b), c.from = b.from, c.same => b.same
  PROVE  Grown(p, q, c)
  BY DEF Grown

\* Nothing the layers depend on has changed; the disk may have, elsewhere.
LEMMA LayersSame ==
  ASSUME LayersInv, layers' = layers, inst'.initialised = inst.initialised,
         ~Replacing' => ~Replacing /\ inst'.preset = inst.preset /\ inst'.pack = inst.pack,
         built'.pack = built.pack, built'.preset = built.preset,
         built'.listed = built.listed, built'.from = built.from,
         built'.same => built.same /\ disk'[built.pack] = disk[built.pack]
  PROVE  LayersInv'
  <1> SUFFICES ASSUME inst.initialised
               PROVE  /\ layers' = [i \in DOMAIN Loaded' |->
                           [ok |-> Loaded'[i].ok,
                            params |-> [n \in DOMAIN Loaded'[i].params |-> layers'[i].params[n]]]]
                      /\ \A i \in DOMAIN Loaded' : \A n \in DOMAIN Loaded'[i].params :
                           Grown(layers[i].params[n], Loaded[i].params[n], built)'
                      /\ built'.same => built'.from = disk'[built'.pack]
                      /\ ~Replacing' => built'.pack = inst'.pack /\ built'.preset = inst'.preset
    BY DEF LayersInv
  <1>1. Loaded' = Loaded BY DEF Loaded
  <1>2. ASSUME NEW i \in DOMAIN Loaded, NEW n \in DOMAIN Loaded[i].params
        PROVE  Grown(layers[i].params[n], Loaded[i].params[n], built)'
    <2>1. Grown(layers[i].params[n], Loaded[i].params[n], built) BY DEF LayersInv
    <2>2. Grown(layers[i].params[n], Loaded[i].params[n], built') BY <2>1, GrownSame
    <2> QED BY <1>1, <2>2
  <1> QED BY <1>1, <1>2 DEF LayersInv

LEMMA DefaultsSame ==
  ASSUME DefaultsInv, layers' = layers, defaults' = defaults,
         inst'.initialised = inst.initialised, ~Replacing' => ~Replacing
  PROVE  DefaultsInv'
  BY DEF DefaultsInv

LEMMA SetSame ==
  ASSUME SetInv, layers' = layers, keys' = keys, inst'.initialised = inst.initialised,
         ~Due' /\ video'.pc \notin {"update", "load"} => ~Due /\ video.pc \notin {"update", "load"}
  PROVE  SetInv'
  BY DEF SetInv

----------------------------------------------------------------------------
(* The viewer *)

ViewerFrame(why) ==
  /\ ui.todo = <<>> /\ inst.initialised
  /\ changes < MaxChanges /\ changes' = changes + 1
  /\ ui' = [ui EXCEPT !.picked = (why = "pack"), !.todo = Steps(why)]
  /\ UNCHANGED <<disk, packs, defaults, inst, layers, built, page, pending, video>>

\* Whatever the viewer does is followed by an update, but for opening the page,
\* which changes nothing.
LEMMA ViewerKeeps ==
  ASSUME IInv, NEW why \in {"pack", "preset", "knob", "restore", "install", "reload", "open"},
         ViewerFrame(why),
         settings' \in [pack : Packs, preset : PresetNames],
         \A k \in Keys : keys'[k] \in Values[k] \union {None},
         keys' = [k \in Keys |-> keys'[k]], owner' = [k \in Keys |-> owner'[k]],
         KeysGoWithTheSwitch', why = "open" => keys' = keys
  PROVE  IInv'
  <1>0. /\ TypeOK /\ TypesInv /\ StartInv /\ UpdateInv /\ CountInv /\ ListInv /\ EntitledInv
        /\ PickInv /\ LayersInv /\ SetInv /\ DefaultsInv
    BY DEF IInv
  <1> USE DEF ViewerFrame
  <1>1. ~Asking BY Apart DEF Asking
  <1>2. /\ ui'.todo = Steps(why) /\ ui'.picked = (why = "pack") /\ ui'.found = ui.found
        /\ ui'.first = ui.first
        /\ Steps(why) \in AskTodos \union PageTodos
        /\ ui' \in UiTypes
    BY <1>0, StepsAre, TypesAre DEF UiTypes
  <1>3. /\ why # "open" => Asking'
        /\ why = "open" => Asking' = Asking /\ Due' = Due
    BY <1>1, <1>2, StepsAre, Apart DEF Asking, Due
  <1>4. TypeOK'
    <2>1. changes' \in 0..MaxChanges
      <3>1. changes \in 0..MaxChanges /\ changes < MaxChanges /\ changes' = changes + 1
        BY <1>0 DEF TypeOK
      <3> QED BY <3>1, Constants
    <2>2. DOMAIN owner' = Keys OBVIOUS
    <2> QED BY <1>0, <2>1, <2>2 DEF TypeOK
  <1>5. TypesInv'
    <2>1. /\ defaults' = [k \in Keys |-> defaults'[k]]
          /\ inst' \in InstTypes /\ built' \in BuiltTypes /\ video' \in VideoTypes
          /\ video'.pc # "idle" =>
               video'.pack \in Packs /\ video'.preset \in PresetNames /\ video'.count <= pending'
      BY Zenon, <1>0, TypesAre
    <2> QED BY Zenon, <1>2, <2>1, TypesMade
  <1>6. StartInv' /\ UpdateInv' BY <1>0 DEF StartInv, UpdateInv
  <1>7. CountInv'
    <2>1. pending \in Nat /\ changes \in Nat /\ pending <= changes
      <3>1. pending \in 0..(MaxChanges + 1) /\ changes \in 0..MaxChanges BY <1>0 DEF TypeOK
      <3>2. pending + 0 <= changes BY <1>0, <1>1 DEF CountInv
      <3> QED BY <3>1, <3>2, Constants
    <2> QED BY <2>1 DEF CountInv
  <1>8. ListInv' BY <1>0, <1>2 DEF ListInv
  <1>9. EntitledInv' BY <1>0 DEF EntitledInv
  <1>10. PickInv'
    <2>1. ui'.picked => why = "pack" BY <1>2
    <2>2. CASE why = "pack"
      <3>1. ui'.todo = <<"look", "repair", "ask">> /\ Asking' BY <2>2, <1>2, <1>3, StepsAre
      <3>2. Due' BY <3>1 DEF Due
      <3>3. /\ <<"look", "repair", "ask">> # <<"repair", "ask">>
            /\ <<"look", "repair", "ask">> \notin {<<"ask">>, <<>>}
        OBVIOUS
      <3> QED BY <3>1, <3>2, <3>3 DEF PickInv
    <2> QED BY <2>1, <2>2 DEF PickInv
  <1>11. LayersInv' BY <1>0, LayersSame DEF Replacing
  <1>12. SetInv'
    <2>1. CASE why = "open"
      <3>1. Due' = Due BY <2>1, <1>3
      <3>2. ~Due' /\ video'.pc \notin {"update", "load"} => ~Due /\ video.pc \notin {"update", "load"}
        BY <3>1
      <3> QED BY <2>1, <3>2, <1>0, SetSame
    <2>2. CASE why # "open"
      <3>1. Due' BY <2>2, <1>3 DEF Due
      <3> QED BY <3>1 DEF SetInv
    <2> QED BY <2>1, <2>2
  <1>13. DefaultsInv' BY <1>0, DefaultsSame DEF Replacing
  <1> QED BY <1>4, <1>5, <1>6, <1>7, <1>8, <1>9, <1>10, <1>11, <1>12, <1>13 DEF IInv

LEMMA ViewerStepKeeps == IInv /\ Viewer => IInv'
  <1> SUFFICES ASSUME IInv, Viewer PROVE IInv' OBVIOUS
  <1>0. TypeOK /\ TypesInv /\ KeysGoWithTheSwitch BY DEF IInv
  <1>1. /\ settings \in [pack : Packs, preset : PresetNames] /\ packs \in Listing
        /\ \A k \in Keys : keys[k] \in Values[k] \union {None}
        /\ keys = [k \in Keys |-> keys[k]] /\ owner = [k \in Keys |-> owner[k]]
    BY <1>0 DEF TypeOK, TypesInv, Listing
  <1>2. ASSUME NEW p \in Packs, PickPack(p) PROVE IInv'
    <2>1. ViewerFrame("pack") /\ UNCHANGED <<keys, owner>>
          /\ settings' = [settings EXCEPT !.pack = p]
      BY <1>2 DEF PickPack, ViewerFrame, Change, Begin, rendererVars
    <2>2. settings' \in [pack : Packs, preset : PresetNames] BY <1>1, <2>1
    <2>3. KeysGoWithTheSwitch' BY <1>0, <2>1 DEF KeysGoWithTheSwitch, ViewerFrame
    <2> QED BY <1>1, <2>1, <2>2, <2>3, ViewerKeeps
  <1>3. ASSUME NEW id \in OfferedPresets(settings.pack), PickPreset(id) PROVE IInv'
    <2>1. ViewerFrame("preset") /\ UNCHANGED <<keys, owner>>
          /\ settings' = [settings EXCEPT !.preset = id]
      BY <1>3 DEF PickPreset, ViewerFrame, Change, Begin, rendererVars
    <2>2. id \in PresetNames BY <1>1, OfferedAre
    <2>3. settings' \in [pack : Packs, preset : PresetNames] BY <1>1, <2>1, <2>2
    <2>4. KeysGoWithTheSwitch' BY <1>0, <2>1 DEF KeysGoWithTheSwitch, ViewerFrame
    <2> QED BY <1>1, <2>1, <2>3, <2>4, ViewerKeeps
  <1>4. ASSUME NEW k \in Keys, NEW v \in Values[k], Turn(k, v) PROVE IInv'
    <2>1. ViewerFrame("knob") /\ settings' = settings
          /\ keys' = [keys EXCEPT ![k] = v]
          /\ owner' = [owner EXCEPT ![k] =
                         IF v = None THEN None
                         ELSE [loaded |-> <<inst.pack, inst.preset>>,
                               page |-> <<page.pack, page.preset>>]]
      BY <1>4 DEF Turn, ViewerFrame, Change, Begin, rendererVars
    <2>2. /\ keys' = [l \in Keys |-> keys'[l]] /\ owner' = [l \in Keys |-> owner'[l]]
          /\ \A l \in Keys : l # k => keys'[l] = keys[l] /\ owner'[l] = owner[l]
          /\ keys'[k] = v
          /\ v # None => owner'[k].loaded = <<inst.pack, inst.preset>>
      BY <1>1, <2>1
    <2>3. \A l \in Keys : keys'[l] \in Values[l] \union {None}
      <3>1. keys'[k] \in Values[k] BY <1>4, <2>2
      <3> QED BY <1>1, <2>2, <3>1
    <2>4. KeysGoWithTheSwitch' BY <1>0, <2>1, <2>2 DEF KeysGoWithTheSwitch, ViewerFrame
    <2> QED BY <1>1, <2>1, <2>2, <2>3, <2>4, ViewerKeeps
  <1>5. CASE RestoreDefaults
    <2>1. ViewerFrame("restore") /\ settings' = [pack |-> DefaultPack, preset |-> DefaultPreset]
          /\ keys' = NoKeys /\ owner' = NoKeys
      BY <1>5 DEF RestoreDefaults, ViewerFrame, Change, Begin, rendererVars
    <2>2. settings' \in [pack : Packs, preset : PresetNames] BY <2>1, Constants
    <2>3. /\ keys' = [l \in Keys |-> keys'[l]] /\ owner' = [l \in Keys |-> owner'[l]]
          /\ \A l \in Keys : keys'[l] = None
      BY <2>1 DEF NoKeys
    <2>4. KeysGoWithTheSwitch' BY <2>3 DEF KeysGoWithTheSwitch
    <2> QED BY <2>1, <2>2, <2>3, <2>4, ViewerKeeps
  <1>6. ASSUME NEW why \in {"open", "install", "reload"}, Press(why) PROVE IInv'
    <2>1. ViewerFrame(why) /\ UNCHANGED <<settings, keys, owner>>
      BY <1>6 DEF Press, ViewerFrame, Change, Begin, rendererVars
    <2>2. KeysGoWithTheSwitch' BY <1>0, <2>1 DEF KeysGoWithTheSwitch, ViewerFrame
    <2> QED BY <1>1, <2>1, <2>2, ViewerKeeps
  <1> QED BY <1>2, <1>3, <1>4, <1>5, <1>6 DEF Viewer

----------------------------------------------------------------------------
(* The callbacks *)

LEMMA Types ==
  ASSUME IInv
  PROVE  /\ disk \in Listing /\ packs \in Listing /\ settings \in [pack : Packs, preset : PresetNames]
         /\ ui \in UiTypes /\ inst \in InstTypes /\ built \in BuiltTypes
         /\ pending \in Nat /\ changes \in Nat /\ pending <= changes /\ changes <= MaxChanges
         /\ video.pc \in {"idle", "update", "load", "end"} /\ video.count \in Nat
         /\ video.pc # "idle" => /\ video.pack \in Packs /\ video.preset \in PresetNames
                                 /\ video.count <= pending
  <1>1. /\ disk \in Listing /\ packs \in Listing /\ settings \in [pack : Packs, preset : PresetNames]
        /\ pending \in 0..(MaxChanges + 1) /\ changes \in 0..MaxChanges
    BY DEF IInv, TypeOK, Listing
  <1>2. /\ ui \in UiTypes /\ inst \in InstTypes /\ built \in BuiltTypes
        /\ video.pc \in {"idle", "update", "load", "end"} /\ video.count \in Nat
        /\ video.pc # "idle" => /\ video.pack \in Packs /\ video.preset \in PresetNames
                                /\ video.count <= pending
    BY DEF IInv, TypesInv, UiTypes, InstTypes, BuiltTypes
  <1>3. pending + (IF Asking THEN 1 ELSE 0) <= changes BY DEF IInv, CountInv
  <1>4. pending \in Nat /\ changes \in Nat /\ changes <= MaxChanges BY <1>1, Constants
  <1> QED BY <1>1, <1>2, <1>3, <1>4

\* A step leaves the rest of its callback, and the last one asks.
LEMMA TodoIs ==
  ASSUME ui \in UiTypes, ui' \in UiTypes, ui.todo # <<>>, ui'.todo = Tail(ui.todo)
  PROVE  /\ Head(ui.todo) # "ask" => Asking' = Asking
         /\ Head(ui.todo) = "ask" => Asking /\ ~Asking' /\ ui'.todo = <<>>
  <1>1. CASE ui.todo \in AskTodos
    <2>1. Head(ui.todo) # "ask" => ui'.todo \in AskTodos BY <1>1, AskTodoIs
    <2>2. Head(ui.todo) = "ask" => ui'.todo = <<>> BY <1>1, AskTodoIs
    <2> QED BY <1>1, <2>1, <2>2, Apart DEF Asking
  <1>2. CASE ui.todo \in PageTodos
    <2>1. Head(ui.todo) # "ask" /\ ui'.todo \in PageTodos BY <1>2, PageTodoIs
    <2> QED BY <1>2, <2>1, Apart DEF Asking
  <1> QED BY <1>1, <1>2 DEF UiTypes

\* What a callback may change: all but the page's own values, the layers, and what
\* the video thread is at.
LEMMA CallbackKeeps ==
  ASSUME IInv, ui.todo # <<>>, ui' \in UiTypes,
         ui'.todo = Tail(ui.todo), ui'.picked = ui.picked,
         UNCHANGED <<keys, owner, defaults, layers, video, changes>>,
         inst' \in InstTypes, inst'.pack = inst.pack, inst'.preset = inst.preset,
         inst'.status = inst.status, inst'.initialised = inst.initialised,
         settings' \in [pack : Packs, preset : PresetNames],
         disk' \in Listing, packs' \in Listing, ListInv',
         built' \in BuiltTypes, built'.pack = built.pack, built'.preset = built.preset,
         built'.listed = built.listed, built'.from = built.from,
         built'.same => built.same /\ disk'[built.pack] = disk[built.pack],
         page'.keys \subseteq Keys,
         pending' = IF Head(ui.todo) = "ask" THEN pending + 1 ELSE pending,
         ui.picked /\ ui'.todo = <<"repair", "ask">> =>
           Of(settings.pack, IF ui.first = None THEN settings.preset ELSE ui.first)',
         ui.picked /\ ui'.todo = <<"ask">> => Of(settings.pack, settings.preset)',
         ui.picked /\ ui'.todo = <<>> => Of(settings.pack, settings.preset)'
  PROVE  IInv'
  <1>0. /\ TypeOK /\ TypesInv /\ StartInv /\ UpdateInv /\ CountInv /\ KeysGoWithTheSwitch /\ EntitledInv
        /\ PickInv /\ LayersInv /\ SetInv /\ DefaultsInv
    BY DEF IInv
  <1>1. /\ ui \in UiTypes /\ pending \in Nat /\ changes \in Nat /\ changes <= MaxChanges
        /\ video.count \in Nat
        /\ video.pc # "idle" => /\ video.pack \in Packs /\ video.preset \in PresetNames
                                /\ video.count <= pending
    BY Types
  <1>2. /\ Head(ui.todo) # "ask" => Asking' = Asking
        /\ Head(ui.todo) = "ask" => Asking /\ ~Asking' /\ ui'.todo = <<>>
    BY <1>1, TodoIs
  <1>3. pending' + (IF Asking' THEN 1 ELSE 0) = pending + (IF Asking THEN 1 ELSE 0)
    BY <1>1, <1>2
  <1>4. CountInv' BY <1>0, <1>3 DEF CountInv
  <1>5. pending' \in Nat /\ pending <= pending' /\ pending' \in 0..(MaxChanges + 1)
    <2>1. pending' \in Nat /\ pending <= pending' BY <1>1
    <2>2. pending' <= changes BY <1>1, <2>1, <1>4 DEF CountInv
    <2> QED BY <2>1, <2>2, <1>1, Constants
  <1>6. Due \/ Due'  =>  Due'
    <2>1. CASE Head(ui.todo) = "ask"
      <3>1. video.pc = "idle" => pending' > 0 BY <2>1, <1>1
      <3>2. video.pc # "idle" => pending' # video.count BY <2>1, <1>1
      <3> QED BY <3>1, <3>2 DEF Due
    <2>2. CASE Head(ui.todo) # "ask" BY <2>2, <1>2 DEF Due
    <2> QED BY <2>1, <2>2
  <1>7. inst.initialised BY <1>0 DEF StartInv
  <1>8. TypeOK'
    <2>1. inst'.status \in {"", "missing", "blocked", "no_preset"}
          /\ inst'.pack \in Packs \union {None} /\ inst'.preset \in PresetNames \union {None}
      BY DEF InstTypes
    <2> QED BY <1>0, <1>5, <2>1 DEF TypeOK, Listing
  <1>9. TypesInv'
    <2>1. video'.pc # "idle" =>
            video'.pack \in Packs /\ video'.preset \in PresetNames /\ video'.count <= pending'
      BY <1>1, <1>5
    <2>2. /\ keys' = [k \in Keys |-> keys'[k]] /\ owner' = [k \in Keys |-> owner'[k]]
          /\ defaults' = [k \in Keys |-> defaults'[k]] /\ video' \in VideoTypes
      BY Zenon, <1>0, TypesAre
    <2> QED BY Zenon, <2>1, <2>2, TypesMade
  <1>10. StartInv' /\ UpdateInv' BY <1>0, <1>7 DEF StartInv, UpdateInv
  <1>11. KeysGoWithTheSwitch' BY <1>0 DEF KeysGoWithTheSwitch
  <1>12. EntitledInv' BY <1>0 DEF EntitledInv
  <1>13. PickInv'
    <2> SUFFICES ASSUME ui'.picked PROVE PickInv' BY DEF PickInv
    <2>1. ui.todo \in {<<"look", "repair", "ask">>, <<"repair", "ask">>, <<"ask">>, <<>>}
      BY <1>0 DEF PickInv
    <2>2. \/ Head(ui.todo) = "look" /\ ui'.todo = <<"repair", "ask">>
          \/ Head(ui.todo) = "repair" /\ ui'.todo = <<"ask">>
          \/ Head(ui.todo) = "ask" /\ ui'.todo = <<>>
      BY <2>1, PickTodoIs
    <2>3. Due'
      <3>1. Due BY <2>1 DEF Due, Asking, AskTodos
      <3> QED BY <3>1, <1>6
    <2>4. <<"repair", "ask">> # <<"ask">> /\ <<"repair", "ask">> # <<>> /\ <<"ask">> # <<>>
      OBVIOUS
    <2>5. ui'.todo = <<"repair", "ask">> =>
            Of(settings.pack, IF ui.first = None THEN settings.preset ELSE ui.first)'
      OBVIOUS
    <2>6. ui'.todo \in {<<"ask">>, <<>>} => Of(settings.pack, settings.preset)'
      OBVIOUS
    <2> QED BY <2>2, <2>3, <2>5, <2>6 DEF PickInv
  <1>14. LayersInv' BY <1>0, LayersSame DEF Replacing
  <1>15. SetInv' BY <1>0, <1>6, SetSame
  <1>16. DefaultsInv' BY <1>0, DefaultsSame DEF Replacing
  <1> QED BY <1>4, <1>8, <1>9, <1>10, <1>11, <1>12, <1>13, <1>14, <1>15, <1>16 DEF IInv

----------------------------------------------------------------------------
(* Parameters and layers *)

\* A parameter as it is loaded.
Fresh(q, file) ==
  /\ q = [type |-> q.type, lo |-> q.lo, hi |-> q.hi, user |-> q.user, def |-> q.preset,
          preset |-> q.preset, path |-> q.path, picked |-> None, bound |-> q.bound,
          baked |-> None, dirty |-> q.type = "gradient"]
  /\ q.type = "number" => Clamp(q, q.preset) = q.preset
  /\ q.type = "texture" => q.bound = Binding(q.path, None, file)

LEMMA ClampTwice ==
  ASSUME NEW p, NEW q, NEW v, p.lo \in Int, p.hi \in Int, q.lo = p.lo, q.hi = p.hi
  PROVE  Clamp(q, Clamp(p, v)) = Clamp(p, v)
  BY DEF Clamp

LEMMA NewIsFresh ==
  ASSUME NEW d, NEW o, NEW file, d.lo \in Int, d.hi \in Int
  PROVE  Fresh(NewParam(d, o, file), file)
  <1> DEFINE type == TypeWith(d, o)
             def == IF type = "number" THEN Clamp(d, Spoken(d, o)) ELSE Spoken(d, o)
             path == IF o # None /\ o.as = "path" THEN o.v ELSE d.path
             bound == IF type = "texture" THEN Binding(path, None, file) ELSE None
             q == [type |-> type, lo |-> d.lo, hi |-> d.hi, user |-> d.user, def |-> def,
                   preset |-> def, path |-> path, picked |-> None, bound |-> bound,
                   baked |-> None, dirty |-> type = "gradient"]
  <1>1. NewParam(d, o, file) = q BY DEF NewParam
  <1>2. type = "number" => def = Clamp(d, Spoken(d, o)) OBVIOUS
  <1>3. type = "texture" => bound = Binding(path, None, file) OBVIOUS
  <1> HIDE DEF type, def, path, bound
  <1>4. q.type = "number" => Clamp(q, q.preset) = q.preset
    <2> SUFFICES ASSUME q.type = "number" PROVE Clamp(q, q.preset) = q.preset OBVIOUS
    <2>1. q.lo = d.lo /\ q.hi = d.hi /\ q.preset = Clamp(d, Spoken(d, o)) BY <1>2
    <2> HIDE DEF q
    <2> QED BY <2>1, ClampTwice
  <1>5. q.type = "texture" => q.bound = Binding(q.path, None, file) BY <1>3
  <1>6. q = [type |-> q.type, lo |-> q.lo, hi |-> q.hi, user |-> q.user, def |-> q.preset,
             preset |-> q.preset, path |-> q.path, picked |-> None, bound |-> q.bound,
             baked |-> None, dirty |-> q.type = "gradient"]
    OBVIOUS
  <1> HIDE DEF q
  <1> QED BY <1>1, <1>4, <1>5, <1>6 DEF Fresh

\* What is loaded: every layer that is there has its parameters, all of them fresh.
LEMMA LoadedIs ==
  ASSUME NEW listed, NEW preset, NEW from \in Versions \union {None},
         NEW i \in DOMAIN LayersOf(listed, preset, from)
  PROVE  LET L == LayersOf(listed, preset, from)
         IN  /\ L[i] = [ok |-> L[i].ok, params |-> [n \in DOMAIN L[i].params |-> L[i].params[n]]]
             /\ L[i].ok \/ DOMAIN L[i].params = {}
             /\ \A n \in DOMAIN L[i].params : Fresh(L[i].params[n], from)
  <1> DEFINE L == LayersOf(listed, preset, from)
             S == FindPreset(Manifest[listed], preset).layers
  <1>1. L = Load(S, from) \/ L = <<>> BY DEF LayersOf
  <1>2. L = Load(S, from) /\ i \in DOMAIN S /\ L[i] = LoadLayer(S[i], from)
    <2>1. DOMAIN <<>> = {} OBVIOUS
    <2>2. L = Load(S, from) BY <1>1, <2>1
    <2> QED BY <2>2 DEF Load
  <1> HIDE DEF L, S
  <1>3. CASE L[i] = Broken
    <2>1. DOMAIN [n \in {} |-> None] = {} OBVIOUS
    <2> QED BY <1>3, <2>1 DEF Broken, L
  <1>4. CASE L[i] # Broken
    <2> DEFINE e == Effects[from][S[i].effect]
               P(n) == NewParam(e.params[n],
                                IF n \in DOMAIN S[i].params THEN S[i].params[n] ELSE None, from)
    <2>1. /\ from # None /\ S[i].effect \in DOMAIN Effects[from]
          /\ L[i] = [ok |-> TRUE, params |-> [n \in DOMAIN e.params |-> P(n)]]
      BY <1>2, <1>4 DEF LoadLayer
    <2>2. ASSUME NEW n \in DOMAIN e.params PROVE Fresh(P(n), from)
      <3>1. e.params[n].lo \in Int /\ e.params[n].hi \in Int BY <2>1, InstanceAssumption
      <3> QED BY <3>1, NewIsFresh
    <2> HIDE DEF P, e
    <2>3. L[i].ok = TRUE /\ L[i].params = [n \in DOMAIN e.params |-> P(n)] BY <2>1
    <2>4. DOMAIN L[i].params = DOMAIN e.params
          /\ \A n \in DOMAIN e.params : L[i].params[n] = P(n)
      BY <2>3
    <2>5. L[i].params = [n \in DOMAIN L[i].params |-> L[i].params[n]] BY <2>3
    <2>6. L[i] = [ok |-> L[i].ok, params |-> L[i].params] BY <2>1
    <2>7. L[i] = [ok |-> L[i].ok, params |-> [n \in DOMAIN L[i].params |-> L[i].params[n]]]
      BY <2>5, <2>6
    <2>8. \A n \in DOMAIN L[i].params : Fresh(L[i].params[n], from) BY <2>2, <2>4
    <2> QED BY <2>3, <2>7, <2>8 DEF L
  <1> QED BY <1>3, <1>4

LEMMA FreshGrown ==
  ASSUME NEW q, NEW b, Fresh(q, b.from) PROVE Grown(q, q, b)
  <1>1. /\ q.def = q.preset /\ q.picked = None /\ q.baked = None
        /\ q.dirty = (q.type = "gradient")
    BY DEF Fresh
  <1>2. q = [type |-> q.type, lo |-> q.lo, hi |-> q.hi, user |-> q.user, def |-> q.def,
             preset |-> q.preset, path |-> q.path, picked |-> q.picked, bound |-> q.bound,
             baked |-> q.baked, dirty |-> q.dirty]
    BY Zenon, <1>1 DEF Fresh
  <1>3. q.type = "texture" => q.bound = Binding(q.path, q.picked, b.from) BY <1>1 DEF Fresh
  <1>4. q.type = "gradient" => q.dirty = TRUE BY <1>1
  <1> QED BY <1>2, <1>3, <1>4 DEF Grown

\* What never changes of a parameter.
LEMMA GrownFields ==
  ASSUME NEW p, NEW q, NEW b, Grown(p, q, b)
  PROVE  /\ p.type = q.type /\ p.lo = q.lo /\ p.hi = q.hi /\ p.user = q.user
         /\ p.preset = q.preset /\ p.path = q.path /\ (Exposed(p) <=> Exposed(q))
  <1>1. /\ p.type = q.type /\ p.lo = q.lo /\ p.hi = q.hi /\ p.user = q.user
        /\ p.preset = q.preset /\ p.path = q.path
    BY DEF Grown
  <1> QED BY <1>1 DEF Exposed

\* An edit of the setting u, with what is on disk now or, once that has changed,
\* with anything.
LEMMA ApplyGrows ==
  ASSUME NEW p, NEW q, NEW b, NEW u, NEW file, Grown(p, q, b), Exposed(p), b.same => file = b.from
  PROVE  /\ Grown(ApplyParam(p, u, file), q, b)
         /\ Exposed(ApplyParam(p, u, file)) /\ Set(ApplyParam(p, u, file), u)
  <1> DEFINE r == ApplyParam(p, u, file)
             Rec(def, picked, bound, baked, dirty) ==
               [type |-> q.type, lo |-> q.lo, hi |-> q.hi, user |-> q.user, def |-> def,
                preset |-> q.preset, path |-> q.path, picked |-> picked, bound |-> bound,
                baked |-> baked, dirty |-> dirty]
  <1>1. /\ p.type = q.type /\ p.lo = q.lo /\ p.hi = q.hi /\ p.user = q.user
        /\ p.preset = q.preset /\ p.path = q.path /\ Exposed(q)
    BY GrownFields
  <1>2. p = Rec(p.def, p.picked, p.bound, p.baked, p.dirty) BY DEF Grown
  <1>3. /\ q.type \in {"number", "gradient"} => p.picked = q.picked /\ p.bound = q.bound
        /\ q.type \in {"number", "texture"} => p.baked = q.baked /\ p.dirty = q.dirty
        /\ q.type = "gradient" => p.dirty \in BOOLEAN /\ (p.dirty \/ p.baked = p.def)
        /\ q.type = "texture" => p.def = q.def
        /\ q.type = "texture" /\ b.same => p.bound = Binding(q.path, p.picked, b.from)
    BY <1>1 DEF Grown
  <1>4. ASSUME NEW def, NEW picked, NEW bound, NEW baked, NEW dirty, r = Rec(def, picked, bound, baked, dirty)
        PROVE  /\ r = Rec(r.def, r.picked, r.bound, r.baked, r.dirty) /\ r.type = q.type
               /\ r.lo = p.lo /\ r.hi = p.hi /\ r.preset = p.preset /\ r.path = q.path
               /\ r.def = def /\ r.picked = picked /\ r.bound = bound /\ r.baked = baked
               /\ r.dirty = dirty /\ Exposed(r)
    <2>1. r.user = q.user /\ r.type = q.type BY <1>4
    <2>2. Exposed(r) BY <2>1, <1>1 DEF Exposed
    <2> HIDE DEF r
    <2> QED BY <1>1, <1>4, <2>2
  <1>5. CASE q.type = "number"
    <2> DEFINE def == IF u = None THEN p.preset ELSE Clamp(p, u)
    <2>1. r = [p EXCEPT !.def = def] BY <1>5, <1>1 DEF ApplyParam
    <2> HIDE DEF r, def
    <2>2. r = Rec(def, p.picked, p.bound, p.baked, p.dirty) BY <1>2, <2>1
    <2> HIDE DEF Rec
    <2>3. /\ r = Rec(r.def, r.picked, r.bound, r.baked, r.dirty) /\ r.type = q.type
          /\ r.lo = p.lo /\ r.hi = p.hi /\ r.preset = p.preset /\ r.def = def
          /\ r.picked = p.picked /\ r.bound = p.bound /\ r.baked = p.baked /\ r.dirty = p.dirty
          /\ Exposed(r)
      BY <2>2, <1>4
    <2>4. Clamp(r, u) = Clamp(p, u) BY <2>3 DEF Clamp
    <2>5. Set(r, u) BY <2>3, <2>4, <1>5 DEF Set, def
    <2>6. Grown(r, q, b) BY <2>3, <1>3, <1>5, <1>1 DEF Grown, Rec
    <2> QED BY <2>3, <2>5, <2>6 DEF r
  <1>6. CASE q.type = "gradient"
    <2> DEFINE def == IF u = None THEN p.preset ELSE u
               dirty == p.dirty \/ def # p.def
    <2>1. r = [p EXCEPT !.dirty = dirty, !.def = def] BY <1>6, <1>1 DEF ApplyParam
    <2>9. dirty \in BOOLEAN /\ (dirty \/ p.baked = def) BY <1>3, <1>6
    <2> HIDE DEF r, def, dirty
    <2> DEFINE s == [p EXCEPT !.dirty = dirty]
    <2>10. s = Rec(p.def, p.picked, p.bound, p.baked, dirty) BY <1>2
    <2>11. r = [s EXCEPT !.def = def] BY <2>1
    <2> HIDE DEF s
    <2>2. r = Rec(def, p.picked, p.bound, p.baked, dirty) BY <2>10, <2>11
    <2> HIDE DEF Rec
    <2>3. /\ r = Rec(r.def, r.picked, r.bound, r.baked, r.dirty) /\ r.type = q.type
          /\ r.lo = p.lo /\ r.hi = p.hi /\ r.preset = p.preset /\ r.def = def
          /\ r.picked = p.picked /\ r.bound = p.bound /\ r.baked = p.baked /\ r.dirty = dirty
          /\ Exposed(r)
      BY <2>2, <1>4
    <2>5. Set(r, u) BY <2>3, <1>6 DEF Set, def
    <2>7. r.dirty \in BOOLEAN /\ (r.dirty \/ r.baked = r.def) BY <2>3, <2>9
    <2>6. Grown(r, q, b) BY <2>3, <2>7, <1>3, <1>6, <1>1 DEF Grown, Rec
    <2> QED BY <2>3, <2>5, <2>6 DEF r
  <1>7. CASE q.type = "texture"
    <2>1. r = IF u = p.picked THEN p
              ELSE [p EXCEPT !.picked = u, !.bound = Binding(p.path, u, file)]
      BY <1>7, <1>1 DEF ApplyParam
    <2> HIDE DEF r
    <2> DEFINE bound == IF u = p.picked THEN p.bound ELSE Binding(p.path, u, file)
    <2>2. r = Rec(p.def, u, bound, p.baked, p.dirty)
      <3>1. CASE u = p.picked
        <4>1. r = p /\ bound = p.bound BY <2>1, <3>1
        <4> HIDE DEF bound
        <4> QED BY <4>1, <3>1, <1>2
      <3>2. CASE u # p.picked
        <4> DEFINE s == [p EXCEPT !.picked = u]
        <4>0. bound = Binding(p.path, u, file) BY <3>2
        <4> HIDE DEF bound
        <4>1. s = Rec(p.def, u, p.bound, p.baked, p.dirty) BY <1>2
        <4>2. r = [s EXCEPT !.bound = bound] BY <2>1, <3>2, <4>0
        <4> HIDE DEF s
        <4> QED BY <4>1, <4>2
      <3> QED BY <3>1, <3>2
    <2>4. b.same => bound = Binding(q.path, u, b.from) BY <1>1, <1>3, <1>7
    <2> HIDE DEF Rec, bound
    <2>3. /\ r = Rec(r.def, r.picked, r.bound, r.baked, r.dirty) /\ r.type = q.type
          /\ r.def = p.def /\ r.picked = u /\ r.bound = bound /\ r.baked = p.baked
          /\ r.dirty = p.dirty /\ Exposed(r)
      BY <2>2, <1>4
    <2>5. Set(r, u) BY <2>3, <1>7 DEF Set
    <2>6. Grown(r, q, b) BY <2>3, <2>4, <1>3, <1>7, <1>1 DEF Grown, Rec
    <2> QED BY <2>3, <2>5, <2>6 DEF r
  <1> QED BY <1>1, <1>5, <1>6, <1>7 DEF Exposed

\* A bake leaves what was set.
LEMMA BakeGrows ==
  ASSUME NEW p, NEW q, NEW b, Grown(p, q, b), Fresh(q, b.from)
  PROVE  /\ Grown(BakeParam(p), q, b)
         /\ \A u : Set(p, u) => Set(BakeParam(p), u)
  <1> DEFINE r == BakeParam(p)
  <1>1. CASE q.type = "gradient" /\ p.dirty
    <2>1. r = [p EXCEPT !.baked = p.def, !.dirty = FALSE] BY <1>1 DEF BakeParam
    <2> HIDE DEF r
    <2>2. p = [type |-> q.type, lo |-> q.lo, hi |-> q.hi, user |-> q.user, def |-> p.def,
               preset |-> q.preset, path |-> q.path, picked |-> p.picked, bound |-> p.bound,
               baked |-> p.baked, dirty |-> p.dirty]
      BY DEF Grown
    <2>3. r = [type |-> q.type, lo |-> q.lo, hi |-> q.hi, user |-> q.user, def |-> p.def,
               preset |-> q.preset, path |-> q.path, picked |-> p.picked, bound |-> p.bound,
               baked |-> p.def, dirty |-> FALSE]
      <3> DEFINE s == [p EXCEPT !.baked = p.def]
      <3>1. s = [type |-> q.type, lo |-> q.lo, hi |-> q.hi, user |-> q.user, def |-> p.def,
                 preset |-> q.preset, path |-> q.path, picked |-> p.picked, bound |-> p.bound,
                 baked |-> p.def, dirty |-> p.dirty]
        BY <2>2
      <3>2. r = [s EXCEPT !.dirty = FALSE] BY <2>1
      <3> HIDE DEF s
      <3> QED BY <3>1, <3>2
    <2>4. Exposed(q) BY <1>1 DEF Exposed
    <2>5. p.picked = q.picked /\ p.bound = q.bound BY <1>1 DEF Grown
    <2>6. r.def = p.def /\ r.picked = q.picked /\ r.bound = q.bound /\ r.baked = p.def
          /\ r.dirty = FALSE /\ r.type = "gradient" /\ r.preset = q.preset
      BY <2>3, <2>5, <1>1
    <2>7. r = [type |-> q.type, lo |-> q.lo, hi |-> q.hi, user |-> q.user, def |-> r.def,
               preset |-> q.preset, path |-> q.path, picked |-> r.picked, bound |-> r.bound,
               baked |-> r.baked, dirty |-> r.dirty]
      BY <2>3
    <2>8. Grown(r, q, b) BY <2>4, <2>6, <2>7, <1>1 DEF Grown
    <2>9. p.type = "gradient" /\ p.preset = q.preset BY <1>1, GrownFields
    <2>10. \A u : Set(p, u) => Set(r, u) BY <2>6, <2>9 DEF Set
    <2> QED BY <2>8, <2>10 DEF r
  <1>2. CASE q.type = "gradient" /\ ~p.dirty
    BY <1>2 DEF BakeParam
  <1>3. CASE q.type # "gradient"
    <2>1. q.dirty = FALSE
      <3>1. q.dirty = (q.type = "gradient") BY DEF Fresh
      <3> QED BY <3>1, <1>3
    <2>2. p.dirty = FALSE
      <3>1. CASE Exposed(q) BY <3>1, <2>1, <1>3 DEF Grown, Exposed
      <3>2. CASE ~Exposed(q) BY <3>2, <2>1 DEF Grown
      <3> QED BY <3>1, <3>2
    <2> QED BY <2>2 DEF BakeParam
  <1> QED BY <1>1, <1>2, <1>3

\* Layers that differ from others in the values of their parameters only.
Shaped(ls, ref) ==
  ls = [i \in DOMAIN ref |->
          [ok |-> ref[i].ok, params |-> [n \in DOMAIN ref[i].params |-> ls[i].params[n]]]]

LEMMA ShapedIs ==
  ASSUME NEW ls, NEW ref, Shaped(ls, ref)
  PROVE  /\ DOMAIN ls = DOMAIN ref
         /\ \A i \in DOMAIN ref :
              /\ ls[i] = [ok |-> ref[i].ok,
                         params |-> [n \in DOMAIN ref[i].params |-> ls[i].params[n]]]
              /\ ls[i].ok = ref[i].ok /\ DOMAIN ls[i].params = DOMAIN ref[i].params
              /\ ls[i].params = [n \in DOMAIN ref[i].params |-> ls[i].params[n]]
  <1> DEFINE P(i) == [n \in DOMAIN ref[i].params |-> ls[i].params[n]]
             ll == [i \in DOMAIN ref |-> [ok |-> ref[i].ok, params |-> P(i)]]
  <1>1. ls = ll BY DEF Shaped
  <1>2. DOMAIN ls = DOMAIN ref BY <1>1
  <1>3. ASSUME NEW i \in DOMAIN ref
        PROVE  ls[i].ok = ref[i].ok /\ ls[i].params = P(i) /\ ls[i] = [ok |-> ref[i].ok, params |-> P(i)]
    <2>1. ll[i] = [ok |-> ref[i].ok, params |-> P(i)] OBVIOUS
    <2> HIDE DEF P, ll
    <2> QED BY <1>1, <2>1
  <1>4. \A i \in DOMAIN ref : DOMAIN P(i) = DOMAIN ref[i].params OBVIOUS
  <1> QED BY <1>2, <1>3, <1>4

LEMMA ShapedDomains ==
  ASSUME NEW ls, NEW ref, Shaped(ls, ref)
  PROVE  /\ DOMAIN ls = DOMAIN ref
         /\ \A i \in DOMAIN ref : ls[i].ok = ref[i].ok /\ DOMAIN ls[i].params = DOMAIN ref[i].params
  <1> DEFINE P(i) == [n \in DOMAIN ref[i].params |-> ls[i].params[n]]
             R(i) == [ok |-> ref[i].ok, params |-> P(i)]
  <1>1. ls = [i \in DOMAIN ref |-> R(i)] BY DEF Shaped
  <1>2. \A i \in DOMAIN ref : ls[i] = R(i)
    <2> HIDE DEF R
    <2> QED BY <1>1
  <1>3. ASSUME NEW i \in DOMAIN ref PROVE ls[i].ok = ref[i].ok /\ ls[i].params = P(i)
    <2>1. ls[i] = [ok |-> ref[i].ok, params |-> P(i)] BY <1>2
    <2> HIDE DEF P
    <2> QED BY <2>1
  <1>4. \A i \in DOMAIN ref : DOMAIN P(i) = DOMAIN ref[i].params OBVIOUS
  <1> HIDE DEF P, R
  <1> QED BY <1>1, <1>3, <1>4

\* Every parameter that is shown is given its value.
LEMMA ApplyIs ==
  ASSUME NEW ls, NEW ref, Shaped(ls, ref), NEW ks, NEW file
  PROVE  LET new == Apply(ls, ks, file)
         IN  /\ Shaped(new, ref)
             /\ \A i \in DOMAIN ref : \A n \in DOMAIN ref[i].params :
                  new[i].params[n] = IF Exposed(ls[i].params[n]) THEN ApplyParam(ls[i].params[n], ks[<<i, n>>], file)
                    ELSE ls[i].params[n]
  <1> DEFINE new == Apply(ls, ks, file)
             F(i, n) == IF Exposed(ls[i].params[n]) THEN ApplyParam(ls[i].params[n], ks[<<i, n>>], file)
                    ELSE ls[i].params[n]
             P(i) == [n \in DOMAIN ref[i].params |-> F(i, n)]
             G(i) == [ls[i] EXCEPT !.params = [n \in DOMAIN ls[i].params |-> F(i, n)]]
             R(i) == [ok |-> ref[i].ok, params |-> P(i)]
  <1>1. /\ DOMAIN ls = DOMAIN ref
        /\ \A i \in DOMAIN ref :
             /\ ls[i] = [ok |-> ref[i].ok,
                        params |-> [n \in DOMAIN ref[i].params |-> ls[i].params[n]]]
             /\ ls[i].ok = ref[i].ok /\ DOMAIN ls[i].params = DOMAIN ref[i].params
    BY ShapedIs
  <1>2. new = [i \in DOMAIN ls |-> G(i)]
    BY DEF Apply
  <1> HIDE DEF new
  <1>3. ASSUME NEW i \in DOMAIN ref PROVE new[i] = R(i)
    <2>1. new[i] = [ls[i] EXCEPT !.params = [n \in DOMAIN ls[i].params |-> F(i, n)]]
      BY <1>1, <1>2
    <2>2. new[i] = [ls[i] EXCEPT !.params = P(i)]
      BY <1>1, <2>1
    <2>3. PICK was : ls[i] = [ok |-> ref[i].ok, params |-> was] BY <1>1
    <2> HIDE DEF P
    <2> QED BY <2>2, <2>3
  <1>4. new = [i \in DOMAIN ref |-> R(i)]
    <2> HIDE DEF G, R
    <2> QED BY <1>1, <1>2, <1>3
  <1>5. ASSUME NEW i \in DOMAIN ref
        PROVE  /\ new[i].params = P(i)
               /\ P(i) = [n \in DOMAIN ref[i].params |-> new[i].params[n]]
    <2>1. new[i].params = P(i)
      <3>1. new[i] = [ok |-> ref[i].ok, params |-> P(i)] BY <1>3
      <3> HIDE DEF P
      <3> QED BY <3>1
    <2>2. P(i) = [n \in DOMAIN ref[i].params |-> P(i)[n]] OBVIOUS
    <2> HIDE DEF P
    <2> QED BY <2>1, <2>2
  <1>6. Shaped(new, ref)
    <2> HIDE DEF P
    <2> QED BY <1>4, <1>5 DEF Shaped
  <1>7. \A i \in DOMAIN ref : \A n \in DOMAIN ref[i].params : new[i].params[n] = F(i, n)
    <2>1. \A i \in DOMAIN ref : \A n \in DOMAIN ref[i].params : P(i)[n] = F(i, n)
      <3> HIDE DEF F
      <3> QED OBVIOUS
    <2> HIDE DEF P, F
    <2> QED BY <1>5, <2>1
  <1> QED BY <1>6, <1>7 DEF new

\* Every parameter out of date is baked.
AllBaked(new, ls, ref) ==
  /\ Shaped(new, ref)
  /\ \A i \in DOMAIN ref : \A n \in DOMAIN ref[i].params :
       new[i].params[n] = BakeParam(ls[i].params[n])

LEMMA BakeIs ==
  ASSUME NEW ls, NEW ref, Shaped(ls, ref)
  PROVE  AllBaked(Bake(ls), ls, ref)
  <1> DEFINE new == Bake(ls)
             F(i, n) == BakeParam(ls[i].params[n])
             P(i) == [n \in DOMAIN ref[i].params |-> F(i, n)]
             G(i) == [ls[i] EXCEPT !.params = [n \in DOMAIN ls[i].params |-> F(i, n)]]
             R(i) == [ok |-> ref[i].ok, params |-> P(i)]
  <1>1. /\ DOMAIN ls = DOMAIN ref
        /\ \A i \in DOMAIN ref :
             /\ ls[i] = [ok |-> ref[i].ok,
                        params |-> [n \in DOMAIN ref[i].params |-> ls[i].params[n]]]
             /\ ls[i].ok = ref[i].ok /\ DOMAIN ls[i].params = DOMAIN ref[i].params
    BY ShapedIs
  <1>2. new = [i \in DOMAIN ls |-> G(i)]
    BY DEF Bake
  <1> HIDE DEF new
  <1>3. ASSUME NEW i \in DOMAIN ref PROVE new[i] = R(i)
    <2>1. new[i] = [ls[i] EXCEPT !.params = [n \in DOMAIN ls[i].params |-> F(i, n)]]
      BY <1>1, <1>2
    <2>2. new[i] = [ls[i] EXCEPT !.params = P(i)]
      BY <1>1, <2>1
    <2>3. PICK was : ls[i] = [ok |-> ref[i].ok, params |-> was] BY <1>1
    <2> HIDE DEF P
    <2> QED BY <2>2, <2>3
  <1>4. new = [i \in DOMAIN ref |-> R(i)]
    <2> HIDE DEF G, R
    <2> QED BY <1>1, <1>2, <1>3
  <1>5. ASSUME NEW i \in DOMAIN ref
        PROVE  /\ new[i].params = P(i)
               /\ P(i) = [n \in DOMAIN ref[i].params |-> new[i].params[n]]
    <2>1. new[i].params = P(i)
      <3>1. new[i] = [ok |-> ref[i].ok, params |-> P(i)] BY <1>3
      <3> HIDE DEF P
      <3> QED BY <3>1
    <2>2. P(i) = [n \in DOMAIN ref[i].params |-> P(i)[n]] OBVIOUS
    <2> HIDE DEF P
    <2> QED BY <2>1, <2>2
  <1>6. Shaped(new, ref)
    <2> HIDE DEF P
    <2> QED BY <1>4, <1>5 DEF Shaped
  <1>7. \A i \in DOMAIN ref : \A n \in DOMAIN ref[i].params : new[i].params[n] = F(i, n)
    <2>1. \A i \in DOMAIN ref : \A n \in DOMAIN ref[i].params : P(i)[n] = F(i, n)
      <3> HIDE DEF F
      <3> QED OBVIOUS
    <2> HIDE DEF P, F
    <2> QED BY <1>5, <2>1
  <1> QED BY <1>6, <1>7 DEF new, AllBaked

\* The layers have the shape of what was loaded, and no parameter has changed but in
\* its values.
AllGrown(ls, ref, b) ==
  /\ Shaped(ls, ref)
  /\ \A i \in DOMAIN ref : \A n \in DOMAIN ref[i].params :
       Grown(ls[i].params[n], ref[i].params[n], b)

AllFresh(ref, from) ==
  \A i \in DOMAIN ref :
    /\ ref[i].ok \/ DOMAIN ref[i].params = {}
    /\ \A n \in DOMAIN ref[i].params : Fresh(ref[i].params[n], from)

AllSet(ls, ks) ==
  \A i \in DOMAIN ls : \A n \in DOMAIN ls[i].params :
    Exposed(ls[i].params[n]) => Set(ls[i].params[n], ks[<<i, n>>])

LEMMA LoadIsFresh ==
  ASSUME NEW listed, NEW preset, NEW b, b.from \in Versions \union {None}
  PROVE  LET ref == LayersOf(listed, preset, b.from)
         IN  AllGrown(ref, ref, b) /\ AllFresh(ref, b.from)
  <1> DEFINE ref == LayersOf(listed, preset, b.from)
             R(i) == [ok |-> ref[i].ok,
                      params |-> [n \in DOMAIN ref[i].params |-> ref[i].params[n]]]
  <1>1. \A i \in DOMAIN ref : /\ ref[i] = R(i)
                              /\ ref[i].ok \/ DOMAIN ref[i].params = {}
                              /\ \A n \in DOMAIN ref[i].params : Fresh(ref[i].params[n], b.from)
    BY LoadedIs
  <1>2. ref = [i \in DOMAIN ref |-> ref[i]]
    <2> DEFINE S == FindPreset(Manifest[listed], preset).layers
    <2>1. ref = Load(S, b.from) \/ ref = <<>> BY DEF LayersOf
    <2>2. CASE ref = <<>> BY <2>2
    <2>3. CASE ref = Load(S, b.from)
      <3> HIDE DEF ref, S
      <3> QED BY <2>3 DEF Load
    <2> QED BY <2>1, <2>2, <2>3
  <1> HIDE DEF ref
  <1>3. Shaped(ref, ref)
    <2>1. ref = [i \in DOMAIN ref |-> R(i)]
      <3> HIDE DEF R
      <3> QED BY <1>1, <1>2
    <2> QED BY <2>1 DEF Shaped
  <1>4. AllFresh(ref, b.from) BY <1>1 DEF AllFresh
  <1>5. AllGrown(ref, ref, b) BY <1>1, <1>3, FreshGrown DEF AllGrown
  <1> QED BY <1>4, <1>5 DEF ref

LEMMA AppliedIs ==
  ASSUME NEW ls, NEW ref, NEW b, NEW ks, NEW disk2, AllGrown(ls, ref, b),
         b.same => disk2 = b.from
  PROVE  AllGrown(Apply(ls, ks, disk2), ref, b) /\ AllSet(Apply(ls, ks, disk2), ks)
  <1> DEFINE new == Apply(ls, ks, disk2)
  <1>1. /\ Shaped(new, ref)
        /\ \A i \in DOMAIN ref : \A n \in DOMAIN ref[i].params :
             new[i].params[n] = IF Exposed(ls[i].params[n])
                                THEN ApplyParam(ls[i].params[n], ks[<<i, n>>], disk2)
                                ELSE ls[i].params[n]
    BY ApplyIs DEF AllGrown
  <1> HIDE DEF new
  <1>2. ASSUME NEW i \in DOMAIN ref, NEW n \in DOMAIN ref[i].params
        PROVE  /\ Grown(new[i].params[n], ref[i].params[n], b)
               /\ Exposed(new[i].params[n]) => Set(new[i].params[n], ks[<<i, n>>])
    <2>1. Grown(ls[i].params[n], ref[i].params[n], b) BY DEF AllGrown
    <2>2. CASE Exposed(ls[i].params[n])
      <3>1. new[i].params[n] = ApplyParam(ls[i].params[n], ks[<<i, n>>], disk2) BY <1>1, <2>2
      <3> QED BY <2>1, <2>2, <3>1, ApplyGrows
    <2>3. CASE ~Exposed(ls[i].params[n])
      <3>1. new[i].params[n] = ls[i].params[n] BY <1>1, <2>3
      <3> QED BY <2>1, <2>3, <3>1
    <2> QED BY <2>2, <2>3
  <1>3. DOMAIN new = DOMAIN ref /\ \A i \in DOMAIN ref : DOMAIN new[i].params = DOMAIN ref[i].params
    BY <1>1, ShapedDomains
  <1>4. AllGrown(new, ref, b) BY <1>1, <1>2 DEF AllGrown
  <1>5. AllSet(new, ks) BY <1>2, <1>3 DEF AllSet
  <1> QED BY <1>4, <1>5 DEF new

LEMMA BakedIs ==
  ASSUME NEW ls, NEW ref, NEW b, AllGrown(ls, ref, b), AllFresh(ref, b.from)
  PROVE  /\ AllGrown(Bake(ls), ref, b)
         /\ \A ks : AllSet(ls, ks) => AllSet(Bake(ls), ks)
  <1> DEFINE new == Bake(ls)
  <1>1. /\ Shaped(new, ref)
        /\ \A i \in DOMAIN ref : \A n \in DOMAIN ref[i].params :
             new[i].params[n] = BakeParam(ls[i].params[n])
    <2>1. Shaped(ls, ref) BY DEF AllGrown
    <2>2. AllBaked(Bake(ls), ls, ref) BY <2>1, BakeIs
    <2> QED BY <2>2 DEF AllBaked
  <1> HIDE DEF new
  <1>2. ASSUME NEW i \in DOMAIN ref, NEW n \in DOMAIN ref[i].params
        PROVE  /\ Grown(new[i].params[n], ref[i].params[n], b)
               /\ \A u : Set(ls[i].params[n], u) => Set(new[i].params[n], u)
               /\ Exposed(new[i].params[n]) <=> Exposed(ls[i].params[n])
    <2>1. Grown(ls[i].params[n], ref[i].params[n], b) BY DEF AllGrown
    <2>2. Fresh(ref[i].params[n], b.from) BY DEF AllFresh
    <2>3. new[i].params[n] = BakeParam(ls[i].params[n]) BY <1>1
    <2>4. /\ Grown(new[i].params[n], ref[i].params[n], b)
          /\ \A u : Set(ls[i].params[n], u) => Set(new[i].params[n], u)
      BY <2>1, <2>2, <2>3, BakeGrows
    <2>5. Exposed(new[i].params[n]) <=> Exposed(ref[i].params[n]) BY <2>4, GrownFields
    <2>6. Exposed(ls[i].params[n]) <=> Exposed(ref[i].params[n]) BY <2>1, GrownFields
    <2> QED BY <2>4, <2>5, <2>6
  <1>3. /\ DOMAIN new = DOMAIN ref
        /\ \A i \in DOMAIN ref : DOMAIN new[i].params = DOMAIN ref[i].params
    BY <1>1, ShapedDomains
  <1>4. /\ DOMAIN ls = DOMAIN ref
        /\ \A i \in DOMAIN ref : DOMAIN ls[i].params = DOMAIN ref[i].params
    BY ShapedDomains DEF AllGrown
  <1>5. AllGrown(new, ref, b) BY <1>1, <1>2 DEF AllGrown
  <1>6. ASSUME NEW ks, AllSet(ls, ks) PROVE AllSet(new, ks)
    <2>1. ASSUME NEW i \in DOMAIN ref, NEW n \in DOMAIN ref[i].params, Exposed(new[i].params[n])
          PROVE  Set(new[i].params[n], ks[<<i, n>>])
      BY <1>2, <1>4, <1>6, <2>1 DEF AllSet
    <2> QED BY <1>3, <2>1 DEF AllSet
  <1> QED BY <1>5, <1>6 DEF new

\* Which keys are shown, and with which defaults, is as it was loaded.
LEMMA ShownAre ==
  ASSUME NEW ls, NEW ref, NEW b, AllGrown(ls, ref, b)
  PROVE  /\ ExposedKeys(ls) = ExposedKeys(ref)
         /\ \A k \in ExposedKeys(ref) :
              /\ k = <<k[1], k[2]>> /\ k[1] \in DOMAIN ref /\ k[2] \in DOMAIN ref[k[1]].params
              /\ Exposed(ParamAt(ls, k)) /\ Exposed(ParamAt(ref, k))
              /\ Grown(ParamAt(ls, k), ParamAt(ref, k), b)
              /\ ParamAt(ls, k).type = ParamAt(ref, k).type
              /\ ParamAt(ls, k).preset = ParamAt(ref, k).preset
  <1>1. /\ DOMAIN ls = DOMAIN ref
        /\ \A i \in DOMAIN ref : DOMAIN ls[i].params = DOMAIN ref[i].params
    BY ShapedDomains DEF AllGrown
  <1>2. \A k : Has(ls, k) <=> Has(ref, k) BY <1>1 DEF Has
  <1>3. ASSUME NEW k, Has(ref, k)
        PROVE  /\ Grown(ParamAt(ls, k), ParamAt(ref, k), b)
               /\ Exposed(ParamAt(ls, k)) <=> Exposed(ParamAt(ref, k))
               /\ ParamAt(ls, k).type = ParamAt(ref, k).type
               /\ ParamAt(ls, k).preset = ParamAt(ref, k).preset
    <2>1. Grown(ParamAt(ls, k), ParamAt(ref, k), b) BY <1>3 DEF AllGrown, Has, ParamAt
    <2> QED BY <2>1, GrownFields
  <1>4. ExposedKeys(ls) = ExposedKeys(ref) BY <1>2, <1>3 DEF ExposedKeys
  <1>5. \A k \in ExposedKeys(ref) : k \in Keys /\ Has(ref, k) /\ Exposed(ParamAt(ref, k))
    BY DEF ExposedKeys
  <1>6. \A k \in Keys : k = <<k[1], k[2]>> BY InstanceAssumption
  <1> QED BY <1>3, <1>4, <1>5, <1>6 DEF Has

----------------------------------------------------------------------------
(* The steps of a callback *)

LEMMA InstallerKeeps == IInv /\ (Unpack \/ Scan \/ Swap \/ Build) => IInv'
  <1> SUFFICES ASSUME IInv, Unpack \/ Scan \/ Swap \/ Build PROVE IInv' OBVIOUS
  <1>0. ListInv /\ PickInv /\ page.keys \subseteq Keys BY DEF IInv, TypeOK
  <1>1. /\ disk \in Listing /\ packs \in Listing /\ settings \in [pack : Packs, preset : PresetNames]
        /\ ui \in UiTypes /\ inst \in InstTypes /\ built \in BuiltTypes
    BY Types
  <1>2. /\ ui.todo # <<>> /\ Head(ui.todo) \in {"unpack", "scan", "swap", "build"}
        /\ ui'.todo = Tail(ui.todo) /\ ui'.picked = ui.picked /\ ui'.first = ui.first
    BY <1>1 DEF Unpack, Scan, Swap, Build, Step, Done, UiTypes
  <1>3. Tail(ui.todo) \in AskTodos \union PageTodos
    BY <1>1, <1>2, AskTodoIs, PageTodoIs DEF UiTypes
  <1>4. ~ui.picked
    <2> SUFFICES ASSUME ui.picked PROVE FALSE OBVIOUS
    <2>1. ui.todo \in {<<"look", "repair", "ask">>, <<"repair", "ask">>, <<"ask">>, <<>>}
      BY <1>0 DEF PickInv
    <2> QED BY <2>1, <1>2, PickTodoIs
  <1>5. Head(ui.todo) # "ask" BY <1>2
  <1>6. CASE Unpack
    <2>1. /\ ui' = [ui EXCEPT !.todo = Tail(@)]
          /\ UNCHANGED <<packs, settings, keys, owner, defaults, inst, layers, page, pending, video,
                         changes>>
      BY <1>6 DEF Unpack, Done, settingsVars
    <2>2. ui' \in UiTypes /\ ui'.found = ui.found BY <1>1, <1>3, <2>1 DEF UiTypes
    <2>3. /\ disk' \in Listing /\ built' \in BuiltTypes
          /\ built'.pack = built.pack /\ built'.preset = built.preset
          /\ built'.listed = built.listed /\ built'.from = built.from
          /\ built'.same => built.same /\ disk'[built.pack] = disk[built.pack]
      <3>1. CASE UNCHANGED <<disk, built>> BY <1>1, <3>1
      <3>2. ASSUME NEW v \in Versions, disk' = [disk EXCEPT ![Manifest[v].id] = v],
                   built' = [built EXCEPT !.same = @ /\ Manifest[v].id # built.pack]
            PROVE  /\ disk' \in Listing /\ built' \in BuiltTypes
                   /\ built'.pack = built.pack /\ built'.preset = built.preset
                   /\ built'.listed = built.listed /\ built'.from = built.from
                   /\ built'.same => built.same /\ disk'[built.pack] = disk[built.pack]
        <4>1. disk' \in Listing BY <1>1, <3>2 DEF Listing
        <4>2. /\ built' \in BuiltTypes /\ built'.pack = built.pack /\ built'.preset = built.preset
              /\ built'.listed = built.listed /\ built'.from = built.from
              /\ built'.same = (built.same /\ Manifest[v].id # built.pack)
          BY <1>1, <3>2 DEF BuiltTypes
        <4>3. Manifest[v].id # built.pack => disk'[built.pack] = disk[built.pack]
          BY <1>1, <3>2 DEF Listing
        <4> QED BY <4>1, <4>2, <4>3
      <3> QED BY <1>6, <3>1, <3>2 DEF Unpack
    <2>4. ListInv' BY <1>0, <2>1, <2>2 DEF ListInv
    <2> QED BY <1>1, <1>2, <1>4, <1>5, <2>1, <2>2, <2>3, <2>4, <1>0, CallbackKeeps
  <1>7. CASE Scan
    <2>1. /\ ui' = [ui EXCEPT !.todo = Tail(@), !.found = Scanned]
          /\ UNCHANGED <<disk, packs, settings, keys, owner, defaults, inst, layers, built,
                         page, pending, video, changes>>
      BY <1>7 DEF Scan, settingsVars, rendererVars
    <2>2. /\ Scanned \in Listing
          /\ \A p \in Packs : Scanned[p] # None => ~Refused(Manifest[Scanned[p]])
      BY <1>1 DEF Scanned, Listing
    <2>3. ui' \in UiTypes /\ ui'.found = Scanned BY <1>1, <1>3, <2>1, <2>2 DEF UiTypes
    <2>4. ListInv' BY <1>0, <2>1, <2>2, <2>3 DEF ListInv
    <2> QED BY <1>1, <1>2, <1>4, <1>5, <2>1, <2>3, <2>4, <1>0, CallbackKeeps
  <1>8. CASE Swap
    <2>1. /\ ui' = [ui EXCEPT !.todo = Tail(@)] /\ packs' = ui.found
          /\ UNCHANGED <<disk, settings, keys, owner, defaults, inst, layers, built,
                         page, pending, video, changes>>
      BY <1>8 DEF Swap, Done, settingsVars, rendererVars
    <2>2. ui' \in UiTypes /\ ui'.found = ui.found /\ packs' \in Listing
      BY <1>1, <1>3, <2>1 DEF UiTypes
    <2>3. ListInv' BY <1>0, <2>1, <2>2 DEF ListInv
    <2> QED BY <1>1, <1>2, <1>4, <1>5, <2>1, <2>2, <2>3, <1>0, CallbackKeeps
  <1>9. CASE Build
    <2>1. /\ ui' = [ui EXCEPT !.todo = Tail(@)]
          /\ page' = [pack |-> inst.pack, preset |-> inst.preset, keys |-> ExposedKeys(layers)]
          /\ UNCHANGED <<disk, packs, settings, keys, owner, defaults, inst, layers, built,
                         pending, video, changes>>
      BY <1>9 DEF Build, Done, settingsVars, rendererVars
    <2>2. ui' \in UiTypes /\ ui'.found = ui.found BY <1>1, <1>3, <2>1 DEF UiTypes
    <2>3. page'.keys \subseteq Keys BY <2>1 DEF ExposedKeys
    <2>4. ListInv' BY <1>0, <2>1, <2>2 DEF ListInv
    <2> QED BY <1>1, <1>2, <1>4, <1>5, <2>1, <2>2, <2>3, <2>4, CallbackKeeps
  <1> QED BY <1>6, <1>7, <1>8, <1>9

LEMMA AskerKeeps == IInv /\ (Look \/ Repair \/ Flag \/ Ask) => IInv'
  <1> SUFFICES ASSUME IInv, Look \/ Repair \/ Flag \/ Ask PROVE IInv' OBVIOUS
  <1>0. ListInv /\ PickInv /\ page.keys \subseteq Keys BY DEF IInv, TypeOK
  <1>1. /\ disk \in Listing /\ packs \in Listing /\ settings \in [pack : Packs, preset : PresetNames]
        /\ ui \in UiTypes /\ inst \in InstTypes /\ built \in BuiltTypes
    BY Types
  <1>2. /\ ui.todo # <<>> /\ ui'.todo = Tail(ui.todo) /\ ui'.picked = ui.picked
        /\ ui'.found = ui.found
    BY <1>1 DEF Look, Repair, Flag, Ask, Step, Done, UiTypes
  <1>3. Tail(ui.todo) \in AskTodos \union PageTodos
    BY <1>1, <1>2, AskTodoIs, PageTodoIs, Apart DEF UiTypes
  <1>4. ui.picked => \/ Head(ui.todo) = "look" /\ ui'.todo = <<"repair", "ask">>
                     \/ /\ Head(ui.todo) = "repair" /\ ui.todo = <<"repair", "ask">>
                        /\ ui'.todo = <<"ask">>
                     \/ Head(ui.todo) = "ask" /\ ui.todo = <<"ask">> /\ ui'.todo = <<>>
    <2> SUFFICES ASSUME ui.picked
                 PROVE  \/ Head(ui.todo) = "look" /\ ui'.todo = <<"repair", "ask">>
                        \/ /\ Head(ui.todo) = "repair" /\ ui.todo = <<"repair", "ask">>
                           /\ ui'.todo = <<"ask">>
                        \/ Head(ui.todo) = "ask" /\ ui.todo = <<"ask">> /\ ui'.todo = <<>>
      OBVIOUS
    <2>1. ui.todo \in {<<"look", "repair", "ask">>, <<"repair", "ask">>, <<"ask">>, <<>>}
      BY <1>0 DEF PickInv
    <2> QED BY <2>1, <1>2, PickTodoIs
  <1>5. <<"repair", "ask">> # <<"ask">> /\ <<"repair", "ask">> # <<>> /\ <<"ask">> # <<>>
    OBVIOUS
  <1>6. CASE Look
    <2>1. /\ Head(ui.todo) = "look"
          /\ UNCHANGED <<disk, packs, settings, keys, owner, defaults, inst, layers, built,
                         page, pending, video, changes>>
      BY <1>6 DEF Look, Step, settingsVars, rendererVars
    <2>2. PICK first \in IF settings.preset \in OfferedPresets(settings.pack)
                            \/ OfferedPresets(settings.pack) = {}
                         THEN {None} ELSE FirstOffered(settings.pack) :
            ui' = [ui EXCEPT !.todo = Tail(@), !.first = first]
      BY <1>6 DEF Look
    <2>3. /\ first \in PresetNames \union {None}
          /\ Of(settings.pack, IF first = None THEN settings.preset ELSE first)
      <3>1. CASE Of(settings.pack, settings.preset)
        <4>1. first = None BY <3>1, <2>2 DEF Of
        <4> QED BY <3>1, <4>1
      <3>2. CASE ~Of(settings.pack, settings.preset)
        <4>1. first \in OfferedPresets(settings.pack) BY <3>2, <2>2, FirstIsOffered DEF Of
        <4>2. first # None /\ first \in PresetNames BY <1>1, <4>1, OfferedAre
        <4> QED BY <4>1, <4>2 DEF Of
      <3> QED BY <3>1, <3>2
    <2>4. ui' \in UiTypes /\ ui'.first = first BY <1>1, <1>3, <2>2, <2>3 DEF UiTypes
    <2>5. Of(settings.pack, IF ui.first = None THEN settings.preset ELSE ui.first)'
      BY <2>1, <2>3, <2>4 DEF Of, OfferedPresets, Ids, Fitting
    <2>6. ListInv' BY <1>0, <1>2, <2>1 DEF ListInv
    <2>7. "look" # "ask" /\ "look" # "repair" OBVIOUS
    <2> QED BY <1>1, <1>2, <1>4, <1>5, <2>1, <2>4, <2>5, <2>6, <2>7, <1>0, CallbackKeeps
  <1>7. CASE Repair
    <2>1. /\ Head(ui.todo) = "repair"
          /\ ui' = [ui EXCEPT !.todo = Tail(@), !.first = None]
          /\ settings' = IF ui.first = None THEN settings ELSE [settings EXCEPT !.preset = ui.first]
          /\ UNCHANGED <<disk, packs, keys, owner, defaults, inst, layers, built,
                         page, pending, video, changes>>
      BY <1>7 DEF Repair, Step, settingsVars, rendererVars
    <2>2. ui.first \in PresetNames \union {None} BY <1>1 DEF UiTypes
    <2>3. /\ settings' \in [pack : Packs, preset : PresetNames] /\ settings'.pack = settings.pack
          /\ settings'.preset = IF ui.first = None THEN settings.preset ELSE ui.first
      BY <1>1, <2>1, <2>2
    <2>4. ui' \in UiTypes BY <1>1, <1>3, <2>1 DEF UiTypes
    <2>5. ui.picked => Of(settings.pack, settings.preset)'
      <3> SUFFICES ASSUME ui.picked PROVE Of(settings.pack, settings.preset)' OBVIOUS
      <3>1. ui.todo = <<"repair", "ask">> BY <1>4, <2>1
      <3>2. Of(settings.pack, IF ui.first = None THEN settings.preset ELSE ui.first)
        BY <1>0, <3>1 DEF PickInv
      <3>3. OfferedPresets(settings.pack)' = OfferedPresets(settings.pack)
        BY <2>1, <2>3 DEF OfferedPresets, Ids, Fitting
      <3>4. settings'.preset \in OfferedPresets(settings.pack) \/ OfferedPresets(settings.pack) = {}
        BY <2>3, <3>2 DEF Of
      <3> QED BY <3>3, <3>4 DEF Of
    <2>6. ListInv' BY <1>0, <1>2, <2>1 DEF ListInv
    <2>7. "repair" # "ask" /\ "repair" # "look" OBVIOUS
    <2> QED BY <1>1, <1>2, <1>4, <1>5, <2>1, <2>3, <2>4, <2>5, <2>6, <2>7, <1>0, CallbackKeeps
  <1>8. CASE Flag
    <2>1. /\ Head(ui.todo) = "flag" /\ ui' = [ui EXCEPT !.todo = Tail(@)]
          /\ inst' = [inst EXCEPT !.reload = TRUE]
          /\ UNCHANGED <<disk, packs, settings, keys, owner, defaults, layers, built,
                         page, pending, video, changes>>
      BY <1>8 DEF Flag, Step, Done, settingsVars, rendererVars
    <2>2. ui' \in UiTypes BY <1>1, <1>3, <2>1 DEF UiTypes
    <2>3. /\ inst' \in InstTypes /\ inst'.pack = inst.pack /\ inst'.preset = inst.preset
          /\ inst'.status = inst.status /\ inst'.initialised = inst.initialised
      BY <1>1, <2>1 DEF InstTypes
    <2>4. ListInv' BY <1>0, <1>2, <2>1 DEF ListInv
    <2>5. ~ui.picked BY <1>4, <2>1
    <2> QED BY <1>1, <1>2, <2>1, <2>2, <2>3, <2>4, <2>5, <1>0, CallbackKeeps
  <1>9. CASE Ask
    <2>1. /\ Head(ui.todo) = "ask" /\ ui' = [ui EXCEPT !.todo = Tail(@)]
          /\ pending' = pending + 1
          /\ UNCHANGED <<disk, packs, settings, keys, owner, defaults, inst, layers, built,
                         page, video, changes>>
      BY <1>9 DEF Ask, Step, Done, settingsVars, rendererVars
    <2>2. ui' \in UiTypes BY <1>1, <1>3, <2>1 DEF UiTypes
    <2>3. ListInv' BY <1>0, <1>2, <2>1 DEF ListInv
    <2>4. ui.picked => ui.todo = <<"ask">> /\ ui'.todo = <<>> BY <1>4, <2>1
    <2>5. ui.picked => Of(settings.pack, settings.preset)'
      <3> SUFFICES ASSUME ui.picked PROVE Of(settings.pack, settings.preset)' OBVIOUS
      <3>1. Of(settings.pack, settings.preset) BY <1>0, <2>4 DEF PickInv
      <3> QED BY <2>1, <3>1 DEF Of, OfferedPresets, Ids, Fitting
    <2> QED BY <1>1, <1>2, <1>5, <2>1, <2>2, <2>3, <2>4, <2>5, <1>0, CallbackKeeps
  <1> QED BY <1>6, <1>7, <1>8, <1>9

----------------------------------------------------------------------------
(* The loop over the layers.  What a function that is defined by recursion computes is *)
(* proved with least counterexamples: a set of natural numbers that has none is empty. *)

\* Any set of natural numbers but the empty one has a least.
LEMMA Least ==
  ASSUME NEW T, T \subseteq Nat, T # {}
  PROVE  \E n \in T : \A m \in T : n <= m
  <1> DEFINE R == {p \in Nat \X Nat : p[1] < p[2]}
  <1>1. IsWellFoundedOn(R, Nat)
    BY NatLessThanWellFounded DEF OpToRel
  <1> HIDE DEF R
  <1>2. PICK n \in T : \A m \in T : <<m, n>> \notin R
    BY <1>1, WFMin
  <1>3. \A m \in T : ~(m < n)
    BY <1>2 DEF R
  <1> QED BY <1>2, <1>3

\* A function on the positions of an array is an array.
LEMMA ArrayOf ==
  ASSUME NEW s, NEW t, IsArray(s), t = [i \in DOMAIN t |-> t[i]], DOMAIN t = DOMAIN s
  PROVE  IsArray(t)
  BY DEF IsArray

LEMMA EmptyArray == IsArray(<<>>)
  BY DEF IsArray

\* One pass of the loop, and what it begins with.
Pass(acc, layer) ==
  IF ~layer.ok THEN acc
  ELSE [prev |-> acc.dst, dst |-> Other(acc.dst),
        draws |-> Append(acc.draws, [reads |-> acc.prev, writes |-> acc.dst])]

First == [prev |-> "input", dst |-> "ping", draws |-> <<>>]

\* f is what the loop holds after each of the first n layers.
Loop(f, ls, n) == f = [i \in 0..n |-> IF i = 0 THEN First ELSE Pass(f[i - 1], ls[i])]

\* There is such a function, or there is a least n for which there is none.
LEMMA LoopExists ==
  ASSUME NEW ls, NEW n \in Nat PROVE \E f : Loop(f, ls, n)
  <1> DEFINE T == {m \in Nat : ~\E f : Loop(f, ls, m)}
  <1> SUFFICES ASSUME T # {} PROVE FALSE OBVIOUS
  <1>1. PICK m \in T : \A k \in T : m <= k BY Least
  <1>2. CASE m = 0
    <2> DEFINE f == [i \in 0..0 |-> First]
    <2>1. Loop(f, ls, 0) BY DEF Loop
    <2> QED BY <1>2, <2>1
  <1>3. CASE m # 0
    <2>1. m - 1 \in Nat /\ m - 1 \notin T BY <1>1, <1>3
    <2>2. PICK f : Loop(f, ls, m - 1) BY <2>1
    <2> DEFINE g == [i \in 0..m |-> IF i = m THEN Pass(f[m - 1], ls[m]) ELSE f[i]]
    <2>3. ASSUME NEW i \in 0..m
          PROVE  g[i] = IF i = 0 THEN First ELSE Pass(g[i - 1], ls[i])
      <3>1. CASE i = m
        <4>1. g[i] = Pass(f[i - 1], ls[i]) /\ g[i - 1] = f[i - 1] BY <3>1, <1>3
        <4> QED BY <4>1, <3>1, <1>3
      <3>2. CASE i # m
        <4>1. i \in 0..(m - 1) BY <3>2
        <4>2. g[i] = f[i] /\ (i # 0 => g[i - 1] = f[i - 1]) BY <4>1
        <4>3. f[i] = IF i = 0 THEN First ELSE Pass(f[i - 1], ls[i])
          <5> HIDE DEF g, T
          <5> QED BY <4>1, <2>2 DEF Loop
        <4> QED BY <4>2, <4>3
      <3> QED BY <3>1, <3>2
    <2>4. g = [i \in 0..m |-> g[i]] OBVIOUS
    <2> HIDE DEF g
    <2>5. Loop(g, ls, m)
      <3> DEFINE h == [i \in 0..m |-> IF i = 0 THEN First ELSE Pass(g[i - 1], ls[i])]
      <3>1. \A i \in 0..m : g[i] = h[i] BY <2>3
      <3> HIDE DEF h
      <3>2. h = [i \in 0..m |-> h[i]] BY DEF h
      <3>3. g = h BY <2>4, <3>1, <3>2
      <3> QED BY <3>3 DEF Loop, h
    <2> QED BY <2>5, <1>1
  <1> QED BY <1>2, <1>3

\* The loop is the one function its equation has.
LEMMA StackedIs ==
  ASSUME NEW ls, Len(ls) \in Nat
  PROVE Loop(Stacked(ls), ls, Len(ls))
  <1> DEFINE n == Len(ls)
  <1>1. Stacked(ls) = CHOOSE f : Loop(f, ls, n)
    BY DEF Stacked, Loop, Pass, First
  <1>2. \E f : Loop(f, ls, n) BY LoopExists
  <1> HIDE DEF n
  <1> QED BY <1>1, <1>2 DEF n

\* Each draw reads what the one before it drew, and the next one will.
Chained(acc) ==
  /\ acc.dst \in {"ping", "pong"}
  /\ acc.draws \in Seq([reads : {"input", "ping", "pong"}, writes : {"ping", "pong"}])
  /\ acc.prev = IF Len(acc.draws) = 0 THEN "input" ELSE acc.draws[Len(acc.draws)].writes
  /\ acc.prev # acc.dst
  /\ \A i \in 1..Len(acc.draws) :
        /\ acc.draws[i].reads # acc.draws[i].writes
        /\ acc.draws[i].reads = IF i = 1 THEN "input" ELSE acc.draws[i - 1].writes

\* A layer continues the chain, or is skipped.
LEMMA PassChains ==
  ASSUME NEW acc, NEW layer, Chained(acc) PROVE Chained(Pass(acc, layer))
  <1>1. CASE ~layer.ok BY <1>1 DEF Pass
  <1>2. CASE layer.ok
    <2> DEFINE d == [reads |-> acc.prev, writes |-> acc.dst]
               S == [reads : {"input", "ping", "pong"}, writes : {"ping", "pong"}]
               ds == Append(acc.draws, d)
               new == [prev |-> acc.dst, dst |-> Other(acc.dst), draws |-> ds]
    <2>1. acc.draws \in Seq(S) /\ acc.dst \in {"ping", "pong"} /\ acc.prev # acc.dst BY DEF Chained
    <2>2. Len(acc.draws) \in Nat BY <2>1
    <2>3. acc.prev \in {"input", "ping", "pong"}
      <3>1. CASE Len(acc.draws) = 0 BY <3>1 DEF Chained
      <3>2. CASE Len(acc.draws) # 0
        <4>1. Len(acc.draws) \in 1..Len(acc.draws) BY <2>2, <3>2
        <4>2. acc.draws[Len(acc.draws)] \in S
          <5> HIDE DEF S, d, ds, new
          <5> QED BY <4>1, <2>1
        <4> QED BY <3>2, <4>2 DEF Chained
      <3> QED BY <3>1, <3>2
    <2>4. d \in S BY <2>1, <2>3
    <2>5. /\ ds \in Seq(S) /\ Len(ds) = Len(acc.draws) + 1 /\ ds[Len(acc.draws) + 1] = d
          /\ \A i \in 1..Len(acc.draws) : ds[i] = acc.draws[i]
      <3> HIDE DEF d, S
      <3> QED BY <2>1, <2>4
    <2>6. d.reads = acc.prev /\ d.writes = acc.dst OBVIOUS
    <2> HIDE DEF ds, d, S
    <2>7. \A i \in 1..Len(ds) :
             /\ ds[i].reads # ds[i].writes
             /\ ds[i].reads = IF i = 1 THEN "input" ELSE ds[i - 1].writes
      <3> TAKE i \in 1..Len(ds)
      <3>1. CASE i = Len(acc.draws) + 1
        <4>1. ds[i] = d BY <3>1, <2>5
        <4>2. i # 1 => ds[i - 1] = acc.draws[Len(acc.draws)] BY <3>1, <2>5, <2>2
        <4>3. acc.prev = IF i = 1 THEN "input" ELSE acc.draws[Len(acc.draws)].writes
           BY <3>1, <2>2 DEF Chained
        <4> QED BY <4>1, <4>2, <4>3, <2>6, <2>1
      <3>2. CASE i # Len(acc.draws) + 1
        <4>1. i \in 1..Len(acc.draws) BY <3>2, <2>5, <2>2
        <4>2. ds[i] = acc.draws[i] /\ (i # 1 => ds[i - 1] = acc.draws[i - 1]) BY <4>1, <2>5, <2>2
        <4> QED BY <4>1, <4>2 DEF Chained
      <3> QED BY <3>1, <3>2
    <2>8. new.prev = acc.dst /\ new.dst = Other(acc.dst) /\ new.draws = ds OBVIOUS
    <2>9. new.prev = ds[Len(ds)].writes /\ Len(ds) # 0 BY <2>8, <2>5, <2>6, <2>2
    <2>10. new.prev # new.dst /\ new.dst \in {"ping", "pong"} BY <2>8, <2>1 DEF Other
    <2>11. Pass(acc, layer) = new BY <1>2 DEF Pass, ds, d
    <2> HIDE DEF new
    <2>12. Chained(new) BY <2>5, <2>7, <2>8, <2>9, <2>10 DEF Chained, S
    <2> QED BY <2>11, <2>12
  <1> QED BY <1>1, <1>2

\* A first layer to break the chain would have followed one that kept it.
LEMMA StackedChains ==
  ASSUME NEW ls, Len(ls) \in Nat
  PROVE Chained(Stacked(ls)[Len(ls)])
  <1> DEFINE f == Stacked(ls)
             n == Len(ls)
             T == {m \in 0..n : ~Chained(f[m])}
  <1>0. n \in Nat OBVIOUS
  <1>1. \A i \in 0..n : f[i] = IF i = 0 THEN First ELSE Pass(f[i - 1], ls[i])
    <2>1. Loop(f, ls, n) BY StackedIs
    <2> HIDE DEF f, n
    <2> QED BY <2>1 DEF Loop
  <1> HIDE DEF f, n
  <1>2. T = {}
    <2> SUFFICES ASSUME T # {} PROVE FALSE OBVIOUS
    <2>1. T \subseteq Nat BY <1>0
    <2> HIDE DEF T
    <2>2. PICK m \in T : \A k \in T : m <= k BY <2>1, Least
    <2>3. m \in 0..n /\ ~Chained(f[m]) BY <2>2 DEF T
    <2>4. CASE m = 0
      <3>1. Chained(First) BY DEF First, Chained
      <3> QED BY <3>1, <2>3, <2>4, <1>1
    <2>5. CASE m # 0
      <3>1. m - 1 \in 0..n /\ ~(m <= m - 1) BY <1>0, <2>3, <2>5
      <3>2. m - 1 \notin T BY <3>1, <2>2
      <3>3. Chained(f[m - 1]) BY <3>1, <3>2 DEF T
      <3>4. f[m] = Pass(f[m - 1], ls[m]) BY <1>1, <2>3, <2>5
      <3> QED BY <2>3, <3>3, <3>4, PassChains
    <2> QED BY <2>4, <2>5
  <1>3. n \in 0..n /\ n \notin T BY <1>0, <1>2
  <1> QED BY <1>3 DEF T, f, n

\* The first preset of an id is a preset.
LEMMA FoundPreset ==
  ASSUME NEW v \in Versions, NEW id \in PresetIds(Manifest[v])
  PROVE  /\ IsArray(FindPreset(Manifest[v], id).layers)
         /\ ~Refused(Manifest[v]) => Len(FindPreset(Manifest[v], id).layers) > 0
  <1> DEFINE presets == Manifest[v].presets
             T == {i \in 1..Len(presets) : presets[i].id = id}
             Foremost(i) == presets[i].id = id /\ \A j \in 1..(i - 1) : presets[j].id # id
             k == CHOOSE i \in 1..Len(presets) : Foremost(i)
  <1>1. IsArray(presets) /\ \A i \in DOMAIN presets : IsArray(presets[i].layers)
    BY InstanceAssumption
  <1>2. Len(presets) \in Nat /\ DOMAIN presets = 1..Len(presets) BY <1>1 DEF IsArray
  <1>3. T # {} BY DEF PresetIds
  <1>4. FindPreset(Manifest[v], id) = presets[k] BY DEF FindPreset
  <1> HIDE DEF presets
  <1>5. T \subseteq Nat BY <1>2
  <1>6. PICK i \in T : \A j \in T : i <= j BY <1>3, <1>5, Least
  <1>7. \A j \in 1..(i - 1) : presets[j].id # id
    <2> SUFFICES ASSUME NEW j \in 1..(i - 1), presets[j].id = id PROVE FALSE OBVIOUS
    <2>1. j \in T /\ j < i BY <1>2
    <2> QED BY <2>1, <1>2, <1>6
  <1>8. i \in 1..Len(presets) /\ Foremost(i) BY <1>7
  <1> HIDE DEF Foremost
  <1>9. k \in 1..Len(presets) BY <1>8
  <1>10. ~Refused(Manifest[v]) => Len(presets[k].layers) > 0
    BY <1>9 DEF Refused, PresetOK, presets
  <1> QED BY <1>1, <1>2, <1>4, <1>9, <1>10

\* What is loaded is an array.
LEMMA LoadedArray ==
  ASSUME NEW listed \in Versions \union {None}, NEW preset, NEW from
  PROVE  IsArray(LayersOf(listed, preset, from))
  <1>1. CASE LayersOf(listed, preset, from) = <<>>
    BY <1>1, EmptyArray
  <1>2. CASE LayersOf(listed, preset, from) # <<>>
    <2> DEFINE S == FindPreset(Manifest[listed], preset).layers
    <2>1. /\ listed # None /\ preset \in PresetIds(Manifest[listed])
          /\ LayersOf(listed, preset, from) = Load(S, from)
      BY <1>2 DEF LayersOf
    <2>2. IsArray(S) BY <2>1, FoundPreset
    <2> HIDE DEF S
    <2>3. Load(S, from) = [i \in DOMAIN Load(S, from) |-> Load(S, from)[i]]
          /\ DOMAIN Load(S, from) = DOMAIN S
      BY DEF Load
    <2> QED BY <2>1, <2>2, <2>3, ArrayOf
  <1> QED BY <1>1, <1>2

----------------------------------------------------------------------------
(* The disk, and the video thread *)

\* The pick stands, and so does what it asked for.
LEMMA PickStands ==
  ASSUME PickInv, UNCHANGED <<packs, settings, ui>>,
         ui.picked /\ ~Due' =>
           IF video'.pc = "update"
           THEN video'.pack = settings.pack /\ video'.preset = settings.preset
           ELSE /\ inst'.pack = settings.pack /\ inst'.preset = settings.preset
                /\ inst'.status = Status(settings.pack, settings.preset)
  PROVE  PickInv'
  <1> SUFFICES ASSUME ui.picked PROVE PickInv' BY DEF PickInv
  <1>1. OfferedPresets(settings.pack)' = OfferedPresets(settings.pack)
    BY DEF OfferedPresets, Ids, Fitting
  <1>4. ui'.todo \in {<<"look", "repair", "ask">>, <<"repair", "ask">>, <<"ask">>, <<>>}
    BY DEF PickInv
  <1>5. ui'.todo = <<"repair", "ask">> =>
          Of(settings.pack, IF ui.first = None THEN settings.preset ELSE ui.first)'
    <2> SUFFICES ASSUME ui.todo = <<"repair", "ask">>
                 PROVE  Of(settings.pack, IF ui.first = None THEN settings.preset ELSE ui.first)'
      OBVIOUS
    <2>1. Of(settings.pack, IF ui.first = None THEN settings.preset ELSE ui.first) BY DEF PickInv
    <2> QED BY <1>1, <2>1 DEF Of
  <1>6. ui'.todo \in {<<"ask">>, <<>>} => Of(settings.pack, settings.preset)'
    <2> SUFFICES ASSUME ui.todo \in {<<"ask">>, <<>>} PROVE Of(settings.pack, settings.preset)'
      OBVIOUS
    <2>1. Of(settings.pack, settings.preset) BY DEF PickInv
    <2> QED BY <1>1, <2>1 DEF Of
  <1>7. Status(settings.pack, settings.preset)' = Status(settings.pack, settings.preset)
    BY DEF Status
  <1> QED BY <1>4, <1>5, <1>6, <1>7 DEF PickInv

LEMMA ElsewhereKeeps == IInv /\ Elsewhere => IInv'
  <1> SUFFICES ASSUME IInv, Elsewhere PROVE IInv' OBVIOUS
  <1>0. /\ TypeOK /\ TypesInv /\ StartInv /\ UpdateInv /\ CountInv /\ ListInv
        /\ KeysGoWithTheSwitch /\ EntitledInv
        /\ PickInv /\ LayersInv /\ SetInv /\ DefaultsInv
    BY DEF IInv
  <1>1. /\ disk \in Listing /\ built \in BuiltTypes /\ changes \in Nat BY Types
  <1>2. /\ changes < MaxChanges /\ changes' = changes + 1
        /\ UNCHANGED <<packs, settings, keys, owner, defaults, inst, layers, page, pending, ui, video>>
    BY DEF Elsewhere, Change, settingsVars
  <1>3. PICK p \in Packs, v \in Versions \union {None} :
          /\ disk' = [disk EXCEPT ![p] = v]
          /\ built' = [built EXCEPT !.same = @ /\ p # built.pack]
    BY DEF Elsewhere
  <1>4. disk' \in Listing BY <1>1, <1>3 DEF Listing
  <1>5. /\ built' \in BuiltTypes /\ built'.pack = built.pack /\ built'.preset = built.preset
        /\ built'.listed = built.listed /\ built'.from = built.from
        /\ built'.same => built.same /\ disk'[built.pack] = disk[built.pack]
    <2>1. /\ built' \in BuiltTypes /\ built'.pack = built.pack /\ built'.preset = built.preset
          /\ built'.listed = built.listed /\ built'.from = built.from
          /\ built'.same = (built.same /\ p # built.pack)
      BY <1>1, <1>3 DEF BuiltTypes
    <2>2. p # built.pack => disk'[built.pack] = disk[built.pack] BY <1>1, <1>3 DEF Listing
    <2> QED BY <2>1, <2>2
  <1>6. TypeOK'
    <2>1. changes' \in 0..MaxChanges BY <1>1, <1>2, Constants
    <2> QED BY <1>0, <1>2, <1>4, <2>1 DEF TypeOK, Listing
  <1>7. TypesInv'
    <2>1. /\ keys' = [k \in Keys |-> keys'[k]] /\ owner' = [k \in Keys |-> owner'[k]]
          /\ defaults' = [k \in Keys |-> defaults'[k]]
          /\ inst' \in InstTypes /\ ui' \in UiTypes /\ video' \in VideoTypes
          /\ video'.pc # "idle" =>
               video'.pack \in Packs /\ video'.preset \in PresetNames /\ video'.count <= pending'
      BY Zenon, <1>0, <1>2, TypesAre
    <2> QED BY Zenon, <1>5, <2>1, TypesMade
  <1>8. StartInv' /\ UpdateInv' BY <1>0, <1>2 DEF StartInv, UpdateInv
  <1>9. CountInv'
    <2>1. pending \in Nat BY Types
    <2> QED BY <1>0, <1>1, <1>2, <2>1 DEF CountInv, Asking
  <1>10. ListInv' BY <1>0, <1>2 DEF ListInv
  <1>11. KeysGoWithTheSwitch' BY <1>0, <1>2 DEF KeysGoWithTheSwitch
  <1>12. EntitledInv' BY <1>0, <1>2, <1>5 DEF EntitledInv
  <1>13. Due' = Due BY <1>2 DEF Due, Asking
  <1>14. PickInv'
    <2>1. ui.picked /\ ~Due' =>
            IF video'.pc = "update"
            THEN video'.pack = settings.pack /\ video'.preset = settings.preset
            ELSE /\ inst'.pack = settings.pack /\ inst'.preset = settings.preset
                 /\ inst'.status = Status(settings.pack, settings.preset)
      BY <1>0, <1>2, <1>13 DEF PickInv
    <2> QED BY <1>0, <1>2, <2>1, PickStands
  <1>15. LayersInv' BY <1>0, <1>2, <1>5, LayersSame DEF Replacing
  <1>16. SetInv' BY <1>0, <1>2, <1>13, SetSame
  <1>17. DefaultsInv' BY <1>0, <1>2, DefaultsSame DEF Replacing
  <1> QED BY <1>6, <1>7, <1>8, <1>9, <1>10, <1>11, <1>12, <1>14, <1>15, <1>16, <1>17 DEF IInv

LEMMA TypesKept ==
  ASSUME TypesInv, UNCHANGED <<keys, owner, defaults, inst, built, ui>>, video' \in VideoTypes,
         video'.pc # "idle" =>
           video'.pack \in Packs /\ video'.preset \in PresetNames /\ video'.count <= pending'
  PROVE  TypesInv'
  <1>1. /\ keys' = [k \in Keys |-> keys'[k]] /\ owner' = [k \in Keys |-> owner'[k]]
        /\ defaults' = [k \in Keys |-> defaults'[k]]
        /\ inst' \in InstTypes /\ built' \in BuiltTypes /\ ui' \in UiTypes
    BY Zenon, TypesAre
  <1> QED BY Zenon, <1>1, TypesMade

LEMMA UpdateBeginKeeps == IInv /\ UpdateBegin => IInv'
  <1> SUFFICES ASSUME IInv, UpdateBegin PROVE IInv' OBVIOUS
  <1>0. /\ TypeOK /\ TypesInv /\ StartInv /\ UpdateInv /\ CountInv /\ ListInv
        /\ KeysGoWithTheSwitch /\ EntitledInv
        /\ PickInv /\ LayersInv /\ SetInv /\ DefaultsInv
    BY DEF IInv
  <1>1. settings \in [pack : Packs, preset : PresetNames] /\ pending \in Nat BY Types
  <1>2. /\ video.pc = "idle" /\ pending > 0
        /\ video' = [pc |-> "update", pack |-> settings.pack, preset |-> settings.preset,
                     reload |-> FALSE, count |-> pending]
        /\ UNCHANGED <<disk, packs, settings, keys, owner, defaults, inst, layers, built, page,
                       pending, ui, changes>>
    BY DEF UpdateBegin, settingsVars, rendererVars
  <1>3. /\ video'.pc = "update" /\ video'.pack = settings.pack /\ video'.preset = settings.preset
        /\ video'.count = pending
    BY <1>2
  <1>4. TypeOK' BY <1>0, <1>2, <1>3 DEF TypeOK
  <1>5. TypesInv'
    <2>1. /\ video' \in VideoTypes
          /\ video'.pack \in Packs /\ video'.preset \in PresetNames /\ video'.count <= pending
      BY <1>1, <1>2 DEF VideoTypes
    <2> QED BY <1>0, <1>2, <2>1, TypesKept
  <1>6. inst.initialised BY <1>0, <1>2 DEF StartInv
  <1>7. StartInv' /\ UpdateInv' BY <1>2, <1>3, <1>6 DEF StartInv, UpdateInv
  <1>8. CountInv' BY <1>0, <1>2 DEF CountInv, Asking
  <1>9. ListInv' BY <1>0, <1>2 DEF ListInv
  <1>10. KeysGoWithTheSwitch' BY <1>0, <1>2 DEF KeysGoWithTheSwitch
  <1>11. EntitledInv' BY <1>0, <1>2 DEF EntitledInv
  <1>12. PickInv' BY <1>0, <1>2, <1>3, PickStands
  <1>13. LayersInv' BY <1>0, <1>2, <1>3, LayersSame DEF Replacing
  <1>14. SetInv' BY <1>3 DEF SetInv
  <1>15. DefaultsInv' BY <1>0, <1>2, <1>3, DefaultsSame DEF Replacing
  <1> QED BY <1>4, <1>5, <1>7, <1>8, <1>9, <1>10, <1>11, <1>12, <1>13, <1>14, <1>15 DEF IInv

LEMMA UpdateEndKeeps == IInv /\ UpdateEnd => IInv'
  <1> SUFFICES ASSUME IInv, UpdateEnd PROVE IInv' OBVIOUS
  <1>0. /\ TypeOK /\ TypesInv /\ StartInv /\ UpdateInv /\ CountInv /\ ListInv
        /\ KeysGoWithTheSwitch /\ EntitledInv
        /\ PickInv /\ LayersInv /\ SetInv /\ DefaultsInv
    BY DEF IInv
  <1>1. /\ pending \in Nat /\ video.count \in Nat /\ changes \in Nat /\ changes <= MaxChanges
        /\ pending <= changes
    BY Types
  <1>2. /\ video.pc = "end"
        /\ pending' = IF pending = video.count THEN 0 ELSE pending
        /\ video' = [pc |-> "idle", pack |-> None, preset |-> None, reload |-> FALSE, count |-> 0]
        /\ UNCHANGED <<disk, packs, settings, keys, owner, defaults, inst, layers, built, page, ui,
                       changes>>
    BY DEF UpdateEnd, settingsVars, rendererVars
  <1>3. video'.pc = "idle" /\ video.count <= pending BY <1>2, <1>0 DEF TypesInv
  <1>4. pending' \in Nat /\ pending' <= pending BY <1>1, <1>2
  <1>5. Due' <=> Due
    <2>1. pending' > 0 <=> pending # video.count BY <1>1, <1>2, <1>3
    <2>2. Asking' = Asking BY <1>2 DEF Asking
    <2> QED BY <2>1, <2>2, <1>2, <1>3 DEF Due
  <1>6. TypeOK'
    <2>1. pending' \in 0..(MaxChanges + 1)
      <3>1. pending' <= MaxChanges BY <1>1, <1>4, Constants
      <3> QED BY <3>1, <1>4, Constants
    <2> QED BY <1>0, <1>2, <1>3, <2>1 DEF TypeOK
  <1>7. TypesInv'
    <2>1. video' \in VideoTypes BY <1>2 DEF VideoTypes
    <2> QED BY <1>0, <1>2, <1>3, <2>1, TypesKept
  <1>8. inst.initialised BY <1>0, <1>2 DEF StartInv
  <1>9. StartInv' /\ UpdateInv' BY <1>2, <1>3, <1>8 DEF StartInv, UpdateInv
  <1>10. CountInv'
    <2>1. pending + (IF Asking THEN 1 ELSE 0) <= changes BY <1>0 DEF CountInv
    <2>2. Asking' = Asking BY <1>2 DEF Asking
    <2>3. (IF Asking THEN 1 ELSE 0) \in Nat OBVIOUS
    <2>4. pending' + (IF Asking THEN 1 ELSE 0) <= changes
      <3> DEFINE a == IF Asking THEN 1 ELSE 0
      <3> HIDE DEF a
      <3>1. a \in Nat BY <2>3 DEF a
      <3>2. pending + a <= changes BY <2>1 DEF a
      <3>3. \A x, y, c \in Nat : x <= y /\ y + a <= c => x + a <= c BY <3>1
      <3>4. pending' + a <= changes BY <3>2, <3>3, <1>1, <1>4
      <3> QED BY <3>4 DEF a
    <2> QED BY <2>2, <2>4, <1>2 DEF CountInv
  <1>11. ListInv' BY <1>0, <1>2 DEF ListInv
  <1>12. KeysGoWithTheSwitch' BY <1>0, <1>2 DEF KeysGoWithTheSwitch
  <1>13. EntitledInv' BY <1>0, <1>2 DEF EntitledInv
  <1>14. PickInv'
    <2>1. ui.picked /\ ~Due' =>
            /\ inst'.pack = settings.pack /\ inst'.preset = settings.preset
            /\ inst'.status = Status(settings.pack, settings.preset)
      BY <1>0, <1>2, <1>5 DEF PickInv
    <2> QED BY <1>0, <1>2, <1>3, <2>1, PickStands
  <1>15. LayersInv' BY <1>0, <1>2, <1>3, LayersSame DEF Replacing
  <1>16. SetInv' BY <1>0, <1>2, <1>3, <1>5, SetSame
  <1>17. DefaultsInv' BY <1>0, <1>2, <1>3, DefaultsSame DEF Replacing
  <1> QED BY <1>6, <1>7, <1>9, <1>10, <1>11, <1>12, <1>13, <1>14, <1>15, <1>16, <1>17 DEF IInv

LEMMA LayersAre ==
  ASSUME LayersInv, inst.initialised, built \in BuiltTypes
  PROVE  AllGrown(layers, Loaded, built) /\ AllFresh(Loaded, built.from)
  <1>1. AllGrown(layers, Loaded, built) BY DEF LayersInv, AllGrown, Shaped
  <1>2. built.from \in Versions \union {None} BY DEF BuiltTypes
  <1>3. AllFresh(LayersOf(built.listed, built.preset, built.from), built.from)
    BY <1>2, LoadIsFresh
  <1> QED BY <1>1, <1>3 DEF Loaded

\* A layer that is not there has no parameters.
LEMMA LayersTyped ==
  ASSUME NEW ls, NEW ref, NEW b, AllGrown(ls, ref, b), AllFresh(ref, b.from)
  PROVE  \A i \in DOMAIN ls : ls[i].ok \/ DOMAIN ls[i].params = {}
  <1>1. Shaped(ls, ref) BY DEF AllGrown
  <1>2. /\ DOMAIN ls = DOMAIN ref
        /\ \A i \in DOMAIN ref : ls[i].ok = ref[i].ok /\ DOMAIN ls[i].params = DOMAIN ref[i].params
    BY <1>1, ShapedDomains
  <1>3. \A i \in DOMAIN ref : ref[i].ok \/ DOMAIN ref[i].params = {} BY DEF AllFresh
  <1> QED BY <1>2, <1>3

LEMMA EmptyIs ==
  ASSUME NEW ls, NEW ref, Shaped(ls, ref), ref = <<>> PROVE ls = <<>>
  <1> DEFINE P(i) == [ok |-> ref[i].ok,
                      params |-> [n \in DOMAIN ref[i].params |-> ls[i].params[n]]]
  <1>1. ls = [i \in DOMAIN ref |-> P(i)] BY DEF Shaped
  <1>2. DOMAIN ref = {} OBVIOUS
  <1> HIDE DEF P
  <1>3. ls = [i \in {} |-> P(i)] BY <1>1, <1>2
  <1> QED BY <1>3

\* Nor has applying and baking left out any of the layers that were loaded.
LEMMA LayersThere ==
  ASSUME LayersInv, inst.initialised, built \in BuiltTypes, Loaded # <<>>
  PROVE  layers # <<>>
  <1>1. AllGrown(layers, Loaded, built) BY LayersAre
  <1>2. DOMAIN layers = DOMAIN Loaded BY <1>1, ShapedDomains DEF AllGrown
  <1>3. AllGrown(Loaded, Loaded, built) BY LoadIsFresh DEF Loaded, BuiltTypes
  <1> SUFFICES ASSUME layers = <<>> PROVE Loaded = <<>> OBVIOUS
  <1>4. DOMAIN Loaded = {} BY <1>2
  <1> DEFINE P(i) == [ok |-> Loaded[i].ok,
                      params |-> [n \in DOMAIN Loaded[i].params |-> Loaded[i].params[n]]]
  <1>5. Loaded = [i \in DOMAIN Loaded |-> P(i)] BY <1>3 DEF AllGrown, Shaped
  <1> HIDE DEF P
  <1> QED BY <1>4, <1>5

LEMMA RenderKeeps == IInv /\ Render => IInv'
  <1> SUFFICES ASSUME IInv, Render PROVE IInv' OBVIOUS
  <1>0. /\ TypeOK /\ TypesInv /\ StartInv /\ UpdateInv /\ CountInv /\ ListInv
        /\ KeysGoWithTheSwitch /\ EntitledInv
        /\ PickInv /\ LayersInv /\ SetInv /\ DefaultsInv
    BY DEF IInv
  <1>1. /\ video.pc = "idle" /\ layers' = Bake(layers)
        /\ UNCHANGED <<disk, packs, settings, keys, owner, defaults, inst, built, page, pending,
                       ui, video, changes>>
    BY DEF Render, settingsVars
  <1>2. inst.initialised BY <1>0, <1>1 DEF StartInv
  <1>3. AllGrown(layers, Loaded, built) /\ AllFresh(Loaded, built.from)
    BY <1>0, <1>2, Types, LayersAre
  <1>4. /\ AllGrown(layers', Loaded, built)
        /\ \A ks : AllSet(layers, ks) => AllSet(layers', ks)
    BY <1>1, <1>3, BakedIs
  <1>5. Loaded' = Loaded BY <1>1 DEF Loaded
  <1>6. LayersInv'
    <2>1. /\ built.same => built.from = disk[built.pack]
          /\ ~Replacing => built.pack = inst.pack /\ built.preset = inst.preset
      BY <1>0, <1>2 DEF LayersInv
    <2>2. AllGrown(layers', Loaded', built') BY <1>1, <1>4, <1>5
    <2> QED BY <1>1, <2>1, <2>2 DEF LayersInv, AllGrown, Shaped, Replacing
  <1>7. TypeOK'
    <2>1. \A i \in DOMAIN layers' : layers'[i].ok \/ DOMAIN layers'[i].params = {}
      BY <1>3, <1>4, LayersTyped
    <2> QED BY <1>0, <1>1, <2>1 DEF TypeOK
  <1>8. TypesInv'
    <2>1. video \in VideoTypes /\ video.pc = "idle" BY <1>0, <1>1, TypesAre
    <2> QED BY <1>0, <1>1, <2>1, TypesKept
  <1>9. StartInv' /\ UpdateInv' BY <1>1, <1>2 DEF StartInv, UpdateInv
  <1>10. CountInv' BY <1>0, <1>1 DEF CountInv, Asking
  <1>11. ListInv' BY <1>0, <1>1 DEF ListInv
  <1>12. KeysGoWithTheSwitch' BY <1>0, <1>1 DEF KeysGoWithTheSwitch
  <1>13. EntitledInv'
    <2>1. layers' # <<>> => layers # <<>>
      <3> SUFFICES ASSUME layers = <<>> PROVE layers' = <<>> OBVIOUS
      <3>1. Shaped(layers', Loaded) /\ Shaped(layers, Loaded) BY <1>3, <1>4 DEF AllGrown
      <3>2. DOMAIN layers' = DOMAIN Loaded /\ DOMAIN layers = DOMAIN Loaded
        BY <3>1, ShapedDomains
      <3>3. layers' = [i \in DOMAIN layers |-> layers'[i]]
        BY <1>1 DEF Bake
      <3>4. DOMAIN layers = {} OBVIOUS
      <3> QED BY <3>3, <3>4
    <2> QED BY <1>0, <1>1, <2>1 DEF EntitledInv
  <1>14. Due' = Due BY <1>1 DEF Due, Asking
  <1>15. PickInv'
    <2>1. ui.picked /\ ~Due' =>
            /\ inst'.pack = settings.pack /\ inst'.preset = settings.preset
            /\ inst'.status = Status(settings.pack, settings.preset)
      BY <1>0, <1>1, <1>14 DEF PickInv
    <2> QED BY <1>0, <1>1, <2>1, PickStands
  <1>16. SetInv'
    <2> SUFFICES ASSUME ~Due' PROVE AllSet(layers', keys) BY <1>1 DEF SetInv, AllSet
    <2>1. AllSet(layers, keys) BY <1>0, <1>1, <1>2, <1>14 DEF SetInv, AllSet
    <2> QED BY <2>1, <1>4
  <1>17. DefaultsInv'
    <2>1. /\ ExposedKeys(layers') = ExposedKeys(Loaded) /\ ExposedKeys(layers) = ExposedKeys(Loaded)
          /\ \A k \in ExposedKeys(Loaded) :
               /\ ParamAt(layers', k).type = ParamAt(layers, k).type
               /\ ParamAt(layers', k).preset = ParamAt(layers, k).preset
      BY <1>3, <1>4, ShownAre
    <2> QED BY <1>0, <1>1, <1>2, <2>1 DEF DefaultsInv, Replacing
  <1> QED BY <1>6, <1>7, <1>8, <1>9, <1>10, <1>11, <1>12, <1>13, <1>15, <1>16, <1>17 DEF IInv

\* The update has its lock and has decided what to load, and a switch has taken the keys.
LEMMA EraseKeepsInv == IInv /\ Erase => IInv'
  <1> SUFFICES ASSUME IInv, Erase PROVE IInv' OBVIOUS
  <1>0. /\ TypeOK /\ TypesInv /\ StartInv /\ UpdateInv /\ CountInv /\ ListInv
        /\ KeysGoWithTheSwitch /\ EntitledInv
        /\ PickInv /\ LayersInv /\ SetInv /\ DefaultsInv
    BY DEF IInv
  <1>1. /\ video.pc = "update" /\ video.pack \in Packs /\ video.preset \in PresetNames
        /\ inst \in InstTypes
    BY Types DEF Erase
  <1>2. /\ inst' = [inst EXCEPT !.pack = video.pack, !.preset = video.preset,
                                !.status = Status(video.pack, video.preset), !.reload = FALSE]
        /\ video' = [video EXCEPT !.pc = "load", !.reload = Reload]
        /\ Changed => keys' = NoKeys /\ owner' = NoKeys /\ defaults' = NoKeys
        /\ ~Changed => keys' = keys /\ owner' = owner /\ defaults' = defaults
        /\ UNCHANGED <<disk, packs, settings, layers, built, page, pending, ui, changes>>
    BY DEF Erase, rendererVars
  <1>3. /\ inst'.pack = video.pack /\ inst'.preset = video.preset
        /\ inst'.initialised = inst.initialised
        /\ inst'.status = Status(video.pack, video.preset)
        /\ Status(video.pack, video.preset) \in {"", "missing", "blocked", "no_preset"}
        /\ inst' \in InstTypes
    <2>1. Status(video.pack, video.preset) \in {"", "missing", "blocked", "no_preset"}
      BY DEF Status
    <2> QED BY <1>1, <1>2, <2>1 DEF InstTypes
  <1>4. /\ video'.pc = "load" /\ video'.pack = video.pack /\ video'.preset = video.preset
        /\ video'.count = video.count /\ video'.reload = Reload
        /\ video' \in VideoTypes
    <2>1. video \in VideoTypes BY <1>0, TypesAre
    <2>2. Reload \in BOOLEAN
      <3>1. inst.reload \in BOOLEAN /\ inst.initialised \in BOOLEAN BY <1>1 DEF InstTypes
      <3> QED BY <3>1 DEF Reload, Changed
    <2> QED BY <1>2, <2>1, <2>2 DEF VideoTypes
  <1>5. /\ ~Reload => /\ ~Changed /\ inst.initialised
                      /\ inst.pack = video.pack /\ inst.preset = video.preset
        /\ ~inst.initialised => Reload /\ ~Changed
    BY DEF Reload, Changed
  <1>6. /\ keys' = [k \in Keys |-> keys'[k]] /\ owner' = [k \in Keys |-> owner'[k]]
        /\ defaults' = [k \in Keys |-> defaults'[k]]
        /\ \A k \in Keys : keys'[k] = IF Changed THEN None ELSE keys[k]
    <2>0. /\ keys = [k \in Keys |-> keys[k]] /\ owner = [k \in Keys |-> owner[k]]
          /\ defaults = [k \in Keys |-> defaults[k]]
      BY <1>0, TypesAre
    <2>1. CASE Changed BY <1>2, <2>1 DEF NoKeys
    <2>2. CASE ~Changed BY Zenon, <1>2, <2>0, <2>2
    <2> QED BY <2>1, <2>2
  <1>7. TypeOK'
    <2>1. DOMAIN defaults' = Keys /\ DOMAIN owner' = Keys BY <1>6
    <2>2. \A k \in Keys : keys'[k] \in Values[k] \union {None} BY <1>0, <1>6 DEF TypeOK
    <2>3. /\ disk' \in [Packs -> Versions \union {None}] /\ packs' \in [Packs -> Versions \union {None}]
          /\ settings' \in [pack : Packs, preset : PresetNames]
          /\ pending' \in 0..(MaxChanges + 1) /\ changes' \in 0..MaxChanges
          /\ page'.keys \subseteq Keys
          /\ \A i \in DOMAIN layers' : layers'[i].ok \/ DOMAIN layers'[i].params = {}
      BY <1>0, <1>2 DEF TypeOK
    <2> QED BY <1>1, <1>3, <1>4, <2>1, <2>2, <2>3 DEF TypeOK
  <1>8. TypesInv'
    <2>1. ui' \in UiTypes /\ built' \in BuiltTypes BY <1>2, Types
    <2>2. video.count <= pending BY <1>0, <1>1, TypesAre
    <2>3. video'.pack \in Packs /\ video'.preset \in PresetNames /\ video'.count <= pending'
      BY <1>1, <1>2, <1>4, <2>2
    <2> QED BY Zenon, <1>3, <1>4, <1>6, <2>1, <2>3, TypesMade
  <1>9. StartInv'
    <2> SUFFICES ASSUME ~inst.initialised PROVE StartInv' BY <1>3 DEF StartInv
    <2>1. owner' = owner /\ Reload BY <1>2, <1>5
    <2> QED BY <1>0, <1>2, <1>3, <1>4, <2>1 DEF StartInv
  <1>10. UpdateInv' BY <1>3, <1>4 DEF UpdateInv
  <1>11. CountInv' BY <1>0, <1>2 DEF CountInv, Asking
  <1>12. ListInv' BY <1>0, <1>2 DEF ListInv
  <1>13. KeysGoWithTheSwitch'
    <2> SUFFICES ASSUME inst.initialised, NEW k \in Keys, keys'[k] # None
                 PROVE  owner'[k].loaded = <<video.pack, video.preset>>
      BY <1>3 DEF KeysGoWithTheSwitch
    <2>1. ~Changed /\ keys[k] # None BY <1>6
    <2>2. owner' = owner BY <1>2, <2>1
    <2>3. inst.pack = video.pack /\ inst.preset = video.preset BY <2>1 DEF Changed
    <2> QED BY <1>0, <2>1, <2>2, <2>3 DEF KeysGoWithTheSwitch
  <1>14. EntitledInv' BY <1>0, <1>2 DEF EntitledInv
  <1>15. Due' = Due BY <1>1, <1>2, <1>4 DEF Due, Asking
  <1>16. PickInv'
    <2>1. ui.picked /\ ~Due' =>
            /\ inst'.pack = settings.pack /\ inst'.preset = settings.preset
            /\ inst'.status = Status(settings.pack, settings.preset)
      <3>1. ui.picked /\ ~Due' => video.pack = settings.pack /\ video.preset = settings.preset
        BY <1>0, <1>1, <1>15 DEF PickInv
      <3> QED BY <1>3, <3>1
    <2> QED BY <1>0, <1>2, <1>4, <2>1, PickStands
  <1>17. ~Replacing /\ (Reload <=> Replacing') BY <1>1, <1>4 DEF Replacing
  <1>18. LayersInv' BY <1>0, <1>2, <1>3, <1>5, <1>17, LayersSame
  <1>19. SetInv' BY <1>4 DEF SetInv
  <1>20. DefaultsInv'
    <2>1. CASE Reload BY <2>1, <1>17 DEF DefaultsInv
    <2>2. CASE ~Reload
      <3>1. defaults' = defaults BY <1>2, <1>5, <2>2
      <3> QED BY <3>1, <1>0, <1>2, <1>3, <1>17, DefaultsSame
    <2> QED BY <2>1, <2>2
  <1> QED BY <1>7, <1>8, <1>9, <1>10, <1>11, <1>12, <1>13, <1>14, <1>16, <1>18, <1>19, <1>20 DEF IInv

\* What an update starts from, loaded afresh or as it was, is what was last loaded.
LEMMA UpdateLoads ==
  ASSUME IInv, Update
  PROVE  LET file == disk[inst.pack]
             from == IF video.reload THEN LayersOf(packs[inst.pack], inst.preset, file)
                     ELSE layers
         IN  /\ layers' = Apply(from, keys, file)
             /\ AllGrown(from, Loaded', built') /\ AllFresh(Loaded', built'.from)
             /\ built' \in BuiltTypes
             /\ built'.pack = inst.pack /\ built'.preset = inst.preset
             /\ built'.same => file = built'.from
             /\ ~video.reload => inst.initialised /\ built' = built /\ Loaded' = Loaded
             /\ video.reload => /\ built'.listed = packs[inst.pack]
                                /\ Loaded' = from
  <1> DEFINE file == disk[inst.pack]
             from == IF video.reload THEN LayersOf(packs[inst.pack], inst.preset, file)
                     ELSE layers
  <1>0. LayersInv /\ UpdateInv /\ StartInv BY DEF IInv
  <1>1. /\ video.pc = "load" /\ disk \in Listing /\ packs \in Listing /\ built \in BuiltTypes
        /\ inst.pack \in Packs /\ inst.preset \in PresetNames
    <2>1. /\ video.pc = "load" /\ video.pack \in Packs /\ video.preset \in PresetNames
          /\ disk \in Listing /\ packs \in Listing /\ built \in BuiltTypes
      BY Types DEF Update, Locked
    <2> QED BY <2>1, <1>0 DEF UpdateInv
  <1>2. /\ layers' = Apply(from, keys, file)
        /\ built' = IF video.reload
                    THEN [pack |-> inst.pack, preset |-> inst.preset, listed |-> packs[inst.pack],
                          from |-> file, same |-> TRUE]
                    ELSE built
    BY DEF Update
  <1>4. CASE video.reload
    <2>1. built' = [pack |-> inst.pack, preset |-> inst.preset, listed |-> packs[inst.pack],
                    from |-> file, same |-> TRUE]
      BY <1>2, <1>4
    <2>2. /\ built'.listed = packs[inst.pack] /\ built'.from = file
          /\ built'.pack = inst.pack /\ built'.preset = inst.preset
      BY <2>1
    <2>3. packs[inst.pack] \in Versions \union {None} /\ file \in Versions \union {None}
      BY <1>1 DEF Listing
    <2>4. built' \in BuiltTypes BY <1>1, <2>1, <2>3 DEF BuiltTypes
    <2>5. from = LayersOf(packs[inst.pack], inst.preset, file) BY <1>4
    <2> HIDE DEF from, file
    <2>6. Loaded' = LayersOf(built'.listed, built'.preset, built'.from) BY DEF Loaded, LayersOf
    <2>8. Loaded' = from BY <2>2, <2>5, <2>6
    <2>9. LayersOf(packs[inst.pack], inst.preset, file)
            = LayersOf(packs[inst.pack], inst.preset, built'.from)
      BY <2>2
    <2>10. AllGrown(from, from, built') /\ AllFresh(from, built'.from)
      BY <2>2, <2>3, <2>5, <2>9, LoadIsFresh
    <2>11. /\ layers' = Apply(from, keys, file)
           /\ AllGrown(from, Loaded', built') /\ AllFresh(Loaded', built'.from)
           /\ built' \in BuiltTypes
           /\ built'.same => file = built'.from
      BY <1>2, <2>2, <2>4, <2>8, <2>10
    <2> QED BY <1>4, <2>2, <2>8, <2>11 DEF from, file
  <1>5. CASE ~video.reload
    <2>1. built' = built /\ from = layers BY <1>2, <1>5
    <2>2. inst.initialised BY <1>0, <1>1, <1>5 DEF StartInv
    <2> HIDE DEF from, file
    <2>4. Loaded' = Loaded BY <2>1 DEF Loaded, LayersOf
    <2>5. AllGrown(layers, Loaded, built) /\ AllFresh(Loaded, built.from)
      BY <1>0, <1>1, <2>2, LayersAre
    <2>6. /\ built.same => built.from = disk[built.pack]
          /\ built.pack = inst.pack /\ built.preset = inst.preset
      BY <1>0, <1>5, <2>2 DEF LayersInv, Replacing
    <2>7. /\ layers' = Apply(from, keys, file)
          /\ AllGrown(from, Loaded', built') /\ AllFresh(Loaded', built'.from)
          /\ built' \in BuiltTypes
          /\ built'.same => file = built'.from
      BY <1>1, <1>2, <2>1, <2>4, <2>5, <2>6 DEF file
    <2> QED BY <1>5, <2>1, <2>2, <2>4, <2>6, <2>7 DEF from, file
  <1> QED BY <1>4, <1>5

LEMMA UpdateKeepsInv == IInv /\ Update => IInv'
  <1> SUFFICES ASSUME IInv, Update PROVE IInv' OBVIOUS
  <1>0. /\ TypeOK /\ TypesInv /\ StartInv /\ UpdateInv /\ CountInv /\ ListInv
        /\ KeysGoWithTheSwitch /\ EntitledInv
        /\ PickInv /\ LayersInv /\ SetInv /\ DefaultsInv
    BY DEF IInv
  <1>1. /\ video.pc = "load" /\ video.pack \in Packs /\ video.preset \in PresetNames
        /\ inst.pack = video.pack /\ inst.preset = video.preset
        /\ disk \in Listing /\ packs \in Listing /\ built \in BuiltTypes /\ inst \in InstTypes
    <2>1. video.pc = "load" BY DEF Update, Locked
    <2> QED BY <1>0, <2>1, Types DEF UpdateInv
  <1> DEFINE file == disk[inst.pack]
             from == IF video.reload THEN LayersOf(packs[inst.pack], inst.preset, file)
                     ELSE layers
  <1>2. /\ defaults' = IF video.reload THEN SetDefaults(from, defaults) ELSE defaults
        /\ inst' = [inst EXCEPT !.initialised = TRUE]
        /\ video' = [video EXCEPT !.pc = "end"]
        /\ UNCHANGED <<disk, packs, settings, keys, owner, page, pending, ui, changes>>
    BY DEF Update
  <1>3. /\ layers' = Apply(from, keys, file)
        /\ AllGrown(from, Loaded', built') /\ AllFresh(Loaded', built'.from)
        /\ built' \in BuiltTypes
        /\ built'.pack = inst.pack /\ built'.preset = inst.preset
        /\ built'.same => file = built'.from
        /\ ~video.reload => inst.initialised /\ built' = built /\ Loaded' = Loaded
        /\ video.reload => built'.listed = packs[inst.pack] /\ Loaded' = from
    BY UpdateLoads
  <1>4. video.reload \/ from = layers OBVIOUS
  <1>5. /\ keys = [k \in Keys |-> keys[k]] /\ defaults = [k \in Keys |-> defaults[k]]
        /\ owner = [k \in Keys |-> owner[k]]
    BY <1>0, TypesAre
  <1>22. disk'[inst.pack] = file BY <1>2
  <1> HIDE DEF from, file
  <1>6. /\ AllGrown(layers', Loaded', built') /\ AllSet(layers', keys')
    BY <1>2, <1>3, AppliedIs
  <1>7. /\ inst'.pack = inst.pack /\ inst'.preset = inst.preset /\ inst'.initialised = TRUE
        /\ inst'.status = inst.status
        /\ inst' \in InstTypes
    BY <1>1, <1>2 DEF InstTypes
  <1>8. /\ video'.pc = "end" /\ video'.pack = video.pack /\ video'.preset = video.preset
        /\ video'.count = video.count
        /\ video' \in VideoTypes
    <2>1. video \in VideoTypes BY <1>0, TypesAre
    <2> QED BY <1>2, <2>1 DEF VideoTypes
  <1>9. defaults' = [k \in Keys |-> defaults'[k]] BY <1>2, <1>5 DEF SetDefaults
  <1>10. TypeOK'
    <2>1. \A i \in DOMAIN layers' : layers'[i].ok \/ DOMAIN layers'[i].params = {}
      BY <1>3, <1>6, LayersTyped
    <2>2. DOMAIN defaults' = Keys BY <1>9
    <2>3. /\ inst'.status \in {"", "missing", "blocked", "no_preset"}
          /\ inst'.pack \in Packs \union {None} /\ inst'.preset \in PresetNames \union {None}
      BY <1>7 DEF InstTypes
    <2>4. /\ disk' \in [Packs -> Versions \union {None}] /\ packs' \in [Packs -> Versions \union {None}]
          /\ settings' \in [pack : Packs, preset : PresetNames]
          /\ pending' \in 0..(MaxChanges + 1) /\ changes' \in 0..MaxChanges
          /\ page'.keys \subseteq Keys /\ DOMAIN owner' = Keys
          /\ \A k \in Keys : keys'[k] \in Values[k] \union {None}
      BY <1>0, <1>2 DEF TypeOK
    <2> QED BY <1>8, <2>1, <2>2, <2>3, <2>4 DEF TypeOK
  <1>11. TypesInv'
    <2>1. keys' = [k \in Keys |-> keys'[k]] /\ owner' = [k \in Keys |-> owner'[k]] BY <1>2, <1>5
    <2>2. ui' \in UiTypes BY <1>2, Types
    <2>3. video.count <= pending BY <1>0, <1>1, TypesAre
    <2>4. video'.pack \in Packs /\ video'.preset \in PresetNames /\ video'.count <= pending'
      BY <1>1, <1>2, <1>8, <2>3
    <2> QED BY Zenon, <1>3, <1>7, <1>8, <1>9, <2>1, <2>2, <2>4, TypesMade
  <1>12. StartInv' /\ UpdateInv' BY <1>7, <1>8 DEF StartInv, UpdateInv
  <1>13. CountInv' BY <1>0, <1>2 DEF CountInv, Asking
  <1>14. ListInv' BY <1>0, <1>2 DEF ListInv
  <1>15. KeysGoWithTheSwitch'
    <2> SUFFICES ASSUME NEW k \in Keys, keys[k] # None
                 PROVE  owner[k].loaded = <<inst.pack, inst.preset>>
      BY <1>2, <1>7 DEF KeysGoWithTheSwitch
    <2>1. CASE inst.initialised BY <1>0, <2>1 DEF KeysGoWithTheSwitch
    <2>2. CASE ~inst.initialised BY <1>0, <1>1, <2>2 DEF StartInv
    <2> QED BY <2>1, <2>2
  <1>16. EntitledInv'
    <2> SUFFICES ASSUME layers' # <<>>
                 PROVE  ~Refused(Manifest[built'.listed]) /\ ~Blocks(Manifest[built'.listed])
      BY DEF EntitledInv
    <2>1. Loaded' # <<>> BY <1>6, EmptyIs DEF AllGrown
    <2>2. CASE video.reload
      <3>1. built'.listed = packs[inst.pack] BY <1>3, <2>2
      <3>2. LayersOf(packs[inst.pack], inst.preset, file) # <<>>
        BY <1>3, <2>1, <2>2 DEF from
      <3>3. packs[inst.pack] # None /\ ~Blocks(Manifest[packs[inst.pack]])
        BY <3>2 DEF LayersOf
      <3>4. ~Refused(Manifest[packs[inst.pack]]) BY <1>0, <1>1, <3>3 DEF ListInv
      <3> QED BY <3>1, <3>3, <3>4
    <2>3. CASE ~video.reload
      <3>1. built' = built /\ inst.initialised /\ Loaded # <<>> BY <1>3, <2>1, <2>3
      <3>2. layers # <<>> BY <1>0, <1>1, <3>1, LayersThere
      <3> QED BY <1>0, <3>1, <3>2 DEF EntitledInv
    <2> QED BY <2>2, <2>3
  <1>17. Due' = Due BY <1>1, <1>2, <1>8 DEF Due, Asking
  <1>18. PickInv'
    <2>1. ui.picked /\ ~Due' =>
            /\ inst'.pack = settings.pack /\ inst'.preset = settings.preset
            /\ inst'.status = Status(settings.pack, settings.preset)
      BY <1>0, <1>1, <1>7, <1>17 DEF PickInv
    <2> QED BY <1>0, <1>2, <1>8, <2>1, PickStands
  <1>19. LayersInv'
    <2>1. built'.same => built'.from = disk'[built'.pack] BY <1>3, <1>22
    <2> QED BY <1>3, <1>6, <1>7, <2>1 DEF LayersInv, AllGrown, Shaped
  <1>20. SetInv' BY <1>6 DEF SetInv, AllSet
  <1>21. DefaultsInv'
    <2>1. /\ ExposedKeys(layers') = ExposedKeys(Loaded') /\ ExposedKeys(from) = ExposedKeys(Loaded')
          /\ \A k \in ExposedKeys(Loaded') :
               /\ ParamAt(layers', k).type = ParamAt(from, k).type
               /\ ParamAt(layers', k).preset = ParamAt(from, k).preset
      BY <1>3, <1>6, ShownAre
    <2>2. ASSUME NEW k \in ExposedKeys(from)
          PROVE  defaults'[k] = IF ParamAt(from, k).type = "texture" THEN None
                                ELSE ParamAt(from, k).preset
      <3>1. k \in Keys BY DEF ExposedKeys
      <3>2. CASE video.reload
        <4>1. defaults' = SetDefaults(from, defaults) BY <1>2, <3>2
        <4> QED BY <2>2, <3>1, <4>1 DEF SetDefaults
      <3>3. CASE ~video.reload
        <4>1. defaults' = defaults /\ from = layers /\ inst.initialised /\ ~Replacing
          BY <1>2, <1>3, <1>4, <3>3 DEF Replacing
        <4> QED BY <1>0, <2>2, <4>1 DEF DefaultsInv
      <3> QED BY <3>2, <3>3
    <2> QED BY <2>1, <2>2 DEF DefaultsInv
  <1> QED BY <1>10, <1>11, <1>12, <1>13, <1>14, <1>15, <1>16, <1>18, <1>19, <1>20, <1>21 DEF IInv

----------------------------------------------------------------------------
(* The invariant *)

LEMMA InitHolds == Init => IInv
  <1> SUFFICES ASSUME Init PROVE IInv OBVIOUS
  <1>1. /\ disk \in Listing /\ packs = Scanned /\ settings = [pack |-> DefaultPack, preset |-> DefaultPreset]
        /\ keys \in SavedKeys
        /\ owner = [k \in Keys |-> [loaded |-> <<DefaultPack, DefaultPreset>>,
                                     page |-> <<DefaultPack, DefaultPreset>>]]
        /\ defaults = NoKeys /\ layers = <<>> /\ pending = 0 /\ changes = 0
        /\ built = [pack |-> None, preset |-> None, listed |-> None, from |-> None,
                    same |-> FALSE]
        /\ page.keys = {}
    BY DEF Init, Listing
  <1>2. /\ inst = [pack |-> None, preset |-> None, status |-> "", reload |-> FALSE,
                   initialised |-> FALSE]
        /\ ui = [picked |-> FALSE, todo |-> <<>>, found |-> packs, first |-> None]
        /\ video = [pc |-> "update", pack |-> settings.pack, preset |-> settings.preset,
                    reload |-> FALSE, count |-> 0]
    BY DEF Init
  <1>3. /\ ~inst.initialised /\ ui.todo = <<>> /\ ~ui.picked /\ ui.found = packs
        /\ video.pc = "update" /\ video.pack = DefaultPack /\ video.preset = DefaultPreset
        /\ video.count = 0 /\ inst \in InstTypes /\ built \in BuiltTypes
    BY <1>1, <1>2 DEF InstTypes, BuiltTypes
  <1>4. packs \in Listing /\ \A p \in Packs : packs[p] # None => ~Refused(Manifest[packs[p]])
    BY <1>1 DEF Scanned, Listing
  <1>5. ~Asking BY <1>3, Apart DEF Asking
  <1>6. keys = [k \in Keys |-> keys[k]] /\ \A k \in Keys : keys[k] \in Values[k] \union {None}
    BY <1>1, InstanceAssumption
  <1>7. TypeOK
    <2>1. \A i \in DOMAIN layers : layers[i].ok \/ DOMAIN layers[i].params = {} BY <1>1
    <2>2. settings \in [pack : Packs, preset : PresetNames] BY <1>1, Constants
    <2>3. pending \in 0..(MaxChanges + 1) /\ changes \in 0..MaxChanges BY <1>1, Constants
    <2>4. DOMAIN defaults = Keys /\ DOMAIN owner = Keys BY <1>1 DEF NoKeys
    <2> QED BY <1>1, <1>3, <1>4, <1>6, <2>1, <2>2, <2>3, <2>4 DEF TypeOK, Listing, InstTypes
  <1>8. TypesInv
    <2>1. ui \in UiTypes BY <1>2, <1>4, Apart DEF UiTypes
    <2>2. video \in VideoTypes BY <1>1, <1>2, Constants DEF VideoTypes
    <2>3. owner = [k \in Keys |-> owner[k]] /\ defaults = [k \in Keys |-> defaults[k]]
      BY <1>1 DEF NoKeys
    <2>4. video.pack \in Packs /\ video.preset \in PresetNames /\ video.count <= pending
      BY <1>1, <1>3, Constants
    <2> QED BY Zenon, <1>3, <1>6, <2>1, <2>2, <2>3, <2>4
            DEF TypesInv, UiTypes, InstTypes, BuiltTypes, VideoTypes
  <1>9. StartInv /\ UpdateInv BY <1>1, <1>3 DEF StartInv, UpdateInv
  <1>10. CountInv BY <1>1, <1>5 DEF CountInv
  <1>11. ListInv BY <1>3, <1>4 DEF ListInv
  <1>12. KeysGoWithTheSwitch /\ LayersInv /\ SetInv /\ DefaultsInv
    BY <1>3 DEF KeysGoWithTheSwitch, LayersInv, SetInv, DefaultsInv
  <1>13. EntitledInv BY <1>1 DEF EntitledInv
  <1>14. PickInv BY <1>3 DEF PickInv
  <1> QED BY <1>7, <1>8, <1>9, <1>10, <1>11, <1>12, <1>13, <1>14 DEF IInv

LEMMA StepKeeps == IInv /\ [Next]_vars => IInv'
  <1> SUFFICES ASSUME IInv, [Next]_vars PROVE IInv' OBVIOUS
  <1>1. CASE Viewer BY <1>1, ViewerStepKeeps
  <1>2. CASE Callback BY <1>2, InstallerKeeps, AskerKeeps DEF Callback
  <1>3. CASE Elsewhere BY <1>3, ElsewhereKeeps
  <1>4. CASE Video
    BY <1>4, UpdateBeginKeeps, EraseKeepsInv, UpdateKeepsInv, UpdateEndKeeps, RenderKeeps DEF Video
  <1>5. CASE UNCHANGED vars
    <2>0. /\ TypeOK /\ TypesInv /\ StartInv /\ UpdateInv /\ CountInv /\ ListInv
          /\ KeysGoWithTheSwitch /\ EntitledInv
          /\ PickInv /\ LayersInv /\ SetInv /\ DefaultsInv
      BY DEF IInv
    <2>1. UNCHANGED <<disk, packs, settings, keys, owner, defaults, inst, layers, built, page,
                      pending, ui, video, changes>>
      BY <1>5 DEF vars
    <2>2. Due' = Due BY <2>1 DEF Due, Asking
    <2>3. TypeOK' /\ TypesInv'
      <3>1. TypeOK' BY <2>0, <2>1 DEF TypeOK
      <3>2. /\ video \in VideoTypes
            /\ video.pc # "idle" =>
                 video.pack \in Packs /\ video.preset \in PresetNames /\ video.count <= pending
        BY Zenon, <2>0, TypesAre
      <3> QED BY <2>0, <2>1, <3>1, <3>2, TypesKept
    <2>4. StartInv' /\ UpdateInv' /\ CountInv' /\ ListInv' /\ KeysGoWithTheSwitch' /\ EntitledInv'
      BY <2>0, <2>1
         DEF StartInv, UpdateInv, CountInv, Asking, ListInv, KeysGoWithTheSwitch, EntitledInv
    <2>5. PickInv'
      <3>1. ui.picked /\ ~Due' =>
              IF video'.pc = "update"
              THEN video'.pack = settings.pack /\ video'.preset = settings.preset
              ELSE /\ inst'.pack = settings.pack /\ inst'.preset = settings.preset
                   /\ inst'.status = Status(settings.pack, settings.preset)
        BY <2>0, <2>1, <2>2 DEF PickInv
      <3> QED BY <2>0, <2>1, <3>1, PickStands
    <2>6. LayersInv' BY <2>0, <2>1, LayersSame DEF Replacing
    <2>7. SetInv' BY <2>0, <2>1, <2>2, SetSame
    <2>8. DefaultsInv' BY <2>0, <2>1, DefaultsSame DEF Replacing
    <2> QED BY <2>3, <2>4, <2>5, <2>6, <2>7, <2>8 DEF IInv
  <1> QED BY <1>1, <1>2, <1>3, <1>4, <1>5 DEF Next

\* Any source, whatever packs, presets and parameters there are and however its viewer,
\* the disk and the two threads take turns: the inductive invariant.
THEOREM InstanceInvariant == Spec => []IInv
  BY InitHolds, StepKeeps, PTL DEF Spec

\* The types, and that a layer which did not load has no parameters.
THEOREM InstanceTypeOK == Spec => []TypeOK
  <1>1. IInv => TypeOK BY DEF IInv
  <1> QED BY <1>1, InstanceInvariant, PTL

\* Once something is loaded, no value outlives the preset that was loaded when it was set,
\* not even one set on a page that is out of date or while the update had the lock: the
\* switch takes the layer keys with it (ff_instance_update).
THEOREM InstanceKeysGo == Spec => []KeysGoWithTheSwitch
  <1>1. IInv => KeysGoWithTheSwitch BY DEF IInv
  <1> QED BY <1>1, InstanceInvariant, PTL

\* What a pack that may be drawn has to say of its licence.
LEMMA EntitledMeans ==
  ASSUME NEW m, ~Refused(m), ~Blocks(m)
  PROVE  Entitled(m)
  <1> SUFFICES ASSUME m.licensed.type # "absent",
                      m.licensed.type = "boolean" => m.licensed.value
               PROVE  /\ m.licence # NoFile /\ Genuine(m.licence) /\ m.licence.pack = m.id
                      /\ m.released.value <= m.licence.through
    BY DEF Entitled
  <1>1. /\ m.licensed.type \in {"absent", "boolean"} /\ ~(AsBool(m.licensed) /\ AsInt(m.released) <= 0)
    BY DEF Refused, WrongType
  <1>2. AsBool(m.licensed) BY <1>1 DEF AsBool
  <1>3. m.released.type = "number" /\ AsInt(m.released) = m.released.value
    <2>1. m.released.type # "number" => AsInt(m.released) = 0 BY DEF AsInt
    <2>2. m.released.type = "number" BY <1>1, <1>2, <2>1
    <2> QED BY <2>2 DEF AsInt
  <1>4. Licence(m) \notin {"NEWER", "INVALID", "NONE"} BY <1>2 DEF Blocks
  <1>5. m.licence # NoFile /\ Verify(m.licence, m.id, AsInt(m.released)) \notin {"NEWER", "INVALID"}
    BY <1>2, <1>4 DEF Licence
  <1> QED BY <1>3, <1>5 DEF Verify

\* Nothing is loaded from a scanned version that says it is licensed, in whatever way it
\* says so, unless a genuine licence for it covers its release.  That is the version drawn
\* only if none has replaced it between the scan and the load (ff_pack_load_dir,
\* licence_blocks).
THEOREM InstancePaidIsEntitled == Spec => []PaidIsEntitled
  <1>1. IInv => PaidIsEntitled
    <2> SUFFICES ASSUME IInv, layers # <<>>, built.from = built.listed
                 PROVE  Entitled(Manifest[built.from])
      BY DEF PaidIsEntitled
    <2>1. ~Refused(Manifest[built.listed]) /\ ~Blocks(Manifest[built.listed])
      BY DEF IInv, EntitledInv
    <2> QED BY <2>1, EntitledMeans
  <1> QED BY <1>1, InstanceInvariant, PTL

\* A preset that may be listed has layers.
LEMMA ListedHasLayers ==
  ASSUME NEW v \in Versions, ~Refused(Manifest[v]), ~Blocks(Manifest[v]),
         NEW id \in PresetIds(Manifest[v]), NEW from
  PROVE  LayersOf(v, id, from) # <<>>
  <1> DEFINE S == FindPreset(Manifest[v], id).layers
  <1>1. v # None BY Constants
  <1>2. LayersOf(v, id, from) = Load(S, from) BY <1>1 DEF LayersOf
  <1>3. Len(S) > 0 BY FoundPreset
  <1>4. IsArray(S) BY FoundPreset
  <1> HIDE DEF S
  <1>5. DOMAIN Load(S, from) = 1..Len(S) /\ Len(S) \in Nat BY <1>4 DEF Load, IsArray
  <1>6. 1 \in DOMAIN Load(S, from) BY <1>3, <1>5
  <1>7. DOMAIN <<>> = {} OBVIOUS
  <1> QED BY <1>2, <1>6, <1>7

\* A pack that was picked is loaded, and one of its presets is, with layers: the callback
\* repairs the selection and asks for an update that comes after.  Only if what was last
\* loaded from the pack was loaded from the list as it is now (on_pack_changed,
\* ff_instance_update).
THEOREM InstancePickDraws == Spec => []PickDraws
  <1>1. IInv => PickDraws
    <2> SUFFICES ASSUME IInv, Quiet, ui.picked, OfferedPresets(settings.pack) # {},
                        ~Blocks(Manifest[packs[settings.pack]]),
                        built.listed = packs[settings.pack]
                 PROVE  /\ built.pack = settings.pack
                        /\ built.preset \in OfferedPresets(settings.pack)
                        /\ layers # <<>>
      BY DEF PickDraws, PackPicked
    <2>1. PickInv /\ LayersInv /\ ListInv BY DEF IInv
    <2>2. ~Due /\ video.pc = "idle" /\ ui.todo = <<>> /\ inst.initialised /\ ~Replacing
      BY Apart DEF Quiet, Due, Asking, Replacing
    <2>3. inst.pack = settings.pack /\ inst.preset = settings.preset
      BY <2>1, <2>2 DEF PickInv
    <2>4. settings.preset \in OfferedPresets(settings.pack) BY <2>1, <2>2 DEF PickInv, Of
    <2>5. settings.pack \in Packs /\ packs \in Listing /\ built \in BuiltTypes BY Types
    <2>6. /\ packs[settings.pack] \in Versions
          /\ settings.preset \in PresetIds(Manifest[packs[settings.pack]])
      BY <2>4, <2>5, OfferedAre
    <2>7. built.pack = inst.pack /\ built.preset = inst.preset
      BY <2>1, <2>2 DEF LayersInv
    <2>8. ~Refused(Manifest[packs[settings.pack]])
      BY <2>1, <2>5, <2>6, Constants DEF ListInv
    <2>9. LayersOf(packs[settings.pack], settings.preset, built.from) # <<>>
      BY <2>6, <2>8, ListedHasLayers
    <2>10. Loaded = LayersOf(packs[settings.pack], settings.preset, built.from)
      BY <2>3, <2>7 DEF Loaded
    <2>11. layers # <<>> BY <2>1, <2>2, <2>5, <2>9, <2>10, LayersThere
    <2> QED BY <2>3, <2>4, <2>7, <2>11
  <1> QED BY <1>1, InstanceInvariant, PTL

\* At rest every parameter has the viewer's value, or the one it was loaded with.
LEMMA AtRest ==
  ASSUME IInv, Quiet
  PROVE  /\ AllGrown(layers, Loaded, built) /\ AllFresh(Loaded, built.from)
         /\ AllSet(layers, keys) /\ DefaultsInv /\ inst.initialised /\ ~Replacing
  <1>1. inst.initialised /\ ~Due /\ video.pc \notin {"update", "load"}
    BY Apart DEF Quiet, Due, Asking
  <1>2. LayersInv /\ SetInv /\ DefaultsInv BY DEF IInv
  <1>3. AllSet(layers, keys) BY <1>1, <1>2 DEF SetInv, AllSet
  <1>4. ~Replacing BY <1>1 DEF Replacing
  <1> QED BY <1>1, <1>2, <1>3, <1>4, Types, LayersAre

\* The page shows what is drawn with: the viewer's value, or the preset's own, which is
\* what ff_renderer_set_defaults recorded and never a value the viewer had set.
THEOREM InstancePanelShowsWhatIsDrawn == Spec => []PanelShowsWhatIsDrawn
  <1>1. IInv => PanelShowsWhatIsDrawn
    <2> SUFFICES ASSUME IInv, Quiet, NEW k \in ExposedKeys(layers)
                 PROVE  LET p == ParamAt(layers, k)
                            shown == IF keys[k] = None THEN defaults[k] ELSE keys[k]
                        IN  CASE p.type = "number" -> p.def = Clamp(p, shown)
                              [] p.type = "gradient" -> p.def = shown
                              [] OTHER -> p.picked = shown
      BY DEF PanelShowsWhatIsDrawn
    <2> DEFINE p == ParamAt(layers, k)
               q == ParamAt(Loaded, k)
               shown == IF keys[k] = None THEN defaults[k] ELSE keys[k]
    <2>1. /\ AllGrown(layers, Loaded, built) /\ AllFresh(Loaded, built.from)
          /\ AllSet(layers, keys) /\ DefaultsInv /\ inst.initialised /\ ~Replacing
      BY AtRest
    <2>2. /\ k \in ExposedKeys(Loaded) /\ k = <<k[1], k[2]>>
          /\ k[1] \in DOMAIN Loaded /\ k[2] \in DOMAIN Loaded[k[1]].params
          /\ Exposed(p) /\ Grown(p, q, built)
      BY <2>1, ShownAre
    <2>3. Fresh(q, built.from) BY <2>1, <2>2 DEF AllFresh, ParamAt
    <2>4. /\ k[1] \in DOMAIN layers /\ k[2] \in DOMAIN layers[k[1]].params
      BY DEF ExposedKeys, Has
    <2>5. Set(p, keys[<<k[1], k[2]>>]) BY <2>1, <2>2, <2>4 DEF AllSet, ParamAt
    <2>6. Set(p, keys[k]) BY <2>2, <2>5
    <2>7. defaults[k] = IF p.type = "texture" THEN None ELSE p.preset
      BY <2>1 DEF DefaultsInv
    <2>8. /\ p.type = q.type /\ p.lo = q.lo /\ p.hi = q.hi /\ p.preset = q.preset
      BY <2>2, GrownFields
    <2>9. p.type = "number" => Clamp(p, p.preset) = p.preset BY <2>3, <2>8 DEF Fresh, Clamp
    <2>10. p.type \in {"number", "gradient", "texture"} BY <2>2 DEF Exposed
    <2> HIDE DEF p, q
    <2>11. p.type = "number" => p.def = Clamp(p, shown)
      <3>1. p.type = "number" => p.def = IF keys[k] = None THEN p.preset ELSE Clamp(p, keys[k])
        BY <2>6 DEF Set
      <3>2. p.type = "number" => defaults[k] = p.preset BY <2>7
      <3> QED BY <2>9, <3>1, <3>2
    <2>12. p.type = "gradient" => p.def = shown BY <2>6, <2>7 DEF Set
    <2>13. p.type = "texture" => p.picked = shown BY <2>6, <2>7 DEF Set
    <2> HIDE DEF shown
    <2> QED BY <2>10, <2>11, <2>12, <2>13 DEF p, shown
  <1> QED BY <1>1, InstanceInvariant, PTL

\* A parameter that has its value, whatever came before, is drawn as one that was loaded
\* and given the value once.
LEMMA ParamIsRebuilt ==
  ASSUME NEW p, NEW q, NEW u, NEW b, Grown(p, q, b), Fresh(q, b.from), b.same,
         Exposed(p) => Set(p, u)
  PROVE  BakeParam(p) = BakeParam(IF Exposed(q) THEN ApplyParam(q, u, b.from) ELSE q)
  <1> DEFINE Rec(def, picked, bound, baked, dirty) ==
               [type |-> q.type, lo |-> q.lo, hi |-> q.hi, user |-> q.user, def |-> def,
                preset |-> q.preset, path |-> q.path, picked |-> picked, bound |-> bound,
                baked |-> baked, dirty |-> dirty]
  <1>1. /\ p.type = q.type /\ p.lo = q.lo /\ p.hi = q.hi /\ p.user = q.user
        /\ p.preset = q.preset /\ p.path = q.path /\ (Exposed(p) <=> Exposed(q))
    BY GrownFields
  <1>2. /\ q.def = q.preset /\ q.picked = None /\ q.baked = None
        /\ q.dirty = (q.type = "gradient")
    BY DEF Fresh
  <1>3. p = Rec(p.def, p.picked, p.bound, p.baked, p.dirty) BY DEF Grown
  <1>4. q = Rec(q.def, q.picked, q.bound, q.baked, q.dirty) BY <1>2 DEF Fresh
  <1>5. CASE ~Exposed(q) BY <1>5 DEF Grown
  <1>6. CASE q.type = "number"
    <2>1. Exposed(q) /\ Set(p, u) BY <1>1, <1>6 DEF Exposed
    <2> DEFINE def == IF u = None THEN q.preset ELSE Clamp(q, u)
    <2>2. p.def = def
      <3>1. Clamp(p, u) = Clamp(q, u) BY <1>1 DEF Clamp
      <3> QED BY <2>1, <3>1, <1>1, <1>6 DEF Set
    <2>3. ApplyParam(q, u, b.from) = [q EXCEPT !.def = def] BY <1>6 DEF ApplyParam
    <2> HIDE DEF def
    <2>4. ApplyParam(q, u, b.from) = Rec(def, q.picked, q.bound, q.baked, q.dirty)
      BY <1>4, <2>3
    <2>5. /\ p.picked = q.picked /\ p.bound = q.bound /\ p.baked = q.baked /\ p.dirty = q.dirty
      BY <1>6, <2>1 DEF Grown
    <2>6. p = Rec(def, q.picked, q.bound, q.baked, q.dirty) BY Zenon, <1>3, <2>2, <2>5
    <2> HIDE DEF Rec
    <2> QED BY <2>1, <2>4, <2>6
  <1>7. CASE q.type = "gradient"
    <2>1. Exposed(q) /\ Set(p, u) BY <1>1, <1>7 DEF Exposed
    <2> DEFINE def == IF u = None THEN q.preset ELSE u
               dirty == q.dirty \/ def # q.def
               r == ApplyParam(q, u, b.from)
    <2>2. p.def = def BY <2>1, <1>1, <1>7 DEF Set
    <2>3. q.dirty = TRUE BY <1>2, <1>7
    <2>4. dirty = TRUE BY <2>3
    <2>5. r = [q EXCEPT !.dirty = dirty, !.def = def] BY <1>7 DEF ApplyParam
    <2>6. r = [q EXCEPT !.dirty = TRUE, !.def = def] BY <2>4, <2>5
    <2> HIDE DEF def, dirty, r
    <2>7. r = Rec(def, q.picked, q.bound, q.baked, TRUE)
      <3> DEFINE yes == TRUE
      <3>0. r = [q EXCEPT !.dirty = yes, !.def = def] BY <2>6
      <3> HIDE DEF yes
      <3> DEFINE s == [q EXCEPT !.dirty = yes]
      <3>1. s = Rec(q.def, q.picked, q.bound, q.baked, yes) BY <1>4
      <3>2. r = [s EXCEPT !.def = def] BY <3>0
      <3> HIDE DEF s
      <3>3. r = Rec(def, q.picked, q.bound, q.baked, yes) BY <3>1, <3>2
      <3> QED BY <3>3 DEF yes
    <2>8. BakeParam(r) = Rec(def, q.picked, q.bound, def, FALSE)
      <3>1. r.dirty = TRUE /\ r.def = def BY <2>7
      <3> DEFINE yes == TRUE
      <3>5. r = Rec(def, q.picked, q.bound, q.baked, yes) BY <2>7
      <3> HIDE DEF yes
      <3> DEFINE s == [r EXCEPT !.baked = def]
      <3>2. BakeParam(r) = [r EXCEPT !.baked = def, !.dirty = FALSE] BY <3>1 DEF BakeParam
      <3>3. s = Rec(def, q.picked, q.bound, def, yes) BY <3>5
      <3>4. BakeParam(r) = [s EXCEPT !.dirty = FALSE] BY <3>2
      <3> HIDE DEF s
      <3> QED BY <3>3, <3>4
    <2>9. /\ p.picked = q.picked /\ p.bound = q.bound
          /\ p.dirty \in BOOLEAN /\ (p.dirty \/ p.baked = p.def)
      BY <1>7, <2>1 DEF Grown
    <2>10. p = Rec(def, q.picked, q.bound, p.baked, p.dirty) BY Zenon, <1>3, <2>2, <2>9
    <2>11. BakeParam(p) = Rec(def, q.picked, q.bound, def, FALSE)
      <3>1. CASE p.dirty
        <4> DEFINE s == [p EXCEPT !.baked = def]
        <4>1. BakeParam(p) = [p EXCEPT !.baked = def, !.dirty = FALSE]
          BY <2>2, <3>1 DEF BakeParam
        <4>2. s = Rec(def, q.picked, q.bound, def, p.dirty) BY <2>10
        <4>3. BakeParam(p) = [s EXCEPT !.dirty = FALSE] BY <4>1
        <4> HIDE DEF s
        <4> QED BY <4>2, <4>3
      <3>2. CASE ~p.dirty
        <4>1. BakeParam(p) = p BY <3>2 DEF BakeParam
        <4>2. p.baked = def /\ p.dirty = FALSE BY <2>2, <2>9, <3>2
        <4> QED BY Zenon, <2>10, <4>1, <4>2
      <3> QED BY <3>1, <3>2
    <2> QED BY <2>1, <2>8, <2>11 DEF r
  <1>8. CASE q.type = "texture" /\ Exposed(q)
    <2>1. Set(p, u) BY <1>1, <1>8
    <2>2. p.picked = u BY <2>1, <1>1, <1>8 DEF Set
    <2>3. /\ p.baked = q.baked /\ p.dirty = q.dirty /\ p.def = q.def
          /\ p.bound = Binding(q.path, u, b.from)
      BY <1>8, <2>2 DEF Grown
    <2>4. p = Rec(q.def, u, Binding(q.path, u, b.from), q.baked, q.dirty)
      BY Zenon, <1>3, <2>2, <2>3
    <2> DEFINE r == ApplyParam(q, u, b.from)
    <2>5. r = IF u = q.picked THEN q
              ELSE [q EXCEPT !.picked = u, !.bound = Binding(q.path, u, b.from)]
      BY <1>8 DEF ApplyParam
    <2> HIDE DEF r
    <2>6. r = Rec(q.def, u, Binding(q.path, u, b.from), q.baked, q.dirty)
      <3>1. CASE u = q.picked
        <4>1. r = q /\ q.bound = Binding(q.path, u, b.from) BY <2>5, <3>1, <1>2, <1>8 DEF Fresh
        <4> HIDE DEF Rec
        <4> QED BY <4>1, <3>1, <1>4
      <3>2. CASE u # q.picked
        <4> DEFINE s == [q EXCEPT !.picked = u]
                   bound == Binding(q.path, u, b.from)
        <4>1. r = [q EXCEPT !.picked = u, !.bound = bound] BY <2>5, <3>2
        <4> HIDE DEF bound
        <4>2. s = Rec(q.def, u, q.bound, q.baked, q.dirty) BY <1>4
        <4>3. r = [s EXCEPT !.bound = bound] BY <4>1
        <4> HIDE DEF s
        <4>4. r = Rec(q.def, u, bound, q.baked, q.dirty) BY <4>2, <4>3
        <4> QED BY <4>4 DEF bound
      <3> QED BY <3>1, <3>2
    <2> HIDE DEF Rec
    <2> QED BY <1>8, <2>4, <2>6 DEF r
  <1> QED BY <1>5, <1>6, <1>7, <1>8 DEF Exposed

\* Updates are incremental, and it does not show: what the next frame draws is what a
\* source created now with these settings would, for as long as the files its layers were
\* loaded from are still the ones on disk (ff_instance_update, ff_renderer_apply_settings).
THEOREM InstanceUpdateIsRebuild == Spec => []UpdateIsRebuild
  <1>1. IInv => UpdateIsRebuild
    <2> SUFFICES ASSUME IInv, Quiet, built.same
                 PROVE  Bake(layers) = Bake(Apply(Loaded, keys, built.from))
      <3>1. IInv /\ Quiet => built.preset = inst.preset BY DEF IInv, LayersInv, Quiet, Replacing
      <3> QED BY <3>1 DEF UpdateIsRebuild, Loaded
    <2> DEFINE once == Apply(Loaded, keys, built.from)
               now == Bake(layers)
               new == Bake(once)
    <2>1. AllGrown(layers, Loaded, built) /\ AllFresh(Loaded, built.from) /\ AllSet(layers, keys)
      BY AtRest
    <2>2. Shaped(layers, Loaded) BY <2>1 DEF AllGrown
    <2>3. Shaped(Loaded, Loaded)
      <3>1. built.from \in Versions \union {None} BY Types DEF BuiltTypes
      <3> QED BY <3>1, LoadIsFresh DEF Loaded, AllGrown
    <2>4. /\ Shaped(once, Loaded)
          /\ \A i \in DOMAIN Loaded : \A n \in DOMAIN Loaded[i].params :
               once[i].params[n] = IF Exposed(Loaded[i].params[n])
                                   THEN ApplyParam(Loaded[i].params[n], keys[<<i, n>>], built.from)
                                   ELSE Loaded[i].params[n]
      BY <2>3, ApplyIs
    <2> HIDE DEF once
    <2>5. AllBaked(now, layers, Loaded) BY <2>2, BakeIs
    <2>6. AllBaked(new, once, Loaded) BY <2>4, BakeIs
    <2> HIDE DEF now, new
    <2>7. ASSUME NEW i \in DOMAIN Loaded, NEW n \in DOMAIN Loaded[i].params
          PROVE  now[i].params[n] = new[i].params[n]
      <3>1. Grown(layers[i].params[n], Loaded[i].params[n], built) BY <2>1 DEF AllGrown
      <3>2. Fresh(Loaded[i].params[n], built.from) BY <2>1 DEF AllFresh
      <3>3. i \in DOMAIN layers /\ n \in DOMAIN layers[i].params BY <2>2, ShapedDomains
      <3>4. Exposed(layers[i].params[n]) => Set(layers[i].params[n], keys[<<i, n>>])
        BY <2>1, <3>3 DEF AllSet
      <3>5. BakeParam(layers[i].params[n])
              = BakeParam(IF Exposed(Loaded[i].params[n])
                          THEN ApplyParam(Loaded[i].params[n], keys[<<i, n>>], built.from)
                          ELSE Loaded[i].params[n])
        BY <3>1, <3>2, <3>4, ParamIsRebuilt
      <3>6. BakeParam(layers[i].params[n]) = BakeParam(once[i].params[n]) BY <2>4, <3>5
      <3> QED BY <2>5, <2>6, <3>6 DEF AllBaked
    <2>8. Shaped(now, Loaded) /\ Shaped(new, Loaded) BY <2>5, <2>6 DEF AllBaked
    <2>9. now = new
      <3> DEFINE P(ls, i) == [n \in DOMAIN Loaded[i].params |-> ls[i].params[n]]
                 R(ls, i) == [ok |-> Loaded[i].ok, params |-> P(ls, i)]
      <3>1. now = [i \in DOMAIN Loaded |-> R(now, i)] /\ new = [i \in DOMAIN Loaded |-> R(new, i)]
        BY <2>8 DEF Shaped
      <3>2. \A i \in DOMAIN Loaded : P(now, i) = P(new, i) BY <2>7
      <3>3. \A i \in DOMAIN Loaded : R(now, i) = R(new, i)
        <4> HIDE DEF P
        <4> QED BY <3>2
      <3> HIDE DEF R
      <3> QED BY <3>1, <3>3
    <2> QED BY <2>9 DEF now, new, once
  <1> QED BY <1>1, InstanceInvariant, PTL

\* However many layers failed to load, and which, each layer that draws reads what the
\* one before it drew, the first the input, and none reads its own target
\* (ff_renderer_render).
THEOREM InstanceStackInOrder == Spec => []StackInOrder
  <1>1. IInv => StackInOrder
    <2> SUFFICES ASSUME IInv PROVE StackInOrder OBVIOUS
    <2>1. IsArray(layers)
      <3>1. CASE ~inst.initialised
        <4>1. layers = <<>> BY <3>1 DEF IInv, StartInv
        <4> QED BY <4>1, EmptyArray
      <3>2. CASE inst.initialised
        <4>1. LayersInv BY DEF IInv
        <4>2. Shaped(layers, Loaded) BY <3>2, <4>1 DEF LayersInv, Shaped
        <4>3. built.listed \in Versions \union {None} BY Types DEF BuiltTypes
        <4>4. IsArray(Loaded) BY <4>3, LoadedArray DEF Loaded
        <4>5. DOMAIN layers = DOMAIN Loaded BY <4>2, ShapedDomains
        <4>6. layers = [i \in DOMAIN layers |-> layers[i]]
          <5> DEFINE R(i) == [ok |-> Loaded[i].ok,
                              params |-> [n \in DOMAIN Loaded[i].params |-> layers[i].params[n]]]
          <5>1. layers = [i \in DOMAIN Loaded |-> R(i)] BY <4>2 DEF Shaped
          <5> HIDE DEF R
          <5> QED BY <5>1
        <4> QED BY <4>4, <4>5, <4>6, ArrayOf
      <3> QED BY <3>1, <3>2
    <2>2. Len(layers) \in Nat BY <2>1 DEF IsArray
    <2>3. Chained(Stacked(layers)[Len(layers)]) BY <2>2, StackedChains
    <2> QED BY <2>3 DEF StackInOrder, Drawn, Chained
  <1> QED BY <1>1, InstanceInvariant, PTL
=============================================================================
