----------------------------- MODULE MCInstance -----------------------------
(***************************************************************************)
(* FFInstance for TLC: a visualizer that draws from the pack `ember', of   *)
(* which there is a paid version (e1), a later one the licence does not    *)
(* reach (e2), a free one that has lost a preset (e3) and one that is      *)
(* refused (e4), and a second, free pack `moss'.  The preset `flame' has a *)
(* layer that does not load between two that do.                           *)
(***************************************************************************)
EXTENDS FFInstance, TLC

CONSTANTS nofile, none, mine, lost

MCPacks == {"ember", "moss"}
MCVersions == {"e1", "e2", "e3", "e4", "m1"}
MCKeys == {<<1, "glow">>, <<1, "art">>, <<3, "ink">>}
MCReadable == (mine :> TRUE) @@ (lost :> FALSE)

Number(def, lo, hi) ==
  [type |-> "number", lo |-> lo, hi |-> hi, user |-> FALSE, def |-> def, path |-> none]
Image(path, user) ==
  [type |-> "texture", lo |-> 0, hi |-> 0, user |-> user, def |-> none, path |-> path]

\* The third version's glow has a narrower range.
Glow(hi) == [draws |-> TRUE, params |-> ("glow" :> Number(2, 0, hi))
                                     @@ ("art" :> Image("art.png", TRUE))
                                     @@ ("noise" :> Image("noise.png", FALSE))]
Ramp == [draws |-> TRUE, params |-> "ink" :> Image(none, FALSE)]
Blank == [draws |-> FALSE, params |-> "ink" :> Image(none, FALSE)]

MCEffects ==
  [v \in MCVersions |->
     ("glow" :> Glow(IF v = "e3" THEN 5 ELSE 8)) @@ ("blank" :> Blank)
     @@ IF v = "m1" THEN <<>> ELSE "ramp" :> Ramp]

Layer(effect, params) == [effect |-> effect, params |-> params]
Say(as, v) == [as |-> as, v |-> v]
Preset(id, kind, ls) == [id |-> id, kind |-> kind, whole |-> TRUE, layers |-> ls]

Flame == Preset("flame", "visualizer",
  <<Layer("glow", ("glow" :> Say("number", 7)) @@ ("art" :> Say("path", "flame.png"))),
    Layer("blank", <<>>),
    Layer("ramp", "ink" :> Say("colours", "red"))>>)
Coals == Preset("coals", "overlay", <<Layer("glow", "glow" :> Say("colours", "red"))>>)
Bell == Preset("bell", "alert", <<Layer("glow", <<>>)>>)
Fern == Preset("fern", "visualizer", <<Layer("glow", "glow" :> Say("number", 9)), Layer("hole", <<>>)>>)

Yes == [type |-> "boolean", value |-> TRUE]
Absent == [type |-> "absent", value |-> FALSE]
Text == [type |-> "string", value |-> "true"]
Date(d) == [type |-> "number", value |-> d]
LicenceFields == {"discord_id", "pack_id", "licence_id", "issued", "entitled_through", "sig"}
Signed(through) == [fields |-> [f \in LicenceFields |-> "usable"], signed |-> TRUE,
                    pack |-> "ember", through |-> through]

Pack(id, licensed, released, licence, presets) ==
  [format |-> TRUE, idOk |-> TRUE, engine |-> TRUE, id |-> id, licensed |-> licensed,
   released |-> released, licence |-> licence, presets |-> presets]

MCManifest ==
  ("e1" :> Pack("ember", Yes, Date(1), Signed(1), <<Flame, Bell, Coals>>))
  @@ ("e2" :> Pack("ember", Yes, Date(2), Signed(1), <<Flame, Coals>>))
  @@ ("e3" :> Pack("ember", Absent, Absent, nofile, <<Bell, Coals>>))
  @@ ("e4" :> Pack("ember", Text, Date(1), nofile, <<Flame>>))
  @@ ("m1" :> Pack("moss", Absent, Absent, nofile, <<Fern>>))

\* Only a picked image can be taken back on the page; the rest takes Restore Defaults.
MCValues ==
  [k \in MCKeys |-> CASE k[2] = "glow" -> {9}
                      [] k[2] = "art" -> {none, mine, lost}
                      [] OTHER -> {"blue"}]

\* The scene was saved with everything set.
MCSavedKeys ==
  {[k \in MCKeys |-> CASE k[2] = "glow" -> 9 [] k[2] = "art" -> lost [] OTHER -> "blue"]}
=============================================================================
