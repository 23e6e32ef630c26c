------------------------------ MODULE FFRenderer ------------------------------
(***************************************************************************)
(* The layers of a loaded preset and their parameters (ff-layers.c), as    *)
(* operators on the layer array.  Every parameter hears three voices: the  *)
(* shader's default, the preset's override and the viewer's setting.       *)
(*                                                                         *)
(* A layer is [ok, params]; a parameter is a record                        *)
(*   type            "number", "texture", "gradient" or "builtin"          *)
(*   lo, hi          the range of a number                                 *)
(*   user            the shader lets the viewer pick an image              *)
(*   def, preset     the live value and the pristine one                   *)
(*   path            the pack's own image                                  *)
(*   picked, bound   the viewer's image, and the one that is bound         *)
(*   baked, dirty    the ramp that is drawn, and whether it is out of date *)
(* A declaration in an effect has type, lo, hi, user, def and path.        *)
(***************************************************************************)
EXTENDS Integers, Sequences

CONSTANTS
  Keys,      \* settings keys, <<layer, parameter>>
  None,      \* no value, no image
  Readable,  \* of each image a viewer may pick: whether it can be decoded
  Effects    \* of each version of a pack on disk: its effects by file name

\* clamp_to_range, for the types that have a range; crossed ends are none.
Clamp(p, v) ==
  IF p.lo > p.hi THEN v ELSE IF v < p.lo THEN p.lo ELSE IF v > p.hi THEN p.hi ELSE v

(***************************************************************************)
(* Loading.                                                                *)
(***************************************************************************)
\* The image a texture ends with: the viewer's if it can be read, else the
\* pack's if the directory is still there to read it from.
Binding(path, picked, disk) ==
  IF picked # None /\ Readable[picked] THEN picked
  ELSE IF path # None /\ disk # None THEN <<disk, path>> ELSE None

\* A colour list turns a texture into a gradient; a value of the wrong shape
\* for its parameter leaves the shader's default.
TypeWith(d, o) ==
  IF d.type = "texture" /\ o # None /\ o.as = "colours" THEN "gradient" ELSE d.type

Spoken(d, o) ==
  IF /\ o # None
     /\ \/ d.type = "number" /\ o.as = "number"
        \/ TypeWith(d, o) = "gradient" /\ o.as = "colours"
  THEN o.v ELSE d.def

NewParam(d, o, disk) ==
  LET type == TypeWith(d, o)
      def == IF type = "number" THEN Clamp(d, Spoken(d, o)) ELSE Spoken(d, o)
      path == IF o # None /\ o.as = "path" THEN o.v ELSE d.path
  IN  [type |-> type, lo |-> d.lo, hi |-> d.hi, user |-> d.user,
       def |-> def, preset |-> def, path |-> path, picked |-> None,
       bound |-> IF type = "texture" THEN Binding(path, None, disk) ELSE None,
       baked |-> None, dirty |-> type = "gradient"]

Broken == [ok |-> FALSE, params |-> [n \in {} |-> None]]

\* Mutant: the parameters of an effect that turns out not to draw are kept.
LoadLayerKeepsParams(L, disk) ==
  IF disk = None \/ L.effect \notin DOMAIN Effects[disk] THEN Broken
  ELSE LET e == Effects[disk][L.effect]
       IN  [ok |-> e.draws,
            params |-> [n \in DOMAIN e.params |->
              NewParam(e.params[n], IF n \in DOMAIN L.params THEN L.params[n] ELSE None, disk)]]

\* load_layer compiles what is on disk now, which need not be what was scanned.
LoadLayer(L, disk) ==
  IF disk = None \/ L.effect \notin DOMAIN Effects[disk] THEN Broken
  ELSE LET e == Effects[disk][L.effect]
       IN  IF ~e.draws THEN Broken
           ELSE [ok |-> TRUE,
                 params |-> [n \in DOMAIN e.params |->
                   NewParam(e.params[n],
                            IF n \in DOMAIN L.params THEN L.params[n] ELSE None, disk)]]

\* ff_renderer_load.
Load(layers, disk) == [i \in DOMAIN layers |-> LoadLayer(layers[i], disk)]

(***************************************************************************)
(* The viewer's settings.                                                  *)
(***************************************************************************)
Exposed(p) == p.type \in {"number", "gradient"} \/ (p.type = "texture" /\ p.user)

Has(layers, k) == k[1] \in DOMAIN layers /\ k[2] \in DOMAIN layers[k[1]].params
ParamAt(layers, k) == layers[k[1]].params[k[2]]
ExposedKeys(layers) == {k \in Keys : Has(layers, k) /\ Exposed(ParamAt(layers, k))}

\* ff_renderer_set_defaults: the pristine value; "" for an image, the pack's own.
SetDefaults(layers, defaults) ==
  [k \in Keys |->
     IF k \notin ExposedKeys(layers) THEN defaults[k]
     ELSE IF ParamAt(layers, k).type = "texture" THEN None
     ELSE ParamAt(layers, k).preset]

\* Mutant: a stop that moved is not baked again.
ApplyParamClean(p, u, disk) ==
  CASE p.type = "number" -> [p EXCEPT !.def = IF u = None THEN p.preset ELSE Clamp(p, u)]
    [] p.type = "gradient" -> [p EXCEPT !.def = IF u = None THEN p.preset ELSE u]
    [] OTHER -> IF u = p.picked THEN p
                ELSE [p EXCEPT !.picked = u, !.bound = Binding(p.path, u, disk)]

\* One parameter of ff_renderer_apply_settings: no user value means the
\* preset's again, and an image is decoded only when the pick changed.
ApplyParam(p, u, disk) ==
  CASE p.type = "number" -> [p EXCEPT !.def = IF u = None THEN p.preset ELSE Clamp(p, u)]
    [] p.type = "gradient" ->
         LET stops == IF u = None THEN p.preset ELSE u
         IN  [p EXCEPT !.dirty = @ \/ stops # p.def, !.def = stops]
    [] OTHER -> IF u = p.picked THEN p
                ELSE [p EXCEPT !.picked = u, !.bound = Binding(p.path, u, disk)]

Apply(layers, keys, disk) ==
  [i \in DOMAIN layers |->
     [layers[i] EXCEPT !.params =
        [n \in DOMAIN @ |-> IF Exposed(@[n]) THEN ApplyParam(@[n], keys[<<i, n>>], disk)
                            ELSE @[n]]]]

(***************************************************************************)
(* Drawing.                                                                *)
(***************************************************************************)
BakeParam(p) == IF p.dirty THEN [p EXCEPT !.baked = p.def, !.dirty = FALSE] ELSE p

\* set_params: a gradient out of date is baked before it is bound.
Bake(layers) ==
  [i \in DOMAIN layers |->
     [layers[i] EXCEPT !.params =
        [n \in DOMAIN @ |-> BakeParam(@[n])]]]

Other(target) == IF target = "ping" THEN "pong" ELSE "ping"

\* Mutant: the targets change places for a layer that is skipped, too.
StackedAlways(layers) ==
  LET after[i \in 0..Len(layers)] ==
        IF i = 0 THEN [prev |-> "input", dst |-> "ping", draws |-> <<>>]
        ELSE LET acc == after[i - 1]
             IN  IF ~layers[i].ok THEN [acc EXCEPT !.dst = Other(@)]
                 ELSE [prev |-> acc.dst, dst |-> Other(acc.dst),
                       draws |-> Append(acc.draws, [reads |-> acc.prev, writes |-> acc.dst])]
  IN  after

\* ff_renderer_render's loop: after each layer, the target to read from next, the one
\* to draw into, and what each layer has read and drawn into.
Stacked(layers) ==
  LET after[i \in 0..Len(layers)] ==
        IF i = 0 THEN [prev |-> "input", dst |-> "ping", draws |-> <<>>]
        ELSE LET acc == after[i - 1]
             IN  IF ~layers[i].ok THEN acc
                 ELSE [prev |-> acc.dst, dst |-> Other(acc.dst),
                       draws |-> Append(acc.draws, [reads |-> acc.prev, writes |-> acc.dst])]
  IN  after

Drawn(layers) == Stacked(layers)[Len(layers)].draws
=============================================================================
