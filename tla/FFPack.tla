-------------------------------- MODULE FFPack --------------------------------
(***************************************************************************)
(* What the engine makes of a pack directory (ff-pack.c, ff-licence.c), as *)
(* operators on an abstract manifest.  A manifest is a record              *)
(*   format, idOk, engine    whether these three fields are acceptable     *)
(*   id                      the pack's id                                 *)
(*   licensed, released      [type, value], as the author wrote them       *)
(*   presets                 a sequence of [id, kind, whole, layers]       *)
(*   licence                 NoFile, or [fields, signed, pack, through],   *)
(*                           each field "usable", "unusable" or "absent"   *)
(* where type is the JSON type of the field, or "absent".                  *)
(***************************************************************************)
EXTENDS Integers, Sequences

CONSTANT NoFile  \* there is no licence.json

\* An array of manifest.json, its elements counted from 1.
IsArray(s) == Len(s) \in Nat /\ DOMAIN s = 1..Len(s)

MaxPresets == 64

\* libobs's getters: a value of another type reads as false, or as 0.
AsBool(field) == field.type = "boolean" /\ field.value
AsInt(field) == IF field.type = "number" THEN field.value ELSE 0

\* A field that is there must have the type the engine reads it as.
WrongType(field, type) == field.type \notin {"absent", type}

\* The files it names are in the pack, its kind is one of the known ones.
Kinds == {"visualizer", "effects", "overlay", "alert", "transition"}
PresetOK(p) == p.whole /\ p.kind \in Kinds /\ Len(p.layers) > 0

\* Mutant: a field of another type reads as if it were not there.
RefusedLenient(m) ==
  \/ ~m.format
  \/ AsBool(m.licensed) /\ AsInt(m.released) <= 0
  \/ ~m.idOk
  \/ ~m.engine
  \/ Len(m.presets) \notin 1..MaxPresets
  \/ \E i \in 1..Len(m.presets) : ~PresetOK(m.presets[i])

\* ff_pack_load_dir leaves the pack out of the list.
Refused(m) ==
  \/ ~m.format
  \/ WrongType(m.licensed, "boolean")
  \/ WrongType(m.released, "number")
  \/ AsBool(m.licensed) /\ AsInt(m.released) <= 0
  \/ ~m.idOk
  \/ ~m.engine
  \/ Len(m.presets) \notin 1..MaxPresets
  \/ \E i \in 1..Len(m.presets) : ~PresetOK(m.presets[i])

\* Every field is there and readable as what it should be, and the signature
\* is good for them, whatever pack they lie beside.
Genuine(file) == (\A f \in DOMAIN file.fields : file.fields[f] = "usable") /\ file.signed

\* ff_licence_verify: two fixed dates, and never the time of day.
Verify(file, id, released) ==
  IF ~Genuine(file) \/ file.pack # id THEN "INVALID"
  ELSE IF released <= file.through THEN "OK" ELSE "NEWER"

\* What the list holds for a pack that was not refused.
Licence(m) ==
  IF ~AsBool(m.licensed) THEN "NONE"
  ELSE IF m.licence = NoFile THEN "INVALID"
  ELSE Verify(m.licence, m.id, AsInt(m.released))

\* licence_blocks.
Blocks(m) == AsBool(m.licensed) /\ Licence(m) \in {"NEWER", "INVALID", "NONE"}

PresetIds(m) == {m.presets[i].id : i \in 1..Len(m.presets)}

\* ff_pack_find_preset: the first of that id.
FindPreset(m, id) ==
  m.presets[CHOOSE i \in 1..Len(m.presets) :
              /\ m.presets[i].id = id
              /\ \A j \in 1..(i - 1) : m.presets[j].id # id]
=============================================================================
