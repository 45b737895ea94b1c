------------------------------ MODULE ContentRules ------------------------------
(***************************************************************************)
(* What the files of a content root and the settings may say: the rules of *)
(*   - src/world/registry/RegistryLoader.cpp and Registry.h;               *)
(*   - gameplay.json (src/world/scripting/GameplayContentRuntime.cpp);     *)
(*   - ui.json (src/ui/UiConfig.cpp) and settings.json                     *)
(*     (src/config/Settings.cpp).                                          *)
(*                                                                         *)
(* A JSON value is a pair of its type and its content; a number with a     *)
(* fraction counts thousandths.  An object is a function of its fields, a  *)
(* schema gives the values that each field may have.  Words have WordBits  *)
(* bits, so that a number can lie outside them.                            *)
(***************************************************************************)
EXTENDS Integers, Sequences, FiniteSets

CONSTANTS WordBits,             \* 32 in the code
          Uint8Max, Uint16Max,  \* the largest values of the smaller types
          Int64Max, RealMax,    \* the largest 64-bit integer, and finite float
          Texts, NamespacedIds, \* strings, and those with a namespace and a name
          HexColors,            \* strings that are colours
          SafePaths,            \* relative paths that stay in the content root
          LoadableFiles,        \* files of scripts that are there and that Lua loads
          AllowedMax            \* 1..AllowedMax stands for the range of each setting

Uint32Max == 2^WordBits - 1
Int32Max == 2^(WordBits - 1) - 1
Int32Min == -(2^(WordBits - 1))

ASSUME RulesAssumption ==
  /\ WordBits \in Nat \ {0}
  /\ Uint8Max \in 1..Uint16Max /\ Uint16Max \in 1..Uint32Max
  /\ Int64Max \in Nat /\ Uint32Max < Int64Max
  /\ RealMax \in Nat
  /\ NamespacedIds \subseteq Texts \ {""} /\ HexColors \subseteq Texts
  /\ LoadableFiles \subseteq SafePaths
  /\ AllowedMax \in 1..Int32Max
-----------------------------------------------------------------------------
(* Values and schemas.                                                     *)

Text == {"string"} \X Texts
Name == {"string"} \X (Texts \ {""})
Id == {"string"} \X NamespacedIds
Boolean == {"bool"} \X BOOLEAN
Whole(lo, hi) == {"int"} \X (lo..hi)
OneOf(words) == {"string"} \X words

\* Numbers between two bounds in thousandths, whole ones included.
Number(lo, hi) ==
  ({"real"} \X (lo..hi)) \cup ({"int"} \X {n \in Int : 1000 * n \in lo..hi})
AtLeast(lo) ==
  ({"real"} \X {n \in Int : n >= lo}) \cup ({"int"} \X {n \in Int : 1000 * n >= lo})
AnyNumber == {"real", "int"} \X Int

\* A list of names, none of them twice.
Names == {"list"} \X {s \in Seq(Name) : \A i, j \in DOMAIN s : s[i] = s[j] => i = j}

\* A colour: hexadecimal, or three or four channels.
Color ==
  ({"string"} \X HexColors)
    \cup ({"list"} \X ([1..3 -> Whole(0, Uint8Max)] \cup [1..4 -> Whole(0, Uint8Max)]))

\* checkUnknownFields, requireString and the checks of each field that is given;
\* of a nested list or object only the type.
Wellformed(e, schema, nested, required) ==
  /\ required \subseteq DOMAIN e
  /\ DOMAIN e \subseteq DOMAIN schema \cup DOMAIN nested
  /\ \A f \in DOMAIN e : IF f \in DOMAIN nested THEN e[f][1] = nested[f] ELSE e[f] \in schema[f]

\* An object, with a default for each field that it does not have.
WithDefaults(e, defaults) ==
  [f \in DOMAIN e \cup DOMAIN defaults |-> IF f \in DOMAIN e THEN e[f] ELSE defaults[f]]

None == <<>>
Rejected == <<"rejected", 0>>

\* The range is checked before the number is narrowed.
requireUint32_Narrowed(n) == <<"int", n % (Uint32Max + 1)>>
requireUint32(n) == IF n \in 0..Uint32Max THEN <<"int", n>> ELSE Rejected
requireInt32(n) == IF n \in Int32Min..Int32Max THEN <<"int", n>> ELSE Rejected

\* The fields that are read as 32-bit words.
Read(e, signed, unsigned) ==
  [f \in DOMAIN e |-> CASE e[f][1] = "int" /\ f \in signed   -> requireInt32(e[f][2])
                        [] e[f][1] = "int" /\ f \in unsigned -> requireUint32(e[f][2])
                        [] OTHER                             -> e[f]]

\* The number that a value says, in thousandths.
Says(v) == IF v[1] = "int" THEN 1000 * v[2] ELSE v[2]
-----------------------------------------------------------------------------
(* Blocks.                                                                 *)

BlockFields ==
  [id |-> Id, displayName |-> Text, tags |-> Names,
   solid |-> Boolean, transparent |-> Boolean, opaque |-> Boolean,
   emission |-> Whole(0, 15),
   renderShape |-> OneOf({"cube", "cross"}), alphaMode |-> OneOf({"opaque", "mask", "blend"}),
   alphaCutoff |-> Number(0, 1000), texture |-> Name, color |-> Color,
   visualTintProperty |-> Id, normalMap |-> Name, reflectionMap |-> Name,
   roughness |-> Number(20, 1000), metalness |-> Number(0, 1000),
   reflection |-> Number(0, 1000), transparency |-> Number(0, 1000),
   refraction |-> Number(0, 1000), indexOfRefraction |-> Number(1000, 3000),
   normalMapStrength |-> Number(0, 4000), receiveShadows |-> Boolean, castShadows |-> Boolean]
BlockDefaults ==
  [transparent |-> <<"bool", FALSE>>, opaque |-> <<"bool", TRUE>>,
   transparency |-> <<"real", 0>>, refraction |-> <<"real", 0>>]

Refracts(d) == d["transparency"][2] > 0 \/ d["refraction"][2] > 0

AlphaMode(d) ==
  IF "alphaMode" \in DOMAIN d THEN d["alphaMode"][2]
  ELSE IF Refracts(d) \/ d["transparent"][2] THEN "blend" ELSE "opaque"

\* A masked block is drawn with the opaque ones but hides nothing behind it.
WithAlpha(d) ==
  LET mode == AlphaMode(d)
  IN IF mode = "opaque" THEN d
     ELSE [d EXCEPT !["transparent"] = <<"bool", mode = "blend">>, !["opaque"] = <<"bool", FALSE>>]

\* The definition a block entry makes, or none.
BlockOf(e) ==
  LET d == WithDefaults(Read(e, {"emission"}, {}), BlockDefaults)
  IN IF /\ Wellformed(d, BlockFields, <<>>, {"id", "displayName"})
        /\ AlphaMode(d) \in {"mask", "opaque"} => ~Refracts(d)
     THEN WithAlpha(d)
     ELSE None
-----------------------------------------------------------------------------
(* Biomes and resources.                                                   *)

BiomeFields ==
  [id |-> Id, displayName |-> Text, surfaceBlock |-> Text, fillerBlock |-> Text,
   resourceId |-> Text, temperature |-> Number(0, 1000), rainfall |-> Number(0, 1000),
   continentalness |-> Number(0, 1000), weight |-> AtLeast(1), terrainMaskField |-> Text]
RuleFields == [field |-> Name, min |-> AnyNumber, max |-> AnyNumber, fade |-> AtLeast(0)]
RuleDefaults == [min |-> <<"real", 0>>, max |-> <<"real", 1000>>]

SelectionFits(s) ==
  /\ Wellformed(s, [sharpness |-> AtLeast(1)], [fields |-> "list"], {})
  /\ "fields" \in DOMAIN s =>
       \A i \in DOMAIN s["fields"][2] :
         LET rule == s["fields"][2][i]
         IN /\ rule[1] = "object"
            /\ Wellformed(rule[2], RuleFields, <<>>, {"field"})
            /\ LET r == WithDefaults(rule[2], RuleDefaults) IN Says(r["max"]) >= Says(r["min"])

TerrainFields ==
  [heightOffset |-> AnyNumber, heightMultiplier |-> AtLeast(0), detailAmplitude |-> AtLeast(0),
   detailScale |-> Number(1, 1000), detailMultiplier |-> AtLeast(0),
   ridgeAmplitude |-> AtLeast(0), ridgeScale |-> Number(1, 1000), ridgeSharpness |-> AtLeast(1),
   islandAmplitude |-> AtLeast(0), islandScale |-> Number(1, 1000),
   islandThreshold |-> Number(-1000, 1000), islandSharpness |-> AtLeast(1)]

\* A biome without a filler is filled with its surface.
Filler(e) == IF "fillerBlock" \in DOMAIN e THEN e["fillerBlock"] ELSE e["surfaceBlock"]

BiomeOf(e, blocks) ==
  IF /\ Wellformed(e, BiomeFields, [selection |-> "object", terrain |-> "object"],
                   {"id", "displayName", "surfaceBlock"})
     /\ e["surfaceBlock"][2] \in blocks /\ Filler(e)[2] \in blocks
     /\ "selection" \in DOMAIN e => SelectionFits(e["selection"][2])
     /\ "terrain" \in DOMAIN e => Wellformed(e["terrain"][2], TerrainFields, <<>>, {})
  THEN WithDefaults(e, [fillerBlock |-> Filler(e)])
  ELSE None

ResourceFields ==
  [id |-> Id, displayName |-> Text, blockId |-> Text, weight |-> AtLeast(0),
   chance |-> Number(0, 1000), minY |-> Whole(Int32Min, Int32Max), maxY |-> Whole(Int32Min, Int32Max)]
ResourceDefaults == [minY |-> <<"int", 1>>, maxY |-> <<"int", 64>>]

ResourceOf(e, blocks) ==
  LET d == WithDefaults(Read(e, {"minY", "maxY"}, {}), ResourceDefaults)
  IN IF /\ Wellformed(d, ResourceFields, <<>>, {"id", "displayName", "blockId"})
        /\ d["blockId"][2] \in blocks
        /\ d["minY"][2] <= d["maxY"][2]
     THEN d ELSE None
-----------------------------------------------------------------------------
(* Sidecar types and prototypes.                                           *)

Scopes == {"block", "chunk", "chunk_group", "section", "region", "sector"}
SidecarFields ==
  [id |-> Id, displayName |-> Text, valueType |-> OneOf({"uint8", "uint16", "uint32", "float"}),
   scope |-> OneOf(Scopes), defaultValue |-> AnyNumber, bitWidth |-> Whole(0, WordBits),
   storage |-> OneOf({"sparse", "dense"}), persist |-> Boolean,
   serializationVersion |-> Whole(1, Uint32Max)]
SidecarDefaults ==
  [valueType |-> <<"string", "uint8">>, defaultValue |-> <<"int", 0>>, bitWidth |-> <<"int", 0>>,
   storage |-> <<"string", "sparse">>]

TypeMax(type) == CASE type = "uint8"  -> Uint8Max
                   [] type = "uint16" -> Uint16Max
                   [] type = "uint32" -> Uint32Max

\* A number as a value of a type: every number is a float, only whole ones in
\* the range are words.
AsType(type, v) ==
  CASE type = "float"                       -> <<"real", Says(v)>>
    [] type # "float" /\ v[1] = "int"       -> requireUint32(v[2])
    [] OTHER                                -> Rejected

\* A float that fits is finite; a word fits its type and the bits it has.
valueFitsSidecarDef(def, v) ==
  IF def["valueType"][2] = "float"
  THEN v[1] = "real" /\ v[2] \in -RealMax..RealMax
  ELSE /\ v[1] = "int"
       /\ v[2] <= TypeMax(def["valueType"][2])
       /\ def["bitWidth"][2] # 0 => v[2] < 2^def["bitWidth"][2]

validateSidecarDef(def) ==
  /\ def["valueType"][2] = "float" => def["bitWidth"][2] = 0
  /\ valueFitsSidecarDef(def, def["defaultValue"])
  /\ def["scope"][2] # "block" => def["storage"][2] # "dense"

SidecarOf(e) ==
  LET read == WithDefaults(Read(e, {}, {"bitWidth", "serializationVersion"}), SidecarDefaults)
  IN IF ~Wellformed(read, SidecarFields, <<>>, {"id", "displayName", "scope"})
     THEN None
     ELSE LET d == [read EXCEPT !["defaultValue"] = AsType(read["valueType"][2], @)]
          IN IF validateSidecarDef(d) THEN d ELSE None

\* The definition with this id in a registry, which keeps the order of the file.
Ids(registry) == {registry[i]["id"][2] : i \in DOMAIN registry}
Find(registry, id) == registry[CHOOSE i \in DOMAIN registry : registry[i]["id"][2] = id]

PropertyFields == [id |-> Id, defaultValue |-> AnyNumber]

\* A property of a prototype is state of a block: its sidecar type must exist,
\* belong to blocks and hold the default.
PropertyFits_AnyDefault(p, sidecars) ==
  /\ Wellformed(p, PropertyFields, <<>>, {"id", "defaultValue"})
  /\ p["id"][2] \in Ids(sidecars)
  /\ Find(sidecars, p["id"][2])["scope"][2] = "block"
PropertyFits(p, sidecars) ==
  /\ Wellformed(p, PropertyFields, <<>>, {"id", "defaultValue"})
  /\ p["id"][2] \in Ids(sidecars)
  /\ LET def == Find(sidecars, p["id"][2])
     IN /\ def["scope"][2] = "block"
        /\ valueFitsSidecarDef(def, AsType(def["valueType"][2], p["defaultValue"]))

PrototypeFields ==
  [id |-> Id, displayName |-> Text, blockId |-> Text, capabilities |-> Names]

PrototypeOf(e, blocks, sidecars, prototypes) ==
  IF /\ Wellformed(e, PrototypeFields, [properties |-> "list"], {"id", "displayName", "blockId"})
     /\ "properties" \in DOMAIN e =>
          LET list == e["properties"][2]
          IN /\ \A i \in DOMAIN list : list[i][1] = "object" /\ PropertyFits(list[i][2], sidecars)
             /\ \A i, j \in DOMAIN list : list[i][2]["id"] = list[j][2]["id"] => i = j
     /\ e["blockId"][2] \in blocks
     /\ \A i \in DOMAIN prototypes : prototypes[i]["blockId"] # e["blockId"]
  THEN e ELSE None
-----------------------------------------------------------------------------
(* gameplay.json.                                                          *)

Schemas == {"none", "block_place", "block_target", "property_set", "query", "event_value"}
Kind == OneOf({"command", "event", "query"})

ScriptFits(e, scripts) ==
  /\ Wellformed(e, [id |-> Name, file |-> OneOf(SafePaths)], <<>>, {"id", "file"})
  /\ e["id"][2] \notin Ids(scripts)
  /\ e["file"][2] \in LoadableFiles

HandlerFields ==
  [action |-> Id, kind |-> Kind, receiver |-> Name, context |-> Id, capability |-> Id,
   payloadSchema |-> OneOf(Schemas), script |-> Name, function |-> Name, principal |-> Name]

\* A handler is registered on the bus at once, which refuses a second slot and a
\* second schema of a signal.
Slot(e) == [f \in DOMAIN e \cap {"action", "kind", "receiver", "context", "capability"} |-> e[f]]
HandlerFits(e, scripts, handlers) ==
  /\ Wellformed(e, HandlerFields, <<>>, DOMAIN HandlerFields \ {"capability"})
  /\ e["script"][2] \in Ids(scripts)
  /\ \A h \in handlers :
       /\ Slot(h) # Slot(e)
       /\ h["action"] = e["action"] /\ h["kind"] = e["kind"] =>
            h["payloadSchema"] = e["payloadSchema"]

Int64 == Whole(-Int64Max - 1, Int64Max)
PlacementFields ==
  [id |-> Name, block |-> Text, x |-> Int64, z |-> Int64, surfaceOffset |-> Int64,
   replaceOccupied |-> Boolean]

\* The sum with the height of the surface must be a 64-bit integer.
PlacementFits(p, blockIds, surface) ==
  /\ Wellformed(p, PlacementFields, <<>>, DOMAIN PlacementFields \ {"replaceOccupied"})
  /\ \E i \in DOMAIN blockIds : i > 1 /\ blockIds[i] = p["block"][2]
  /\ surface + p["surfaceOffset"][2] \in -Int64Max - 1..Int64Max

InvokeFields ==
  [script |-> Name, function |-> Name, principal |-> Name, sender |-> Name, receiver |-> Name,
   context |-> Name, action |-> Name, kind |-> Kind, target |-> Name, payloadTarget |-> Name]

InvokeFits(v, scripts, placements) ==
  /\ Wellformed(v, InvokeFields, <<>>, DOMAIN InvokeFields \ {"payloadTarget"})
  /\ v["script"][2] \in Ids(scripts)
  /\ \A f \in DOMAIN v \cap {"target", "payloadTarget"} : v[f][2] \in placements

PlacementIds(e) == {e["placements"][2][i][2]["id"][2] : i \in DOMAIN e["placements"][2]}
BootstrapFits(e, scripts, blockIds, bootstraps, surface) ==
  /\ Wellformed(e, <<>>, [placements |-> "list", invoke |-> "object"], {"placements", "invoke"})
  /\ LET list == e["placements"][2]
     IN /\ list # <<>>
        /\ \A i \in DOMAIN list : list[i][1] = "object" /\ PlacementFits(list[i][2], blockIds, surface)
        /\ \A i, j \in DOMAIN list : list[i][2]["id"] = list[j][2]["id"] => i = j
        /\ \A i \in DOMAIN bootstraps : PlacementIds(bootstraps[i]) \cap PlacementIds(e) = {}
  /\ InvokeFits(e["invoke"][2], scripts, PlacementIds(e))
-----------------------------------------------------------------------------
(* ui.json and settings.json.                                              *)

UiColor ==
  ({"string"} \X HexColors)
    \cup ({"list"} \X ([1..3 -> Number(0, 1000)] \cup [1..4 -> Number(0, 1000)]))
Crosshair ==
  [enabled |-> Boolean, texture |-> Name, sizePixels |-> Number(4000, 256000),
   opacity |-> Number(0, 1000)]
BlockSelection ==
  [enabled |-> Boolean, maxDistance |-> Number(250, 128000), color |-> UiColor,
   thickness |-> Number(1, 250), expand |-> Number(0, 100), depthTest |-> Boolean]

UiFits(e) ==
  /\ Wellformed(e, <<>>, [crosshair |-> "object", blockSelection |-> "object"], {})
  /\ "crosshair" \in DOMAIN e => Wellformed(e["crosshair"][2], Crosshair, <<>>, {})
  /\ "blockSelection" \in DOMAIN e => Wellformed(e["blockSelection"][2], BlockSelection, <<>>, {})

\* boundedNumber converts to the type of the setting before it compares: a
\* fraction is cut from a whole setting, and as a 32-bit word a whole number that
\* does not fit wraps.
Bounded == Number(1000, 1000 * AllowedMax)
Truncated(n) == IF n < 0 THEN -((-n) \div 1000) ELSE n \div 1000
Cut(lo) == Whole(lo, AllowedMax) \cup ({"real"} \X {n \in Int : Truncated(n) \in lo..AllowedMax})
Narrowed == Cut(1) \cup ({"int"} \X {n \in Int : n % (Uint32Max + 1) \in 1..AllowedMax})

SchemaVersion == {"int"} \X {n \in Nat : n % (Uint32Max + 1) = 1}

WindowFields == [width |-> Narrowed, height |-> Narrowed, fullscreen |-> Boolean, resizable |-> Boolean]
WorldFields == [chunk_render_distance |-> Cut(0), chunk_commits_per_update |-> Cut(1)]
CameraFields == [move_speed |-> Bounded, mouse_sensitivity |-> Bounded]
HudFields == [color |-> OneOf(HexColors), font_size_px |-> Bounded]
OgreFields ==
  [render_system |-> Name, render_system_plugin |-> Name, log_file |-> Name,
   shadow_far_distance |-> Bounded, camera_near_clip |-> Bounded, camera_far_clip |-> Bounded]
ForwardFields ==
  [enabled |-> Boolean, width |-> Narrowed, height |-> Narrowed, depth |-> Narrowed,
   lights_per_cell |-> Narrowed, min_distance |-> Bounded, max_distance |-> Bounded]

\* Settings may have fields that nobody knows.
FieldsFit(e, schema) == \A f \in DOMAIN e \cap DOMAIN schema : e[f] \in schema[f]
Section(e, name) == IF name \in DOMAIN e THEN e[name] ELSE <<"object", <<>>>>
SectionFits(e, name, schema) ==
  Section(e, name)[1] = "object" /\ FieldsFit(Section(e, name)[2], schema)

\* The second of two distances must be greater, the default counts.
Farther(e, near, far, defaults) ==
  LET d == WithDefaults(e, defaults) IN Says(d[far]) > Says(d[near])

ClipDefaults == [camera_near_clip |-> <<"real", 100>>, camera_far_clip |-> <<"int", 1000>>]
ForwardDefaults == [min_distance |-> <<"int", 1>>, max_distance |-> <<"int", 120>>]

OgreFits(ogre) ==
  /\ Farther(ogre, "camera_near_clip", "camera_far_clip", ClipDefaults)
  /\ "config_options" \in DOMAIN ogre =>
       ogre["config_options"][1] = "object"
         /\ \A f \in DOMAIN ogre["config_options"][2] : ogre["config_options"][2][f] \in Text
  /\ SectionFits(ogre, "forward3d", ForwardFields)
  /\ "forward3d" \in DOMAIN ogre =>
       Farther(ogre["forward3d"][2], "min_distance", "max_distance", ForwardDefaults)

SettingsFit(e) ==
  /\ FieldsFit(e, [schema_version |-> SchemaVersion, mod |-> Name])
  /\ SectionFits(e, "window", WindowFields) /\ SectionFits(e, "world", WorldFields)
  /\ SectionFits(e, "camera", CameraFields) /\ SectionFits(e, "debug_hud", HudFields)
  /\ SectionFits(e, "ogre", OgreFields)
  /\ OgreFits(Section(e, "ogre")[2])
=============================================================================
