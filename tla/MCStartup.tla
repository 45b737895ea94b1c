------------------------------- MODULE MCStartup -------------------------------
(***************************************************************************)
(* A small content root, every change of one value in it, and settings that *)
(* a user may have written.                                                *)
(***************************************************************************)
EXTENDS Startup, TLC

S(text) == <<"string", text>>
N(n) == <<"int", n>>
R(n) == <<"real", n>>
O(e) == <<"object", e>>
L(s) == <<"list", s>>

MCNamespaced == {"core:air", "core:stone", "core:water", "core:turn", "core:heat", "core:sign", "core:gate", "core:use"}
MCTexts == MCNamespaced \cup
  {"", "stone", "#102030", "cube", "opaque", "mask", "blend", "block", "region", "dense", "sparse",
   "uint8", "uint16", "uint32", "float", "s", "p", "a.lua", "../a.lua", "b.lua", "command", "none",
   "Default", "Mine", "..", "query"}
MCHash == [id \in MCNamespaced |-> CASE id = "core:sign" -> 7 [] id = "core:turn" -> 7
                                     [] id = "core:gate" -> 9 [] OTHER -> 1]

\* Values of every type, and numbers at the borders of the types (15, 63, 255).
MCValues ==
  {S(t) : t \in {"", "stone", "core:air", "core:stone", "core:heat", "core:turn", "#102030", "cube", "opaque", "mask", "blend",
                 "block", "region", "dense", "uint8", "uint16", "uint32", "float", "p", "b.lua", "../a.lua"}}
    \cup {N(n) : n \in {-257, -1, 0, 1, 2, 9, 15, 16, 64, 128, 256, 257, 270}}
    \cup {R(n) : n \in {-1500, 0, 500, 1500, 2000000}}
    \cup {<<"bool", b>> : b \in BOOLEAN}
    \cup {L(<<>>), L(<<S("s"), S("s")>>), L(<<N(1), N(15), N(3)>>), L(<<N(1), N(16), N(3)>>), O([x |-> N(1)])}

Named(id) == [id |-> S(id), displayName |-> S("s")]
File(entries) == [state |-> "whole", entries |-> entries]

MCBase ==
  [blocks |-> File(<<Named("core:stone"), Named("core:air"),
                     [transparency |-> R(500), emission |-> N(3)] @@ Named("core:water")>>),
   biomes |-> File(<<[surfaceBlock |-> S("core:stone"), resourceId |-> S("core:gate"),
                      selection |-> O([fields |-> L(<<O([field |-> S("s"), max |-> R(500)])>>)]),
                      terrain |-> O([ridgeScale |-> R(500)])] @@ Named("core:heat")>>),
   resources |-> File(<<[blockId |-> S("core:stone"), minY |-> N(2), maxY |-> N(9)] @@ Named("core:gate")>>),
   sidecars |-> File(<<[scope |-> S("block"), bitWidth |-> N(3)] @@ Named("core:turn"),
                       [scope |-> S("region"), valueType |-> S("float")] @@ Named("core:heat")>>),
   prototypes |-> File(<<[blockId |-> S("core:water")] @@ Named("core:sign"),
                         [blockId |-> S("core:stone"),
                          properties |-> L(<<O([id |-> S("core:turn"), defaultValue |-> N(1)])>>)]
                           @@ Named("core:gate")>>),
   scripts |-> File(<<[id |-> S("p"), file |-> S("a.lua")]>>),
   handlers |-> File(<<[action |-> S("core:use"), kind |-> S("command"), receiver |-> S("s"),
                        context |-> S("core:use"), payloadSchema |-> S("none"), script |-> S("p"),
                        function |-> S("s"), principal |-> S("s")]>>),
   bootstraps |-> File(<<[placements |-> L(<<O([id |-> S("p"), block |-> S("core:stone"), x |-> N(1),
                                                z |-> N(1), surfaceOffset |-> N(1)])>>),
                          invoke |-> O([script |-> S("p"), function |-> S("s"), principal |-> S("s"),
                                        sender |-> S("s"), receiver |-> S("s"), context |-> S("s"),
                                        action |-> S("s"), kind |-> S("query"), target |-> S("p")])]>>),
   ui |-> File(<<[crosshair |-> O([opacity |-> R(500)]), blockSelection |-> O([expand |-> R(50)])]>>)]

\* The fields of each file, those of the objects in it, and one that it has not.
MCFields(name) ==
  {"unknown"} \cup
  CASE name = "blocks"     -> DOMAIN BlockFields
    [] name = "biomes"     -> DOMAIN BiomeFields \cup {"selection", "terrain"}
    [] name = "resources"  -> DOMAIN ResourceFields
    [] name = "sidecars"   -> DOMAIN SidecarFields
    [] name = "prototypes" -> DOMAIN PrototypeFields \cup {"properties"}
    [] name = "scripts"    -> {"id", "file"}
    [] name = "handlers"   -> DOMAIN HandlerFields
    [] name = "bootstraps" -> {"placements", "invoke"}
    [] name = "ui"         -> {"crosshair", "blockSelection"}
MCPlaces == UNION {{name} \X MCFields(name) : name \in DOMAIN MCBase}
MCNested ==
  {<<"biomes", "terrain", f>> : f \in DOMAIN TerrainFields}
    \cup {<<"biomes", "selection", f>> : f \in {"sharpness", "fields"}}
    \cup {<<"bootstraps", "invoke", f>> : f \in DOMAIN InvokeFields}
    \cup {<<"ui", "crosshair", f>> : f \in DOMAIN Crosshair}
    \cup {<<"ui", "blockSelection", f>> : f \in DOMAIN BlockSelection}
MCListed ==
  {<<"bootstraps", "placements", f>> : f \in DOMAIN PlacementFields}
    \cup {<<"prototypes", "properties", f>> : f \in DOMAIN PropertyFields}

MCWith(e, f, v) == (f :> v) @@ e
MCLast(name) == Len(MCBase[name].entries)
MCEdit(name, e) == [MCBase EXCEPT ![name].entries[MCLast(name)] = e]
MCOf(name) == MCBase[name].entries[MCLast(name)]
MCWithout(e, f) == [g \in DOMAIN e \ {f} |-> e[g]]

\* One value changed, added or dropped in the last entry of a file.
MCChanged ==
  {MCEdit(p[1], MCWith(MCOf(p[1]), p[2], v)) : p \in MCPlaces, v \in MCValues}
MCDropped ==
  UNION {{MCEdit(name, MCWithout(MCOf(name), f)) : f \in DOMAIN MCOf(name)} : name \in DOMAIN MCBase}
MCInside ==
  {MCEdit(p[1], MCWith(MCOf(p[1]), p[2], O(MCWith(MCOf(p[1])[p[2]][2], p[3], v)))) : p \in MCNested, v \in MCValues}
MCInList ==
  {MCEdit(p[1], MCWith(MCOf(p[1]), p[2], L(<<O(MCWith(MCOf(p[1])[p[2]][2][1][2], p[3], v))>>))) :
      p \in MCListed, v \in MCValues}
MCRule ==
  {MCEdit("biomes", MCWith(MCOf("biomes"), "selection",
      O([fields |-> L(<<O(MCWith([field |-> S("s"), max |-> R(500)], f, v))>>)]))) :
      f \in DOMAIN RuleFields, v \in MCValues}
\* An entry twice, an entry less, and an entry of another place in the order.
MCTwice == {[MCBase EXCEPT ![name].entries = @ \o <<MCOf(name)>>] : name \in DOMAIN MCBase \ {"ui"}}
MCLess ==
  UNION {{[MCBase EXCEPT ![name].entries = SubSeq(@, 1, i - 1) \o SubSeq(@, i + 1, Len(@))] :
            i \in 1..MCLast(name)} : name \in DOMAIN MCBase \ {"ui"}}
\* A default for each type and width of a sidecar type.
MCSidecars ==
  {MCEdit("sidecars", [valueType |-> S(t), bitWidth |-> N(w), defaultValue |-> v, scope |-> S(s)] @@ MCOf("sidecars")) :
      t \in {"uint8", "uint16", "uint32", "float"}, w \in {0, 3, 8}, s \in {"block", "region"},
      v \in {N(7), N(8), N(16), N(64), N(255), N(256), R(500)}}
\* The alpha rules depend on four fields.
MCAlpha ==
  {MCEdit("blocks", [alphaMode |-> S(m), transparent |-> <<"bool", t>>, opaque |-> <<"bool", o>>,
                     transparency |-> R(n), refraction |-> R(r)] @@ Named("core:water")) :
      m \in {"opaque", "mask", "blend"}, t \in BOOLEAN, o \in BOOLEAN, n \in {0, 500}, r \in {0, 500}}
MCStates ==
  {[MCBase EXCEPT ![name].state = state] :
      name \in DOMAIN MCBase \ {"handlers", "bootstraps"}, state \in {"missing", "malformed", "too large a number"}}

MCContents ==
  {MCChanged, MCDropped, MCInside, MCInList, MCRule, MCTwice, MCLess,
   MCSidecars, MCAlpha, MCStates}

MCBaseContents == {MCBase}
MCRootSets ==
  SUBSET {<<"program", "Default">>, <<"program", "Mine">>, <<"working", "Default">>, <<"working", "..">>}
MCUserFiles ==
  {<<"settings", [schema_version |-> v]>> : v \in {N(1), N(2), N(257), S("s")}}
    \cup {<<"settings", [mod |-> v]>> : v \in {S("Mine"), S(".."), S(""), N(1)}}
    \cup {<<"settings", [window |-> O([width |-> v])]>> : v \in {N(0), N(10), N(266), R(500), R(10500)}}
    \cup {<<"settings", [world |-> O([chunk_render_distance |-> v])]>> : v \in {N(0), R(-500), R(100500), R(101000)}}
    \cup {<<"settings", [ogre |-> O([f \in {"camera_near_clip", "camera_far_clip"} |-> IF f = "camera_near_clip" THEN a ELSE b])]>> :
             a \in {N(1), N(10)}, b \in {N(1), N(10)}}
    \cup {<<"settings", [ogre |-> v]>> : v \in {N(1), O([config_options |-> N(1)]), O([config_options |-> O([x |-> N(1)])]),
             O([forward3d |-> O([max_distance |-> N(1)])]), O([forward3d |-> O([max_distance |-> N(10)])])}}
    \cup {<<"malformed">>}
=============================================================================
