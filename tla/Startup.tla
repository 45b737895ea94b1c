-------------------------------- MODULE Startup --------------------------------
(***************************************************************************)
(* From the start of the program to its end: Application::initialize,      *)
(* initializeWorld and shutdown (src/app/Application.cpp) with             *)
(*   - the settings file and its atomic save (src/config/Settings.cpp) and *)
(*     the choice of the content root (ContentRoot.cpp);                   *)
(*   - the files of the content root, entry by entry                       *)
(*     (src/world/registry/RegistryLoader.cpp, gameplay.json);             *)
(*   - the parts that exist, and the order in which they are destroyed.    *)
(* The process may be killed at any moment and started again: only the     *)
(* files stay.                                                             *)
(***************************************************************************)
EXTENDS ContentRules

CONSTANTS Contents,   \* sets of contents of a content root, with a mistake each
          BaseContents, \* contents without one
          RootSets,   \* sets of content roots that exist: [directory, mod]
          UnsafeMods, \* names of mods that are not names of a directory
          UserFiles,  \* settings files that a user may have written
          Hash,       \* PrototypeIdTable::hashId
          Surface     \* height of the surface below the bootstraps

VARIABLES disk, temporary,  \* settings.json and settings.json.tmp
          files, roots,     \* the content on the disk
          settings, root,   \* mSettings, mContentRoot
          loaded,           \* the registries and tables
          parts,            \* the parts of Application that exist
          teardown,         \* what is destroyed next
          stage             \* what the program does next
memory == <<settings, root, loaded>>
content == <<files, roots>>
vars == <<disk, temporary, content, memory, parts, teardown, stage>>

Absent == <<"absent">>
Torn == <<"torn">>          \* some or none of the text of the settings
Settings(e) == <<"settings", e>>
Defaults == [schema_version |-> <<"int", 1>>, mod |-> <<"string", "Default">>]

ASSUME StartupAssumption ==
  /\ \A id \in NamespacedIds : Hash[id] \in 0..Uint32Max
  /\ {Absent, Torn} \cap UserFiles = {}

Registered == {"blocks", "biomes", "resources", "sidecars", "prototypes"}
Empty == [blocks |-> <<>>, biomes |-> <<>>, resources |-> <<>>, sidecars |-> <<>>,
          prototypes |-> <<>>, blockIds |-> <<>>, handles |-> <<>>,
          scripts |-> <<>>, handlers |-> <<>>, bootstraps |-> <<>>]

\* initialize returns false, so that main returns 1.
Fail == stage' = "failed" /\ UNCHANGED <<memory, parts, teardown>>
\* An exception that nobody catches: main calls initialize outside its try.
Terminate == stage' = "terminated" /\ parts' = {} /\ UNCHANGED <<memory, teardown>>
Continue(next) == stage' = next /\ UNCHANGED <<parts, teardown>>
-----------------------------------------------------------------------------
(* The settings.                                                           *)

\* loadOrCreateSettings: a file that is there is read and never replaced.
LoadSettings_Repairs ==
  /\ stage = "settings"
  /\ IF disk[1] = "settings" /\ SettingsFit(disk[2])
     THEN settings' = WithDefaults(disk[2], Defaults) /\ Continue("content root") /\ UNCHANGED <<root, loaded>>
     ELSE Continue("make directory") /\ UNCHANGED memory
  /\ UNCHANGED <<disk, temporary, content>>
LoadSettings ==
  /\ stage = "settings"
  /\ \/ disk = Absent /\ Continue("make directory") /\ UNCHANGED memory
     \/ /\ disk[1] = "settings" /\ SettingsFit(disk[2])
        /\ settings' = WithDefaults(disk[2], Defaults)
        /\ Continue("content root") /\ UNCHANGED <<root, loaded>>
     \/ disk # Absent /\ (disk[1] = "settings" => ~SettingsFit(disk[2])) /\ Fail
  /\ UNCHANGED <<disk, temporary, content>>

\* saveSettings, step by step; each call of the file system may fail.
CallFails ==
  /\ stage \in {"settings", "make directory", "open", "write", "rename again"}
  /\ Fail
  /\ UNCHANGED <<disk, temporary, content>>
MakeDirectory ==
  /\ stage = "make directory"
  /\ Continue("open")
  /\ UNCHANGED <<disk, temporary, content, memory>>
OpenTemporary ==
  /\ stage = "open"
  /\ temporary' = Torn
  /\ Continue("write")
  /\ UNCHANGED <<disk, content, memory>>
\* The text goes to the buffer of the stream, which is tested here.
WriteTemporary ==
  /\ stage = "write"
  /\ Continue("close")
  /\ UNCHANGED <<disk, temporary, content, memory>>
\* Its destructor writes the buffer to the disk: nobody sees that this fails.
CloseTemporary ==
  /\ stage = "close"
  /\ temporary' \in {Settings(Defaults), Torn}
  /\ Continue("rename")
  /\ UNCHANGED <<disk, content, memory>>
Installed ==
  /\ disk' = temporary /\ temporary' = Absent
  /\ settings' = Defaults
  /\ Continue("content root")
  /\ UNCHANGED <<content, root, loaded>>
Rename ==
  /\ stage = "rename"
  /\ \/ Installed
     \/ Continue("remove") /\ UNCHANGED <<disk, temporary, content, memory>>
\* The fallback for a file system whose rename does not replace.
Remove ==
  /\ stage = "remove"
  /\ disk' \in {disk, Absent}
  /\ Continue("rename again")
  /\ UNCHANGED <<temporary, content, memory>>
RenameAgain == stage = "rename again" /\ Installed

SafeMod(mod) == mod \notin UnsafeMods
resolveContentRoot(directory, mod) ==
  LET own == <<directory, mod>>
      default == <<directory, "Default">>
  IN CASE SafeMod(mod) /\ own \in roots                          -> own
       [] ~(SafeMod(mod) /\ own \in roots) /\ default \in roots  -> default
       [] OTHER                                                  -> None

\* First beside the program, then in the working directory.
ResolveContentRoot ==
  /\ stage = "content root"
  /\ LET beside == resolveContentRoot("program", settings["mod"][2])
         found == IF beside # None THEN beside ELSE resolveContentRoot("working", settings["mod"][2])
     IN root' = found /\ Continue(IF found = None THEN "window" ELSE "ui")
  /\ UNCHANGED <<disk, temporary, content, settings, loaded>>

IsWhole(name) == files[name].state = "whole"
LoadUi ==
  /\ stage = "ui"
  /\ IF IsWhole("ui") /\ UiFits(files.ui.entries[1])
     THEN Continue("window") /\ UNCHANGED memory
     ELSE Fail
  /\ UNCHANGED <<disk, temporary, content>>
-----------------------------------------------------------------------------
(* The content, one entry at a time.                                       *)

Disk == UNCHANGED <<disk, temporary, content>>
Reading(name) == stage = name /\ IsWhole(name)
Entries(name) == files[name].entries
AtEnd(name) == Len(loaded[name]) = Len(Entries(name))
Entry(name) == Entries(name)[Len(loaded[name]) + 1]
Load(name, value) ==
  loaded' = [loaded EXCEPT ![name] = value] /\ UNCHANGED <<settings, root, parts, teardown, stage>>

\* A file that is not there, is no JSON or lacks its list.
FileFails ==
  /\ \/ stage \in {"blocks", "biomes", "resources"} /\ files[stage].state \in {"missing", "malformed"}
     \/ stage \in {"sidecars", "prototypes"} /\ files[stage].state = "malformed"
     \/ stage = "scripts" /\ files[stage].state \in {"malformed", "too large a number"}
  /\ Fail
  /\ Disk
\* The parser reports a number that no double holds by another exception than
\* the one parseJson turns into a RegistryError.
FileEscapes ==
  /\ stage \in Registered
  /\ files[stage].state = "too large a number"
  /\ Terminate
  /\ Disk
\* Content without sidecar types, prototypes or gameplay is complete.
FileSkipped ==
  /\ stage \in {"sidecars", "prototypes", "scripts"}
  /\ files[stage].state = "missing"
  /\ Continue(CASE stage = "sidecars"   -> "prototypes"
                [] stage = "prototypes" -> "handles"
                [] stage = "scripts"    -> "streaming")
  /\ UNCHANGED memory
  /\ Disk

\* Registry::insert refuses an id that is there.
Insert(name, def) ==
  IF def # None /\ def["id"][2] \notin Ids(loaded[name])
  THEN Load(name, Append(loaded[name], def))
  ELSE Fail
Parse(name, def, next) ==
  /\ Reading(name)
  /\ \/ AtEnd(name) /\ Continue(next) /\ UNCHANGED memory
     \/ ~AtEnd(name) /\ Insert(name, def)
  /\ Disk

ParseBlock == Parse("blocks", BlockOf(Entry("blocks")), "biomes")
ParseBiome == Parse("biomes", BiomeOf(Entry("biomes"), Ids(loaded.blocks)), "resources")
ParseResource == Parse("resources", ResourceOf(Entry("resources"), Ids(loaded.blocks)), "links")
ParseSidecar == Parse("sidecars", SidecarOf(Entry("sidecars")), "prototypes")
ParsePrototype ==
  Parse("prototypes",
        PrototypeOf(Entry("prototypes"), Ids(loaded.blocks), loaded.sidecars, loaded.prototypes),
        "handles")

\* The resource of a biome is looked up when both files are read.
CheckResourceLinks ==
  /\ stage = "links"
  /\ IF \A i \in DOMAIN loaded.biomes :
          LET biome == loaded.biomes[i]
          IN "resourceId" \in DOMAIN biome =>
               biome["resourceId"][2] \in {""} \cup Ids(loaded.resources)
     THEN Continue("block ids") /\ UNCHANGED memory
     ELSE Fail
  /\ Disk

\* BlockIdTable: air moves to the front, as 0, the others keep the order of the file.
BuildBlockIds ==
  /\ stage = "block ids"
  /\ LET ids == [i \in DOMAIN loaded.blocks |-> loaded.blocks[i]["id"][2]]
         air == CHOOSE i \in DOMAIN ids : ids[i] = "core:air"
         from == [i \in DOMAIN ids |-> IF i = 1 THEN air ELSE IF i <= air THEN i - 1 ELSE i]
     IN IF "core:air" \in Ids(loaded.blocks) /\ Len(ids) <= Uint16Max + 1
        THEN /\ loaded' = [loaded EXCEPT !.blockIds = [i \in DOMAIN ids |-> ids[from[i]]]]
             /\ Continue("sidecars")
             /\ UNCHANGED <<settings, root>>
        ELSE Terminate
  /\ Disk

\* PrototypeIdTable, and with it the state of the world, the handlers of the
\* block commands and the player's clicks.
BuildHandles ==
  /\ stage = "handles"
  /\ LET ids == [i \in DOMAIN loaded.prototypes |-> loaded.prototypes[i]["id"][2]]
     IN IF \A i, j \in DOMAIN ids : Hash[ids[i]] = Hash[ids[j]] => i = j
        THEN /\ loaded' = [loaded EXCEPT !.handles = [i \in DOMAIN ids |-> Hash[ids[i]]]]
             /\ parts' = parts \cup {"prototypeIds", "worldState", "interaction"}
             /\ stage' = "worldgen"
             /\ UNCHANGED <<settings, root, teardown>>
        ELSE Terminate
  /\ Disk

ParseScript ==
  /\ Reading("scripts")
  /\ \/ AtEnd("scripts") /\ Continue("handlers") /\ UNCHANGED memory
     \/ /\ ~AtEnd("scripts")
        /\ IF ScriptFits(Entry("scripts"), loaded.scripts)
           THEN Load("scripts", Append(loaded.scripts, Entry("scripts")))
           ELSE Fail
  /\ Disk
ParseHandler ==
  /\ Reading("handlers")
  /\ \/ AtEnd("handlers") /\ Continue("bootstraps") /\ UNCHANGED memory
     \/ /\ ~AtEnd("handlers")
        /\ IF HandlerFits(Entry("handlers"), loaded.scripts, {loaded.handlers[i] : i \in DOMAIN loaded.handlers})
           THEN Load("handlers", Append(loaded.handlers, Entry("handlers")))
           ELSE Fail
  /\ Disk
ParseBootstrap ==
  /\ Reading("bootstraps")
  /\ \/ /\ AtEnd("bootstraps")
        /\ parts' = parts \cup {"gameplay"} /\ stage' = "streaming"
        /\ UNCHANGED <<memory, teardown>>
     \/ /\ ~AtEnd("bootstraps")
        /\ IF BootstrapFits(Entry("bootstraps"), loaded.scripts, loaded.blockIds, loaded.bootstraps, Surface)
           THEN Load("bootstraps", Append(loaded.bootstraps, Entry("bootstraps")))
           ELSE Fail
  /\ Disk
-----------------------------------------------------------------------------
(* The parts.                                                              *)

\* A step of initialize that makes a part and may find that it does not work.
Make(part, next) ==
  /\ parts' = parts \cup {part}
  /\ stage' \in {next, "failed"}
  /\ UNCHANGED <<memory, teardown>>
  /\ Disk

CreateWindow == stage = "window" /\ Make("platform", "input")
CreateInput == stage = "input" /\ parts' = parts \cup {"input", "renderer"} /\ stage' = "renderer"
                 /\ UNCHANGED <<memory, teardown>> /\ Disk
\* The renderer exists from here on, whether or not it finds the window.
InitializeRenderer ==
  /\ stage = "renderer"
  /\ Make("renderer", IF root = None THEN "world renderer" ELSE "blocks")
LoadWorldGen ==
  /\ stage = "worldgen"
  /\ \/ parts' = parts \cup {"worldGen"} /\ stage' = "scripts" /\ UNCHANGED <<memory, teardown>>
     \/ Fail
  /\ Disk
StartStreaming ==
  /\ stage = "streaming"
  /\ parts' = parts \cup {"streaming"} /\ stage' = "world renderer"
  /\ UNCHANGED <<memory, teardown>>
  /\ Disk
InitializeWorldRenderer == stage = "world renderer" /\ Make("worldRenderer", "selection")
InitializeSelection == stage = "selection" /\ Make("selectionRenderer", "running")

\* The loop of main ends, by a request or by an exception.
Stop == stage = "running" /\ Continue("stopped") /\ UNCHANGED memory /\ Disk

ShutdownOrder_WorldGenFirst ==
  <<"gameplay", "selectionRenderer", "worldRenderer", "worldGen", "streaming", "renderer", "input", "platform">>
ShutdownOrder ==
  <<"gameplay", "selectionRenderer", "worldRenderer", "streaming", "worldGen", "renderer", "input", "platform">>
\* The destructor of Application destroys its members last to first.
MemberOrder ==
  <<"streaming", "worldGen", "gameplay", "worldState", "prototypeIds", "interaction",
    "selectionRenderer", "worldRenderer", "renderer", "input", "platform">>

\* shutdown does nothing without a renderer unless the program runs.
Shutdown ==
  /\ stage \in {"failed", "stopped"}
  /\ teardown' = (IF stage = "failed" /\ "renderer" \notin parts THEN <<>> ELSE ShutdownOrder) \o MemberOrder
  /\ stage' = "teardown"
  /\ UNCHANGED <<memory, parts>>
  /\ Disk
Destroy ==
  /\ stage = "teardown"
  /\ \/ /\ \A i \in DOMAIN teardown : teardown[i] \notin parts
        /\ stage' = "exited" /\ teardown' = <<>> /\ UNCHANGED parts
     \/ \E i \in DOMAIN teardown :
          /\ teardown[i] \in parts
          /\ \A j \in 1..(i - 1) : teardown[j] \notin parts
          /\ parts' = parts \ {teardown[i]}
          /\ teardown' = SubSeq(teardown, i + 1, Len(teardown))
          /\ UNCHANGED stage
  /\ UNCHANGED memory
  /\ Disk

\* The player starts the program again, after its end or after it was killed.
Restart ==
  /\ settings' = None /\ root' = None /\ loaded' = Empty
  /\ parts' = {} /\ teardown' = <<>>
  /\ stage' = "settings"
  /\ Disk
-----------------------------------------------------------------------------
Init ==
  /\ \/ (\E group \in Contents : files \in group) /\ disk = Settings(Defaults) /\ roots = {<<"program", "Default">>}
     \/ files \in BaseContents /\ disk \in UserFiles \cup {Absent} /\ roots \in RootSets
  /\ temporary = Absent
  /\ settings = None /\ root = None /\ loaded = Empty
  /\ parts = {} /\ teardown = <<>>
  /\ stage = "settings"

Next ==
  \/ LoadSettings \/ CallFails \/ MakeDirectory \/ OpenTemporary \/ WriteTemporary
  \/ CloseTemporary \/ Rename \/ Remove \/ RenameAgain
  \/ ResolveContentRoot \/ LoadUi
  \/ FileFails \/ FileEscapes \/ FileSkipped
  \/ ParseBlock \/ ParseBiome \/ ParseResource \/ CheckResourceLinks \/ BuildBlockIds
  \/ ParseSidecar \/ ParsePrototype \/ BuildHandles
  \/ ParseScript \/ ParseHandler \/ ParseBootstrap
  \/ CreateWindow \/ CreateInput \/ InitializeRenderer \/ LoadWorldGen \/ StartStreaming
  \/ InitializeWorldRenderer \/ InitializeSelection
  \/ Stop \/ Shutdown \/ Destroy \/ Restart

Spec == Init /\ [][Next]_vars
-----------------------------------------------------------------------------
(* Properties.                                                             *)

\* What the files of a content root name is there: the blocks of biomes,
\* resources and prototypes, the resource of a biome, the sidecar type of a
\* property, which belongs to blocks and holds the default that the prototype
\* gives it (as a type holds its own), the block of a placement, which has a
\* runtime id and is not air, the placements that an invocation is aimed at and
\* speaks of, and the script of a handler and of an invocation.  No block has two
\* prototypes, air is the first runtime id, and every block and prototype has one
\* of its own (RegistryLoader, BlockIdTable, PrototypeIdTable,
\* GameplayContentRuntime).  That the tint property of a block exists is not
\* said: parseBlocks looks only at its name.
ReferencesResolve ==
  LET blocks == Ids(loaded.blocks)
      Holds(p) == /\ p["id"][2] \in Ids(loaded.sidecars)
                  /\ LET def == Find(loaded.sidecars, p["id"][2])
                     IN /\ def["scope"][2] = "block"
                        /\ valueFitsSidecarDef(def, AsType(def["valueType"][2], p["defaultValue"]))
      Placeable(p) == \E i \in DOMAIN loaded.blockIds : i > 1 /\ loaded.blockIds[i] = p["block"][2]
      Distinct(s) == \A i, j \in DOMAIN s : s[i] = s[j] => i = j
      Knows(e) == e["script"][2] \in Ids(loaded.scripts)
  IN /\ \A i \in DOMAIN loaded.biomes :
          LET e == loaded.biomes[i]
          IN /\ {e["surfaceBlock"][2], e["fillerBlock"][2]} \subseteq blocks
             /\ loaded.blockIds # <<>> /\ "resourceId" \in DOMAIN e =>
                  e["resourceId"][2] \in {""} \cup Ids(loaded.resources)
     /\ \A i \in DOMAIN loaded.resources : loaded.resources[i]["blockId"][2] \in blocks
     /\ \A i \in DOMAIN loaded.sidecars :
          valueFitsSidecarDef(loaded.sidecars[i], loaded.sidecars[i]["defaultValue"])
     /\ \A i \in DOMAIN loaded.prototypes :
          LET e == loaded.prototypes[i]
          IN /\ e["blockId"][2] \in blocks
             /\ \A j \in DOMAIN loaded.prototypes : loaded.prototypes[j]["blockId"] = e["blockId"] => i = j
             /\ "properties" \in DOMAIN e =>
                  \A k \in DOMAIN e["properties"][2] : Holds(e["properties"][2][k][2])
     /\ \A i \in DOMAIN loaded.handlers : Knows(loaded.handlers[i])
     /\ \A i \in DOMAIN loaded.bootstraps :
          LET e == loaded.bootstraps[i]
          IN /\ Knows(e["invoke"][2])
             /\ \A f \in {"target", "payloadTarget"} \cap DOMAIN e["invoke"][2] :
                  e["invoke"][2][f][2] \in PlacementIds(e)
             /\ \A k \in DOMAIN e["placements"][2] : Placeable(e["placements"][2][k][2])
     /\ loaded.blockIds # <<>> =>
          /\ loaded.blockIds[1] = "core:air"
          /\ Distinct(loaded.blockIds) /\ {loaded.blockIds[i] : i \in DOMAIN loaded.blockIds} = blocks
     /\ Distinct(loaded.handles)

\* A number that is registered is the number that the file says, also when it
\* says one that the type cannot hold (requireUint32, requireInt32 and the
\* defaults of sidecar types).
RegisteredAsWritten ==
  \A name \in {"blocks", "resources", "sidecars"} : \A i \in DOMAIN loaded[name] :
    LET written == Entries(name)[i]
    IN \A f \in DOMAIN written :
         written[f][1] \in {"int", "real"} => Says(loaded[name][i][f]) = Says(written[f])

\* A block through which others are seen hides no face of its neighbours, and
\* only a blended one is drawn with the transparent blocks (the alpha rules of
\* parseBlocks, which the mesh builder relies on).
SeeThroughHidesNothing ==
  \A i \in DOMAIN loaded.blocks :
    LET d == loaded.blocks[i]
    IN /\ AlphaMode(d) # "opaque" \/ Refracts(d) => ~d["opaque"][2]
       /\ AlphaMode(d) = "mask" => ~d["transparent"][2]

\* What each part refers to.
Needs == [gameplay |-> {"worldState", "worldGen"}, streaming |-> {"worldGen"},
          worldRenderer |-> {"renderer"}, selectionRenderer |-> {"renderer"},
          renderer |-> {"platform"}, input |-> {"platform"}]
Core == {"platform", "input", "renderer", "worldRenderer", "selectionRenderer"}
World == {"prototypeIds", "worldState", "interaction", "worldGen", "streaming"}

\* Whatever fails in the middle of the start, no part outlives one that it
\* refers to; the program runs with all its parts or, without content, with
\* those that need none; and at its end none is left (initialize,
\* initializeWorld, shutdown and the order of the members in Application.h).
PartsHaveTheirNeeds ==
  /\ \A part \in parts \cap DOMAIN Needs : Needs[part] \subseteq parts
  /\ stage = "running" =>
       /\ Core \subseteq parts
       /\ IF root = None THEN parts = Core
          ELSE parts \ {"gameplay"} = Core \cup World
                 /\ ("gameplay" \in parts <=> files.scripts.state = "whole")
  /\ stage = "exited" => parts = {}

\* A settings file that is there, whoever wrote it and whether or not the program
\* can read it, is never replaced by a start (loadOrCreateSettings).
UserFileKept == [][disk' # disk => disk = Absent]_vars

\* settings.json is not there or complete: "writes a complete default settings
\* file atomically before continuing startup" (docs/SETTINGS.md).
SettingsWhole == disk # Torn

\* The tables of the content in one invariant.
ContentInv == ReferencesResolve /\ SeeThroughHidesNothing
=============================================================================
