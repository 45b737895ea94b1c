----------------------------- MODULE StartupProofs -----------------------------
(***************************************************************************)
(* What a start of the program never does, whatever fails in it and however*)
(* often it is killed: it never replaces a settings file that is there     *)
(* (SettingsKept), and no part of the program outlives one that it refers  *)
(* to (PartsHold).  What the content that it reads names is there          *)
(* (ContentResolves), and a number is registered as the file says it       *)
(* (NumbersKept).  For every content and every file that a user may have   *)
(* written.                                                                *)
(***************************************************************************)
EXTENDS Startup, TLAPS

Saving == {"make directory", "open", "write", "close", "rename", "remove", "rename again"}

\* The save runs only where the load found no file.  Without this the rename of
\* a save would be a step that may hit any file.
SavesWhatIsAbsent == stage \in Saving => disk = Absent

Kept == /\ SavesWhatIsAbsent'
        /\ disk' # disk => disk = Absent

\* Steps that touch no file and do not lead into a save.
LEMMA ElsewhereKept ==
  ASSUME SavesWhatIsAbsent, Disk, stage' \notin Saving \/ stage' = stage
  PROVE  Kept
BY DEF Kept, SavesWhatIsAbsent, Disk

LEMMA SavingKept ==
  ASSUME SavesWhatIsAbsent,
         \/ LoadSettings \/ CallFails \/ MakeDirectory \/ OpenTemporary \/ WriteTemporary
         \/ CloseTemporary \/ Rename \/ Remove \/ RenameAgain
  PROVE  Kept
<1> USE DEF Kept, SavesWhatIsAbsent, Saving
<1>1. CASE LoadSettings
  BY <1>1 DEF LoadSettings, Continue, Fail
<1>2. CASE CallFails
  BY <1>2 DEF CallFails, Fail
<1>3. CASE MakeDirectory \/ OpenTemporary \/ WriteTemporary \/ CloseTemporary
  BY <1>3 DEF MakeDirectory, OpenTemporary, WriteTemporary, CloseTemporary, Continue
<1>4. CASE Rename
  BY <1>4 DEF Rename, Installed, Continue
<1>5. CASE Remove
  BY <1>5 DEF Remove, Continue
<1>6. CASE RenameAgain
  BY <1>6 DEF RenameAgain, Installed, Continue
<1> QED
  BY <1>1, <1>2, <1>3, <1>4, <1>5, <1>6

LEMMA ContentKept ==
  ASSUME SavesWhatIsAbsent,
         \/ FileFails \/ FileEscapes \/ FileSkipped
         \/ ParseBlock \/ ParseBiome \/ ParseResource \/ CheckResourceLinks \/ BuildBlockIds
         \/ ParseSidecar \/ ParsePrototype \/ BuildHandles
         \/ ParseScript \/ ParseHandler \/ ParseBootstrap
  PROVE  Kept
<1> USE DEF Fail, Terminate, Continue
<1>1. CASE FileFails \/ FileEscapes
  BY <1>1, ElsewhereKept DEF FileFails, FileEscapes, Saving
<1>2. CASE FileSkipped
  <2>1. Disk /\ stage' \in {"prototypes", "handles", "streaming"}
    BY <1>2 DEF FileSkipped
  <2> QED
    BY <2>1, ElsewhereKept DEF Saving
<1>3. ASSUME NEW name, NEW def, NEW next, next \notin Saving, Parse(name, def, next)
      PROVE  Kept
  BY <1>3, ElsewhereKept DEF Parse, Insert, Load, Saving
<1>4. CASE ParseBlock
  <2>1. "biomes" \notin Saving
    BY DEF Saving
  <2> QED
    BY <1>3, <1>4, <2>1 DEF ParseBlock
<1>5. CASE ParseBiome
  <2>1. "resources" \notin Saving
    BY DEF Saving
  <2> QED
    BY <1>3, <1>5, <2>1 DEF ParseBiome
<1>6. CASE ParseResource
  <2>1. "links" \notin Saving
    BY DEF Saving
  <2> QED
    BY <1>3, <1>6, <2>1 DEF ParseResource
<1>7. CASE ParseSidecar
  <2>1. "prototypes" \notin Saving
    BY DEF Saving
  <2> QED
    BY <1>3, <1>7, <2>1 DEF ParseSidecar
<1>8. CASE ParsePrototype
  <2>1. "handles" \notin Saving
    BY DEF Saving
  <2> QED
    BY <1>3, <1>8, <2>1 DEF ParsePrototype
<1>9. CASE CheckResourceLinks
  BY <1>9, ElsewhereKept DEF CheckResourceLinks, Saving
<1>10. CASE BuildBlockIds \/ BuildHandles
  BY <1>10, ElsewhereKept DEF BuildBlockIds, BuildHandles, Saving
<1>11. CASE ParseScript
  BY <1>11, ElsewhereKept DEF ParseScript, Load, Saving
<1>12. CASE ParseHandler
  BY <1>12, ElsewhereKept DEF ParseHandler, Load, Saving
<1>13. CASE ParseBootstrap
  BY <1>13, ElsewhereKept DEF ParseBootstrap, Load, Saving
<1> QED
  BY <1>1, <1>2, <1>4, <1>5, <1>6, <1>7, <1>8, <1>9, <1>10, <1>11, <1>12, <1>13

LEMMA PartsKept ==
  ASSUME SavesWhatIsAbsent,
         \/ ResolveContentRoot \/ LoadUi
         \/ CreateWindow \/ CreateInput \/ InitializeRenderer \/ LoadWorldGen \/ StartStreaming
         \/ InitializeWorldRenderer \/ InitializeSelection
         \/ Stop \/ Shutdown \/ Destroy \/ Restart
  PROVE  Kept
<1> USE DEF Fail, Continue, Make
<1>1. CASE ResolveContentRoot
  <2>1. Disk /\ stage' \in {"window", "ui"}
    BY <1>1 DEF ResolveContentRoot, Disk
  <2> QED
    BY <2>1, ElsewhereKept DEF Saving
<1>2. CASE LoadUi
  <2>1. Disk /\ stage' \in {"window", "failed"}
    BY <1>2 DEF LoadUi, Disk
  <2> QED
    BY <2>1, ElsewhereKept DEF Saving
<1>3. CASE CreateWindow \/ CreateInput
  BY <1>3, ElsewhereKept DEF CreateWindow, CreateInput, Saving
<1>4. CASE InitializeRenderer
  <2>1. Disk /\ stage' \in {"world renderer", "blocks", "failed"}
    BY <1>4 DEF InitializeRenderer
  <2> QED
    BY <2>1, ElsewhereKept DEF Saving
<1>5. CASE LoadWorldGen \/ StartStreaming
  BY <1>5, ElsewhereKept DEF LoadWorldGen, StartStreaming, Saving
<1>6. CASE InitializeWorldRenderer \/ InitializeSelection
  BY <1>6, ElsewhereKept DEF InitializeWorldRenderer, InitializeSelection, Saving
<1>7. CASE Stop \/ Shutdown
  BY <1>7, ElsewhereKept DEF Stop, Shutdown, Saving
<1>8. CASE Destroy
  BY <1>8, ElsewhereKept DEF Destroy, Saving
<1>9. CASE Restart
  BY <1>9, ElsewhereKept DEF Restart, Saving
<1> QED
  BY <1>1, <1>2, <1>3, <1>4, <1>5, <1>6, <1>7, <1>8, <1>9

LEMMA KeptNext == SavesWhatIsAbsent /\ [Next]_vars => Kept
<1>1. ASSUME SavesWhatIsAbsent, Next
      PROVE  Kept
  BY <1>1, SavingKept, ContentKept, PartsKept DEF Next
<1>2. ASSUME SavesWhatIsAbsent, UNCHANGED vars
      PROVE  Kept
  BY <1>2, ElsewhereKept DEF vars, Disk
<1> QED
  BY <1>1, <1>2

\* A settings file that is there, whoever wrote it and whether or not the program
\* can read it, is never replaced by a start (loadOrCreateSettings).
THEOREM SettingsKept == Spec => UserFileKept
<1>1. Init => SavesWhatIsAbsent
  BY DEF Init, SavesWhatIsAbsent, Saving
<1>2. SavesWhatIsAbsent /\ [Next]_vars => SavesWhatIsAbsent'
  BY KeptNext DEF Kept
<1>3. SavesWhatIsAbsent /\ [Next]_vars => [disk' # disk => disk = Absent]_vars
  BY KeptNext DEF Kept
<1> QED
  BY <1>1, <1>2, <1>3, PTL DEF Spec, UserFileKept

-----------------------------------------------------------------------------
(* Which parts there are.                                                  *)

Early == Saving \cup {"settings", "content root", "ui", "window"}
Tables == {"blocks", "biomes", "resources", "links", "block ids", "sidecars", "prototypes", "handles"}
Gameplay == {"scripts", "handlers", "bootstraps"}
Base == {"platform", "input", "renderer"}
State == Base \cup {"prototypeIds", "worldState", "interaction"}

\* The parts of the picture, with those of the world where there is content.
Complete(picture) ==
  IF root = None THEN parts = picture
  ELSE /\ parts \ {"gameplay"} = picture \cup World
       /\ "gameplay" \in parts <=> files.scripts.state = "whole"

\* Each step of the start knows what the steps before it made.
PartsByStage ==
  /\ stage \in Early \cup {"exited", "terminated"} => parts = {}
  /\ stage = "input" => parts = {"platform"}
  /\ stage \in Tables \cup {"renderer"} => parts = Base
  /\ stage = "worldgen" => parts = State
  /\ stage \in Gameplay => parts = State \cup {"worldGen"}
  /\ stage = "streaming" => /\ parts \ {"gameplay"} = State \cup {"worldGen"}
                            /\ "gameplay" \in parts <=> files.scripts.state = "whole"
  /\ stage = "world renderer" => Complete(Base)
  /\ stage = "selection" => Complete(Base \cup {"worldRenderer"})
  /\ stage \in {"running", "stopped"} => Complete(Core)
  /\ stage \in {"handlers", "bootstraps"} => files.scripts.state = "whole"
  /\ stage \in Tables \cup Gameplay \cup {"worldgen", "streaming"} => root # None

Parts == Core \cup World \cup {"gameplay"}

NeedsMet == /\ parts \subseteq Core \cup World \cup {"gameplay"}
            /\ \A part \in parts \cap DOMAIN Needs : Needs[part] \subseteq parts

\* A start that fails before the renderer has nothing that refers to the world:
\* the order of the members alone would destroy the world under the gameplay.
FailedEarly == stage = "failed" /\ "renderer" \notin parts => parts \subseteq {"platform", "input"}

\* What is left is destroyed, and what refers to a part goes before it.
TeardownOrdered ==
  stage = "teardown" =>
    /\ \A part \in parts : \E i \in DOMAIN teardown : teardown[i] = part
    /\ \A i \in DOMAIN teardown : \A part \in parts \cap DOMAIN Needs :
         teardown[i] \in Needs[part] => \E j \in 1..(i - 1) : teardown[j] = part

PartsInv == PartsByStage /\ NeedsMet /\ FailedEarly /\ TeardownOrdered /\ teardown \in Seq(Parts)

\* A step within a stage.
LEMMA StaysParts ==
  ASSUME PartsInv, UNCHANGED <<parts, teardown, stage, root, files>>
  PROVE  PartsInv'
<1>1. \A picture : Complete(picture)' <=> Complete(picture)
  BY DEF Complete
<1>2. PartsByStage'
  BY <1>1 DEF PartsInv, PartsByStage
<1>3. NeedsMet' /\ FailedEarly'
  BY DEF PartsInv, NeedsMet, FailedEarly
<1>4. TeardownOrdered'
  BY DEF PartsInv, TeardownOrdered
<1> QED
  BY <1>2, <1>3, <1>4 DEF PartsInv

\* A step that fails.
LEMMA FailsParts ==
  ASSUME PartsInv, UNCHANGED <<parts, teardown>>, stage' = "failed",
         "renderer" \in parts \/ parts \subseteq {"platform", "input"}
  PROVE  PartsInv'
BY DEF PartsInv, PartsByStage, NeedsMet, FailedEarly, TeardownOrdered, Early, Tables, Gameplay, Saving

\* A step after which there are no parts.
LEMMA GoneParts ==
  ASSUME parts' = {}, stage' \in Early \cup {"failed", "terminated", "exited"}, teardown' \in Seq(Parts)
  PROVE  PartsInv'
BY DEF PartsInv, PartsByStage, NeedsMet, FailedEarly, TeardownOrdered, Early, Tables, Gameplay, Saving

\* A step from one table to the next.
LEMMA TablesParts ==
  ASSUME PartsInv, stage \in Tables, stage' \in Tables, UNCHANGED <<parts, teardown, root>>
  PROVE  PartsInv'
BY DEF PartsInv, PartsByStage, NeedsMet, FailedEarly, TeardownOrdered, Early, Tables, Gameplay, Saving

LEMMA EarlyParts ==
  ASSUME PartsInv,
         \/ LoadSettings \/ CallFails \/ MakeDirectory \/ OpenTemporary \/ WriteTemporary
         \/ CloseTemporary \/ Rename \/ Remove \/ RenameAgain \/ ResolveContentRoot \/ LoadUi
  PROVE  PartsInv'
<1>1. stage \in Early /\ stage' \in Early \cup {"failed"} /\ UNCHANGED <<parts, teardown>>
  BY DEF LoadSettings, CallFails, MakeDirectory, OpenTemporary, WriteTemporary, CloseTemporary, Rename,
     Installed, Remove, RenameAgain, ResolveContentRoot, LoadUi, Fail, Continue, Early, Saving
<1>2. parts' = {} /\ teardown' \in Seq(Parts)
  BY <1>1 DEF PartsInv, PartsByStage
<1> QED
  BY <1>1, <1>2, GoneParts

\* In every stage of the content the renderer is there.
LEMMA ContentFails ==
  ASSUME PartsInv, stage \in Tables \cup Gameplay \cup {"worldgen"}, Fail
  PROVE  PartsInv'
<1>1. "renderer" \in parts
  BY DEF PartsInv, PartsByStage, Tables, Gameplay, Base, State
<1> QED
  BY <1>1, FailsParts DEF Fail

\* Registry files are parsed with what the start had before them.
LEMMA ParseParts ==
  ASSUME PartsInv, NEW name \in Tables, NEW next \in Tables, NEW def, Parse(name, def, next)
  PROVE  PartsInv'
<1>1. stage = name /\ Disk
  BY DEF Parse, Reading
<1>2. CASE Continue(next) /\ UNCHANGED memory
  BY <1>1, <1>2, TablesParts DEF Continue, memory
<1>3. CASE Insert(name, def)
  <2>1. CASE Fail
    BY <1>1, <2>1, ContentFails
  <2>2. CASE ~Fail
    BY <1>1, <1>3, <2>2, StaysParts DEF Insert, Load, Disk, content
  <2> QED
    BY <2>1, <2>2
<1> QED
  BY <1>2, <1>3 DEF Parse

LEMMA TableStepParts ==
  ASSUME PartsInv,
         \/ FileFails \/ FileEscapes \/ FileSkipped
         \/ ParseBlock \/ ParseBiome \/ ParseResource \/ CheckResourceLinks \/ BuildBlockIds
         \/ ParseSidecar \/ ParsePrototype
  PROVE  PartsInv'
<1>1. CASE FileFails
  <2>1. stage \in Tables \cup Gameplay /\ Fail
    BY <1>1 DEF FileFails, Tables, Gameplay
  <2> QED
    BY <2>1, ContentFails
<1>2. ASSUME Terminate
      PROVE  PartsInv'
  BY <1>2, GoneParts DEF Terminate, PartsInv
<1>3. CASE FileSkipped
  <2>1. /\ UNCHANGED <<parts, teardown, root, files>>
        /\ \/ stage \in {"sidecars", "prototypes"} /\ stage' \in {"prototypes", "handles"}
           \/ stage = "scripts" /\ stage' = "streaming" /\ files.scripts.state = "missing"
    BY <1>3 DEF FileSkipped, Continue, memory, Disk, content
  <2>2. CASE stage \in {"sidecars", "prototypes"} /\ stage' \in {"prototypes", "handles"}
    BY <2>1, <2>2, TablesParts DEF Tables
  <2>3. CASE stage = "scripts" /\ stage' = "streaming" /\ files.scripts.state = "missing"
    <3>1. parts' = State \cup {"worldGen"} /\ files' = files /\ root' # None
      BY <2>1, <2>3 DEF PartsInv, PartsByStage, Gameplay
    <3>2. PartsByStage'
      BY <2>3, <3>1 DEF PartsByStage, Early, Saving, Tables, Gameplay, State, Base
    <3>3. NeedsMet' /\ FailedEarly' /\ TeardownOrdered' /\ teardown' \in Seq(Parts)
      BY <2>1, <2>3 DEF PartsInv, NeedsMet, FailedEarly, TeardownOrdered
    <3> QED
      BY <3>2, <3>3 DEF PartsInv
  <2> QED
    BY <2>1, <2>2, <2>3
<1>4. CASE \/ ParseBlock \/ ParseBiome \/ ParseResource \/ ParseSidecar \/ ParsePrototype
  <2>1. {"blocks", "biomes", "resources", "links", "sidecars", "prototypes", "handles"} \subseteq Tables
    BY DEF Tables
  <2> QED
    BY <1>4, <2>1, ParseParts DEF ParseBlock, ParseBiome, ParseResource, ParseSidecar, ParsePrototype
<1>5. CASE CheckResourceLinks
  <2>1. stage = "links" /\ (Fail \/ (Continue("block ids") /\ UNCHANGED memory))
    BY <1>5 DEF CheckResourceLinks
  <2>2. "links" \in Tables /\ "block ids" \in Tables
    BY DEF Tables
  <2> QED
    BY <2>1, <2>2, ContentFails, TablesParts DEF Continue, memory
<1>6. CASE BuildBlockIds
  <2>1. stage = "block ids" /\ (Terminate \/ (Continue("sidecars") /\ root' = root))
    BY <1>6 DEF BuildBlockIds
  <2>2. "block ids" \in Tables /\ "sidecars" \in Tables
    BY DEF Tables
  <2> QED
    BY <1>2, <2>1, <2>2, TablesParts DEF Continue
<1> QED
  BY <1>1, <1>2, <1>3, <1>4, <1>5, <1>6 DEF FileEscapes

LEMMA GameplayParts ==
  ASSUME PartsInv, ParseScript \/ ParseHandler \/ ParseBootstrap
  PROVE  PartsInv'
<1>1. stage \in Gameplay /\ UNCHANGED <<teardown, root, files>>
  BY DEF ParseScript, ParseHandler, ParseBootstrap, Reading, Gameplay, Continue, memory, Fail, Load,
     Disk, content
<1>2. parts = State \cup {"worldGen"} /\ root # None
  BY <1>1 DEF PartsInv, PartsByStage
<1>3. \/ Fail
      \/ UNCHANGED <<parts, stage>>
      \/ stage \in {"scripts", "handlers"} /\ stage' \in {"handlers", "bootstraps"}
           /\ files.scripts.state = "whole" /\ parts' = parts
      \/ files.scripts.state = "whole" /\ stage' = "streaming" /\ parts' = parts \cup {"gameplay"}
  BY DEF PartsInv, PartsByStage, ParseScript, ParseHandler, ParseBootstrap, Reading, IsWhole, Continue, Load
<1>4. CASE Fail
  BY <1>1, <1>4, ContentFails
<1>5. CASE UNCHANGED <<parts, stage>>
  BY <1>1, <1>5, StaysParts
<1>6. CASE /\ stage \in {"scripts", "handlers"} /\ stage' \in {"handlers", "bootstraps"}
           /\ files.scripts.state = "whole" /\ parts' = parts
  <2>1. PartsByStage'
    BY <1>1, <1>2, <1>6 DEF PartsByStage, Early, Saving, Tables, Gameplay
  <2>2. NeedsMet' /\ FailedEarly' /\ TeardownOrdered' /\ teardown' \in Seq(Parts)
    BY <1>1, <1>6 DEF PartsInv, NeedsMet, FailedEarly, TeardownOrdered
  <2> QED
    BY <2>1, <2>2 DEF PartsInv
<1>7. CASE files.scripts.state = "whole" /\ stage' = "streaming" /\ parts' = parts \cup {"gameplay"}
  <2>1. PartsByStage'
    BY <1>1, <1>2, <1>7 DEF PartsByStage, Early, Saving, Tables, Gameplay, State, Base
  <2>2. NeedsMet'
    BY <1>2, <1>7 DEF PartsInv, NeedsMet, Needs, State, Base
  <2>3. FailedEarly' /\ TeardownOrdered' /\ teardown' \in Seq(Parts)
    BY <1>1, <1>7 DEF PartsInv, FailedEarly, TeardownOrdered
  <2> QED
    BY <2>1, <2>2, <2>3 DEF PartsInv
<1> QED
  BY <1>3, <1>4, <1>5, <1>6, <1>7

\* A step that makes parts of which the others do not know yet.
LEMMA MadeParts ==
  ASSUME PartsInv, PartsByStage', UNCHANGED teardown, stage' \notin {"failed", "teardown"},
         parts' \subseteq Core \cup World \cup {"gameplay"},
         \A part \in parts' \cap DOMAIN Needs : Needs[part] \subseteq parts'
  PROVE  PartsInv'
BY DEF PartsInv, NeedsMet, FailedEarly, TeardownOrdered

LEMMA WorldParts ==
  ASSUME PartsInv, BuildHandles \/ LoadWorldGen \/ StartStreaming
  PROVE  PartsInv'
<1> USE DEF Early, Saving, Tables, Gameplay
<1>1. CASE BuildHandles
  <2>1. CASE Terminate
    BY <2>1, GoneParts DEF Terminate, PartsInv
  <2>2. CASE ~Terminate
    <3>1. /\ parts = Base /\ root # None
          /\ parts' = parts \cup {"prototypeIds", "worldState", "interaction"} /\ stage' = "worldgen"
          /\ UNCHANGED <<root, teardown>>
      BY <1>1, <2>2 DEF BuildHandles, PartsInv, PartsByStage
    <3>2. PartsByStage'
      BY <3>1 DEF PartsByStage, State
    <3>3. /\ parts' \subseteq Core \cup World \cup {"gameplay"}
          /\ \A part \in parts' \cap DOMAIN Needs : Needs[part] \subseteq parts'
      BY <3>1 DEF Base, Core, World, Needs
    <3> QED
      BY <3>1, <3>2, <3>3, MadeParts
  <2> QED
    BY <2>1, <2>2
<1>2. CASE LoadWorldGen
  <2>1. stage = "worldgen" /\ parts = State /\ root # None
    BY <1>2 DEF LoadWorldGen, PartsInv, PartsByStage
  <2>2. CASE Fail
    BY <2>1, <2>2, ContentFails
  <2>3. CASE parts' = parts \cup {"worldGen"} /\ stage' = "scripts" /\ UNCHANGED <<memory, teardown>>
    <3>1. PartsByStage'
      BY <2>1, <2>3 DEF PartsByStage, memory
    <3>2. /\ parts' \subseteq Core \cup World \cup {"gameplay"}
          /\ \A part \in parts' \cap DOMAIN Needs : Needs[part] \subseteq parts'
      BY <2>1, <2>3 DEF State, Base, Core, World, Needs
    <3> QED
      BY <2>3, <3>1, <3>2, MadeParts
  <2> QED
    BY <1>2, <2>2, <2>3 DEF LoadWorldGen
<1>3. CASE StartStreaming
  <2>1. /\ parts \ {"gameplay"} = State \cup {"worldGen"} /\ root # None
        /\ "gameplay" \in parts <=> files.scripts.state = "whole"
    BY <1>3 DEF StartStreaming, PartsInv, PartsByStage
  <2>2. /\ parts' = parts \cup {"streaming"} /\ stage' = "world renderer"
        /\ UNCHANGED <<root, files, teardown>>
    BY <1>3 DEF StartStreaming, memory, Disk, content
  <2>3. parts' \ {"gameplay"} = Base \cup World
    BY <2>1, <2>2 DEF State, World
  <2>4. "gameplay" \in parts' <=> files'.scripts.state = "whole"
    BY <2>1, <2>2
  <2>5. PartsByStage'
    BY <2>1, <2>2, <2>3, <2>4 DEF PartsByStage, Complete
  <2>6. /\ parts' \subseteq Core \cup World \cup {"gameplay"}
        /\ \A part \in parts' \cap DOMAIN Needs : Needs[part] \subseteq parts'
    BY <2>3 DEF Base, Core, World, Needs
  <2> QED
    BY <2>2, <2>5, <2>6, MadeParts
<1> QED
  BY <1>1, <1>2, <1>3

LEMMA CompleteGrows ==
  ASSUME NEW picture, Complete(picture), NEW part \in {"worldRenderer", "selectionRenderer"},
         parts' = parts \cup {part}, UNCHANGED <<root, files>>
  PROVE  Complete(picture \cup {part})'
<1>1. CASE root = None
  BY <1>1 DEF Complete
<1>2. CASE root # None
  <2>1. parts \ {"gameplay"} = picture \cup World
    BY <1>2 DEF Complete
  <2>2. "gameplay" \in parts <=> files.scripts.state = "whole"
    BY <1>2 DEF Complete
  <2>3. parts' \ {"gameplay"} = (picture \cup {part}) \cup World
    BY <2>1
  <2>4. "gameplay" \in parts' <=> "gameplay" \in parts
    OBVIOUS
  <2>5. "gameplay" \in parts' <=> files'.scripts.state = "whole"
    BY <2>2, <2>4
  <2>6. root' # None
    BY <1>2
  <2> QED
    BY <2>3, <2>5, <2>6 DEF Complete
<1> QED
  BY <1>1, <1>2

LEMMA NeedsGrow ==
  ASSUME NeedsMet, "renderer" \in parts, NEW part \in {"worldRenderer", "selectionRenderer"},
         parts' = parts \cup {part}
  PROVE  NeedsMet'
<1>1. parts' \subseteq Core \cup World \cup {"gameplay"}
  BY DEF NeedsMet, Core
<1>2. Needs[part] = {"renderer"}
  BY DEF Needs
<1>3. ASSUME NEW p \in parts' \cap DOMAIN Needs
      PROVE  Needs[p] \subseteq parts'
  <2>1. CASE p = part
    BY <1>2, <2>1
  <2>2. CASE p # part
    BY <2>2 DEF NeedsMet
  <2> QED
    BY <2>1, <2>2
<1>4. \A p \in parts' \cap DOMAIN Needs : Needs[p] \subseteq parts'
  BY <1>3
<1> QED
  BY <1>1, <1>4 DEF NeedsMet

LEMMA PictureParts ==
  ASSUME PartsInv,
         \/ CreateWindow \/ CreateInput \/ InitializeRenderer
         \/ InitializeWorldRenderer \/ InitializeSelection \/ Stop
  PROVE  PartsInv'
<1> USE DEF Early, Saving, Tables, Gameplay
<1>0. UNCHANGED <<root, files, teardown>>
  BY DEF CreateWindow, CreateInput, InitializeRenderer, InitializeWorldRenderer, InitializeSelection,
     Stop, Make, Continue, memory, Disk, content
<1>1. CASE CreateWindow
  <2>1. parts' = {"platform"} /\ stage' \in {"input", "failed"}
    BY <1>1 DEF CreateWindow, Make, PartsInv, PartsByStage
  <2>2. PartsByStage'
    BY <2>1 DEF PartsByStage
  <2>3. NeedsMet'
    BY <2>1 DEF NeedsMet, Needs, Core
  <2> QED
    BY <1>0, <2>1, <2>2, <2>3 DEF PartsInv, FailedEarly, TeardownOrdered
<1>2. CASE CreateInput
  <2>1. parts' = Base /\ stage' = "renderer"
    BY <1>2 DEF CreateInput, PartsInv, PartsByStage, Base
  <2>2. PartsByStage'
    BY <2>1 DEF PartsByStage
  <2>3. NeedsMet'
    BY <2>1 DEF NeedsMet, Needs, Core, Base
  <2> QED
    BY <1>0, <2>1, <2>2, <2>3 DEF PartsInv, FailedEarly, TeardownOrdered
<1>3. CASE InitializeRenderer
  <2>1. /\ parts' = Base
        /\ stage' \in {IF root = None THEN "world renderer" ELSE "blocks", "failed"}
    BY <1>3 DEF InitializeRenderer, Make, PartsInv, PartsByStage, Base
  <2>2. PartsByStage'
    BY <1>0, <2>1 DEF PartsByStage, Complete
  <2>3. NeedsMet'
    <3>1. parts' = Base
      BY <2>1
    <3> QED
      BY <3>1 DEF NeedsMet, Needs, Core, Base
  <2>4. "renderer" \in parts'
    BY <2>1 DEF Base
  <2>5. stage' # "teardown"
    BY <2>1
  <2> QED
    BY <1>0, <2>2, <2>3, <2>4, <2>5 DEF PartsInv, FailedEarly, TeardownOrdered
<1>4. CASE InitializeWorldRenderer
  <2>1. /\ Complete(Base) /\ "renderer" \in parts /\ parts' = parts \cup {"worldRenderer"}
        /\ stage' \in {"selection", "failed"}
    BY <1>4 DEF InitializeWorldRenderer, Make, PartsInv, PartsByStage, Complete, Base
  <2>2. Complete(Base \cup {"worldRenderer"})'
    BY <1>0, <2>1, CompleteGrows
  <2>3. PartsByStage'
    BY <2>1, <2>2 DEF PartsByStage
  <2>4. NeedsMet'
    BY <2>1, NeedsGrow DEF PartsInv
  <2> QED
    BY <1>0, <2>1, <2>3, <2>4 DEF PartsInv, FailedEarly, TeardownOrdered
<1>5. CASE InitializeSelection
  <2>1. /\ Complete(Base \cup {"worldRenderer"}) /\ "renderer" \in parts
        /\ parts' = parts \cup {"selectionRenderer"} /\ stage' \in {"running", "failed"}
    BY <1>5 DEF InitializeSelection, Make, PartsInv, PartsByStage, Complete, Base
  <2>2. Complete((Base \cup {"worldRenderer"}) \cup {"selectionRenderer"})'
    BY <1>0, <2>1, CompleteGrows
  <2>3. (Base \cup {"worldRenderer"}) \cup {"selectionRenderer"} = Core
    BY DEF Base, Core
  <2>4. Complete(Core)'
    BY <2>2, <2>3
  <2>5. PartsByStage'
    BY <2>1, <2>4 DEF PartsByStage
  <2>6. NeedsMet'
    BY <2>1, NeedsGrow DEF PartsInv
  <2> QED
    BY <1>0, <2>1, <2>5, <2>6 DEF PartsInv, FailedEarly, TeardownOrdered
<1>6. CASE Stop
  <2>1. stage = "running" /\ stage' = "stopped" /\ parts' = parts
    BY <1>6 DEF Stop, Continue
  <2>2. Complete(Core)'
    BY <1>0, <2>1 DEF PartsInv, PartsByStage, Complete
  <2>3. PartsByStage'
    BY <2>1, <2>2 DEF PartsByStage
  <2>4. NeedsMet'
    BY <2>1 DEF PartsInv, NeedsMet
  <2> QED
    BY <1>0, <2>1, <2>3, <2>4 DEF PartsInv, FailedEarly, TeardownOrdered
<1> QED
  BY <1>1, <1>2, <1>3, <1>4, <1>5, <1>6

\* Where the parts are in the two orders.
LEMMA ShutdownOrderIs ==
  /\ ShutdownOrder \in Seq(Parts) /\ Len(ShutdownOrder) = 8
  /\ ShutdownOrder[1] = "gameplay" /\ ShutdownOrder[2] = "selectionRenderer"
  /\ ShutdownOrder[3] = "worldRenderer" /\ ShutdownOrder[4] = "streaming"
  /\ ShutdownOrder[5] = "worldGen" /\ ShutdownOrder[6] = "renderer"
  /\ ShutdownOrder[7] = "input" /\ ShutdownOrder[8] = "platform"
<1>1. ASSUME NEW T, NEW a \in T, NEW b \in T, NEW c \in T, NEW d \in T,
             NEW e \in T, NEW f \in T, NEW g \in T, NEW h \in T
      PROVE  <<a, b, c, d, e, f, g, h>> \in Seq(T)
  OBVIOUS
<1>2. ShutdownOrder \in Seq(Parts)
  <2>1. {"gameplay", "selectionRenderer", "worldRenderer", "streaming", "worldGen", "renderer",
         "input", "platform"} \subseteq Parts
    BY DEF Parts, Core, World
  <2> QED
    BY <1>1, <2>1 DEF ShutdownOrder
<1> QED
  BY <1>2 DEF ShutdownOrder

LEMMA MemberOrderIs ==
  /\ MemberOrder \in Seq(Parts) /\ Len(MemberOrder) = 11
  /\ MemberOrder[4] = "worldState" /\ MemberOrder[5] = "prototypeIds"
  /\ MemberOrder[6] = "interaction" /\ MemberOrder[10] = "input" /\ MemberOrder[11] = "platform"
<1>1. ASSUME NEW T, NEW a \in T, NEW b \in T, NEW c \in T, NEW d \in T, NEW e \in T,
             NEW f \in T, NEW g \in T, NEW h \in T, NEW k \in T, NEW l \in T, NEW m \in T
      PROVE  <<a, b, c, d, e, f, g, h, k, l, m>> \in Seq(T)
  OBVIOUS
<1>2. MemberOrder \in Seq(Parts)
  <2>1. {"streaming", "worldGen", "gameplay", "worldState", "prototypeIds", "interaction",
         "selectionRenderer", "worldRenderer", "renderer", "input", "platform"} \subseteq Parts
    BY DEF Parts, Core, World
  <2> QED
    BY <1>1, <2>1 DEF MemberOrder
<1> QED
  BY <1>2 DEF MemberOrder

LEMMA Concatenated ==
  ASSUME NEW T, NEW s \in Seq(T), NEW t \in Seq(T)
  PROVE  /\ s \o t \in Seq(T)
         /\ DOMAIN (s \o t) = 1..(Len(s) + Len(t))
         /\ \A i \in 1..Len(s) : (s \o t)[i] = s[i]
         /\ \A i \in 1..Len(t) : (s \o t)[Len(s) + i] = t[i]
OBVIOUS

\* What a part refers to comes after it when shutdown runs its own order first.
LEMMA FullOrder ==
  LET s == ShutdownOrder \o MemberOrder
  IN /\ s \in Seq(Parts)
     /\ \A part \in Parts : \E i \in DOMAIN s : s[i] = part
     /\ \A i \in DOMAIN s : \A part \in DOMAIN Needs :
          s[i] \in Needs[part] => \E j \in 1..(i - 1) : s[j] = part
<1> DEFINE s == ShutdownOrder \o MemberOrder
<1>1. /\ s \in Seq(Parts) /\ DOMAIN s = 1..19
      /\ \A i \in 1..8 : s[i] = ShutdownOrder[i]
      /\ \A i \in 1..11 : s[8 + i] = MemberOrder[i]
  <2>1. ShutdownOrder \in Seq(Parts) /\ MemberOrder \in Seq(Parts)
    BY ShutdownOrderIs, MemberOrderIs
  <2>2. /\ s \in Seq(Parts) /\ DOMAIN s = 1..(Len(ShutdownOrder) + Len(MemberOrder))
        /\ \A i \in 1..Len(ShutdownOrder) : s[i] = ShutdownOrder[i]
        /\ \A i \in 1..Len(MemberOrder) : s[Len(ShutdownOrder) + i] = MemberOrder[i]
    BY <2>1, Concatenated
  <2>3. Len(ShutdownOrder) = 8 /\ Len(MemberOrder) = 11
    BY ShutdownOrderIs, MemberOrderIs
  <2> HIDE DEF s
  <2> QED
    BY <2>2, <2>3
<1> HIDE DEF s
<1>2. /\ s[1] = "gameplay" /\ s[2] = "selectionRenderer" /\ s[3] = "worldRenderer"
      /\ s[4] = "streaming" /\ s[5] = "worldGen" /\ s[6] = "renderer" /\ s[7] = "input"
      /\ s[8] = "platform"
  BY <1>1, ShutdownOrderIs
<1>3. s[12] = "worldState" /\ s[13] = "prototypeIds" /\ s[14] = "interaction"
  <2>1. s[8 + 4] = MemberOrder[4] /\ s[8 + 5] = MemberOrder[5] /\ s[8 + 6] = MemberOrder[6]
    BY <1>1
  <2> QED
    BY <2>1, MemberOrderIs
<1>4. \A part \in Parts : \E i \in DOMAIN s : s[i] = part
  BY <1>1, <1>2, <1>3 DEF Parts, Core, World
<1>5. ASSUME NEW i \in DOMAIN s, NEW part \in DOMAIN Needs, s[i] \in Needs[part]
      PROVE  \E j \in 1..(i - 1) : s[j] = part
  <2>1. i \in 1..19
    BY <1>1
  <2>2. CASE part = "gameplay"
    <3>1. s[i] \in {"worldState", "worldGen"}
      BY <1>5, <2>2 DEF Needs
    <3>2. i # 1
      BY <1>2, <3>1
    <3> QED
      BY <1>2, <2>1, <2>2, <3>2
  <2>3. CASE part = "streaming"
    <3>1. s[i] = "worldGen"
      BY <1>5, <2>3 DEF Needs
    <3>2. i \notin 1..4
      BY <1>2, <3>1
    <3> QED
      BY <1>2, <2>1, <2>3, <3>2
  <2>4. CASE part \in {"worldRenderer", "selectionRenderer"}
    <3>1. s[i] = "renderer"
      BY <1>5, <2>4 DEF Needs
    <3>2. i \notin 1..3
      BY <1>2, <3>1
    <3> QED
      BY <1>2, <2>1, <2>4, <3>2
  <2>5. CASE part \in {"renderer", "input"}
    <3>1. s[i] = "platform"
      BY <1>5, <2>5 DEF Needs
    <3>2. i \notin 1..7
      BY <1>2, <3>1
    <3> QED
      BY <1>2, <2>1, <2>5, <3>2
  <2> QED
    BY <2>2, <2>3, <2>4, <2>5 DEF Needs
<1> QED
  BY <1>1, <1>4, <1>5 DEF s

\* The start of the end: what is left is in the order that is chosen.
LEMMA ShutdownParts ==
  ASSUME PartsInv, Shutdown
  PROVE  PartsInv'
<1>1. stage' = "teardown" /\ parts' = parts /\ parts \subseteq Parts
  BY DEF Shutdown, PartsInv, NeedsMet, Parts
<1>2. PartsByStage' /\ NeedsMet' /\ FailedEarly'
  BY <1>1 DEF PartsInv, PartsByStage, NeedsMet, FailedEarly, Early, Saving, Tables, Gameplay
<1>3. CASE stage = "failed" /\ "renderer" \notin parts
  <2>1. teardown' = MemberOrder
    <3>1. teardown' = <<>> \o MemberOrder /\ MemberOrder \in Seq(Parts)
      BY <1>3, MemberOrderIs DEF Shutdown
    <3> QED
      BY <3>1
  <2>2. parts' \subseteq {"platform", "input"}
    BY <1>1, <1>3 DEF PartsInv, FailedEarly
  <2>3. /\ MemberOrder \in Seq(Parts) /\ DOMAIN MemberOrder = 1..11
        /\ MemberOrder[10] = "input" /\ MemberOrder[11] = "platform"
    BY MemberOrderIs
  <2>4. \A i \in 1..10 : MemberOrder[i] # "platform"
    BY DEF MemberOrder
  <2>5. \A part \in parts' : \E i \in DOMAIN MemberOrder : MemberOrder[i] = part
    BY <2>2, <2>3
  <2>6. ASSUME NEW i \in 1..11, NEW part \in parts' \cap DOMAIN Needs, MemberOrder[i] \in Needs[part]
        PROVE  \E j \in 1..(i - 1) : MemberOrder[j] = part
    <3>1. part = "input" /\ MemberOrder[i] = "platform"
      BY <2>2, <2>6 DEF Needs
    <3>2. i = 11
      BY <2>4, <3>1
    <3> QED
      BY <2>3, <3>1, <3>2
  <2>7. TeardownOrdered'
    BY <2>1, <2>3, <2>5, <2>6 DEF TeardownOrdered
  <2> QED
    BY <1>2, <2>1, <2>3, <2>7 DEF PartsInv
<1>4. CASE ~(stage = "failed" /\ "renderer" \notin parts)
  <2>1. teardown' = ShutdownOrder \o MemberOrder
    BY <1>4 DEF Shutdown
  <2>2. /\ teardown' \in Seq(Parts)
        /\ \A part \in Parts : \E i \in DOMAIN teardown' : teardown'[i] = part
        /\ \A i \in DOMAIN teardown' : \A part \in DOMAIN Needs :
             teardown'[i] \in Needs[part] => \E j \in 1..(i - 1) : teardown'[j] = part
    BY <2>1, FullOrder
  <2>3. TeardownOrdered'
    BY <1>1, <2>2 DEF TeardownOrdered
  <2> QED
    BY <1>2, <2>2, <2>3 DEF PartsInv
<1> QED
  BY <1>3, <1>4

\* The rest of a sequence.
LEMMA RestOf ==
  ASSUME NEW T, NEW s \in Seq(T), NEW i \in DOMAIN s
  PROVE  LET rest == SubSeq(s, i + 1, Len(s))
         IN /\ rest \in Seq(T)
            /\ \A k \in DOMAIN rest : i + k \in DOMAIN s /\ k \in 1..(Len(s) - i) /\ rest[k] = s[i + k]
            /\ \A k \in DOMAIN s : k > i => k - i \in DOMAIN rest /\ rest[k - i] = s[k]
<1> DEFINE rest == SubSeq(s, i + 1, Len(s))
<1>1. Len(s) \in Nat /\ DOMAIN s = 1..Len(s) /\ i \in 1..Len(s)
  OBVIOUS
<1>2. rest \in Seq(T)
  BY <1>1
<1>3. DOMAIN rest = 1..(Len(s) - i)
  BY <1>1
<1>4. \A k \in 1..(Len(s) - i) : rest[k] = s[i + k]
  BY <1>1
<1> HIDE DEF rest
<1>5. \A k \in DOMAIN rest : i + k \in DOMAIN s /\ k \in 1..(Len(s) - i) /\ rest[k] = s[i + k]
  BY <1>1, <1>3, <1>4
<1>6. ASSUME NEW k \in DOMAIN s, k > i
      PROVE  k - i \in DOMAIN rest /\ rest[k - i] = s[k]
  <2>1. k - i \in 1..(Len(s) - i) /\ i + (k - i) = k
    BY <1>1, <1>6
  <2> QED
    BY <1>3, <1>4, <2>1
<1> QED
  BY <1>2, <1>5, <1>6 DEF rest

\* The first part that is left goes, and what comes before it is gone.
LEMMA DestroyParts ==
  ASSUME PartsInv, Destroy
  PROVE  PartsInv'
<1>1. CASE \A i \in DOMAIN teardown : teardown[i] \notin parts
  <2>1. parts' = {} /\ stage' = "exited" /\ teardown' = <<>>
    BY <1>1 DEF Destroy, PartsInv, TeardownOrdered
  <2> QED
    BY <2>1, GoneParts
<1>2. ASSUME NEW i \in DOMAIN teardown, teardown[i] \in parts,
             \A j \in 1..(i - 1) : teardown[j] \notin parts,
             parts' = parts \ {teardown[i]},
             teardown' = SubSeq(teardown, i + 1, Len(teardown)), stage' = stage
      PROVE  PartsInv'
  <2>1. stage = "teardown" /\ teardown \in Seq(Parts) /\ i \in Nat
    BY <1>2 DEF Destroy, PartsInv
  <2>2. /\ teardown' \in Seq(Parts)
        /\ \A k \in DOMAIN teardown' : i + k \in DOMAIN teardown /\ k \in Nat
                                         /\ teardown'[k] = teardown[i + k]
        /\ \A k \in DOMAIN teardown : k > i => k - i \in DOMAIN teardown' /\ teardown'[k - i] = teardown[k]
    BY <1>2, <2>1, RestOf
  <2>3. PartsByStage' /\ FailedEarly'
    BY <1>2, <2>1 DEF PartsByStage, FailedEarly, Early, Saving, Tables, Gameplay
  <2>4. NeedsMet'
    <3>1. ASSUME NEW part \in parts' \cap DOMAIN Needs
          PROVE  Needs[part] \subseteq parts'
      <4>1. part \in parts /\ Needs[part] \subseteq parts
        BY <1>2, <3>1 DEF PartsInv, NeedsMet
      <4>2. teardown[i] \notin Needs[part]
        <5>1. teardown[i] \in Needs[part] => \E j \in 1..(i - 1) : teardown[j] = part
          BY <2>1, <3>1, <4>1 DEF PartsInv, TeardownOrdered
        <5>2. ~ \E j \in 1..(i - 1) : teardown[j] = part
          BY <1>2, <4>1
        <5> QED
          BY <5>1, <5>2
      <4> QED
        BY <1>2, <4>1, <4>2
    <3>2. parts' \subseteq Core \cup World \cup {"gameplay"}
      BY <1>2 DEF PartsInv, NeedsMet
    <3> QED
      BY <3>1, <3>2 DEF NeedsMet
  <2>5. ASSUME NEW part \in parts'
        PROVE  \E k \in DOMAIN teardown' : teardown'[k] = part
    <3>1. part \in parts /\ part # teardown[i]
      BY <1>2, <2>5
    <3>2. PICK k \in DOMAIN teardown : teardown[k] = part
      BY <2>1, <3>1 DEF PartsInv, TeardownOrdered
    <3>3. k \in Nat /\ k # 0
      BY <2>1, <3>2
    <3>4. k \notin 1..(i - 1) /\ k # i
      BY <1>2, <3>1, <3>2
    <3>5. k > i
      BY <2>1, <3>3, <3>4
    <3> QED
      BY <2>2, <3>2, <3>5
  <2>6. ASSUME NEW k \in DOMAIN teardown', NEW part \in parts' \cap DOMAIN Needs,
               teardown'[k] \in Needs[part]
        PROVE  \E j \in 1..(k - 1) : teardown'[j] = part
    <3>1. part \in parts \cap DOMAIN Needs /\ part # teardown[i]
      BY <1>2, <2>6
    <3>2. i + k \in DOMAIN teardown /\ k \in Nat /\ teardown[i + k] \in Needs[part]
      BY <2>2, <2>6
    <3>3. PICK j \in 1..((i + k) - 1) : teardown[j] = part
      BY <2>1, <3>1, <3>2 DEF PartsInv, TeardownOrdered
    <3>4. j \notin 1..(i - 1) /\ j # i
      BY <1>2, <3>1, <3>3
    <3>5. j > i /\ j \in Nat
      BY <2>1, <3>2, <3>3, <3>4
    <3>6. j \in DOMAIN teardown
      BY <2>1, <3>2, <3>3
    <3>7. teardown'[j - i] = part
      BY <2>2, <3>3, <3>5, <3>6
    <3>8. j - i \in 1..(k - 1)
      BY <2>1, <3>2, <3>3, <3>5
    <3> QED
      BY <3>7, <3>8
  <2>7. TeardownOrdered'
    BY <2>5, <2>6 DEF TeardownOrdered
  <2> QED
    BY <2>2, <2>3, <2>4, <2>7 DEF PartsInv
<1> QED
  BY <1>1, <1>2 DEF Destroy

LEMMA PartsInit == ASSUME Init PROVE PartsInv
<1>1. parts = {} /\ stage = "settings" /\ teardown = <<>>
  BY DEF Init
<1> QED
  BY <1>1 DEF PartsInv, PartsByStage, NeedsMet, FailedEarly, TeardownOrdered, Early, Tables, Gameplay

LEMMA PartsNext ==
  ASSUME PartsInv, [Next]_vars
  PROVE  PartsInv'
<1>1. CASE \/ LoadSettings \/ CallFails \/ MakeDirectory \/ OpenTemporary \/ WriteTemporary
           \/ CloseTemporary \/ Rename \/ Remove \/ RenameAgain \/ ResolveContentRoot \/ LoadUi
  BY <1>1, EarlyParts
<1>2. CASE \/ FileFails \/ FileEscapes \/ FileSkipped
           \/ ParseBlock \/ ParseBiome \/ ParseResource \/ CheckResourceLinks \/ BuildBlockIds
           \/ ParseSidecar \/ ParsePrototype
  BY <1>2, TableStepParts
<1>3. CASE ParseScript \/ ParseHandler \/ ParseBootstrap
  BY <1>3, GameplayParts
<1>4. CASE BuildHandles \/ LoadWorldGen \/ StartStreaming
  BY <1>4, WorldParts
<1>5. CASE \/ CreateWindow \/ CreateInput \/ InitializeRenderer
           \/ InitializeWorldRenderer \/ InitializeSelection \/ Stop
  BY <1>5, PictureParts
<1>6. CASE Shutdown
  BY <1>6, ShutdownParts
<1>7. CASE Destroy
  BY <1>7, DestroyParts
<1>8. CASE Restart
  <2>1. parts' = {} /\ stage' = "settings" /\ teardown' = <<>>
    BY <1>8 DEF Restart
  <2> QED
    BY <2>1, GoneParts DEF Early
<1>9. CASE UNCHANGED vars
  BY <1>9, StaysParts DEF vars, memory, content
<1> QED
  BY <1>1, <1>2, <1>3, <1>4, <1>5, <1>6, <1>7, <1>8, <1>9 DEF Next

LEMMA PartsSuffice == ASSUME PartsInv PROVE PartsHaveTheirNeeds
<1>1. ASSUME stage = "running"
      PROVE  /\ Core \subseteq parts
             /\ IF root = None THEN parts = Core
                ELSE parts \ {"gameplay"} = Core \cup World
                       /\ ("gameplay" \in parts <=> files.scripts.state = "whole")
  <2>1. Complete(Core)
    BY <1>1 DEF PartsInv, PartsByStage
  <2>2. Core \subseteq parts
    BY <2>1 DEF Complete
  <2> QED
    BY <2>1, <2>2 DEF Complete
<1>2. stage = "exited" => parts = {}
  BY DEF PartsInv, PartsByStage
<1>3. \A part \in parts \cap DOMAIN Needs : Needs[part] \subseteq parts
  BY DEF PartsInv, NeedsMet
<1> QED
  BY <1>1, <1>2, <1>3 DEF PartsHaveTheirNeeds

\* Whatever fails in the middle of the start, and wherever it is killed, no part
\* outlives one that it refers to; the program runs with all its parts, or with
\* the picture alone where there is no content; and its end leaves none
\* (initialize, initializeWorld, shutdown and the members of Application).
THEOREM PartsHold == Spec => []PartsHaveTheirNeeds
<1>1. Spec => []PartsInv
  BY PartsInit, PartsNext, PTL DEF Spec
<1> QED
  BY <1>1, PartsSuffice, PTL

-----------------------------------------------------------------------------
(* What one entry of a file becomes.                                       *)

LEMMA ReadFacts ==
  ASSUME NEW e, NEW signed, NEW unsigned
  PROVE  /\ DOMAIN Read(e, signed, unsigned) = DOMAIN e
         /\ \A f \in DOMAIN e : e[f][1] # "int" => Read(e, signed, unsigned)[f] = e[f]
         /\ \A f \in DOMAIN e : f \notin signed \cup unsigned => Read(e, signed, unsigned)[f] = e[f]
BY DEF Read

LEMMA MergeFacts ==
  ASSUME NEW r, NEW g, NEW f \in DOMAIN r
  PROVE  f \in DOMAIN (WithDefaults(r, g)) /\ (WithDefaults(r, g))[f] = r[f]
BY DEF WithDefaults

\* A word that is read is the number of the file or refused.
LEMMA WordFacts ==
  ASSUME NEW e, NEW signed, NEW unsigned, NEW f \in DOMAIN e,
         Read(e, signed, unsigned)[f][1] # "rejected"
  PROVE  Read(e, signed, unsigned)[f][1] = e[f][1] /\ Says(Read(e, signed, unsigned)[f]) = Says(e[f])
<1> DEFINE v == Read(e, signed, unsigned)[f]
<1>1. CASE v = e[f]
  BY <1>1
<1>2. CASE e[f][1] = "int" /\ v = requireInt32(e[f][2])
  <2>1. v = <<"int", e[f][2]>>
    BY <1>2 DEF requireInt32, Rejected
  <2> QED
    BY <1>2, <2>1 DEF Says
<1>3. CASE e[f][1] = "int" /\ v = requireUint32(e[f][2])
  <2>1. v = <<"int", e[f][2]>>
    BY <1>3 DEF requireUint32, Rejected
  <2> QED
    BY <1>3, <2>1 DEF Says
<1> QED
  BY <1>1, <1>2, <1>3 DEF Read

LEMMA BlockWritten ==
  ASSUME NEW e, BlockOf(e) # None
  PROVE  \A f \in DOMAIN e : e[f][1] \in {"int", "real"} => Says(BlockOf(e)[f]) = Says(e[f])
<1> DEFINE r == Read(e, {"emission"}, {})
           d == WithDefaults(r, BlockDefaults)
<1>1. BlockOf(e) = WithAlpha(d) /\ Wellformed(d, BlockFields, <<>>, {"id", "displayName"})
  BY DEF BlockOf
<1>2. SUFFICES ASSUME NEW f \in DOMAIN e, e[f][1] \in {"int", "real"}
               PROVE  Says(BlockOf(e)[f]) = Says(e[f])
  OBVIOUS
<1>3. f \in DOMAIN d /\ d[f] = r[f]
  BY ReadFacts, MergeFacts
<1>4. d[f] \in BlockFields[f]
  BY <1>1, <1>3 DEF Wellformed
<1>5. CASE f = "emission"
  <2>1. d[f][1] = "int"
    BY <1>4, <1>5 DEF BlockFields, Whole
  <2>2. Says(r[f]) = Says(e[f])
    BY <1>3, <2>1, WordFacts
  <2>3. WithAlpha(d)[f] = d[f]
    BY <1>3, <1>5 DEF WithAlpha
  <2> QED
    BY <1>1, <1>3, <2>2, <2>3
<1>6. CASE f \in {"transparent", "opaque"}
  <2>1. d[f] = e[f]
    BY <1>3, <1>6, ReadFacts
  <2>2. d[f] \in Boolean
    BY <1>4, <1>6 DEF BlockFields
  <2>3. d[f][1] = "bool"
    BY <2>2 DEF Boolean
  <2> QED
    BY <1>2, <2>1, <2>3
<1>7. CASE f \notin {"emission", "transparent", "opaque"}
  <2>1. d[f] = e[f]
    BY <1>3, <1>7, ReadFacts
  <2>2. WithAlpha(d)[f] = d[f]
    BY <1>3, <1>7 DEF WithAlpha
  <2> QED
    BY <1>1, <2>1, <2>2
<1> QED
  BY <1>5, <1>6, <1>7

LEMMA ResourceWritten ==
  ASSUME NEW e, NEW blocks, ResourceOf(e, blocks) # None
  PROVE  /\ \A f \in DOMAIN e : e[f][1] \in {"int", "real"} => Says(ResourceOf(e, blocks)[f]) = Says(e[f])
         /\ ResourceOf(e, blocks)["blockId"][2] \in blocks
<1> DEFINE r == Read(e, {"minY", "maxY"}, {})
           d == WithDefaults(r, ResourceDefaults)
<1>1. /\ ResourceOf(e, blocks) = d /\ d["blockId"][2] \in blocks
      /\ Wellformed(d, ResourceFields, <<>>, {"id", "displayName", "blockId"})
  BY DEF ResourceOf
<1>2. SUFFICES ASSUME NEW f \in DOMAIN e, e[f][1] \in {"int", "real"}
               PROVE  Says(d[f]) = Says(e[f])
  BY <1>1
<1>3. f \in DOMAIN d /\ d[f] = r[f]
  BY ReadFacts, MergeFacts
<1>4. d[f] \in ResourceFields[f]
  BY <1>1, <1>3 DEF Wellformed
<1>5. CASE f \in {"minY", "maxY"}
  <2>1. d[f][1] = "int"
    BY <1>4, <1>5 DEF ResourceFields, Whole
  <2> QED
    BY <1>3, <2>1, WordFacts
<1>6. CASE f \notin {"minY", "maxY"}
  BY <1>3, <1>6, ReadFacts
<1> QED
  BY <1>5, <1>6

LEMMA SidecarWritten ==
  ASSUME NEW e, SidecarOf(e) # None
  PROVE  \A f \in DOMAIN e : e[f][1] \in {"int", "real"} => Says(SidecarOf(e)[f]) = Says(e[f])
<1> DEFINE words == {"bitWidth", "serializationVersion"}
           r == Read(e, {}, words)
           read == WithDefaults(r, SidecarDefaults)
           d == [read EXCEPT !["defaultValue"] = AsType(read["valueType"][2], @)]
<1>1. /\ SidecarOf(e) = d /\ validateSidecarDef(d)
      /\ Wellformed(read, SidecarFields, <<>>, {"id", "displayName", "scope"})
  BY DEF SidecarOf
<1>2. SUFFICES ASSUME NEW f \in DOMAIN e, e[f][1] \in {"int", "real"}
               PROVE  Says(d[f]) = Says(e[f])
  BY <1>1
<1>3. f \in DOMAIN read /\ read[f] = r[f]
  BY ReadFacts, MergeFacts
<1>4. read[f] \in SidecarFields[f]
  BY <1>1, <1>3 DEF Wellformed
<1>5. CASE f \in words
  <2>1. read[f][1] = "int"
    BY <1>4, <1>5 DEF SidecarFields, Whole
  <2>2. d[f] = read[f]
    BY <1>5
  <2> QED
    BY <1>3, <2>1, <2>2, WordFacts
<1>6. CASE f = "defaultValue"
  <2>1. read[f] = e[f]
    BY <1>3, <1>6, ReadFacts
  <2>2. d[f] = AsType(read["valueType"][2], e[f])
    BY <1>3, <1>6, <2>1
  <2>3. valueFitsSidecarDef(d, d["defaultValue"])
    BY <1>1 DEF validateSidecarDef
  <2>4. d["defaultValue"][1] \in {"int", "real"}
    BY <2>3 DEF valueFitsSidecarDef
  <2>5. CASE d[f] = <<"real", Says(e[f])>>
    BY <2>5 DEF Says
  <2>6. CASE e[f][1] = "int" /\ d[f] = requireUint32(e[f][2])
    <3>1. d[f] = <<"int", e[f][2]>>
      BY <1>6, <2>4, <2>6 DEF requireUint32, Rejected
    <3> QED
      BY <2>6, <3>1 DEF Says
  <2>7. d[f] # Rejected
    BY <1>6, <2>4 DEF Rejected
  <2> QED
    BY <2>2, <2>5, <2>6, <2>7 DEF AsType
<1>7. CASE f \notin words \cup {"defaultValue"}
  <2>1. read[f] = e[f]
    BY <1>3, <1>7, ReadFacts
  <2>2. d[f] = read[f]
    BY <1>7, <1>3
  <2> QED
    BY <2>1, <2>2
<1> QED
  BY <1>5, <1>6, <1>7

LEMMA SidecarHolds ==
  ASSUME NEW e, SidecarOf(e) # None
  PROVE  valueFitsSidecarDef(SidecarOf(e), SidecarOf(e)["defaultValue"])
BY DEF SidecarOf, validateSidecarDef

\* A block through which others are seen hides nothing.
LEMMA BlockAlpha ==
  ASSUME NEW e, BlockOf(e) # None
  PROVE  /\ AlphaMode(BlockOf(e)) # "opaque" \/ Refracts(BlockOf(e)) => ~BlockOf(e)["opaque"][2]
         /\ AlphaMode(BlockOf(e)) = "mask" => ~BlockOf(e)["transparent"][2]
<1> DEFINE d == WithDefaults(Read(e, {"emission"}, {}), BlockDefaults)
           b == WithAlpha(d)
<1>1. BlockOf(e) = b /\ (AlphaMode(d) \in {"mask", "opaque"} => ~Refracts(d))
  BY DEF BlockOf
<1>2. {"transparent", "opaque", "transparency", "refraction"} \subseteq DOMAIN d
  BY DEF WithDefaults, BlockDefaults
<1> HIDE DEF d
<1>3. CASE AlphaMode(d) = "opaque"
  BY <1>1, <1>3 DEF WithAlpha
<1>4. CASE AlphaMode(d) # "opaque"
  <2>1. b = [d EXCEPT !["transparent"] = <<"bool", AlphaMode(d) = "blend">>, !["opaque"] = <<"bool", FALSE>>]
    BY <1>4 DEF WithAlpha
  <2>2. b["opaque"][2] = FALSE /\ b["transparent"][2] = (AlphaMode(d) = "blend")
    BY <1>2, <2>1
  <2>3. DOMAIN b = DOMAIN d /\ \A f \in DOMAIN d : f \notin {"transparent", "opaque"} => b[f] = d[f]
    BY <2>1
  <2>4. Refracts(b) <=> Refracts(d)
    BY <1>2, <2>3 DEF Refracts
  <2>5. CASE "alphaMode" \in DOMAIN d
    <3>1. "alphaMode" \in DOMAIN b /\ b["alphaMode"] = d["alphaMode"]
      BY <2>3, <2>5
    <3> HIDE DEF b
    <3>2. AlphaMode(b) = AlphaMode(d)
      BY <2>5, <3>1 DEF AlphaMode
    <3> QED
      BY <1>1, <2>2, <3>2
  <2>6. CASE "alphaMode" \notin DOMAIN d
    <3>1. AlphaMode(d) = "blend"
      BY <1>4, <2>6 DEF AlphaMode
    <3>2. AlphaMode(b) = "blend"
      BY <2>2, <2>3, <2>6, <3>1 DEF AlphaMode
    <3> QED
      BY <1>1, <2>2, <3>2
  <2> QED
    BY <2>5, <2>6
<1> QED
  BY <1>3, <1>4

LEMMA BiomeFacts ==
  ASSUME NEW e, NEW blocks, BiomeOf(e, blocks) # None
  PROVE  {BiomeOf(e, blocks)["surfaceBlock"][2], BiomeOf(e, blocks)["fillerBlock"][2]} \subseteq blocks
<1> DEFINE d == WithDefaults(e, [fillerBlock |-> Filler(e)])
<1>1. /\ BiomeOf(e, blocks) = d /\ "surfaceBlock" \in DOMAIN e
      /\ e["surfaceBlock"][2] \in blocks /\ Filler(e)[2] \in blocks
  BY DEF BiomeOf, Wellformed
<1>2. d["surfaceBlock"] = e["surfaceBlock"]
  BY <1>1 DEF WithDefaults
<1>3. d["fillerBlock"] = Filler(e)
  BY DEF WithDefaults, Filler
<1> QED
  BY <1>1, <1>2, <1>3

-----------------------------------------------------------------------------
(* Lists that grow by an entry.                                            *)

Listed(s) == s \in Seq({s[i] : i \in DOMAIN s})

LEMMA AppendListed ==
  ASSUME NEW s, Listed(s), NEW e
  PROVE  /\ Listed(Append(s, e)) /\ Len(s) \in Nat /\ DOMAIN s = 1..Len(s)
         /\ DOMAIN Append(s, e) = 1..(Len(s) + 1) /\ Append(s, e)[Len(s) + 1] = e
         /\ \A i \in DOMAIN s : i \in DOMAIN Append(s, e) /\ i # Len(s) + 1 /\ Append(s, e)[i] = s[i]
         /\ \A i \in DOMAIN Append(s, e) : i \in DOMAIN s \/ i = Len(s) + 1
<1> DEFINE V == {s[i] : i \in DOMAIN s}
           W == V \cup {e}
           t == Append(s, e)
<1>1. s \in Seq(V) /\ s \in Seq(W)
  BY DEF Listed
<1>2. Len(s) \in Nat /\ DOMAIN s = 1..Len(s)
  BY <1>1
<1>3. t \in Seq(W) /\ DOMAIN t = 1..(Len(s) + 1) /\ t[Len(s) + 1] = e
  BY <1>1
<1>4. \A i \in 1..Len(s) : t[i] = s[i]
  BY <1>1
<1>5. Listed(t)
  <2> HIDE DEF t
  <2>1. t = [i \in 1..Len(t) |-> t[i]] /\ Len(t) \in Nat /\ DOMAIN t = 1..Len(t)
    BY <1>3
  <2>2. \A i \in 1..Len(t) : t[i] \in {t[j] : j \in DOMAIN t}
    BY <2>1
  <2>3. t \in [1..Len(t) -> {t[j] : j \in DOMAIN t}]
    BY <2>1, <2>2
  <2> QED
    BY <2>1, <2>3 DEF Listed
<1> HIDE DEF t
<1>6. \A i \in DOMAIN s : i \in DOMAIN t /\ i # Len(s) + 1 /\ t[i] = s[i]
  BY <1>2, <1>3, <1>4
<1>7. \A i \in DOMAIN t : i \in DOMAIN s \/ i = Len(s) + 1
  BY <1>2, <1>3
<1> QED
  BY <1>2, <1>3, <1>5, <1>6, <1>7 DEF t

LEMMA AppendIds ==
  ASSUME NEW s, Listed(s), NEW e
  PROVE  Ids(s) \subseteq Ids(Append(s, e)) /\ Ids(Append(s, e)) = Ids(s) \cup {e["id"][2]}
BY AppendListed DEF Ids
-----------------------------------------------------------------------------
(* What the tables say while the start reads the files.                    *)

\* The lists that are read entry by entry.
Lists == {"blocks", "biomes", "resources", "sidecars", "prototypes", "scripts", "handlers", "bootstraps"}

\* What a table has is what the file says at the same place.
ReadAsFiled ==
  /\ \A i \in DOMAIN loaded.blocks :
       loaded.blocks[i] = BlockOf(Entries("blocks")[i]) /\ loaded.blocks[i] # None
  /\ \A i \in DOMAIN loaded.resources : \E known \in SUBSET Ids(loaded.blocks) :
       /\ loaded.resources[i] = ResourceOf(Entries("resources")[i], known)
       /\ loaded.resources[i] # None
  /\ \A i \in DOMAIN loaded.sidecars :
       loaded.sidecars[i] = SidecarOf(Entries("sidecars")[i]) /\ loaded.sidecars[i] # None

IdsDiffer(list) == \A i, j \in DOMAIN list : list[i]["id"][2] = list[j]["id"][2] => i = j

LinksHold ==
  \A i \in DOMAIN loaded.biomes :
    LET e == loaded.biomes[i]
    IN "resourceId" \in DOMAIN e => e["resourceId"][2] \in {""} \cup Ids(loaded.resources)

BiomesResolve ==
  \A i \in DOMAIN loaded.biomes :
    {loaded.biomes[i]["surfaceBlock"][2], loaded.biomes[i]["fillerBlock"][2]} \subseteq Ids(loaded.blocks)

Holds(p) == /\ p["id"][2] \in Ids(loaded.sidecars)
            /\ LET def == Find(loaded.sidecars, p["id"][2])
               IN /\ def["scope"][2] = "block"
                  /\ valueFitsSidecarDef(def, AsType(def["valueType"][2], p["defaultValue"]))

PrototypesResolve ==
  \A i \in DOMAIN loaded.prototypes :
    LET e == loaded.prototypes[i]
    IN /\ e["blockId"][2] \in Ids(loaded.blocks)
       /\ \A j \in DOMAIN loaded.prototypes : loaded.prototypes[j]["blockId"] = e["blockId"] => i = j
       /\ "properties" \in DOMAIN e =>
            \A k \in DOMAIN e["properties"][2] : Holds(e["properties"][2][k][2])

KnowsScript(e) == e["script"][2] \in Ids(loaded.scripts)
HandlersResolve == \A i \in DOMAIN loaded.handlers : KnowsScript(loaded.handlers[i])

Placeable(p) == \E i \in DOMAIN loaded.blockIds : i > 1 /\ loaded.blockIds[i] = p["block"][2]
Aimed(e) == \A f \in {"target", "payloadTarget"} \cap DOMAIN e["invoke"][2] :
              e["invoke"][2][f][2] \in PlacementIds(e)
BootstrapsResolve ==
  \A i \in DOMAIN loaded.bootstraps :
    LET e == loaded.bootstraps[i]
    IN /\ KnowsScript(e["invoke"][2])
       /\ Aimed(e)
       /\ \A k \in DOMAIN e["placements"][2] : Placeable(e["placements"][2][k][2])

Differ(s) == \A i, j \in DOMAIN s : s[i] = s[j] => i = j

BlockIdsResolve ==
  loaded.blockIds # <<>> =>
    /\ LinksHold
    /\ loaded.blockIds[1] = "core:air"
    /\ Differ(loaded.blockIds)
    /\ {loaded.blockIds[i] : i \in DOMAIN loaded.blockIds} = Ids(loaded.blocks)

Beginning == Early \cup {"input", "renderer"}

\* The order of the files: what a later one refers to does not change any more.
OrderInv ==
  /\ stage \in Beginning => loaded = Empty
  /\ stage \in {"blocks", "biomes", "resources", "links", "block ids"} =>
       loaded.blockIds = <<>> /\ loaded.prototypes = <<>> /\ loaded.bootstraps = <<>>
  /\ stage = "sidecars" => loaded.prototypes = <<>>
  /\ stage = "block ids" => LinksHold

TablesInv ==
  /\ DOMAIN loaded = DOMAIN Empty /\ \A name \in Lists : Listed(loaded[name])
  /\ ReadAsFiled
  /\ IdsDiffer(loaded.blocks)
  /\ BiomesResolve
  /\ PrototypesResolve
  /\ HandlersResolve
  /\ BootstrapsResolve
  /\ BlockIdsResolve
  /\ Differ(loaded.handles)
  /\ OrderInv

LEMMA TablesSame ==
  ASSUME TablesInv, UNCHANGED <<loaded, files>>, OrderInv'
  PROVE  TablesInv'
<1>1. ReadAsFiled' /\ IdsDiffer(loaded.blocks)'
  BY DEF TablesInv, ReadAsFiled, Entries, IdsDiffer
<1>2. BiomesResolve' /\ PrototypesResolve'
  BY DEF TablesInv, BiomesResolve, PrototypesResolve, Holds
<1>3. HandlersResolve' /\ BootstrapsResolve'
  BY DEF TablesInv, HandlersResolve, BootstrapsResolve, KnowsScript, Placeable
<1>4. BlockIdsResolve' /\ Differ(loaded.handles)'
  BY DEF TablesInv, BlockIdsResolve, LinksHold, Differ
<1>5. DOMAIN loaded' = DOMAIN Empty /\ \A name \in Lists : Listed(loaded'[name])
  BY DEF TablesInv
<1> QED
  BY <1>1, <1>2, <1>3, <1>4, <1>5 DEF TablesInv

\* A step within a stage, and one that leads to a stage of which nothing is said.
LEMMA TablesStay ==
  ASSUME TablesInv, UNCHANGED <<loaded, files>>,
         \/ stage' = stage
         \/ stage' \notin Beginning \cup {"blocks", "biomes", "resources", "links", "block ids", "sidecars"}
  PROVE  TablesInv'
<1>1. OrderInv'
  BY DEF TablesInv, OrderInv, LinksHold
<1> QED
  BY <1>1, TablesSame

\* An entry is added to one of the lists.
LEMMA LoadFacts ==
  ASSUME TablesInv, NEW name \in Lists, NEW def, Load(name, Append(loaded[name], def))
  PROVE  /\ DOMAIN loaded' = DOMAIN Empty /\ \A n \in Lists : Listed(loaded'[n])
         /\ loaded'[name] = Append(loaded[name], def)
         /\ \A n \in DOMAIN Empty : n # name => loaded'[n] = loaded[n]
         /\ stage' = stage
<1>1. DOMAIN loaded = DOMAIN Empty /\ Lists \subseteq DOMAIN Empty /\ \A n \in Lists : Listed(loaded[n])
  BY DEF TablesInv, Lists, Empty
<1>2. loaded' = [loaded EXCEPT ![name] = Append(loaded[name], def)] /\ stage' = stage
  BY DEF Load
<1>3. Listed(Append(loaded[name], def))
  BY <1>1, AppendListed
<1> QED
  BY <1>1, <1>2, <1>3

LEMMA BlockLoaded ==
  ASSUME TablesInv, stage = "blocks", files' = files, NEW def,
         def = BlockOf(Entry("blocks")), def # None, def["id"][2] \notin Ids(loaded.blocks),
         Load("blocks", Append(loaded.blocks, def))
  PROVE  TablesInv'
<1> DEFINE b == loaded.blocks
           n == Len(b) + 1
<1>1. /\ DOMAIN loaded' = DOMAIN Empty /\ \A m \in Lists : Listed(loaded'[m])
      /\ loaded'.blocks = Append(b, def) /\ stage' = stage
      /\ \A m \in DOMAIN Empty : m # "blocks" => loaded'[m] = loaded[m]
  BY LoadFacts DEF Lists
<1>2. Listed(b)
  BY DEF TablesInv, Lists
<1>3. /\ loaded'.blocks[n] = def /\ DOMAIN b = 1..Len(b)
      /\ \A i \in DOMAIN b : i \in DOMAIN loaded'.blocks /\ i # n /\ loaded'.blocks[i] = b[i]
      /\ \A i \in DOMAIN loaded'.blocks : i \in DOMAIN b \/ i = n
  BY <1>1, <1>2, AppendListed
<1>4. Ids(b) \subseteq Ids(loaded'.blocks)
  BY <1>1, <1>2, AppendIds
<1>5. UNCHANGED <<loaded.biomes, loaded.resources, loaded.sidecars, loaded.prototypes, loaded.scripts,
                  loaded.handlers, loaded.bootstraps, loaded.blockIds, loaded.handles>>
  BY <1>1 DEF Empty
<1>6. Entries("blocks")' = Entries("blocks") /\ Entries("resources")' = Entries("resources")
      /\ Entries("sidecars")' = Entries("sidecars") /\ def = BlockOf(Entries("blocks")[n])
  BY DEF Entries, Entry
<1> HIDE DEF n
<1>7. ReadAsFiled'
  <2>1. \A i \in DOMAIN loaded'.blocks :
          loaded'.blocks[i] = BlockOf(Entries("blocks")[i]) /\ loaded'.blocks[i] # None
    BY <1>3, <1>6 DEF TablesInv, ReadAsFiled
  <2>2. SUBSET Ids(b) \subseteq SUBSET Ids(loaded'.blocks)
    BY <1>4
  <2>3. \A i \in DOMAIN loaded.resources : \E known \in SUBSET Ids(loaded'.blocks) :
          /\ loaded.resources[i] = ResourceOf(Entries("resources")[i], known)
          /\ loaded.resources[i] # None
    BY <2>2 DEF TablesInv, ReadAsFiled
  <2>4. \A i \in DOMAIN loaded.sidecars :
          loaded.sidecars[i] = SidecarOf(Entries("sidecars")[i]) /\ loaded.sidecars[i] # None
    BY DEF TablesInv, ReadAsFiled
  <2> QED
    BY <1>5, <1>6, <2>1, <2>3, <2>4 DEF ReadAsFiled
<1>8. IdsDiffer(loaded.blocks)'
  <2>1. \A i \in DOMAIN b : b[i]["id"][2] # def["id"][2]
    BY DEF Ids
  <2>2. \A i, j \in DOMAIN b : b[i]["id"][2] = b[j]["id"][2] => i = j
    BY DEF TablesInv, IdsDiffer
  <2> QED
    BY <1>3, <2>1, <2>2 DEF IdsDiffer
<1>9. BiomesResolve'
  BY <1>4, <1>5 DEF TablesInv, BiomesResolve
<1>10. loaded.prototypes = <<>> /\ loaded.blockIds = <<>> /\ loaded.bootstraps = <<>>
  BY DEF TablesInv, OrderInv
<1>11. PrototypesResolve' /\ BlockIdsResolve'
  BY <1>5, <1>10 DEF PrototypesResolve, BlockIdsResolve
<1>12. HandlersResolve' /\ BootstrapsResolve' /\ Differ(loaded.handles)'
  BY <1>5 DEF TablesInv, HandlersResolve, BootstrapsResolve, KnowsScript, Placeable, Differ
<1>13. OrderInv'
  <2>1. stage \notin Beginning \cup {"sidecars", "block ids"}
    BY DEF Beginning, Early, Saving
  <2> QED
    BY <1>1, <1>5, <1>10, <2>1 DEF OrderInv
<1> QED
  BY <1>1, <1>7, <1>8, <1>9, <1>11, <1>12, <1>13 DEF TablesInv

LEMMA BiomeLoaded ==
  ASSUME TablesInv, stage = "biomes", files' = files, NEW e, NEW def,
         def = BiomeOf(e, Ids(loaded.blocks)), def # None,
         Load("biomes", Append(loaded.biomes, def))
  PROVE  TablesInv'
<1> DEFINE b == loaded.biomes
           n == Len(b) + 1
<1>1. /\ DOMAIN loaded' = DOMAIN Empty /\ \A m \in Lists : Listed(loaded'[m])
      /\ loaded'.biomes = Append(b, def) /\ stage' = stage
      /\ \A m \in DOMAIN Empty : m # "biomes" => loaded'[m] = loaded[m]
  BY LoadFacts DEF Lists
<1>2. Listed(b)
  BY DEF TablesInv, Lists
<1>3. /\ loaded'.biomes[n] = def
      /\ \A i \in DOMAIN loaded'.biomes : (i \in DOMAIN b /\ loaded'.biomes[i] = b[i]) \/ i = n
  BY <1>1, <1>2, AppendListed
<1>5. UNCHANGED <<loaded.blocks, loaded.resources, loaded.sidecars, loaded.prototypes, loaded.scripts,
                  loaded.handlers, loaded.bootstraps, loaded.blockIds, loaded.handles>>
  BY <1>1 DEF Empty
<1> HIDE DEF n
<1>7. ReadAsFiled' /\ IdsDiffer(loaded.blocks)'
  BY <1>5 DEF TablesInv, ReadAsFiled, IdsDiffer, Entries
<1>9. BiomesResolve'
  <2>1. {def["surfaceBlock"][2], def["fillerBlock"][2]} \subseteq Ids(loaded.blocks)
    BY BiomeFacts
  <2> QED
    BY <1>3, <1>5, <2>1 DEF TablesInv, BiomesResolve
<1>10. loaded.prototypes = <<>> /\ loaded.blockIds = <<>> /\ loaded.bootstraps = <<>>
  BY DEF TablesInv, OrderInv
<1>11. PrototypesResolve' /\ BlockIdsResolve'
  BY <1>5, <1>10 DEF PrototypesResolve, BlockIdsResolve
<1>12. HandlersResolve' /\ BootstrapsResolve' /\ Differ(loaded.handles)'
  BY <1>5 DEF TablesInv, HandlersResolve, BootstrapsResolve, KnowsScript, Placeable, Differ
<1>13. OrderInv'
  <2>1. stage \notin Beginning \cup {"sidecars", "block ids"}
    BY DEF Beginning, Early, Saving
  <2> QED
    BY <1>1, <1>5, <1>10, <2>1 DEF OrderInv
<1> QED
  BY <1>1, <1>7, <1>9, <1>11, <1>12, <1>13 DEF TablesInv

LEMMA ResourceLoaded ==
  ASSUME TablesInv, stage = "resources", files' = files, NEW def,
         def = ResourceOf(Entry("resources"), Ids(loaded.blocks)), def # None,
         Load("resources", Append(loaded.resources, def))
  PROVE  TablesInv'
<1> DEFINE b == loaded.resources
           n == Len(b) + 1
<1>1. /\ DOMAIN loaded' = DOMAIN Empty /\ \A m \in Lists : Listed(loaded'[m])
      /\ loaded'.resources = Append(b, def) /\ stage' = stage
      /\ \A m \in DOMAIN Empty : m # "resources" => loaded'[m] = loaded[m]
  BY LoadFacts DEF Lists
<1>2. Listed(b)
  BY DEF TablesInv, Lists
<1>3. /\ loaded'.resources[n] = def
      /\ \A i \in DOMAIN loaded'.resources : (i \in DOMAIN b /\ loaded'.resources[i] = b[i]) \/ i = n
  BY <1>1, <1>2, AppendListed
<1>5. UNCHANGED <<loaded.blocks, loaded.biomes, loaded.sidecars, loaded.prototypes, loaded.scripts,
                  loaded.handlers, loaded.bootstraps, loaded.blockIds, loaded.handles>>
  BY <1>1 DEF Empty
<1>6. /\ Entries("resources")' = Entries("resources")
      /\ def = ResourceOf(Entries("resources")[n], Ids(loaded.blocks))
  BY DEF Entries, Entry
<1> HIDE DEF n
<1>7. ReadAsFiled'
  <2>1. \A i \in DOMAIN loaded'.resources : \E known \in SUBSET Ids(loaded.blocks) :
          /\ loaded'.resources[i] = ResourceOf(Entries("resources")[i], known)
          /\ loaded'.resources[i] # None
    BY <1>3, <1>6 DEF TablesInv, ReadAsFiled
  <2>2. /\ \A i \in DOMAIN loaded.blocks :
             loaded.blocks[i] = BlockOf(Entries("blocks")[i]) /\ loaded.blocks[i] # None
        /\ \A i \in DOMAIN loaded.sidecars :
             loaded.sidecars[i] = SidecarOf(Entries("sidecars")[i]) /\ loaded.sidecars[i] # None
    BY DEF TablesInv, ReadAsFiled
  <2> QED
    BY <1>5, <1>6, <2>1, <2>2 DEF ReadAsFiled, Entries
<1>9. BiomesResolve' /\ IdsDiffer(loaded.blocks)'
  BY <1>5 DEF TablesInv, BiomesResolve, IdsDiffer
<1>10. loaded.prototypes = <<>> /\ loaded.blockIds = <<>> /\ loaded.bootstraps = <<>>
  BY DEF TablesInv, OrderInv
<1>11. PrototypesResolve' /\ BlockIdsResolve'
  BY <1>5, <1>10 DEF PrototypesResolve, BlockIdsResolve
<1>12. HandlersResolve' /\ BootstrapsResolve' /\ Differ(loaded.handles)'
  BY <1>5 DEF TablesInv, HandlersResolve, BootstrapsResolve, KnowsScript, Placeable, Differ
<1>13. OrderInv'
  <2>1. stage \notin Beginning \cup {"sidecars", "block ids"}
    BY DEF Beginning, Early, Saving
  <2> QED
    BY <1>1, <1>5, <1>10, <2>1 DEF OrderInv
<1> QED
  BY <1>1, <1>7, <1>9, <1>11, <1>12, <1>13 DEF TablesInv

LEMMA SidecarLoaded ==
  ASSUME TablesInv, stage = "sidecars", files' = files, NEW def,
         def = SidecarOf(Entry("sidecars")), def # None,
         Load("sidecars", Append(loaded.sidecars, def))
  PROVE  TablesInv'
<1> DEFINE b == loaded.sidecars
           n == Len(b) + 1
<1>1. /\ DOMAIN loaded' = DOMAIN Empty /\ \A m \in Lists : Listed(loaded'[m])
      /\ loaded'.sidecars = Append(b, def) /\ stage' = stage
      /\ \A m \in DOMAIN Empty : m # "sidecars" => loaded'[m] = loaded[m]
  BY LoadFacts DEF Lists
<1>2. Listed(b)
  BY DEF TablesInv, Lists
<1>3. /\ loaded'.sidecars[n] = def
      /\ \A i \in DOMAIN loaded'.sidecars : (i \in DOMAIN b /\ loaded'.sidecars[i] = b[i]) \/ i = n
  BY <1>1, <1>2, AppendListed
<1>5. UNCHANGED <<loaded.blocks, loaded.biomes, loaded.resources, loaded.prototypes, loaded.scripts,
                  loaded.handlers, loaded.bootstraps, loaded.blockIds, loaded.handles>>
  BY <1>1 DEF Empty
<1>6. /\ Entries("sidecars")' = Entries("sidecars")
      /\ def = SidecarOf(Entries("sidecars")[n])
  BY DEF Entries, Entry
<1> HIDE DEF n
<1>7. ReadAsFiled'
  <2>1. \A i \in DOMAIN loaded'.sidecars :
          loaded'.sidecars[i] = SidecarOf(Entries("sidecars")[i]) /\ loaded'.sidecars[i] # None
    BY <1>3, <1>6 DEF TablesInv, ReadAsFiled
  <2>2. /\ \A i \in DOMAIN loaded.blocks :
             loaded.blocks[i] = BlockOf(Entries("blocks")[i]) /\ loaded.blocks[i] # None
        /\ \A i \in DOMAIN loaded.resources : \E known \in SUBSET Ids(loaded.blocks) :
             /\ loaded.resources[i] = ResourceOf(Entries("resources")[i], known)
             /\ loaded.resources[i] # None
    BY DEF TablesInv, ReadAsFiled
  <2> QED
    BY <1>5, <1>6, <2>1, <2>2 DEF ReadAsFiled, Entries
<1>9. BiomesResolve' /\ IdsDiffer(loaded.blocks)'
  BY <1>5 DEF TablesInv, BiomesResolve, IdsDiffer
<1>10. loaded.prototypes = <<>>
  BY DEF TablesInv, OrderInv
<1>11. PrototypesResolve' /\ BlockIdsResolve'
  <2>1. PrototypesResolve'
    BY <1>5, <1>10 DEF PrototypesResolve
  <2>2. LinksHold' <=> LinksHold
    BY <1>5 DEF LinksHold
  <2>3. BlockIdsResolve'
    BY <1>5, <2>2 DEF TablesInv, BlockIdsResolve, Differ
  <2> QED
    BY <2>1, <2>3
<1>12. HandlersResolve' /\ BootstrapsResolve' /\ Differ(loaded.handles)'
  BY <1>5 DEF TablesInv, HandlersResolve, BootstrapsResolve, KnowsScript, Placeable, Differ
<1>13. OrderInv'
  <2>1. stage \notin Beginning
    BY DEF Beginning, Early, Saving
  <2> QED
    BY <1>1, <1>5, <1>10, <2>1 DEF OrderInv
<1> QED
  BY <1>1, <1>7, <1>9, <1>11, <1>12, <1>13 DEF TablesInv

LEMMA PrototypeFacts ==
  ASSUME NEW e, NEW blocks, NEW sidecars, NEW prototypes, PrototypeOf(e, blocks, sidecars, prototypes) # None
  PROVE  /\ PrototypeOf(e, blocks, sidecars, prototypes) = e
         /\ e["blockId"][2] \in blocks
         /\ \A i \in DOMAIN prototypes : prototypes[i]["blockId"] # e["blockId"]
         /\ "properties" \in DOMAIN e =>
              \A k \in DOMAIN e["properties"][2] :
                LET p == e["properties"][2][k][2]
                    def == Find(sidecars, p["id"][2])
                IN /\ p["id"][2] \in Ids(sidecars)
                   /\ def["scope"][2] = "block"
                   /\ valueFitsSidecarDef(def, AsType(def["valueType"][2], p["defaultValue"]))
BY DEF PrototypeOf, PropertyFits

LEMMA PrototypesKept ==
  ASSUME PrototypesResolve, UNCHANGED <<loaded.blocks, loaded.sidecars, loaded.prototypes>>
  PROVE  PrototypesResolve'
<1>1. \A p : Holds(p)' <=> Holds(p)
  BY DEF Holds
<1> QED
  BY <1>1 DEF PrototypesResolve

\* What all lists after the sidecar types leave alone.
LEMMA LaterLoaded ==
  ASSUME TablesInv, files' = files, NEW name \in {"prototypes", "scripts", "handlers", "bootstraps"},
         NEW def, stage = name, Load(name, Append(loaded[name], def)),
         PrototypesResolve', HandlersResolve', BootstrapsResolve'
  PROVE  TablesInv'
<1>1. /\ DOMAIN loaded' = DOMAIN Empty /\ \A m \in Lists : Listed(loaded'[m])
      /\ stage' = stage
      /\ \A m \in DOMAIN Empty : m # name => loaded'[m] = loaded[m]
  BY LoadFacts DEF Lists
<1>2. UNCHANGED <<loaded.blocks, loaded.biomes, loaded.resources, loaded.sidecars, loaded.blockIds, loaded.handles>>
  BY <1>1 DEF Empty
<1>3. ReadAsFiled' /\ IdsDiffer(loaded.blocks)'
  BY <1>2 DEF TablesInv, ReadAsFiled, IdsDiffer, Entries
<1>4. BiomesResolve' /\ Differ(loaded.handles)'
  BY <1>2 DEF TablesInv, BiomesResolve, Differ
<1>5. BlockIdsResolve'
  <2>1. LinksHold' <=> LinksHold
    BY <1>2 DEF LinksHold
  <2> QED
    BY <1>2, <2>1 DEF TablesInv, BlockIdsResolve, Differ
<1>6. OrderInv'
  <2>1. stage \notin Beginning \cup {"blocks", "biomes", "resources", "links", "block ids", "sidecars"}
    BY DEF Beginning, Early, Saving
  <2> QED
    BY <1>1, <2>1 DEF OrderInv
<1> QED
  BY <1>1, <1>3, <1>4, <1>5, <1>6 DEF TablesInv

LEMMA PrototypeLoaded ==
  ASSUME TablesInv, stage = "prototypes", files' = files, NEW e, NEW def,
         def = PrototypeOf(e, Ids(loaded.blocks), loaded.sidecars, loaded.prototypes), def # None,
         Load("prototypes", Append(loaded.prototypes, def))
  PROVE  TablesInv'
<1> DEFINE b == loaded.prototypes
           n == Len(b) + 1
<1>1. loaded'.prototypes = Append(b, def) /\ \A m \in DOMAIN Empty : m # "prototypes" => loaded'[m] = loaded[m]
  BY LoadFacts DEF Lists
<1>2. UNCHANGED <<loaded.blocks, loaded.sidecars, loaded.scripts, loaded.handlers, loaded.bootstraps, loaded.blockIds>>
  BY <1>1 DEF Empty
<1>3. Listed(b)
  BY DEF TablesInv, Lists
<1>4. /\ loaded'.prototypes[n] = def
      /\ \A i \in DOMAIN loaded'.prototypes : (i \in DOMAIN b /\ i # n /\ loaded'.prototypes[i] = b[i]) \/ i = n
  BY <1>1, <1>3, AppendListed
<1> HIDE DEF n
<1>5. /\ def["blockId"][2] \in Ids(loaded.blocks)
      /\ \A i \in DOMAIN b : b[i]["blockId"] # def["blockId"]
      /\ "properties" \in DOMAIN def =>
           \A k \in DOMAIN def["properties"][2] : Holds(def["properties"][2][k][2])
  <2>1. def = e
    BY PrototypeFacts
  <2>2. "properties" \in DOMAIN e => \A k \in DOMAIN e["properties"][2] : Holds(e["properties"][2][k][2])
    <3>1. PrototypeOf(e, Ids(loaded.blocks), loaded.sidecars, loaded.prototypes) # None
      OBVIOUS
    <3> QED
      BY ONLY <3>1, PrototypeFacts DEF Holds
  <2>3. e["blockId"][2] \in Ids(loaded.blocks) /\ \A i \in DOMAIN b : b[i]["blockId"] # e["blockId"]
    BY PrototypeFacts
  <2> QED
    BY ONLY <2>1, <2>2, <2>3
<1>6. \A p : Holds(p)' <=> Holds(p)
  BY <1>2 DEF Holds
<1>7. \A i \in DOMAIN b :
        /\ b[i]["blockId"][2] \in Ids(loaded.blocks)
        /\ \A j \in DOMAIN b : b[j]["blockId"] = b[i]["blockId"] => i = j
        /\ "properties" \in DOMAIN b[i] =>
             \A k \in DOMAIN b[i]["properties"][2] : Holds(b[i]["properties"][2][k][2])
  BY DEF TablesInv, PrototypesResolve
<1>8. PrototypesResolve'
  <2> SUFFICES ASSUME NEW i \in DOMAIN loaded'.prototypes
               PROVE  LET d == loaded'.prototypes[i]
                      IN /\ d["blockId"][2] \in Ids(loaded.blocks)
                         /\ \A j \in DOMAIN loaded'.prototypes :
                              loaded'.prototypes[j]["blockId"] = d["blockId"] => i = j
                         /\ "properties" \in DOMAIN d =>
                              \A k \in DOMAIN d["properties"][2] : Holds(d["properties"][2][k][2])
    BY <1>2, <1>6 DEF PrototypesResolve
  <2>1. CASE i = n
    BY <1>4, <1>5, <2>1
  <2>2. CASE i \in DOMAIN b /\ i # n /\ loaded'.prototypes[i] = b[i]
    BY <1>4, <1>5, <1>7, <2>2
  <2> QED
    BY <1>4, <2>1, <2>2
<1>9. HandlersResolve' /\ BootstrapsResolve'
  BY <1>2 DEF TablesInv, HandlersResolve, BootstrapsResolve, KnowsScript, Placeable
<1> QED
  BY <1>8, <1>9, LaterLoaded

LEMMA ScriptLoaded ==
  ASSUME TablesInv, stage = "scripts", files' = files, NEW def, Load("scripts", Append(loaded.scripts, def))
  PROVE  TablesInv'
<1>1. /\ loaded'.scripts = Append(loaded.scripts, def)
      /\ \A m \in DOMAIN Empty : m # "scripts" => loaded'[m] = loaded[m]
  BY LoadFacts DEF Lists
<1>2. UNCHANGED <<loaded.blocks, loaded.sidecars, loaded.prototypes, loaded.handlers, loaded.bootstraps, loaded.blockIds>>
  BY <1>1 DEF Empty
<1>3. Ids(loaded.scripts) \subseteq Ids(loaded'.scripts)
  BY <1>1, AppendIds DEF TablesInv, Lists
<1>4. PrototypesResolve'
  BY <1>2, PrototypesKept DEF TablesInv
<1>5. HandlersResolve' /\ BootstrapsResolve'
  BY <1>2, <1>3 DEF TablesInv, HandlersResolve, BootstrapsResolve, KnowsScript, Placeable
<1> QED
  BY <1>4, <1>5, LaterLoaded

LEMMA HandlerLoaded ==
  ASSUME TablesInv, stage = "handlers", files' = files, NEW def, NEW before,
         HandlerFits(def, loaded.scripts, before), Load("handlers", Append(loaded.handlers, def))
  PROVE  TablesInv'
<1> DEFINE b == loaded.handlers
           n == Len(b) + 1
<1>1. loaded'.handlers = Append(b, def) /\ \A m \in DOMAIN Empty : m # "handlers" => loaded'[m] = loaded[m]
  BY LoadFacts DEF Lists
<1>2. UNCHANGED <<loaded.blocks, loaded.sidecars, loaded.prototypes, loaded.scripts, loaded.bootstraps, loaded.blockIds>>
  BY <1>1 DEF Empty
<1>3. /\ loaded'.handlers[n] = def
      /\ \A i \in DOMAIN loaded'.handlers : (i \in DOMAIN b /\ loaded'.handlers[i] = b[i]) \/ i = n
  BY <1>1, AppendListed DEF TablesInv, Lists
<1> HIDE DEF n
<1>4. PrototypesResolve'
  BY <1>2, PrototypesKept DEF TablesInv
<1>5. KnowsScript(def)
  BY DEF HandlerFits, KnowsScript
<1>6. HandlersResolve'
  BY <1>2, <1>3, <1>5 DEF TablesInv, HandlersResolve, KnowsScript
<1>7. BootstrapsResolve'
  BY <1>2 DEF TablesInv, BootstrapsResolve, KnowsScript, Placeable
<1> QED
  BY <1>4, <1>6, <1>7, LaterLoaded

LEMMA BootstrapLoaded ==
  ASSUME TablesInv, stage = "bootstraps", files' = files, NEW def,
         BootstrapFits(def, loaded.scripts, loaded.blockIds, loaded.bootstraps, Surface),
         Load("bootstraps", Append(loaded.bootstraps, def))
  PROVE  TablesInv'
<1> DEFINE b == loaded.bootstraps
           n == Len(b) + 1
<1>1. loaded'.bootstraps = Append(b, def) /\ \A m \in DOMAIN Empty : m # "bootstraps" => loaded'[m] = loaded[m]
  BY LoadFacts DEF Lists
<1>2. UNCHANGED <<loaded.blocks, loaded.sidecars, loaded.prototypes, loaded.scripts, loaded.handlers, loaded.blockIds>>
  BY <1>1 DEF Empty
<1>3. /\ loaded'.bootstraps[n] = def
      /\ \A i \in DOMAIN loaded'.bootstraps : (i \in DOMAIN b /\ loaded'.bootstraps[i] = b[i]) \/ i = n
  BY <1>1, AppendListed DEF TablesInv, Lists
<1> HIDE DEF n
<1>4. PrototypesResolve'
  BY <1>2, PrototypesKept DEF TablesInv
<1>5. /\ KnowsScript(def["invoke"][2]) /\ Aimed(def)
      /\ \A k \in DOMAIN def["placements"][2] : Placeable(def["placements"][2][k][2])
  <2>1. InvokeFits(def["invoke"][2], loaded.scripts, PlacementIds(def))
    BY DEF BootstrapFits
  <2>2. KnowsScript(def["invoke"][2]) /\ Aimed(def)
    BY <2>1 DEF InvokeFits, KnowsScript, Aimed
  <2>3. \A k \in DOMAIN def["placements"][2] :
          PlacementFits(def["placements"][2][k][2], loaded.blockIds, Surface)
    BY DEF BootstrapFits
  <2> QED
    BY <2>2, <2>3 DEF PlacementFits, Placeable
<1>6. BootstrapsResolve'
  BY <1>2, <1>3, <1>5 DEF TablesInv, BootstrapsResolve, KnowsScript, Placeable
<1>7. HandlersResolve'
  BY <1>2 DEF TablesInv, HandlersResolve, KnowsScript
<1> QED
  BY <1>4, <1>6, <1>7, LaterLoaded

\* Air moves to the front: the same ids, each of them once.
Moved(s, ids, n, air, from) ==
  /\ n \in Nat /\ air \in 1..n /\ DOMAIN ids = 1..n /\ DOMAIN s = 1..n
  /\ \A i, j \in 1..n : ids[i] = ids[j] => i = j
  /\ \A i \in 1..n : from[i] = IF i = 1 THEN air ELSE IF i <= air THEN i - 1 ELSE i
  /\ \A i \in 1..n : s[i] = ids[from[i]]

LEMMA AirFirst ==
  ASSUME NEW s, NEW ids, NEW n, NEW air, NEW from, Moved(s, ids, n, air, from)
  PROVE  /\ s[1] = ids[air] /\ Differ(s)
         /\ {s[i] : i \in DOMAIN s} = {ids[i] : i \in DOMAIN ids}
<1> USE DEF Moved
<1>1. \A i \in 1..n : from[i] \in 1..n
  OBVIOUS
<1>2. \A i, j \in 1..n : from[i] = from[j] => i = j
  OBVIOUS
<1>3. \A k \in 1..n : \E i \in 1..n : from[i] = k
  <2> SUFFICES ASSUME NEW k \in 1..n
               PROVE  \E i \in 1..n : from[i] = k
    OBVIOUS
  <2>1. CASE k = air
    <3>1. 1 \in 1..n /\ from[1] = k
      BY <2>1
    <3> QED
      BY <3>1
  <2>2. CASE k < air
    <3>1. k + 1 \in 1..n /\ from[k + 1] = k
      BY <2>2
    <3> QED
      BY <3>1
  <2>3. CASE k > air
    <3>1. from[k] = k
      BY <2>3
    <3> QED
      BY <3>1
  <2> QED
    BY <2>1, <2>2, <2>3
<1>4. s[1] = ids[air]
  OBVIOUS
<1>5. Differ(s)
  BY <1>1, <1>2 DEF Differ
<1>6. ASSUME NEW i \in DOMAIN s
      PROVE  s[i] \in {ids[j] : j \in DOMAIN ids}
  <2>1. from[i] \in DOMAIN ids /\ s[i] = ids[from[i]]
    BY <1>1
  <2> QED
    BY <2>1
<1>7. ASSUME NEW j \in DOMAIN ids
      PROVE  ids[j] \in {s[i] : i \in DOMAIN s}
  <2>1. PICK i \in 1..n : from[i] = j
    BY <1>3
  <2>2. i \in DOMAIN s /\ s[i] = ids[j]
    BY <2>1
  <2> QED
    BY <2>2
<1>8. {s[i] : i \in DOMAIN s} \subseteq {ids[j] : j \in DOMAIN ids}
  BY <1>6
<1>9. {ids[j] : j \in DOMAIN ids} \subseteq {s[i] : i \in DOMAIN s}
  BY <1>7
<1> QED
  BY <1>4, <1>5, <1>8, <1>9

\* A step from one table to another that loads nothing.
LEMMA NextTable ==
  ASSUME TablesInv, UNCHANGED <<loaded, files>>,
         \/ /\ stage \in {"blocks", "biomes", "resources"}
            /\ stage' \in {"biomes", "resources", "links"}
         \/ stage = "links" /\ stage' = "block ids" /\ LinksHold
  PROVE  TablesInv'
<1>1. loaded.blockIds = <<>> /\ loaded.prototypes = <<>> /\ loaded.bootstraps = <<>>
  BY DEF TablesInv, OrderInv
<1>2. stage' \notin Beginning \cup {"sidecars"}
  BY DEF Beginning, Early, Saving
<1>3. stage' = "block ids" => LinksHold'
  BY DEF LinksHold
<1>4. OrderInv'
  BY <1>1, <1>2, <1>3 DEF OrderInv
<1> QED
  BY <1>4, TablesSame

LEMMA BlockIdsBuilt ==
  ASSUME TablesInv, BuildBlockIds
  PROVE  TablesInv'
<1> DEFINE ids == [i \in DOMAIN loaded.blocks |-> loaded.blocks[i]["id"][2]]
           air == CHOOSE i \in DOMAIN ids : ids[i] = "core:air"
           from == [i \in DOMAIN ids |-> IF i = 1 THEN air ELSE IF i <= air THEN i - 1 ELSE i]
           s == [i \in DOMAIN ids |-> ids[from[i]]]
<1>1. stage = "block ids" /\ files' = files
  BY DEF BuildBlockIds, Disk, content
<1>2. CASE Terminate
  BY <1>1, <1>2, TablesStay DEF Terminate, memory, Beginning, Early, Saving
<1>3. CASE /\ "core:air" \in Ids(loaded.blocks)
           /\ loaded' = [loaded EXCEPT !.blockIds = s]
           /\ stage' = "sidecars"
  <2>1. DOMAIN loaded = DOMAIN Empty /\ Listed(loaded.blocks) /\ "blockIds" \in DOMAIN Empty
    BY DEF TablesInv, Lists, Empty
  <2>2. /\ DOMAIN loaded' = DOMAIN loaded /\ loaded'.blockIds = s
        /\ \A n \in DOMAIN loaded : n # "blockIds" => loaded'[n] = loaded[n]
    BY <1>3, <2>1
  <2>3. Len(loaded.blocks) \in Nat /\ DOMAIN ids = 1..Len(loaded.blocks)
    BY <2>1, AppendListed
  <2>4. \A i, j \in 1..Len(loaded.blocks) : ids[i] = ids[j] => i = j
    BY <2>3 DEF TablesInv, IdsDiffer
  <2>5. air \in 1..Len(loaded.blocks) /\ ids[air] = "core:air"
    <3>1. \E i \in DOMAIN ids : ids[i] = "core:air"
      BY <1>3 DEF Ids
    <3> QED
      BY <2>3, <3>1
  <2>6. Ids(loaded.blocks) = {ids[i] : i \in DOMAIN ids}
    BY DEF Ids
  <2> HIDE DEF air
  <2>7. s[1] = "core:air" /\ Differ(s) /\ {s[i] : i \in DOMAIN s} = Ids(loaded.blocks)
    <3> DEFINE n == Len(loaded.blocks)
    <3>1. /\ \A i \in 1..n : from[i] = IF i = 1 THEN air ELSE IF i <= air THEN i - 1 ELSE i
          /\ DOMAIN s = 1..n /\ \A i \in 1..n : s[i] = ids[from[i]]
      BY <2>3
    <3>2. Moved(s, ids, n, air, from)
      BY <2>3, <2>4, <2>5, <3>1 DEF Moved
    <3>3. s[1] = ids[air] /\ Differ(s) /\ {s[i] : i \in DOMAIN s} = {ids[i] : i \in DOMAIN ids}
      <4> HIDE DEF s, ids, n, from
      <4> QED
        BY <3>2, AirFirst
    <3> QED
      BY <2>5, <2>6, <3>3
  <2> HIDE DEF ids, from, s
  <2>8. UNCHANGED <<loaded.blocks, loaded.biomes, loaded.resources, loaded.sidecars, loaded.prototypes,
                    loaded.scripts, loaded.handlers, loaded.bootstraps, loaded.handles>>
    BY <2>1, <2>2 DEF Empty
  <2>9. ReadAsFiled' /\ IdsDiffer(loaded.blocks)'
    BY <1>1, <2>8 DEF TablesInv, ReadAsFiled, IdsDiffer, Entries
  <2>10. BiomesResolve' /\ Differ(loaded.handles)'
    BY <2>8 DEF TablesInv, BiomesResolve, Differ
  <2>11. HandlersResolve' /\ BootstrapsResolve'
    <3>1. loaded'.bootstraps = <<>>
      BY <1>1, <2>8 DEF TablesInv, OrderInv
    <3> QED
      BY <2>8, <3>1 DEF TablesInv, HandlersResolve, BootstrapsResolve, KnowsScript
  <2>12. PrototypesResolve'
    BY <2>8, PrototypesKept DEF TablesInv
  <2>13. LinksHold'
    BY <1>1, <2>8 DEF TablesInv, OrderInv, LinksHold
  <2>14. BlockIdsResolve'
    BY <2>2, <2>7, <2>8, <2>13 DEF BlockIdsResolve
  <2>15. loaded'.prototypes = <<>> /\ loaded'.bootstraps = <<>>
    BY <1>1, <2>8 DEF TablesInv, OrderInv
  <2>16. OrderInv'
    BY <1>3, <2>15 DEF OrderInv, Beginning, Early, Saving
  <2>17. \A n \in Lists : Listed(loaded'[n])
    BY <2>8 DEF TablesInv, Lists
  <2> QED
    BY <2>1, <2>2, <2>9, <2>10, <2>11, <2>12, <2>14, <2>16, <2>17 DEF TablesInv
<1> QED
  BY <1>2, <1>3 DEF BuildBlockIds, Continue

LEMMA HandlesBuilt ==
  ASSUME TablesInv, BuildHandles
  PROVE  TablesInv'
<1> DEFINE ids == [i \in DOMAIN loaded.prototypes |-> loaded.prototypes[i]["id"][2]]
           s == [i \in DOMAIN ids |-> Hash[ids[i]]]
<1>1. stage = "handles" /\ files' = files
  BY DEF BuildHandles, Disk, content
<1>2. CASE Terminate
  BY <1>1, <1>2, TablesStay DEF Terminate, memory, Beginning, Early, Saving
<1>3. CASE /\ \A i, j \in DOMAIN ids : Hash[ids[i]] = Hash[ids[j]] => i = j
           /\ loaded' = [loaded EXCEPT !.handles = s]
           /\ stage' = "worldgen"
  <2>1. DOMAIN loaded = DOMAIN Empty /\ "handles" \in DOMAIN Empty
    BY DEF TablesInv, Empty
  <2>2. /\ DOMAIN loaded' = DOMAIN loaded /\ loaded'.handles = s
        /\ \A n \in DOMAIN loaded : n # "handles" => loaded'[n] = loaded[n]
    BY <1>3, <2>1
  <2>3. Differ(s)
    BY <1>3 DEF Differ
  <2> HIDE DEF s
  <2>4. UNCHANGED <<loaded.blocks, loaded.biomes, loaded.resources, loaded.sidecars, loaded.prototypes,
                    loaded.scripts, loaded.handlers, loaded.bootstraps, loaded.blockIds>>
    BY <2>1, <2>2 DEF Empty
  <2>5. ReadAsFiled' /\ IdsDiffer(loaded.blocks)'
    BY <1>1, <2>4 DEF TablesInv, ReadAsFiled, IdsDiffer, Entries
  <2>6. BiomesResolve' /\ Differ(loaded.handles)'
    BY <2>2, <2>3, <2>4 DEF TablesInv, BiomesResolve
  <2>7. HandlersResolve' /\ BootstrapsResolve'
    BY <2>4 DEF TablesInv, HandlersResolve, BootstrapsResolve, KnowsScript, Placeable
  <2>8. PrototypesResolve'
    BY <2>4, PrototypesKept DEF TablesInv
  <2>9. LinksHold' <=> LinksHold
    BY <2>4 DEF LinksHold
  <2>10. BlockIdsResolve'
    BY <2>4, <2>9 DEF TablesInv, BlockIdsResolve, Differ
  <2>11. OrderInv'
    BY <1>3 DEF OrderInv, Beginning, Early, Saving
  <2>12. \A n \in Lists : Listed(loaded'[n])
    BY <2>4 DEF TablesInv, Lists
  <2> QED
    BY <2>1, <2>2, <2>5, <2>6, <2>7, <2>8, <2>10, <2>11, <2>12 DEF TablesInv
<1> QED
  BY <1>2, <1>3 DEF BuildHandles

\* A registry file, entry by entry.
LEMMA ParseTables ==
  ASSUME TablesInv, ParseBlock \/ ParseBiome \/ ParseResource \/ ParseSidecar \/ ParsePrototype
  PROVE  TablesInv'
<1>1. ASSUME NEW name \in {"blocks", "biomes", "resources", "sidecars", "prototypes"}, NEW def,
             NEW next \in {"biomes", "resources", "links", "prototypes", "handles"},
             name \in {"blocks", "biomes", "resources"} => next \in {"biomes", "resources", "links"},
             name \in {"sidecars", "prototypes"} => next \in {"prototypes", "handles"},
             Parse(name, def, next)
      PROVE  \/ TablesInv'
             \/ /\ stage = name /\ files' = files /\ def # None /\ def["id"][2] \notin Ids(loaded[name])
                /\ Load(name, Append(loaded[name], def))
  <2>1. stage = name /\ files' = files
    BY <1>1 DEF Parse, Reading, Disk, content
  <2>2. CASE Continue(next) /\ UNCHANGED memory
    <3>1. UNCHANGED <<loaded, files>> /\ stage' = next
      BY <2>1, <2>2 DEF Continue, memory
    <3>2. CASE name \in {"blocks", "biomes", "resources"}
      BY <1>1, <2>1, <3>1, <3>2, NextTable
    <3>3. CASE name \in {"sidecars", "prototypes"}
      <4>1. stage' \notin Beginning \cup {"blocks", "biomes", "resources", "links", "block ids", "sidecars"}
        BY <1>1, <3>1, <3>3 DEF Beginning, Early, Saving
      <4> QED
        BY <3>1, <4>1, TablesStay
    <3> QED
      BY <3>2, <3>3
  <2>3. CASE Insert(name, def)
    <3>1. CASE Fail
      <4>1. UNCHANGED <<loaded, files>> /\ stage' = "failed"
        BY <2>1, <3>1 DEF Fail, memory
      <4> QED
        BY <4>1, TablesStay DEF Beginning, Early, Saving
    <3> QED
      BY <2>1, <2>3, <3>1 DEF Insert
  <2> QED
    BY <1>1, <2>2, <2>3 DEF Parse
<1>2. CASE ParseBlock
  <2> DEFINE def == BlockOf(Entry("blocks"))
  <2>1. Parse("blocks", def, "biomes")
    BY <1>2 DEF ParseBlock
  <2> HIDE DEF def
  <2>2. \/ TablesInv'
        \/ /\ stage = "blocks" /\ files' = files /\ def # None /\ def["id"][2] \notin Ids(loaded.blocks)
           /\ Load("blocks", Append(loaded.blocks, def))
    BY <1>1, <2>1
  <2> QED
    BY <2>2, BlockLoaded DEF def
<1>3. CASE ParseBiome
  <2> DEFINE def == BiomeOf(Entry("biomes"), Ids(loaded.blocks))
  <2>1. Parse("biomes", def, "resources")
    BY <1>3 DEF ParseBiome
  <2> HIDE DEF def
  <2>2. \/ TablesInv'
        \/ /\ stage = "biomes" /\ files' = files /\ def # None
           /\ Load("biomes", Append(loaded.biomes, def))
    BY <1>1, <2>1
  <2> QED
    BY <2>2, BiomeLoaded DEF def
<1>4. CASE ParseResource
  <2> DEFINE def == ResourceOf(Entry("resources"), Ids(loaded.blocks))
  <2>1. Parse("resources", def, "links")
    BY <1>4 DEF ParseResource
  <2> HIDE DEF def
  <2>2. \/ TablesInv'
        \/ /\ stage = "resources" /\ files' = files /\ def # None
           /\ Load("resources", Append(loaded.resources, def))
    BY <1>1, <2>1
  <2> QED
    BY <2>2, ResourceLoaded DEF def
<1>5. CASE ParseSidecar
  <2> DEFINE def == SidecarOf(Entry("sidecars"))
  <2>1. Parse("sidecars", def, "prototypes")
    BY <1>5 DEF ParseSidecar
  <2> HIDE DEF def
  <2>2. \/ TablesInv'
        \/ /\ stage = "sidecars" /\ files' = files /\ def # None
           /\ Load("sidecars", Append(loaded.sidecars, def))
    BY <1>1, <2>1
  <2> QED
    BY <2>2, SidecarLoaded DEF def
<1>6. CASE ParsePrototype
  <2> DEFINE def == PrototypeOf(Entry("prototypes"), Ids(loaded.blocks), loaded.sidecars, loaded.prototypes)
  <2>1. Parse("prototypes", def, "handles")
    BY <1>6 DEF ParsePrototype
  <2> HIDE DEF def
  <2>2. \/ TablesInv'
        \/ /\ stage = "prototypes" /\ files' = files /\ def # None
           /\ Load("prototypes", Append(loaded.prototypes, def))
    BY <1>1, <2>1
  <2> QED
    BY <2>2, PrototypeLoaded DEF def
<1> QED
  BY <1>2, <1>3, <1>4, <1>5, <1>6

LEMMA GameplayTables ==
  ASSUME TablesInv, ParseScript \/ ParseHandler \/ ParseBootstrap
  PROVE  TablesInv'
<1>1. files' = files
  BY DEF ParseScript, ParseHandler, ParseBootstrap, Disk, content
<1>2. ASSUME loaded' = loaded, stage' \in {"failed", "handlers", "bootstraps", "streaming"}
      PROVE  TablesInv'
  BY <1>1, <1>2, TablesStay DEF Beginning, Early, Saving
<1>3. CASE ParseScript
  <2>1. \/ loaded' = loaded /\ stage' \in {"failed", "handlers"}
        \/ stage = "scripts" /\ Load("scripts", Append(loaded.scripts, Entry("scripts")))
    BY <1>3 DEF ParseScript, Reading, Continue, Fail, memory
  <2> QED
    BY <1>1, <1>2, <2>1, ScriptLoaded
<1>4. CASE ParseHandler
  <2>1. \/ loaded' = loaded /\ stage' \in {"failed", "bootstraps"}
        \/ /\ stage = "handlers"
           /\ HandlerFits(Entry("handlers"), loaded.scripts, {loaded.handlers[i] : i \in DOMAIN loaded.handlers})
           /\ Load("handlers", Append(loaded.handlers, Entry("handlers")))
    BY <1>4 DEF ParseHandler, Reading, Continue, Fail, memory
  <2> QED
    BY <1>1, <1>2, <2>1, HandlerLoaded
<1>5. CASE ParseBootstrap
  <2>1. \/ loaded' = loaded /\ stage' \in {"failed", "streaming"}
        \/ /\ stage = "bootstraps"
           /\ BootstrapFits(Entry("bootstraps"), loaded.scripts, loaded.blockIds, loaded.bootstraps, Surface)
           /\ Load("bootstraps", Append(loaded.bootstraps, Entry("bootstraps")))
    BY <1>5 DEF ParseBootstrap, Reading, Continue, Fail, memory
  <2> QED
    BY <1>1, <1>2, <2>1, BootstrapLoaded
<1> QED
  BY <1>3, <1>4, <1>5

LEMMA OtherTables ==
  ASSUME TablesInv,
         \/ FileFails \/ FileEscapes \/ FileSkipped \/ CheckResourceLinks
         \/ LoadWorldGen \/ StartStreaming \/ InitializeWorldRenderer \/ InitializeSelection
         \/ Stop \/ Shutdown \/ Destroy
  PROVE  TablesInv'
<1>1. ASSUME UNCHANGED <<loaded, files>>,
             stage' \in {"failed", "terminated", "prototypes", "handles", "streaming", "scripts", "world renderer",
                         "selection", "running", "stopped", "teardown", "exited"}
      PROVE  TablesInv'
  BY <1>1, TablesStay DEF Beginning, Early, Saving
<1>2. files' = files
  BY DEF FileFails, FileEscapes, FileSkipped, CheckResourceLinks, LoadWorldGen, StartStreaming,
     InitializeWorldRenderer, InitializeSelection, Make, Stop, Shutdown, Destroy, Disk, content
<1>3. CASE FileFails \/ FileEscapes
  BY <1>1, <1>2, <1>3 DEF FileFails, FileEscapes, Fail, Terminate, memory
<1>4. CASE FileSkipped
  <2>1. loaded' = loaded /\ stage' \in {"prototypes", "handles", "streaming"}
    BY <1>4 DEF FileSkipped, Continue, memory
  <2> QED
    BY <1>1, <1>2, <2>1
<1>5. CASE CheckResourceLinks
  <2>1. CASE Fail
    BY <1>1, <1>2, <2>1 DEF Fail, memory
  <2>2. CASE ~Fail
    <3>1. stage = "links" /\ LinksHold /\ loaded' = loaded /\ stage' = "block ids"
      BY <1>5, <2>2 DEF CheckResourceLinks, LinksHold, Continue, memory
    <3> QED
      BY <1>2, <3>1, NextTable
  <2> QED
    BY <2>1, <2>2
<1>6. CASE LoadWorldGen \/ StartStreaming
  BY <1>1, <1>2, <1>6 DEF LoadWorldGen, StartStreaming, Fail, memory
<1>7. CASE InitializeWorldRenderer \/ InitializeSelection
  BY <1>1, <1>2, <1>7 DEF InitializeWorldRenderer, InitializeSelection, Make, memory
<1>8. CASE Stop \/ Shutdown
  BY <1>1, <1>2, <1>8 DEF Stop, Shutdown, Continue, memory
<1>9. CASE Destroy
  <2>1. loaded' = loaded /\ stage' \in {"teardown", "exited"}
    BY <1>9 DEF Destroy, memory
  <2> QED
    BY <1>1, <1>2, <2>1
<1> QED
  BY <1>3, <1>4, <1>5, <1>6, <1>7, <1>8, <1>9

\* Nothing is loaded before there is a renderer.
LEMMA BeginningTables ==
  ASSUME TablesInv,
         \/ LoadSettings \/ CallFails \/ MakeDirectory \/ OpenTemporary \/ WriteTemporary
         \/ CloseTemporary \/ Rename \/ Remove \/ RenameAgain \/ ResolveContentRoot \/ LoadUi
         \/ CreateWindow \/ CreateInput \/ InitializeRenderer
  PROVE  TablesInv'
<1>1. UNCHANGED <<loaded, files>>
  BY DEF LoadSettings, CallFails, MakeDirectory, OpenTemporary, WriteTemporary, CloseTemporary, Rename,
     Installed, Remove, RenameAgain, ResolveContentRoot, LoadUi, CreateWindow, CreateInput,
     InitializeRenderer, Make, Fail, Continue, Disk, content, memory
<1>2. stage \in Beginning
  BY DEF LoadSettings, CallFails, MakeDirectory, OpenTemporary, WriteTemporary, CloseTemporary, Rename,
     Remove, RenameAgain, ResolveContentRoot, LoadUi, CreateWindow, CreateInput, InitializeRenderer,
     Beginning, Early, Saving
<1>3. stage' \in Beginning \cup {"blocks", "world renderer", "failed"}
  BY DEF LoadSettings, CallFails, MakeDirectory, OpenTemporary, WriteTemporary, CloseTemporary, Rename,
     Installed, Remove, RenameAgain, ResolveContentRoot, LoadUi, CreateWindow, CreateInput,
     InitializeRenderer, Make, Fail, Continue, Beginning, Early, Saving
<1>4. loaded' = Empty
  BY <1>1, <1>2 DEF TablesInv, OrderInv
<1>5. stage' \notin {"sidecars", "block ids"}
  BY <1>3 DEF Beginning, Early, Saving
<1>6. OrderInv'
  BY <1>4, <1>5 DEF OrderInv, Empty
<1> QED
  BY <1>1, <1>6, TablesSame

LEMMA NothingLoaded ==
  ASSUME loaded = Empty, stage = "settings"
  PROVE  TablesInv
<1>1. /\ \A name \in DOMAIN Empty : loaded[name] = <<>>
      /\ DOMAIN loaded = DOMAIN Empty /\ Lists \subseteq DOMAIN Empty
  BY DEF Empty, Lists
<1>2. <<>> \in Seq({<<>>[i] : i \in DOMAIN <<>>}) /\ DOMAIN <<>> = {}
  OBVIOUS
<1>3. \A name \in Lists : Listed(loaded[name])
  BY <1>1, <1>2 DEF Listed
<1>4. /\ loaded.blocks = <<>> /\ loaded.biomes = <<>> /\ loaded.resources = <<>> /\ loaded.sidecars = <<>>
      /\ loaded.prototypes = <<>> /\ loaded.handlers = <<>> /\ loaded.bootstraps = <<>>
      /\ loaded.blockIds = <<>> /\ loaded.handles = <<>>
  BY DEF Empty
<1>5. ReadAsFiled /\ IdsDiffer(loaded.blocks)
  BY <1>2, <1>4 DEF ReadAsFiled, IdsDiffer
<1>6. BiomesResolve /\ PrototypesResolve /\ HandlersResolve /\ BootstrapsResolve
  BY <1>2, <1>4 DEF BiomesResolve, PrototypesResolve, HandlersResolve, BootstrapsResolve
<1>7. BlockIdsResolve /\ Differ(loaded.handles)
  BY <1>2, <1>4 DEF BlockIdsResolve, Differ
<1>8. OrderInv
  BY <1>4 DEF OrderInv, Beginning, Early, Saving
<1> QED
  BY <1>1, <1>3, <1>5, <1>6, <1>7, <1>8 DEF TablesInv

LEMMA TablesNext == TablesInv /\ [Next]_vars => TablesInv'
<1>1. loaded = Empty /\ stage = "settings" => TablesInv
  BY NothingLoaded
<1>2. (loaded = Empty /\ stage = "settings")' => TablesInv'
  BY <1>1, PTL
<1>3. ASSUME TablesInv, Next
      PROVE  TablesInv'
  <2>1. CASE Restart
    BY <1>2, <2>1 DEF Restart
  <2>2. CASE BuildBlockIds \/ BuildHandles
    BY <1>3, <2>2, BlockIdsBuilt, HandlesBuilt
  <2> QED
    BY <1>3, <2>1, <2>2, ParseTables, GameplayTables, OtherTables, BeginningTables DEF Next
<1>4. ASSUME TablesInv, UNCHANGED vars
      PROVE  TablesInv'
  BY <1>4, TablesStay DEF vars, memory, content
<1> QED
  BY <1>3, <1>4

LEMMA TablesAlways == Spec => []TablesInv
<1>1. Init => TablesInv
  BY NothingLoaded DEF Init
<1> QED
  BY <1>1, TablesNext, PTL DEF Spec

\* What the files of a content root name is there, for all content: every
\* reference that ReferencesResolve lists finds what it names, a sidecar type
\* holds the defaults that it is given, air is the first runtime id and is placed
\* by no bootstrap, and no block is drawn as opaque that others are seen through
\* (RegistryLoader, BlockIdTable, PrototypeIdTable, GameplayContentRuntime).
THEOREM ContentResolves == Spec => []ContentInv
<1>1. TablesInv => ReferencesResolve
  <2> SUFFICES ASSUME TablesInv
               PROVE  ReferencesResolve
    OBVIOUS
  <2>1. \A i \in DOMAIN loaded.biomes :
          LET e == loaded.biomes[i]
          IN /\ {e["surfaceBlock"][2], e["fillerBlock"][2]} \subseteq Ids(loaded.blocks)
             /\ loaded.blockIds # <<>> /\ "resourceId" \in DOMAIN e =>
                  e["resourceId"][2] \in {""} \cup Ids(loaded.resources)
    BY DEF TablesInv, BiomesResolve, BlockIdsResolve, LinksHold
  <2>2. \A i \in DOMAIN loaded.resources : loaded.resources[i]["blockId"][2] \in Ids(loaded.blocks)
    BY ResourceWritten DEF TablesInv, ReadAsFiled
  <2>3. \A i \in DOMAIN loaded.prototypes :
          LET e == loaded.prototypes[i]
          IN /\ e["blockId"][2] \in Ids(loaded.blocks)
             /\ \A j \in DOMAIN loaded.prototypes : loaded.prototypes[j]["blockId"] = e["blockId"] => i = j
             /\ "properties" \in DOMAIN e =>
                  \A k \in DOMAIN e["properties"][2] : Holds(e["properties"][2][k][2])
    BY DEF TablesInv, PrototypesResolve
  <2>4. \A i \in DOMAIN loaded.handlers : KnowsScript(loaded.handlers[i])
    BY DEF TablesInv, HandlersResolve
  <2>5. \A i \in DOMAIN loaded.bootstraps :
          LET e == loaded.bootstraps[i]
          IN /\ KnowsScript(e["invoke"][2])
             /\ Aimed(e)
             /\ \A k \in DOMAIN e["placements"][2] : Placeable(e["placements"][2][k][2])
    BY DEF TablesInv, BootstrapsResolve
  <2>6. loaded.blockIds # <<>> =>
          /\ loaded.blockIds[1] = "core:air" /\ Differ(loaded.blockIds)
          /\ {loaded.blockIds[i] : i \in DOMAIN loaded.blockIds} = Ids(loaded.blocks)
    BY DEF TablesInv, BlockIdsResolve
  <2>7. Differ(loaded.handles)
    BY DEF TablesInv
  <2>8. \A i \in DOMAIN loaded.sidecars :
          valueFitsSidecarDef(loaded.sidecars[i], loaded.sidecars[i]["defaultValue"])
    BY SidecarHolds DEF TablesInv, ReadAsFiled
  <2> QED
    BY <2>1, <2>2, <2>3, <2>4, <2>5, <2>6, <2>7, <2>8
       DEF ReferencesResolve, Holds, KnowsScript, Aimed, Placeable, Differ
<1>2. TablesInv => SeeThroughHidesNothing
  BY BlockAlpha DEF TablesInv, ReadAsFiled, SeeThroughHidesNothing
<1> QED
  BY <1>1, <1>2, TablesAlways, PTL DEF ContentInv

\* A number of the content that is registered is the number of the file, whatever
\* the file says: it is refused or kept, never wrapped (requireUint32,
\* requireInt32 and the default of a sidecar type).
THEOREM NumbersKept == Spec => []RegisteredAsWritten
<1>1. TablesInv => RegisteredAsWritten
  <2> SUFFICES ASSUME TablesInv
               PROVE  RegisteredAsWritten
    OBVIOUS
  <2>1. ASSUME NEW i \in DOMAIN loaded.blocks, NEW f \in DOMAIN Entries("blocks")[i],
               Entries("blocks")[i][f][1] \in {"int", "real"}
        PROVE  Says(loaded.blocks[i][f]) = Says(Entries("blocks")[i][f])
    BY <2>1, BlockWritten DEF TablesInv, ReadAsFiled
  <2>2. ASSUME NEW i \in DOMAIN loaded.resources, NEW f \in DOMAIN Entries("resources")[i],
               Entries("resources")[i][f][1] \in {"int", "real"}
        PROVE  Says(loaded.resources[i][f]) = Says(Entries("resources")[i][f])
    BY <2>2, ResourceWritten DEF TablesInv, ReadAsFiled
  <2>3. ASSUME NEW i \in DOMAIN loaded.sidecars, NEW f \in DOMAIN Entries("sidecars")[i],
               Entries("sidecars")[i][f][1] \in {"int", "real"}
        PROVE  Says(loaded.sidecars[i][f]) = Says(Entries("sidecars")[i][f])
    BY <2>3, SidecarWritten DEF TablesInv, ReadAsFiled
  <2> QED
    BY <2>1, <2>2, <2>3 DEF RegisteredAsWritten
<1> QED
  BY <1>1, TablesAlways, PTL
=============================================================================
