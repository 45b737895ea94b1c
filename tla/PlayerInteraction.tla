--------------------------- MODULE PlayerInteraction ---------------------------
(***************************************************************************)
(* From the events of the window to an edit of the world:                  *)
(*   - the event loop and the key states (src/input/InputManager.cpp);     *)
(*   - the voxel ray of a click (src/world/interaction/BlockPicker.cpp);   *)
(*   - the click (PlayerInteractionController.cpp, with the guards of the  *)
(*     block commands) and the callbacks of src/app/Application.cpp.       *)
(*                                                                         *)
(* A position is a cell and a fraction of Sub steps.  A direction is a     *)
(* vector of whole numbers, so the distances along the ray are compared    *)
(* exactly: the code's normalised direction and its tolerance of 1e-12     *)
(* stand for the same comparisons.                                         *)
(***************************************************************************)
EXTENDS HierarchicalCoordinates, FiniteSets

CONSTANTS Reach,       \* blockSelection.maxDistance
          Stands,      \* positions of the player: [cell, fraction] on each axis
          Aims,        \* directions of the camera
          Generated,   \* cells that worldgen makes solid
          Residencies, \* sets of chunks that streaming may have loaded
          Keys, Buttons, \* keys of the keyboard, buttons of the mouse
          MaxHeld, MaxQueue, MaxClicks  \* bounds of the model: held at once, events
                                        \* that wait, presses of the buttons

Dims == 1..3

ASSUME InteractionAssumption ==
  /\ Reach \in Nat \ {0}
  /\ Stands \subseteq [Dims -> [cell : Addresses, fraction : 0..(Sub - 1)]]
  /\ Aims \subseteq [Dims -> Int] /\ \A d \in Aims : \E a \in Dims : d[a] # 0
  /\ Generated \subseteq [Dims -> Addresses]
  /\ {"move", "flashlight", "escape"} \subseteq Keys
  /\ Buttons = {"primary", "secondary"}
  /\ {MaxHeld, MaxQueue, MaxClicks} \subseteq Nat

VARIABLES focused, held,  \* the window and what the player's fingers press
          queue,          \* events SDL has not yet delivered
          down,           \* mKeys and mButtons
          running,        \* Application::mRunning
          flashlight,     \* lit or not
          eye, aim,       \* the camera
          loaded, solid,  \* chunks in the ChunkManager and their blocks but air
          presses,        \* history: presses of the flashlight key, modulo 2
          clicks          \* history: presses of the buttons
window == <<focused, held, presses, clicks>>
sight == <<eye, aim>>
world == <<loaded, solid>>
interaction == <<window, queue, down, running, flashlight, sight, world>>

NoPick == <<>>
NoCell == <<>>
-----------------------------------------------------------------------------
(* The ray.                                                                *)

Cell(stand) == <<stand[1].cell, stand[2].cell, stand[3].cell>>
ChunkOfCell(c) == <<ChunkOf(c[1]), ChunkOf(c[2]), ChunkOf(c[3])>>

\* One cell on along an axis, none at the end of the sectors.
Stepped(c, a, step) ==
  LET next == TryOffset(Block, c[a], step)
  IN IF next = NoAddress THEN NoCell ELSE [c EXCEPT ![a] = next]

Sign(n) == CASE n > 0 -> 1 [] n < 0 -> -1 [] OTHER -> 0
Abs(n) == IF n < 0 THEN -n ELSE n
Moving(d) == {a \in Dims : d[a] # 0}

\* Distances along the ray are counted in 1/(Sub * Scale(d)) of the vector d.
Scale(d) == LET factor(a) == IF d[a] = 0 THEN 1 ELSE Abs(d[a])
            IN factor(1) * factor(2) * factor(3)
PerBlock(d, a) == Sub * (Scale(d) \div Abs(d[a]))
WithinReach(d, t) ==
  LET scale == Scale(d)
  IN t * t * (d[1] * d[1] + d[2] * d[2] + d[3] * d[3]) <= Reach * Reach * Sub * Sub * scale * scale

\* makeAxisTraversal: the distance to the first border of a moving axis.
FirstBorder(stand, d) ==
  LET border(a) == CASE d[a] = 0 -> 0
                     [] d[a] > 0 -> (Sub - stand[a].fraction) * (Scale(d) \div d[a])
                     [] d[a] < 0 -> stand[a].fraction * (Scale(d) \div (-d[a]))
  IN <<border(1), border(2), border(3)>>

\* The axis whose border is next: borders at one distance in the order X, Y, Z.
\* Faulty variant: always the first axis that moves.
NextAxis_First(d, border) == CHOOSE a \in Moving(d) : \A b \in Moving(d) : a <= b
NextAxis(d, border) ==
  CHOOSE a \in Moving(d) : \A b \in Moving(d) : \/ border[a] < border[b]
                                                \/ border[a] = border[b] /\ a <= b

\* adjacent: the outer normal of the face that was entered.
\* Faulty variant: the far side.
Adjacent_FarSide(c, a, step) == Stepped(c, a, step)
Adjacent(c, a, step) == Stepped(c, a, -step)

\* pickBlock: the first of the blocks (tryBlockAt: air, and what is not loaded, is no
\* obstacle), with the cell before its face.  From inside a block there is no face;
\* past the last sector, or the reach, there is no pick.
Pick(stand, d, blocks) ==
  LET Walk[at \in [Dims -> Addresses] \X [Dims -> Nat]] ==
        LET c == at[1]
            border == at[2]
            a == NextAxis(d, border)
            step == Sign(d[a])
            next == Stepped(c, a, step)
        IN IF ~WithinReach(d, border[a]) \/ next = NoCell THEN NoPick
           ELSE IF next \in blocks THEN [block |-> next, adjacent |-> Adjacent(next, a, step)]
           ELSE Walk[<<next, [border EXCEPT ![a] = @ + PerBlock(d, a)]>>]
  IN IF Cell(stand) \in blocks THEN [block |-> Cell(stand), adjacent |-> NoCell]
     ELSE Walk[<<Cell(stand), FirstBorder(stand, d)>>]
-----------------------------------------------------------------------------
(* A click, in the middle of the event loop: it picks anew.                *)

Placed(c) == IF ChunkOfCell(c) \in loaded THEN solid \cup {c} ELSE solid
Removed(c) == IF ChunkOfCell(c) \in loaded THEN solid \ {c} ELSE solid

\* pressPrimary and pressSecondary.
PressPrimary ==
  LET hit == Pick(eye, aim, solid)
  IN solid' = IF hit = NoPick THEN solid
              ELSE IF hit.adjacent = NoCell \/ hit.adjacent \in solid THEN solid
              ELSE Placed(hit.adjacent)

PressSecondary == LET hit == Pick(eye, aim, solid)
                  IN solid' = IF hit = NoPick THEN solid ELSE Removed(hit.block)
-----------------------------------------------------------------------------
(* The event loop: one event of SDL.                                       *)

\* Whatever else happens, the key state follows the event.
\* Faulty variant: a window without focus keeps its keys.
DownAfter_KeepsKeys(e) == CASE e.type = "down" -> down \cup {e.key}
                            [] e.type = "up" -> down \ {e.key}
                            [] OTHER -> down
DownAfter(e) == CASE e.type = "down" -> down \cup {e.key}
                  [] e.type = "up" -> down \ {e.key}
                  [] e.type = "focus lost" -> {}
                  [] OTHER -> down

Toggles(e) == e.type = "down" /\ e.key = "flashlight" /\ ~e.repeat

Pressed(e, key) == e.type = "down" /\ e.key = key /\ ~e.repeat

PollEvent ==
  /\ queue # <<>>
  /\ LET e == Head(queue)
     IN /\ queue' = Tail(queue)
        /\ down' = DownAfter(e)
        /\ flashlight' = IF Toggles(e) THEN ~flashlight ELSE flashlight
        /\ running' = (running /\ e.type # "quit" /\ ~Pressed(e, "escape"))
        /\ aim' = IF e.type = "motion" THEN e.aim ELSE aim
        /\ IF Pressed(e, "primary") THEN PressPrimary
           ELSE IF Pressed(e, "secondary") THEN PressSecondary
           ELSE UNCHANGED solid
  /\ UNCHANGED <<window, eye, loaded>>

\* The rest of runFrameUpdate once no event waits: the camera moves while a key
\* says so, streaming loads and evicts.  (The target picked then is PlayerView's.)
Frame ==
  /\ queue = <<>>
  /\ running
  /\ \E stand \in IF "move" \in down THEN Stands ELSE {eye}, now \in Residencies :
       /\ eye' = stand
       /\ loaded' = now
       /\ solid' = {c \in solid : ChunkOfCell(c) \in now}
                     \cup {c \in Generated : ChunkOfCell(c) \in now \ loaded}
  /\ UNCHANGED <<window, queue, down, running, flashlight, aim>>
-----------------------------------------------------------------------------
(* The player and the window manager.                                      *)

Post(e) == Len(queue) < MaxQueue /\ queue' = Append(queue, e)
Event(type, key, repeat) == [type |-> type, key |-> key, repeat |-> repeat]

Press(k) == /\ k \notin held /\ Cardinality(held) < MaxHeld
            /\ k \in Buttons => clicks < MaxClicks
            /\ held' = held \cup {k}
            /\ clicks' = IF k \in Buttons THEN clicks + 1 ELSE clicks
            /\ IF focused THEN /\ Post(Event("down", k, FALSE))
                               /\ presses' = IF k = "flashlight" THEN 1 - presses ELSE presses
               ELSE UNCHANGED <<queue, presses>>
            /\ UNCHANGED focused

\* The system repeats the press of a key of the keyboard.
Repeat(k) == /\ focused /\ k \in held \cap Keys
             /\ Post(Event("down", k, TRUE))
             /\ UNCHANGED window

\* A release outside the window is never delivered.
Release(k) == /\ k \in held
              /\ held' = held \ {k}
              /\ IF focused THEN Post(Event("up", k, FALSE)) ELSE UNCHANGED queue
              /\ UNCHANGED <<focused, presses, clicks>>

MoveMouse(a) == /\ focused
                /\ Post([type |-> "motion", aim |-> a])
                /\ UNCHANGED window

LoseFocus == /\ focused
             /\ focused' = FALSE
             /\ Post([type |-> "focus lost"])
             /\ UNCHANGED <<held, presses, clicks>>

GainFocus == ~focused /\ focused' = TRUE /\ UNCHANGED <<held, presses, clicks, queue>>

CloseWindow == Post([type |-> "quit"]) /\ UNCHANGED window

Player ==
  /\ running
  /\ \/ \E k \in Keys \cup Buttons : Press(k) \/ Repeat(k) \/ Release(k)
     \/ \E a \in Aims : MoveMouse(a)
     \/ LoseFocus \/ GainFocus \/ CloseWindow
  /\ UNCHANGED <<down, running, flashlight, sight, world>>

InteractionInit ==
  /\ focused = TRUE /\ held = {} /\ queue = <<>> /\ presses = 0 /\ clicks = 0
  /\ down = {} /\ running = TRUE /\ flashlight = FALSE
  /\ eye \in Stands /\ aim \in Aims
  /\ loaded \in Residencies
  /\ solid = {c \in Generated : ChunkOfCell(c) \in loaded}

InteractionNext == PollEvent \/ Frame \/ Player

InteractionSpec == InteractionInit /\ [][InteractionNext]_interaction
-----------------------------------------------------------------------------
(* Properties.                                                             *)

\* The ray as geometry, without walking: the distances where it enters and leaves a
\* cell (along an axis that stands still, the cell of the eye is the only one).
Max2(S) == CHOOSE m \in S : \A n \in S : n <= m
Min2(S) == CHOOSE m \in S : \A n \in S : m <= n

Toward(d, a, here, border) == Sign(d[a]) * (border * Sub - here) * (Scale(d) \div Abs(d[a]))
At(stand, a) == Flat(stand[a].cell) * Sub + stand[a].fraction
\* The border of a cell that an axis comes from, and the one it goes to.
Near(stand, d, c, a) == Toward(d, a, At(stand, a), Flat(c[a]) + (IF d[a] > 0 THEN 0 ELSE 1))
Far(stand, d, c, a) == Toward(d, a, At(stand, a), Flat(c[a]) + (IF d[a] > 0 THEN 1 ELSE 0))
Enter(stand, d, c) == Max2({0} \cup {Near(stand, d, c, a) : a \in Moving(d)})
Leave(stand, d, c) == Min2({Far(stand, d, c, a) : a \in Moving(d)})
Beside(stand, d, c) == \E a \in Dims \ Moving(d) : c[a] # stand[a].cell

Touches(stand, d, c) == LET enter == Enter(stand, d, c)
                        IN /\ ~Beside(stand, d, c)
                           /\ enter <= Leave(stand, d, c)
                           /\ WithinReach(d, enter)
Crosses(stand, d, c) == LET enter == Enter(stand, d, c)
                        IN /\ ~Beside(stand, d, c)
                           /\ enter < Leave(stand, d, c)
                           /\ WithinReach(d, enter)

\* Two cells share a face.
Neighbours(b, c) == \E a \in Dims : /\ Abs(Flat(b[a]) - Flat(c[a])) = 1
                                    /\ \A o \in Dims \ {a} : b[o] = c[o]

\* What is picked is the first solid block the ray goes through: no block whose inside
\* the ray crosses sooner is passed over, also when borders coincide, at a carry between
\* chunks and at the end of the sectors; and the cell offered for placement is an empty
\* cell on the ray that shares the face with it and is entered no later.
PickIsFirstSeen ==
  LET hit == Pick(eye, aim, solid)
      here == Cell(eye)
  IN IF here \in solid THEN hit = [block |-> here, adjacent |-> NoCell]
     ELSE LET crossed == {c \in solid : Crosses(eye, aim, c)}
              enter == Enter(eye, aim, hit.block)
          IN IF hit = NoPick THEN crossed = {}
             ELSE /\ hit.block \in solid /\ Touches(eye, aim, hit.block)
                  /\ \A c \in crossed : enter <= Enter(eye, aim, c)
                  /\ hit.adjacent # NoCell
                  /\ hit.adjacent \notin solid
                  /\ Neighbours(hit.adjacent, hit.block)
                  /\ hit.adjacent = here \/ Touches(eye, aim, hit.adjacent)
                  /\ Enter(eye, aim, hit.adjacent) <= enter

\* A click changes one block, and it is the one the player aims at: a block that was
\* placed is what the same ray picks next, a block that was removed is what it picked,
\* so that the two buttons undo each other.
EditsWhatIsAimedAt ==
  loaded' = loaded /\ solid' # solid =>
    \/ \E c \in solid' \ solid : /\ solid' = solid \cup {c}
                                 /\ Pick(eye', aim', solid') # NoPick
                                 /\ Pick(eye', aim', solid').block = c
    \/ \E c \in solid \ solid' : /\ solid' = solid \ {c}
                                 /\ Pick(eye, aim, solid).block = c
ClicksEditWhatIsAimedAt == [][EditsWhatIsAimedAt]_interaction

\* With no event left to poll, no key or button is down that the player does not hold:
\* a release that the window never saw does not leave the camera moving.
NoStuckKey == queue = <<>> => down \subseteq held

\* With no event left to poll, the flashlight has changed once for each press of its
\* key, however often the system repeated it and wherever the focus went.
OneTogglePerPress == queue = <<>> => flashlight = (presses = 1)

InteractionTypeOK ==
  /\ focused \in BOOLEAN /\ running \in BOOLEAN /\ flashlight \in BOOLEAN
  /\ held \subseteq Keys \cup Buttons /\ down \subseteq Keys \cup Buttons
  /\ presses \in {0, 1} /\ clicks \in 0..MaxClicks
  /\ Len(queue) <= MaxQueue
  /\ eye \in Stands /\ aim \in Aims
  /\ loaded \in Residencies
  /\ \A c \in solid : ChunkOfCell(c) \in loaded /\ \A a \in Dims : Canonical(c[a])

\* Where the player looks, in one invariant.
PickInv == InteractionTypeOK /\ PickIsFirstSeen

\* With no event left to poll, what the game believes of the keyboard is so.
InputIsTrue == NoStuckKey /\ OneTogglePerPress
=============================================================================
