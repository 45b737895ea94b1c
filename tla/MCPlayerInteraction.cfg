SPECIFICATION InteractionSpec
CONSTANTS
  Radix <- MCRadix
  IntMin <- MCIntMin
  IntMax = 1
  Sub = 2
  Reach = 3
  Stands <- MCStands
  Aims <- MCAims
  Generated <- MCGenerated
  Residencies <- MCResidencies
  Keys = {"move", "flashlight", "escape"}
  Buttons = {"primary", "secondary"}
  MaxHeld = 1
  MaxQueue = 2
  MaxClicks = 2
INVARIANTS PickInv InputIsTrue
PROPERTIES ClicksEditWhatIsAimedAt
CHECK_DEADLOCK FALSE
