SPECIFICATION Spec
CONSTANTS
  Radix <- MCRadix
  IntMin <- MCIntMin
  IntMax = 7
  Axes <- MCAxes
  Sub = 2
  EdgeBlocks = 6
  ThresholdTenths = 8
  BackendGroups = 3
  Strides = {1, 4, 13}
  Start <- MCStart
  Targets <- MCTargets
  TargetReach = 3
  TravelBound <- MCTravelBound
INVARIANTS PositionInv SceneIsWorld
PROPERTIES AnchorSticky
