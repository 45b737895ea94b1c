SPECIFICATION FairSpec
CONSTANTS
  Producers = {p1, p2}
  Delays = {0, 1}
  DueTimes = {}
  HandoffCapacity = 1
  SequenceStart = 1
  SequenceMax = 3
  TimeMax = 1
INVARIANTS SchedulerInv NoLossNoDuplicate
PROPERTIES DeliveryRefined EveryMessageLeaves ShutdownCompletes
