SPECIFICATION Spec
CONSTANTS
  foo = foo
  Wildcard = Wildcard
  Actions <- FooOnly
  Kinds <- CommandOnly
  Schemas = {place}
  Receivers = {r1}
  Contexts = {x1}
  Capabilities = {c1}
  SlotReceivers = {Wildcard}
  SlotContexts = {x1, Wildcard}
  ActionIds = {}
  OutputLimits = {1, 2}
  AutoLimit = 2
  MaxSlots = 2
  Senders = {s1}
  InCapacity = 2
  OutCapacity = 1
  MaxId = 3
  MaxDepth = 2
INVARIANT QueuedContractsFit
CHECK_DEADLOCK FALSE
