CONSTANTS
  s1 = s1
  s2 = s2
  Stations = {s1, s2}
  QueueMax = 3
  Threshold = 1
  MaxAttempt = 3
  Groups = {19, 20}
  GroupOf <- OneAndThree
SPECIFICATION Spec
INVARIANTS
  TypeOK
  OneSlotPerTransaction
  NoLostWakeup
  TokenlessOpenBounded
PROPERTIES
  KeepsPlace
  EveryFrameServed
CHECK_DEADLOCK FALSE
