SPECIFICATION FairSpec
CONSTANTS
  SlotCount = 3
  SlotCapacity = 2
  BufferCapacity = 1
  Sizes <- MCSizes
  MaxPushes = 5
INVARIANTS WindowOfNewest NoLostWakeup LossWillBeAnnounced
PROPERTIES ImplementsQueue WaitingUnitsLeave
