SPECIFICATION Spec
CONSTANTS
  Modes = {"irq", "poll", "dma"}
  Clients = {driver, sensor}
  LockOn = {driver}
  None = None
  MaxFrames = 2
  FifoSize = 2
INVARIANTS
  SectionExclusive
  ResultIsOwn
  PolicyFollowsTransfer
PROPERTY TransferEnds
CHECK_DEADLOCK FALSE
