SPECIFICATION FairSpec
CONSTANTS
  ra = ra
  Resources = {ra}
  Width <- OneWordEach
  MaxAddress = 2
  Values = {1}
  Sizes = {1}
  FrameAddresses = {1}
  MaxTransfer = 2
  MaxBindings = 1
  Budget = 4
  Footprint <- RoundedUp
  FenceMax = 4
  Faults = {"alloc", "reset", "close", "signal", "wait", "removal"}
  MaxObjects = 2
  MaxCommands = 2
  MaxDepth = 1
  MaxQueue = 2
INVARIANTS
  IInv
  NoUseAfterRelease
  AccountingExact
PROPERTY CallReturns
