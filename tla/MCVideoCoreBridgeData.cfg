SPECIFICATION Spec
CONSTANTS
  ra = ra
  Resources = {ra, rb}
  Width <- TwoAndOne
  MaxAddress = 4
  Values = {1}
  Sizes = {1, 2}
  FrameAddresses = {}
  MaxTransfer = 2
  MaxBindings = 2
  Budget = 3
  Footprint <- RoundedUp
  FenceMax = 3
  Faults = {"alloc", "reset", "close", "signal", "wait"}
  MaxObjects = 1
  MaxCommands = 2
  MaxDepth = 0
  MaxQueue = 0
PROPERTY BatchingIsInvisible
