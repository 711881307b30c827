SPECIFICATION LinkSpec
CONSTANTS Counts = {2, 3} Retries = 1 MaxSessions = 2 MaxSearches = 2
CONSTANTS SerialCycles = 2 FrameCycles = 4 LongOp = 2 Service = 1 Late = {0, 3}
CONSTANTS MaxImage = 2 MaxPacket = 4 RowBytes = 1 RowAlign = 2 IdleFrames = 2 Numbers = {0, 1, 2}
          Programs <- PrinterPrograms MaxFaults = 1
INVARIANTS Assembled DoneMeansDelivered StandsStill LosesByAnOpcode PrinterInStep
PROPERTIES ImplementsWholeTransfer LinkedFramesEnd FilesAreOrders
CHECK_DEADLOCK FALSE
