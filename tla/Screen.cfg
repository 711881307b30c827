SPECIFICATION ScreenSpec
CONSTANTS Blocks = {"tiles", "map"} MaxWrites = 1 Deferred = {"tiles"} SafeFirst = 1 SafeLast = 1 VBlankLine = 2 VCountLine = 4 Lines = 5
Slack = 1 Bound = 1 StaleFrames = 2 Recent = 0 MaxSwitches = 1
Height = 3 MaxRegisterWrites = 2 Settings = {1, 2}
ScanTime = 1 DrawTime = 1 HBlankTime = 1 Visible = 2 LastLine = 3 Periods = {1, 2} TimaTop = 1 MaxWait = 4 Over = 1 MaxOwed = 2
CONSTANTS Capacity = 2 Tasks = {"menu", "mode", "border"} None = none MaxDue = 2 Follow <- Follows
CONSTANTS SuspendAnywhere = FALSE
INVARIANTS ClocksOnTime ReplayFaithful NoTear SlotsDiffer ChangesQueued TasksRunInOrder AttributesAsAsked
CHECK_DEADLOCK FALSE
