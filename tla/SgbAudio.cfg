SPECIFICATION MachineSpec
CONSTANTS Channels = {1} Values = {1, 2} MaxWaiting = 1 Ticks = 2 MaxMenu = 1
Works = {{"pitch", "start"}, {"start", "sgb"}, {"volume", "start"}, {"start", "time"},
         {"start", "stop", "mute", "unmute"}, {"start", "master", "output"},
         {"start", "stop", "hyper"}, {"start", "channel"}}
INVARIANT SgbSourceMixed
CHECK_DEADLOCK FALSE
