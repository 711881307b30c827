CONSTANTS
    Gbs = {g1}
    Sectors = {s1}
    Clock = clock
    Data = {zero, a}
    Zero = zero
    Scratch = scratch
    Unread = unread
    Missing = missing
    Cartridges = {"clock"}
    Players <- ResettingPlayers
    Window = 2
    ProbeFrames = 2
    MaxEvents = 6
SPECIFICATION Spec
PROPERTY ExitSaves
CHECK_DEADLOCK FALSE
