CONSTANTS
    Gbs = {g1, g2}
    Sectors = {s1}
    Clock = clock
    Data = {zero, a}
    Zero = zero
    Scratch = scratch
    Unread = unread
    Missing = missing
    Cartridges = {"clock", "camera"}
    Window = 2
    ProbeFrames = 2
    Players <- PlayersValue
    MaxEvents = 6
SPECIFICATION MCSpec
INVARIANT FilesHoldGameData
INVARIANT AutosaveTracks
INVARIANT AutosaveIsTimely
SYMMETRY Symmetry
CHECK_DEADLOCK FALSE
