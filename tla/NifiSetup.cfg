CONSTANTS
    Consoles = {c1, c2}
    HasSave = {c1, c2}
    Leftover = {}
    Retries = 1
    Patience = 1
    Hosts = {c1}
    Joiners = {c2}
    MaxEvents = 3
SPECIFICATION Spec
INVARIANT FreshLinkHoldsPeerSave
INVARIANT StartsInOrder
PROPERTY SetupEnds
CHECK_DEADLOCK FALSE
