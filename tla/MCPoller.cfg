\* Two channels share fd 1; the table starts with one entry and is doubled.
CONSTANTS
    c1 = c1
    c2 = c2
    c3 = c3
    Channels = {c1, c2, c3}
    FdOf <- NearFds
    TableSize = 1
    MaxFd = 1
    NoChannel = NoChannel
SPECIFICATION Spec
SYMMETRY NearSymmetry
INVARIANTS InterestAgrees PollFindsChannel OnlyRegisteredDispatched CallbacksHaveOwner TableInBounds
