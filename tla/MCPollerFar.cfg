\* The highest fd is beyond twice the size of the table.
CONSTANTS
    c1 = c1
    c2 = c2
    c3 = c3
    Channels = {c1, c2, c3}
    FdOf <- FarFds
    TableSize = 1
    MaxFd = 2
    NoChannel = NoChannel
SPECIFICATION Spec
INVARIANT TableInBounds
