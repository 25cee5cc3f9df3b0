SPECIFICATION FairSpec
CONSTANTS
    x = x
    y = y
    read = read
    write = write
    watch = watch
    watch2 = watch2
    sync = sync
    intr = intr
    NoInterest = none
    Size <- MCSize
    Kind <- MCKind
    Named <- MCNamed
    Regs = {x, y}
    Boot = {}
    Readable = {x, y}
    Writable = {x, y}
    Interests = {read, write, sync}
    MaxCalls = 4
    MaxFaults = 1
INVARIANTS TypeOK NobodyForgotten SyncCounts
PROPERTIES ReadFresh WriteDone SyncWaits Returned
