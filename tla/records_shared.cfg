SPECIFICATION Spec
CONSTANTS
    x = x
    y = y
    read = read
    write = write
    watch = watch
    watch2 = watch2
    sync = sync
    intr = intr
    NoInterest = none
    Size <- MCSize
    Kind <- MCKind
    Named <- MCNamed
    Regs = {x}
    Boot = {}
    Readable = {x}
    Writable = {x}
    Interests = {watch, watch2, intr}
    MaxCalls = 4
    MaxFaults = 1
INVARIANTS IntrUpToDate
PROPERTIES WatchReads
