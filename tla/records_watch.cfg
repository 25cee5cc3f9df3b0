SPECIFICATION Spec
CONSTANTS
    x = x
    y = y
    read = read
    write = write
    watch = watch
    watch2 = watch2
    sync = sync
    intr = intr
    NoInterest = none
    Size <- MCSize
    Kind <- MCKind
    Named <- MCNamed
    Regs = {y}
    Boot = {}
    Readable = {y}
    Writable = {y}
    Interests = {watch}
    MaxCalls = 3
    MaxFaults = 0
INVARIANTS Polled
