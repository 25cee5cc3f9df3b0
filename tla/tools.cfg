SPECIFICATION Spec
CONSTANTS
    rw = rw
    five = five
    noText = noText
    zero = zero
    plain = plain
    assigning = assigning
    broken = broken
    Images <- MCImages
    RomSize = 6
    SizeLimit = 4
    OldWords <- MCOldWords
    RegNames = {"a", "b"}
    Meta = "__metadata__"
    Ints <- MCInts
    AddrSize = 64
    WordSize = 1024
    Strings = {rw, five}
    IntOf <- MCIntOf
    NoInt <- MCNoInt
    Letters <- MCLetters
    MaxEvents = 10
    Expressions = {noText, zero, plain, assigning, broken}
    Empty = noText
    Zero = zero
    Broken = {broken}
    Assigns <- MCAssigns
    UseIn = {1, 2}
    UseOut = {0, 1}
    MaxLen <- MCMaxLen
    InLens = {0, 1, 2}
    MaxRuns = 3
    MaxCommands = 3
    MaxChildren = 2
    MaxLosses = 1
INVARIANTS RomReadBack JsonRead HeldInputs NoReplay StatusSettles
PROPERTY AbortKills
CHECK_DEADLOCK FALSE
