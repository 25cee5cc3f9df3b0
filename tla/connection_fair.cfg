SPECIFICATION FairSpec
CONSTANTS
    hello = hello
    rom2 = rom2
    rom16 = rom16
    x = x
    A = A
    B = B
    i = i
    j = j
    Hello = hello
    NoAddress = noAddress
    Nowhere = nowhere
    NoReg = noReg
    NoInterest = none
    Regs = {hello, rom2, rom16, x}
    Boot = {hello, rom2, rom16}
    Readable = {hello, rom2, rom16, x}
    Writable = {x}
    Size <- MCSize
    Described <- MCDescribed
    Named <- MCNamed
    Interests = {i}
    Address = {A}
    MaxCalls = 3
    MaxFaults = 1
PROPERTIES ErrorForced Connects
