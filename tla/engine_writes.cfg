SPECIFICATION Spec
CONSTANTS
    a = a
    b = b
    Regs = {a}
    Boot = {}
    Size <- MCSize
    Readable = {a}
    Writable = {a}
    Interests = {i1}
    NoInterest = none
    NoWord = noWord
    NoPacket = noPacket
    NSlots = 1
    NReg = 1
    SeqMod = 8
    Lifetime = 8
    Resend = FALSE
    Corrupt = FALSE
    MaxCalls = 3
    MaxSends = 1
INVARIANTS DeviceHasCache WaitsServed
