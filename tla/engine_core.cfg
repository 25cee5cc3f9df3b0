SPECIFICATION Spec
CONSTANTS
    a = a
    b = b
    NoInterest = none
    NoWord = noWord
    NoPacket = noPacket
    Size <- MCSize
    Regs = {a, b}
    Boot = {b}
    Readable = {a, b}
    Writable = {a}
    Interests = {}
    NSlots = 2
    NReg = 1
    SeqMod = 2
    Lifetime = 2
    Resend = TRUE
    Corrupt = FALSE
    MaxCalls = 2
    MaxSends = 0
INVARIANTS TypeOK WordsAccounted SendQueue SlotsCurrent InFlight
PROPERTIES ServiceSpec
