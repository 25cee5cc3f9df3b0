SPECIFICATION FairSpec
CONSTANTS
    a = a
    b = b
    NoInterest = none
    NoWord = noWord
    NoPacket = noPacket
    Size <- MCSize
    Regs = {a}
    Boot = {}
    Readable = {a}
    Writable = {a}
    Interests = {i1}
    NSlots = 1
    NReg = 2
    SeqMod = 2
    Lifetime = 2
    Resend = FALSE
    Corrupt = TRUE
    MaxCalls = 2
    MaxSends = 0
PROPERTIES CalledBack
