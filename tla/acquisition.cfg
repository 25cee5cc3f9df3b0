SPECIFICATION Spec
CONSTANTS
    NChannels = 2
    Size = 5
    Masks <- MCMasks
    TagMod = 4
    Sizes <- MCSizes
    Users = {"ioc", "raw"}
    Clients = {a, b}
    MaxPuts <- MCMaxPuts
    MaxTags <- MCMaxTags
    MaxFlips = 2
INVARIANTS TypeOK  OwnSamples TagsFresh
SYMMETRY Symmetric
CHECK_DEADLOCK FALSE
