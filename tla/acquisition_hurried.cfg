SPECIFICATION Spec
CONSTANTS
    NChannels = 2
    Size = 5
    Masks <- MCMasks
    TagMod = 4
    Sizes <- MCUnset
    Users = {"ioc"}
    Clients = {}
    MaxPuts <- MCMaxPuts
    MaxTags <- MCMaxTags
    MaxFlips = 2
INVARIANTS SettingsIncluded
CHECK_DEADLOCK FALSE
