SPECIFICATION LiveSpec
CONSTANTS
    None = None
    Torn = Torn
    MaxRevs = 2
    MaxGen = 3
    MaxCrashes = 2
    Windows = {}
INVARIANTS LayersAreThere SchemaFits SourceHasItsPackages VerdictsStand TrialIsSeen
PROPERTY TrialsAreDecided
