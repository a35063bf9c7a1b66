SPECIFICATION FairSpec
CONSTANTS
    Strikes = 2
    Spacing = 1
    Grace = 1
    ActiveMin = 1
    ActiveMax = 2
    NoSignalMax = 4
    ParkMin = 1
    ParkMax = 4
    UnknownMax = 2
    ProbeFirst = 1
    ProbeEvery = 2
    MaxToken = 2
    MaxChanges = 2
INVARIANTS UnknownAsksSoon
PROPERTIES ActsOnOwnAnswer ParkedResumes DeletedIsForgotten
