SPECIFICATION FairSpec
CONSTANTS
    MaxVersion = 2
    MaxCrashes = 2
    AppActive = TRUE
    Faults = {"read", "compare", "record", "restore", "result"}
INVARIANTS WayBack SettledOnProven
PROPERTIES KeepsPromise RequestAnswered
