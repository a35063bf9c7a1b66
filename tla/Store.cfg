SPECIFICATION FairSpec
CONSTANTS
    Callers = {a, b}
    MaxTokens = 2
    MaxAgents = 2
    MaxFaults = 2
INVARIANTS InStep AckedSurvives PinStable NoStrayCopy
PROPERTIES BoundWrite ImplementsDocument ComesBack
