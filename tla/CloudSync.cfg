SPECIFICATION FairSpec
CONSTANTS
    Controllers = {c1, c2}
    Values = {a, b, x}
    First = a
    Refused = {x}
    Kicks = {k1}
    MaxChanges = 2
    MaxRotations = 1
    MaxRounds = 2
    MaxFaults = 1
INVARIANTS CurrentUnlessRotated
PROPERTIES RowNeverOlder FlagsSettle
