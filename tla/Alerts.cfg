SPECIFICATION FairSpec
CONSTANTS
    g1 = g1
    g2 = g2
    Guids = {g1, g2}
    First = g1
    Added = {"procon"}
    RuleSets <- MCRuleSets
    Types = {"chlorine"}
    Measures <- MCMeasures
    AppRules <- MCAppRules
    DebouncePolls = 2
    Controls <- MCControls
    Readings = {4, 9}
    Tolerance = 1
    Quota = 1
    OutboxLimit = 2
    MaxHouseholds = 2
    MaxEvents = 2
INVARIANTS TypeOK NoResidue NoFalseAlarm SaidOnce QueueOfOwn
PROPERTY ToldAgain
