SPECIFICATION Spec
CONSTANTS
    g1 = g1
    g2 = g2
    Guids = {g1, g2}
    First = g1
    Added = {"violet"}
    RuleSets <- MCRuleSets
    Types = {"chlorine"}
    Measures <- MCMeasures
    AppRules <- MCAppRules
    DebouncePolls = 2
    Controls <- MCControls
    Readings = {3, 9}
    Tolerance = 1
    Quota = 2
    OutboxLimit = 3
    MaxHouseholds = 1
    MaxEvents = 0
INVARIANT NoFalseAlarm
