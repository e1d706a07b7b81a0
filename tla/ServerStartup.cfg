SPECIFICATION Spec
CONSTANTS
    Items <- MCItems
    Word <- MCWord
    MaxWords = 5
    Event <- MCEvent
    File = {"mouse", "keys", "bad"}
    Lines <- MCLines
    Help = 1
    Whitelist = 3
    Blacklist = 4
INVARIANTS
    TypeOK
    AllUnderstood
    LastValueCounts
    ListsMean
    NoHalfList
