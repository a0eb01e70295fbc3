SPECIFICATION Spec
CONSTANTS
    Capacity = 2
    MaxPolls = 1
    MaxHeight = 2
    MaxSubs = 2
    MaxRuns = 2
    Kind = {"heads", "pending"}
INVARIANTS
    NotifiedStateVisible
    TxAlwaysFound
    NotesExact
    DeploysDistinct
PROPERTY
    HeadsHeard
CHECK_DEADLOCK FALSE
