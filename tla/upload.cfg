CONSTANTS
    Files = {f1, f2}
    k1 = k1
    Batches = {k1, k2}
    MaxPicked <- Picked
    MaxEvents = 2
    Others = Others
    Replacement = Replacement
    None = None
SPECIFICATION LiveSpec
INVARIANTS
    OneResultEach
    ResultsAreTrue
PROPERTIES
    ContentsGoByChoice
    BatchEnds
CHECK_DEADLOCK FALSE
