SPECIFICATION FairSpec
CONSTANTS
    Channel = {"in", "out"}
    Stray = {"stray"}
    Proc = "proc"
    NoKey = ""
    None = None
    MaxTtl = 1
    Skew <- SomeSkew
    Word = 8
    MaxSum = 1
    MaxRuns = 2
    MaxFaults = 1
    MaxSweeps = 1
INVARIANTS
    NothingIsLost
    SeriesOfTheRun
PROPERTIES
    PublishesDuringRun
    Publishes
    Starts
CHECK_DEADLOCK FALSE
