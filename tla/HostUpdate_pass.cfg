CONSTANTS
    MaxVersion = 2
    web = web
    worker = worker
    Units <- MCUnits
    Web <- MCWeb
    Files <- MCFiles
    Enabled0 <- WebOnly
    None = None
    Empty = Empty
    Down = Down
    MaxAsks = 1
    MaxRuns = 2
    MaxFaults = 1
SPECIFICATION FairSpec
INVARIANTS TypeOK UpdatedIsWhole RolledBackIsBack
PROPERTIES SchemaDumped RequestAnswered
CHECK_DEADLOCK FALSE
