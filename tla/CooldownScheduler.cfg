\* Three symbols, two stages, two refusals, one tick of the clock, at most
\* three calls pending at the start, a processed file of no symbol or of each.
SPECIFICATION FairSpec
CONSTANTS
    Symbols = {s1, s2, s3}
    Stages <- MCStages
    MarketStages = {"daily"}
    MaxWorkers = 2
    MaxFailures = 1
    Cooldown = 1
    MaxRefusals = 2
    MaxTicks = 1
    MaxPending = 3
    ProcessedBefore = {{}, {s1, s2, s3}}
INVARIANTS
    EverySymbolAccounted
PROPERTIES
    CooldownsKept
    PipelineEnds
