CONSTANTS
    Tokens <- MCTokens
    MaxFirst = 3
    MaxSecond = 2
    Patterns <- MCPatterns
    Split <- MCSplit
    RangesOf <- MCRanges
    Queries <- MCQueries
    NoVersion = NoVersion
    Installed = {x, y, z}
    MaxVulns = 2
    MaxPackages = 2
    MaxNames = 4
    MaxSplit = 2
SPECIFICATION MCSpec
INVARIANTS VersionOrder VerdictExact
CHECK_DEADLOCK FALSE
