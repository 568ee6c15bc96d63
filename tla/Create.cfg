CONSTANTS
    Files <- MCFiles
    WORKERS_COUNT = 2
    Workers = 4
    Capacity = 1
    MaxRuns <- MCMaxRuns
    MaxFailures = 1
    Lines <- MCLines
    MaxLines = 3
    Keywords <- MCKeywords
    Manifests <- MCManifests
    Stage <- MCStage
    ForcePost <- MCForcePost
    MaxFaults = 1
SPECIFICATION MCSpec
INVARIANTS AllListed ArchivesAgree PackageExact
PROPERTIES CreateReturns ListingImplemented
CHECK_DEADLOCK FALSE
