SPECIFICATION FairSpec
CONSTANTS
    NUM_GPUS = 2
    THRESHOLD_JOBS = 2
    Iterations <- MCIterations
    MaxErrorsPerIter = 1
    MaxClock = 2
    Runs <- MCRuns
    ErrorCounts <- MCErrorCounts
    Campaigns <- MCCampaigns
INVARIANTS
    TypeOK
    AbortMeansRepeat
    RowIsOfItsRun
    OnlyLastBatchIsLost
PROPERTIES
    CampaignEnds
