SPECIFICATION Spec
CONSTANTS
    j1 = j1
    j2 = j2
    PollUnits = 2
    LogLines = 1
    Jobs <- MCJobs
    Outcomes <- MCOutcomesOf
    Thresholds = {2, 3}
INVARIANT
    MaskedShowsNoXid
