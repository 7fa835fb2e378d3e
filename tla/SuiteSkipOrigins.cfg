SPECIFICATION Spec
CONSTANTS
    Campaigns <- MCCampaigns
    MaxOutput = 0
    MaxRuns = 1
CHECK_DEADLOCK FALSE
INVARIANTS
    SkipOriginsAgree
