CONSTANTS
    Programs <- MixedPrograms
    Cancels = {c1, c2}
    MaxTroubles = 2
SPECIFICATION FairSpec
INVARIANTS ParkedMeansSettled
PROPERTIES RunsSettleOnce CancelSettles CampaignSettles
CHECK_DEADLOCK FALSE
