SPECIFICATION FairSpec
CONSTANTS
    Releases = {}
    Betas = {}
    Mains = {1, 2}
    Tag = "latest"
    Installed = 1
    Jobs = {j1}
    Checkers = {c1}
PROPERTIES UpdateEnds StaleOfferRetracted
CHECK_DEADLOCK FALSE
