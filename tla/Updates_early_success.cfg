SPECIFICATION Spec
CONSTANTS
    Releases = {1, 2}
    Betas = {}
    Mains = {}
    Tag = "stable"
    Installed = 1
    Jobs = {j1}
    Checkers = {c1}
PROPERTIES FinishedIsReplaced
CHECK_DEADLOCK FALSE
