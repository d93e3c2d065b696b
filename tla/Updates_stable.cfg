SPECIFICATION Spec
CONSTANTS
    Releases = {1, 3}
    Betas = {2}
    Mains = {}
    Tag = "stable"
    Installed = 1
    Jobs = {j1}
    Checkers = {c1}
INVARIANTS TypeOK StallCanBeSeen
 
CHECK_DEADLOCK FALSE
