SPECIFICATION Spec
CONSTANTS
    Here = {a1, a2}
    Foreign = z
    Unset = none
    Modes = {m1}
    HostVisible = TRUE
    Requests = {r1, r2}
    Startup = Startup
    Nothing = Nothing
    MaxRequests = 2
    MaxRestarts = 1
    Packs = {nic, raid}
    BootPacks = {nic}
INVARIANTS TypeOK PreviewedIsApplied ForeignHostKeptOut 
           ConfFollowsSettings MenuFollowsSettings NoHalfPacks 
PROPERTIES  LatestConfIsRun
CHECK_DEADLOCK FALSE
