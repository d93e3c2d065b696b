SPECIFICATION Spec
CONSTANTS
    Users = {u1, u2}
    Nobody = Nobody
    Browsers = {b1, b2}
    Script = Script
    Requests = {r1, r2}
    Offered = {"create", "reset", "demote", "delete", "password", "totp_start",
               "totp_confirm", "totp_disable", "token"}
    MaxRequests = 2
    MaxClock = 2
    MaxFailures = 2
    Window = 1
    Lockout = 1
INVARIANTS TypeOK AdminRemains  ThrottleHolds
SYMMETRY Symmetry
CHECK_DEADLOCK FALSE
