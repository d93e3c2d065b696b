SPECIFICATION Spec
CONSTANTS
    e1 = e1
    e2 = e2
    arch = arch
    iso = iso
    k1 = k1
    k2 = k2
    ini = ini
    tar = tar
    None = None
    a = a
    b = b
    c = c
    r1 = r1
    r2 = r2
    Editions <- AllEditions
    Archived = {arch, iso}
    LiveIso = iso
    Urls <- AllUrls
    Names <- AllNames
    UrlOf <- Where
    Length <- Lengths
    Kernels <- AreKernels
    LastVersion = 2
    MaxBytes = 2
    Attempts = 3
    Ids = {a, b, c}
    ImageId = a
    MaxCustom = 2
    Requests = {r1, r2}
    MaxRequests = 2
    MaxRestarts = 1
    Numbers <- TheNumbers
    Listed <- TheList
    ListsTesting = TRUE
    KeepsOld = TRUE
    Ttl = 2
    Retry = 1
    Pages = {p1, p2}
    MaxClock = 2
    MaxPages = 1
    MaxChecks = 1
INVARIANTS TypeOK FilesAreWhole  CapHolds NewIsNew
           AnswersAreRecent  
PROPERTY RunEnds
ACTION_CONSTRAINT OneAtATime
CHECK_DEADLOCK FALSE
