SPECIFICATION DesktopSpec
CONSTANTS
    ann = ann
    ben = ben
    p1 = p1
    s1 = s1
    x1 = x1
    x2 = x2
    c1 = c1
    c2 = c2
    c3 = c3
    r1 = r1
    r2 = r2
    NoOne = NoOne
    Users = {ann, ben}
    Projects = {p1}
    Admins = {ann}
    States = {s1}
    Sessions = {x1, x2}
    Codes = {c1, c2, c3}
    Devices <- TwoDevices
    Slots = {r1, r2}
    MaxRequests = 3
    MaxOfEach = 2
    Expiring <- Early
    MaxLiveCodes = 1
    MaxLaunches = 2
    Founded <- OneAdmin
    SignedIn = {ann}
    Minted <- BenMinted
    Bound <- BenBound
    Changes <- Removal
    Asked <- LocalRun
    PredicatePassed = TRUE
CHECK_DEADLOCK FALSE
PROPERTIES
    LetGoIsGone
