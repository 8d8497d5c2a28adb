SPECIFICATION Spec
CONSTANTS
    ra = ra
    rb = rb
    push = push
    dryPush = dryPush
    docker = docker
    net = net
    metadata = metadata
    Runs = {ra, rb}
    Mode <- Modes
    DeniedCommands <- DeniedInB
    Commands = {push, dryPush, docker}
    Endpoints = {net, metadata}
    HostControl = {docker}
    PrivateTargets = {metadata}
    LowRisk = {dryPush}
    Narrower <- Narrowed
    AskDomains = {metadata}
    ann = ann
    ben = ben
    viv = viv
    Users = {ann, ben, viv}
    RoleOf <- Roles
    None = None
    MaxTurns <- Turns
    MaxCommands = 2
    MaxCrashes = 1
CHECK_DEADLOCK FALSE
INVARIANTS
    DenialsHold
    PerformedIsJustified
PROPERTIES
    SupersededStaysSuperseded
