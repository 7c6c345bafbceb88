SPECIFICATION GateSpec
CONSTANTS
    owner = owner
    bot = bot
    mod = mod
    ann = ann
    hi = hi
    lo = lo
    c1 = c1
    Users <- MCUsers
    Roles <- MCRoles
    Owner = owner
    Bot = bot
    Robots = {bot}
    Cmds = {c1}
    ChunkCap = 1
    Guilds <- AllWorlds
    Requests <- AllRequests
    BannedBefore = {}
    Hooks = {}
    Leniency = {TRUE}
INVARIANTS
    UntouchablesAreSafe
PROPERTIES
    RankIsRespected
CHECK_DEADLOCK FALSE
