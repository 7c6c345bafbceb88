SPECIFICATION Spec
CONSTANTS
    owner = owner
    bot = bot
    mod = mod
    ann = ann
    bob = bob
    staff = staff
    plain = plain
    c1 = c1
    c2 = c2
    Users <- MCUsers
    Roles <- MCRoles
    Owner = owner
    Bot = bot
    Robots = {bot}
    Cmds = {c1, c2}
    Requests <- HardbanThenUnban
    Guilds <- OneGuild
    BannedBefore = {}
    ChunkCap = 2
    Hooks = {}
    Leniency = {FALSE}
PROPERTIES
    HardbanLiftedByOwnerOnly
CHECK_DEADLOCK FALSE
