SPECIFICATION FairSpec
CONSTANTS
    owner = owner
    bot = bot
    mod = mod
    ann = ann
    bob = bob
    staff = staff
    plain = plain
    c1 = c1
    c2 = c2
    Users <- MCUsers
    Roles <- MCRoles
    Owner = owner
    Bot = bot
    Robots = {bot}
    Cmds = {c1}
    Requests <- EveryCommand
    Guilds <- TwoGuilds
    BannedBefore = {bob}
    ChunkCap = 1
    Hooks = {"member_kick", "member_ban_add", "modlog"}
    Leniency = {TRUE, FALSE}
INVARIANTS
    EphemeralMeansNobodySucceeds
    SuccessNeverHidden
    LoggedMeansAnswered
    EndedMeansAnswered
PROPERTIES
    EveryCommandEnds
    EveryCallSettles
CHECK_DEADLOCK FALSE
