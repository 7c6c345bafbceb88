SPECIFICATION FairSpec
CONSTANTS
    bot = bot
    mod = mod
    ann = ann
    eve = eve
    staff = staff
    plain = plain
    c1 = c1
    c2 = c2
    c3 = c3
    Users <- MCUsers
    Roles <- MCRoles
    Owner = mod
    Bot = bot
    Robots = {bot}
    Cmds = {c1, c2, c3}
    Batches <- MCBatches
    Guilds <- MCGuilds
    Warnings <- MCWarnings
    Punished <- MCPunished
    Gone = {eve}
    TimedOut = {ann, mod}
    RoleMuted = {ann}
    MuteRoles = {"deleted", "present"}
    ChunkCap = 1
INVARIANTS
    SuccessesAreEarned
    AbsenceIsTrue
PROPERTIES
    EveryCommandEnds
CHECK_DEADLOCK FALSE
