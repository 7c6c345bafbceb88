SPECIFICATION Spec
CONSTANTS
    bot = bot
    mod = mod
    ann = ann
    bob = bob
    staff = staff
    plain = plain
    c1 = c1
    c2 = c2
    Users <- MCUsers
    Roles <- MCRoles
    Owner = mod
    Bot = bot
    Robots = {bot}
    Cmds = {c1, c2}
    Batches <- MCBatches
    Guilds <- MCGuilds
    Configs <- MCConfigs
    TimedOut = {bob}
    Hooks = {"modlog"}
    KeyIsNumber = TRUE
    Lenient = TRUE
    ChunkCap = 1
INVARIANTS
    HiddenMeansAllFailed
    SuccessNeverHidden
    RecordedMeansApplied
CHECK_DEADLOCK FALSE
