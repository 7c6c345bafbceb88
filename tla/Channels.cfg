SPECIFICATION Spec
CONSTANTS
    bot = bot
    mod = mod
    ann = ann
    staff = staff
    plain = plain
    general = general
    random = random
    gone = gone
    c1 = c1
    c2 = c2
    Users <- MCUsers
    Roles <- MCRoles
    Owner = mod
    Bot = bot
    Robots = {bot}
    Cmds = {c1, c2}
    Channels <- MCChannelSet
    Hidden = {general}
    Deleted = {gone}
    Batches <- MCBatches
    Guilds <- MCGuilds
    Lists <- MCLists
    Before <- MCBefore
    ChunkCap = 1
INVARIANTS
    TypeOK
    EphemeralMeansNobodySucceeds
    CasesAreEarned
    SuccessNeverHidden
    OverwriteIsAccountable
PROPERTIES
    LedgerSpec
CHECK_DEADLOCK FALSE
