SPECIFICATION FairSpec
CONSTANTS
    bot = bot
    mod = mod
    ann = ann
    staff = staff
    plain = plain
    Users <- MCUsers
    Roles <- MCRoles
    Owner = mod
    Bot = bot
    Robots = {bot}
    Guilds <- MCGuilds
    Authors = {mod, ann}
    Snowflakes = {2, 3, 4, 5}
    Cachings <- MCCachings
    PageSize = 2
    ChunkCap = 1
    MaxEdits = 1
INVARIANTS
    FetchedIsComplete
PROPERTIES
    FetchEnds
CHECK_DEADLOCK FALSE
