SPECIFICATION Spec
CONSTANTS
    owner = owner
    bot = bot
    mod = mod
    ann = ann
    bob = bob
    staff = staff
    plain = plain
    c1 = c1
    c2 = c2
    Users <- FewUsers
    Roles <- MCRoles
    Owner = owner
    Bot = bot
    Robots = {bot}
    Cmds = {c1, c2}
    Requests <- Racing
    Guilds <- OneGuild
    BannedBefore = {bob}
    ChunkCap = 1
    Hooks = {"member_kick", "member_ban_add", "modlog"}
    Leniency = {TRUE}
INVARIANTS
    CasesAreEarned
PROPERTIES
    LedgerSpec
SYMMETRY CmdSymmetry
CHECK_DEADLOCK FALSE
