------------------------------- MODULE Guild -------------------------------
(***************************************************************************)
(* The guild a moderation command runs in, and the gate of each wrapper:   *)
(* what check_permissions() and check_*_possible() refuse.  A gate is      *)
(* modelled by the set of errors it collects, pairs <<reason, person>>;    *)
(* the wrapper cancels exactly when that set is not empty.                 *)
(*                                                                         *)
(* Roles are shared pointers in the code and are compared as pointers.     *)
(* Cached(r) is the object of D++'s role cache, which get_roles_sorted()   *)
(* returns; Copied(r) is the private object std::make_shared builds in     *)
(* get_protected_roles() and get_permitted_roles().  They differ even for  *)
(* the same role.                                                          *)
(***************************************************************************)
EXTENDS Naturals, FiniteSets

CONSTANTS Users,    \* everybody a command can name
          Roles,    \* the roles of the guild
          Owner,    \* the guild's owner
          Bot,      \* the bot's own account
          Robots    \* the accounts for which is_bot() holds

ASSUME GuildAssumption ==
    /\ IsFiniteSet(Users)
    /\ Owner \in Users
    /\ Bot \in Robots
    /\ Robots \subseteq Users
    /\ Owner \notin Robots

Hybrid == {"ban", "hardban", "softban"}
Kinds  == {"kick", "unban", "warn"} \cup Hybrid

\* The commands whose permitted roles a guild can configure.
Gated == Kinds \cup {"mute", "lock", "unlock", "view_ban_list"}

Permissions ==
    {"kick_members", "ban_members", "moderate_members", "manage_roles", "manage_guild"}

(***************************************************************************)
(* A request: the targets given as guild members, the targets given as     *)
(* plain users, whether it comes from a slash command (interaction) or     *)
(* from automod, and what parse_human_time made of its duration text.      *)
(***************************************************************************)
Request == [kind        : Kinds,
            author      : Users,
            members     : SUBSET Users,
            users       : SUBSET Users,
            interaction : BOOLEAN,
            duration    : {"nullopt", "throws"}]

\* kick and warn take members, unban takes users, the hybrids take a mix.
WellFormed(r) ==
    /\ r.kind \in {"kick", "warn"} => r.users = {}
    /\ r.kind = "unban" => r.members = {}

\* The people a command acts on (users of a hybrid_wrapper).
Targets(r) == r.members \cup r.users

(***************************************************************************)
(* A guild record g: the roles people hold, each role's position and       *)
(* permissions, the address of its cached object, and the rows of the      *)
(* settings tables the gates read.                                         *)
(***************************************************************************)
Cached(x) == <<"cached", x>>
Copied(x) == <<"copied", x>>

GuildRecord(g) ==
    /\ g.roles \in [Users -> SUBSET Roles]
    /\ g.position \in [Roles -> Nat]
    /\ g.address \in [Roles -> Nat]
    /\ \A r, s \in Roles : g.address[r] = g.address[s] => r = s
    /\ g.perms \in [Roles -> SUBSET Permissions]
    /\ g.protected \subseteq Roles
    /\ g.permitted \in [Gated -> SUBSET Roles]
    /\ g.hardbans \subseteq Users

\* get_roles_sorted(member).front(): the unique_vector orders pointers.
TopRole(g, u) ==
    CHOOSE r \in g.roles[u] : \A s \in g.roles[u] : g.address[s] <= g.address[r]

TopPosition(g, u) == g.position[TopRole(g, u)]

Allowed(g, u, perm) == perm \in g.perms[TopRole(g, u)]

get_protected_roles(g)       == {Copied(r) : r \in g.protected}
get_permitted_roles(g, kind) == {Copied(r) : r \in g.permitted[kind]}

Holds(g, u) == {Cached(r) : r \in g.roles[u]}

-----------------------------------------------------------------------------
(***************************************************************************)
(* The errors a gate can collect.                                          *)
(***************************************************************************)
ErrorIf(condition, why, who) == IF condition THEN {<<why, who>>} ELSE {}

BotLacks(g, perm) == ErrorIf(~Allowed(g, Bot, perm), "bot_permission", Bot)

AuthorLacks(g, r, perm) ==
    LET permitted == get_permitted_roles(g, r.kind)
    IN  ErrorIf(/\ ~Allowed(g, r.author, perm)
                /\ Cached(TopRole(g, r.author)) \notin permitted,
                "author_permission", r.author)

IsSelf(r, m)    == ErrorIf(m = r.author, "self", m)
\* Mutant of IsOwner: silent for everybody else.
IsOwnerHimself(r, m) == ErrorIf(m = Owner /\ r.author = Owner, "owner", m)
\* is_owner/ignore_owner_repeat silences this one when the owner named himself.
IsOwner(r, m)   == ErrorIf(m = Owner /\ r.author # Owner, "owner", m)
IsBot(m)        == ErrorIf(m = Bot, "bot", m)
IsProtected(g, m) ==
    ErrorIf(get_protected_roles(g) \cap Holds(g, m) # {}, "protected", m)
AboveBot(g, m)  ==
    ErrorIf(TopPosition(g, m) > TopPosition(g, Bot), "above_bot", m)
\* Mutant of AboveAuthor: compares with the bot once more.
AboveBotAgain(g, r, m) ==
    ErrorIf(TopPosition(g, m) > TopPosition(g, Bot), "above_author", m)
AboveAuthor(g, r, m) ==
    ErrorIf(TopPosition(g, m) > TopPosition(g, r.author), "above_author", m)

check_kick_possible(g, r) ==
    UNION {IsSelf(r, m) \cup IsOwner(r, m) \cup IsBot(m) \cup IsProtected(g, m)
             \cup AboveBot(g, m) \cup AboveAuthor(g, r, m) : m \in r.members}

check_ban_possible(g, r) ==
    UNION {IsSelf(r, m) \cup IsOwner(r, m) \cup IsBot(m) \cup IsProtected(g, m)
             \cup AboveBot(g, m) \cup AboveAuthor(g, r, m) : m \in r.members}

\* The author is the owner, whatever else he is called in the message.
check_hardban_possible(g, r) ==
    UNION {ErrorIf(m = Owner, "owner", m) \cup IsBot(m) \cup IsProtected(g, m)
             \cup AboveBot(g, m) : m \in r.members}

KickGate(g, r) ==
    LET denied == AuthorLacks(g, r, "kick_members")
    IN  BotLacks(g, "kick_members") \cup denied
          \cup (IF denied = {} THEN check_kick_possible(g, r) ELSE {})

NoTargets(r) == ErrorIf(Targets(r) = {}, "no_targets", r.author)

BanGate(g, r) ==
    LET denied == AuthorLacks(g, r, "ban_members")
    IN  IF Targets(r) = {} THEN NoTargets(r)
        ELSE BotLacks(g, "ban_members") \cup denied
               \cup (IF denied = {} THEN check_ban_possible(g, r) ELSE {})

HardbanGate(g, r) ==
    IF Targets(r) = {} THEN NoTargets(r)
    ELSE IF r.author # Owner THEN {<<"not_owner", r.author>>}
    ELSE BotLacks(g, "ban_members") \cup check_hardban_possible(g, r)

\* softban asks nothing of the author's permissions.
SoftbanGate(g, r) ==
    IF Targets(r) = {} THEN NoTargets(r)
    ELSE BotLacks(g, "ban_members") \cup
         UNION {IsSelf(r, m) \cup IsOwner(r, m) \cup IsBot(m) \cup IsProtected(g, m)
                  \cup AboveBot(g, m) \cup AboveAuthor(g, r, m) : m \in r.members}

\* illegal_bans intersects cached users with private copies of the table's.
UnbanGate(g, r) ==
    LET illegal_bans == {Cached(u) : u \in r.users} \cap {Copied(u) : u \in g.hardbans}
    IN  BotLacks(g, "ban_members")
          \cup ErrorIf(TopPosition(g, r.author) < TopPosition(g, Bot),
                       "author_below_bot", r.author)
          \cup (IF r.author = Owner THEN {}
                ELSE {<<"hardbanned", u[2]>> : u \in illegal_bans})

WarnGate(g, r) ==
    BotLacks(g, "moderate_members") \cup
    UNION {IsSelf(r, m) \cup IsOwner(r, m) \cup ErrorIf(m \in Robots, "robot", m)
             \cup IsBot(m) \cup IsProtected(g, m)
             \cup AboveBot(g, m) \cup AboveAuthor(g, r, m) : m \in r.members}

GateErrors(g, r) ==
    CASE r.kind = "kick"    -> KickGate(g, r)
      [] r.kind = "ban"     -> BanGate(g, r)
      [] r.kind = "hardban" -> HardbanGate(g, r)
      [] r.kind = "softban" -> SoftbanGate(g, r)
      [] r.kind = "unban"   -> UnbanGate(g, r)
      [] r.kind = "warn"    -> WarnGate(g, r)

(***************************************************************************)
(* The people whose front() the gate takes; a person without a role makes  *)
(* it dereference the front of an empty vector.                            *)
(***************************************************************************)
LooksAt(g, r) ==
    IF \/ r.kind \in Hybrid /\ Targets(r) = {}
       \/ r.kind = "hardban" /\ r.author # Owner
    THEN {}
    ELSE {Bot} \cup (IF r.kind = "hardban" THEN {} ELSE {r.author})
           \cup (IF \/ r.kind = "unban"
                    \/ r.kind = "kick" /\ g.roles[r.author] # {}
                         /\ AuthorLacks(g, r, "kick_members") # {}
                    \/ r.kind = "ban" /\ g.roles[r.author] # {}
                         /\ AuthorLacks(g, r, "ban_members") # {}
                 THEN {} ELSE r.members)

EmptyFront(g, r) == \E u \in LooksAt(g, r) : g.roles[u] = {}

\* The gate cancels without telling anybody: check_permissions() returns early.
SilentCancel(r) ==
    \/ r.kind \in Hybrid /\ Targets(r) = {}
    \/ r.kind = "hardban" /\ r.author # Owner

(***************************************************************************)
(* External: Discord lets the bot act only on people below its highest     *)
(* role, and never on the owner.                                           *)
(***************************************************************************)
Highest(g, u) ==
    IF g.roles[u] = {} THEN 0
    ELSE CHOOSE p \in {g.position[r] : r \in g.roles[u]} :
            \A r \in g.roles[u] : g.position[r] <= p

BotOutranks(g, u) == u # Owner /\ Highest(g, Bot) > Highest(g, u)

=============================================================================
