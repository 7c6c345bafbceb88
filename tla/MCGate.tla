------------------------------- MODULE MCGate -------------------------------
(***************************************************************************)
(* The gate of CommandWrapper over a large family of guilds: every way to  *)
(* hand two roles to the owner, the bot, a moderator and a member, with    *)
(* every order of the roles' positions and addresses and every choice of   *)
(* who may ban.  One command, followed from its invocation to its calls.   *)
(***************************************************************************)
EXTENDS CommandWrapper

CONSTANTS owner, bot, mod, ann, \* people
          hi, lo,               \* roles
          c1                    \* the command

MCUsers == {owner, bot, mod, ann}
MCRoles == {hi, lo}

Orders == {[hi |-> 2, lo |-> 1], [hi |-> 1, lo |-> 2]}

World(roles, position, address, trusted) ==
    [roles     |-> roles,
     position  |-> [r \in MCRoles |-> IF r = hi THEN position.hi ELSE position.lo],
     address   |-> [r \in MCRoles |-> IF r = hi THEN address.hi ELSE address.lo],
     perms     |-> [r \in MCRoles |-> IF r \in trusted THEN Permissions ELSE {}],
     protected |-> {},
     permitted |-> [k \in Gated |-> {}],
     hardbans  |-> {}]

\* One role for everybody; two roles may share a position.
SingleRoleWorlds ==
    {World([u \in MCUsers |-> {f[u]}], p, a, t) :
        f \in [MCUsers -> MCRoles],
        p \in Orders \cup {[hi |-> 1, lo |-> 1]}, a \in Orders, t \in SUBSET MCRoles}

\* Any set of roles for the moderator and the member, none included.
ManyRoleWorlds ==
    {World([u \in MCUsers |-> IF u = mod THEN x ELSE IF u = ann THEN y ELSE {hi}],
           p, a, {hi, lo}) :
        x \in SUBSET MCRoles, y \in SUBSET MCRoles, p \in Orders, a \in Orders}

\* Settings that name the roles: lo is protected, or permitted to ban.
Settings ==
    {[w EXCEPT !.protected = {lo}] : w \in ManyRoleWorlds}
    \cup {[World([u \in MCUsers |-> IF u \in {mod, ann} THEN {lo} ELSE {hi}],
                 [hi |-> 2, lo |-> 1], a, {hi}) EXCEPT !.permitted["ban"] = {lo}] :
            a \in Orders}

AllWorlds == SingleRoleWorlds \cup ManyRoleWorlds \cup Settings

Ask(kind, author, members, users) ==
    [kind |-> kind, author |-> author, members |-> members, users |-> users,
     interaction |-> TRUE, duration |-> "nullopt"]

Lists == {{}, {owner}, {bot}, {ann}, {mod, ann}, {owner, ann}, {owner, mod, ann}}

AllRequests ==
    {Ask(k, a, m, {}) : k \in Kinds \ {"unban"}, a \in {owner, mod}, m \in Lists}
    \cup {Ask(k, a, m, {ann}) : k \in Hybrid, a \in {owner, mod}, m \in {{}, {mod}}}
    \cup {Ask("unban", a, {}, {ann}) : a \in {owner, mod}}

GateNext == \E c \in Cmds : Invoke(c) \/ check_permissions(c) \/ process_calls(c)

GateSpec == Init /\ [][GateNext]_vars

=============================================================================
