-------------------------- MODULE MCCommandWrapper --------------------------
(***************************************************************************)
(* Instances of CommandWrapper for TLC: one server owner, one moderator,   *)
(* the bot, and two ordinary members.                                      *)
(***************************************************************************)
EXTENDS Documented, TLC

CONSTANTS owner, bot, mod, ann, bob,     \* people
          staff, plain,                  \* roles
          c1, c2                         \* invocations

MCUsers == {owner, bot, mod, ann, bob}
\* Without the moderator: the owner issues every command.
FewUsers == {owner, bot, ann, bob}

MCRoles == {staff, plain}

\* The usual guild: owner, bot and moderator are staff, everybody else plain.
Ordinary ==
    [roles     |-> [u \in Users |-> IF u \in {ann, bob} THEN {plain} ELSE {staff}],
     position  |-> [r \in MCRoles |-> IF r = staff THEN 2 ELSE 1],
     address   |-> [r \in MCRoles |-> IF r = staff THEN 7 ELSE 5],
     perms     |-> [r \in MCRoles |-> IF r = staff THEN Permissions ELSE {}],
     protected |-> {},
     permitted |-> [k \in Gated |-> {}],
     hardbans  |-> {}]

\* The moderator has lost his role, and somebody has none at all.
Thinned == [Ordinary EXCEPT !.roles[mod] = {plain}, !.roles[bob] = {}]

OneGuild  == {Ordinary}
TwoGuilds == {Ordinary, Thinned}

Ask(kind, author, members, users, interaction) ==
    [kind |-> kind, author |-> author, members |-> members, users |-> users,
     interaction |-> interaction, duration |-> "nullopt"]

\* One command of every kind, on one or two people, from a slash command or
\* automod, by somebody the gate lets through or refuses.
EveryCommand ==
    {Ask(k, a, {ann}, {}, i) : k \in {"kick", "warn", "softban"},
                               a \in {mod, ann}, i \in BOOLEAN}
    \cup {Ask(k, mod, {ann, bob}, {}, i) : k \in {"kick", "warn"}, i \in BOOLEAN}
    \cup {Ask(k, a, {ann}, {bob}, i) : k \in Hybrid, a \in {owner, mod}, i \in BOOLEAN}
    \cup {Ask("unban", owner, {}, {ann, bob}, i) : i \in BOOLEAN}
    \cup {Ask("unban", bob, {}, {ann}, TRUE)}
    \cup {Ask("ban", mod, {}, {}, TRUE), Ask("kick", mod, {}, {}, TRUE),
          Ask("warn", mod, {}, {}, TRUE)}
    \cup {[Ask("ban", mod, {ann}, {}, TRUE) EXCEPT !.duration = "throws"]}

\* Two commands whose callbacks race for the next case number: two unbans log
\* a case of their own per callback and need a previous case to start from.
Racing ==
    {Ask("hardban", owner, {ann}, {}, TRUE), Ask("unban", owner, {}, {ann, bob}, TRUE)}

\* A hardban, and an unban of the same person by somebody who is not the owner.
HardbanThenUnban ==
    {Ask("hardban", owner, {ann}, {}, TRUE), Ask("unban", mod, {}, {ann}, TRUE)}

\* Invocations differ only in their request: interchangeable for safety.
CmdSymmetry == Permutations({c1, c2})

=============================================================================
