----------------------------- MODULE MCBanList -----------------------------
(***************************************************************************)
(* Instances of BanList for TLC: a moderator, a member without permission, *)
(* and bans for several pages.                                             *)
(***************************************************************************)
EXTENDS BanList

CONSTANTS bot, mod, ann,   \* people
          staff, plain     \* roles

MCUsers == {bot, mod, ann}
MCRoles == {staff, plain}

Ordinary ==
    [roles     |-> [u \in MCUsers |-> IF u = ann THEN {plain} ELSE {staff}],
     position  |-> [r \in MCRoles |-> IF r = staff THEN 2 ELSE 1],
     address   |-> [r \in MCRoles |-> IF r = staff THEN 7 ELSE 5],
     perms     |-> [r \in MCRoles |-> IF r = staff THEN Permissions ELSE {}],
     protected |-> {},
     permitted |-> [k \in Gated |-> {}],
     hardbans  |-> {}]

\* The bot has no role, or none that lets it read bans.
MCGuilds ==
    {Ordinary,
     [Ordinary EXCEPT !.roles[bot] = {plain}],
     [Ordinary EXCEPT !.roles[bot] = {}]}

MCCachings == {{2, 3}}

=============================================================================
