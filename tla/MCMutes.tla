------------------------------ MODULE MCMutes ------------------------------
(***************************************************************************)
(* Instances of Mutes for TLC: a moderator, the bot and two members, of    *)
(* whom one has been timed out by hand.                                    *)
(***************************************************************************)
EXTENDS Mutes

CONSTANTS bot, mod, ann, bob,     \* people
          staff, plain,           \* roles
          c1, c2                  \* invocations

MCUsers == {bot, mod, ann, bob}
MCRoles == {staff, plain}

Ordinary ==
    [roles     |-> [u \in MCUsers |-> IF u \in {ann, bob} THEN {plain} ELSE {staff}],
     position  |-> [r \in MCRoles |-> IF r = staff THEN 2 ELSE 1],
     address   |-> [r \in MCRoles |-> IF r = staff THEN 7 ELSE 5],
     perms     |-> [r \in MCRoles |-> IF r = staff THEN Permissions ELSE {}],
     protected |-> {},
     permitted |-> [k \in Gated |-> {}],
     hardbans  |-> {}]

\* The moderator has lost his role.
Demoted == [Ordinary EXCEPT !.roles[mod] = {plain}]

MCGuilds == {Ordinary, Demoted}

MCConfigs ==
    {[use_timeout |-> "NULL", mute_role |-> "NULL"],
     [use_timeout |-> "false", mute_role |-> "present"],
     [use_timeout |-> "false", mute_role |-> "deleted"]}

Ask(kind, author, members, interaction) ==
    [kind |-> kind, author |-> author, members |-> members,
     interaction |-> interaction, duration |-> "nullopt"]

Both(r1, r2) == [c \in {c1, c2} |-> IF c = c1 THEN r1 ELSE r2]

\* Two mutes that meet at the table of timeouts; a mute of two beside a refused
\* automod; an unmute and a mute of one member; and an unmute by automod beside
\* a mute whose duration does not parse.
MCBatches ==
    {Both(Ask("mute", mod, {ann}, TRUE), Ask("mute", mod, {bob}, FALSE)),
     Both(Ask("mute", mod, {ann, bob}, TRUE), Ask("unmute", ann, {mod}, FALSE)),
     Both(Ask("unmute", ann, {bob}, TRUE), Ask("mute", mod, {bob}, TRUE)),
     Both(Ask("unmute", mod, {ann}, FALSE),
          [Ask("mute", mod, {bob}, TRUE) EXCEPT !.duration = "throws"])}

=============================================================================
