----------------------------- MODULE MCChannels -----------------------------
(***************************************************************************)
(* Instances of Channels for TLC: a moderator, a member and the bot, two   *)
(* channels and one that was deleted, and commands that meet on a channel. *)
(***************************************************************************)
EXTENDS Channels

CONSTANTS bot, mod, ann,            \* people
          staff, plain,          \* roles
          general, random, gone, \* channels
          c1, c2                 \* invocations

MCUsers    == {bot, mod, ann}
MCRoles    == {staff, plain}
MCChannelSet == {general, random}

Ordinary ==
    [roles     |-> [u \in MCUsers |-> IF u = ann THEN {plain} ELSE {staff}],
     position  |-> [r \in MCRoles |-> IF r = staff THEN 2 ELSE 1],
     address   |-> [r \in MCRoles |-> IF r = staff THEN 7 ELSE 5],
     perms     |-> [r \in MCRoles |-> IF r = staff THEN Permissions ELSE {}],
     protected |-> {},
     permitted |-> [k \in Gated |-> {}],
     hardbans  |-> {}]

Ask(kind, author, channels, interaction) ==
    [kind |-> kind, author |-> author, channels |-> channels, here |-> general,
     interaction |-> interaction]

\* The moderator has lost his role.
Demoted == [Ordinary EXCEPT !.roles[mod] = {plain}]

MCGuilds == {Ordinary, Demoted}
MCLists  == {{}, {gone}, {general}, {general, gone}}

Both(r1, r2) == [c \in {c1, c2} |-> IF c = c1 THEN r1 ELSE r2]

\* A lock of two channels beside one the gate refuses; a lock and an unlock of
\* the same channel; a lockdown beside an unlock, and beside its own removal.
MCBatches ==
    {Both(Ask("lock", mod, {general, random}, TRUE), Ask("lock", ann, {}, FALSE)),
     Both(Ask("lock", mod, {}, TRUE), Ask("unlock", mod, {general}, TRUE)),
     Both(Ask("unlock", mod, {}, FALSE), Ask("lockdown", mod, {}, FALSE)),
     Both(Ask("lockdown", mod, {}, TRUE), Ask("remove_lockdown", mod, {}, TRUE))}

\* An earlier command's case, from which the next one counts.
MCBefore == {[id |-> 1, cmd |-> "earlier", target |-> NoChannel]}

=============================================================================
