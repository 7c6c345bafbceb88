----------------------------- MODULE MCRecords -----------------------------
(***************************************************************************)
(* Instances of Records for TLC: three warnings, two of them for ann and   *)
(* one for eve, who has left; and two cases.                               *)
(***************************************************************************)
EXTENDS Records, TLC

CONSTANTS bot, mod, ann, eve,     \* people
          staff, plain,           \* roles
          c1, c2, c3              \* invocations

MCUsers == {bot, mod, ann, eve}
MCRoles == {staff, plain}

Ordinary ==
    [roles     |-> [u \in MCUsers |-> IF u \in {ann, eve} THEN {plain} ELSE {staff}],
     position  |-> [r \in MCRoles |-> IF r = staff THEN 2 ELSE 1],
     address   |-> [r \in MCRoles |-> IF r = staff THEN 7 ELSE 5],
     perms     |-> [r \in MCRoles |-> IF r = staff THEN Permissions ELSE {}],
     protected |-> {},
     permitted |-> [k \in Gated |-> {}],
     hardbans  |-> {}]

\* The bot's role allows it nothing, or the bot has none.
MCGuilds == {Ordinary, [Ordinary EXCEPT !.perms[staff] = {}],
             [Ordinary EXCEPT !.roles[ann] = {}], [Ordinary EXCEPT !.roles[bot] = {}]}

MCWarnings == {[id |-> 1, user |-> ann], [id |-> 2, user |-> ann], [id |-> 3, user |-> eve]}

MCPunished == [n \in 1 .. 2 |-> IF n = 1 THEN ann ELSE eve]

Ask(kind, member, number, interaction) ==
    [kind |-> kind, author |-> mod, member |-> member, number |-> number,
     interaction |-> interaction]

Three(r1, r2, r3) == (c1 :> r1) @@ (c2 :> r2) @@ (c3 :> r3)

\* Deleters after one warning, and the last of a member; deleters beside a view;
\* a guild cleared to the last warning, of one who left; edits of one case and of
\* none; the views.
MCBatches ==
    {Three(Ask("delete_warning", ann, 1, TRUE), Ask("delete_warning", ann, 1, TRUE),
           Ask("clear_warnings", ann, 0, TRUE)),
     Three(Ask("delete_warning", ann, 1, TRUE), Ask("delete_warning", ann, 2, FALSE),
           Ask("clear_guild_warnings", ann, 0, TRUE)),
     Three(Ask("delete_warning", ann, 3, TRUE), Ask("delete_warning", ann, 2, TRUE),
           Ask("view_warnings", ann, 0, TRUE)),
     Three(Ask("delete_warning", ann, 1, TRUE), Ask("clear_warnings", ann, 0, TRUE),
           Ask("view_guild_warnings", ann, 0, TRUE)),
     Three(Ask("change_reason", ann, 1, TRUE), Ask("change_duration", ann, 1, TRUE),
           Ask("view_modcase", ann, 1, TRUE)),
     Three(Ask("change_reason", ann, 7, TRUE), Ask("change_duration", ann, 2, FALSE),
           Ask("view_guild_modcases", ann, 0, TRUE)),
     Three(Ask("view_mod_modcases", mod, 0, TRUE), Ask("view_user_modcases", ann, 0, TRUE),
           Ask("view_muted_members", ann, 0, TRUE))}

=============================================================================
