------------------------------ MODULE Records ------------------------------
(***************************************************************************)
(* The commands that need nothing of Discord: deleting and clearing        *)
(* warnings, editing a case, and the views of warnings, of cases and of    *)
(* the muted.  Each asks for the bot's permission only, runs one statement *)
(* in one transaction and answers with what the statement returned.        *)
(*                                                                         *)
(* Nothing in the program inserts a warning: the table only shrinks.       *)
(***************************************************************************)
EXTENDS Guild, Wrapper

CONSTANTS Batches,     \* what the invocations may ask for, together
          Guilds,      \* the guilds to run in
          Warnings,    \* the table of warnings at the start: rows [id, user]
          Punished,    \* the table of cases at the start: who each case is about
          Gone,        \* who has left the guild
          TimedOut,    \* who is in time out
          RoleMuted,   \* who has the mute role
          MuteRoles    \* what the guild's mute role may be

Deleters  == {"delete_warning", "clear_warnings", "clear_guild_warnings"}
Changers  == {"change_reason", "change_duration"}
WarnViews == {"view_warnings", "view_guild_warnings"}
CaseViews == {"view_modcase", "view_guild_modcases", "view_mod_modcases",
              "view_user_modcases"}
Views     == WarnViews \cup CaseViews \cup {"view_muted_members"}

\* number: a warning id or a case id, where the command takes one.
RecordRequest == [kind        : Deleters \cup Changers \cup Views,
                  author      : Users,
                  member      : Users,
                  number      : Nat,
                  interaction : BOOLEAN]

CaseNumbers == DOMAIN Punished

ASSUME RecordsAssumption ==
    /\ Batches \subseteq [Cmds -> RecordRequest]
    /\ \A g \in Guilds : GuildRecord(g)
    /\ Warnings \subseteq [id : Nat, user : Users] /\ IsFiniteSet(Warnings)
    /\ \A v, w \in Warnings : v.id = w.id => v = w
    /\ CaseNumbers \subseteq Nat
    /\ Punished \in [CaseNumbers -> Users]
    /\ Gone \cup TimedOut \cup RoleMuted \subseteq Users
    /\ MuteRoles \subseteq {"NULL", "deleted", "present"}

VARIABLES
    guild,      \* roles and permissions
    lenient,    \* whether the database does what the code takes for granted
    warnings,   \* the warnings table
    req,        \* the request each invocation carries
    fetching,   \* the views whose user_get_cached is still to call back
    cmdlog      \* the command log table

vars == <<guild, lenient, warnings, req, fetching, pc, tx, msg, reply, cmdlog>>

\* What a transaction holds, and what an answer shows.
Locks == {<<"warning", w.id>> : w \in Warnings}
Shown == Locks \cup {<<"case", n>> : n \in CaseNumbers} \cup {<<"timeout", u>> : u \in Users}

\* "view": the embeds of a view; "none": that there is nothing of the kind.
Body == [says : {"", "done", "view", "none"}, rows : SUBSET Shown]

Nothing == [says |-> "", rows |-> {}]

Ended == {"cancelled", "done", "raised", "segv", "dead"}
PCs   == {"idle", "gate", "work", "commit", "answer", "log"} \cup Ended

TypeOK ==
    /\ guild \in Guilds
    /\ lenient \in BOOLEAN
    /\ warnings \subseteq Warnings
    /\ req \in Batches
    /\ fetching \subseteq Cmds
    /\ pc \in [Cmds -> PCs]
    /\ tx \in [Cmds -> [id : {0, 1}, who : SUBSET Locks]]
    /\ msg \in [Cmds -> Body]
    /\ reply \in [Cmds -> [from : {"none", "final"}, body : Body]]
    /\ cmdlog \subseteq Cmds

Init ==
    /\ guild \in Guilds
    /\ lenient \in BOOLEAN
    /\ warnings = Warnings
    /\ req \in Batches
    /\ fetching = {}
    /\ pc = [c \in Cmds |-> "idle"]
    /\ tx = [c \in Cmds |-> NoTx]
    /\ msg = [c \in Cmds |-> Nothing]
    /\ reply = [c \in Cmds |-> [from |-> "none", body |-> Nothing]]
    /\ cmdlog = {}

-----------------------------------------------------------------------------
Kind(c)        == req[c].kind
Interactive(c) == req[c].interaction

\* exec_prepared1 returns the one row there is; none is an empty row to code
\* that takes it for granted, and more than one is an exception.
OneRow(rows) == Cardinality(rows) = 1 \/ (rows = {} /\ lenient)

\* The rows the statement of a command matches.  modcase_update_reason compares
\* case_id with its first parameter, the text of the reason, and guild_id with its
\* second, the number of the case: no row is like that.
Matching(c) ==
    CASE Kind(c) = "delete_warning"
           -> {<<"warning", w.id>> : w \in {v \in warnings : v.id = req[c].number}}
      [] Kind(c) \in {"clear_warnings", "view_warnings"}
           -> {<<"warning", w.id>> : w \in {v \in warnings : v.user = req[c].member}}
      [] Kind(c) \in {"clear_guild_warnings", "view_guild_warnings"}
           -> {<<"warning", w.id>> : w \in warnings}
      [] Kind(c) = "view_modcase"
           -> {<<"case", n>> : n \in CaseNumbers \cap {req[c].number}}
      [] Kind(c) \in {"view_user_modcases", "view_mod_modcases"}
           -> {<<"case", n>> : n \in {m \in CaseNumbers : Punished[m] = req[c].member}}
      [] Kind(c) = "view_guild_modcases"
           -> {<<"case", n>> : n \in CaseNumbers}
      [] OTHER -> {}

\* Mutant of RollBack: the transaction, and its rows, stay as they are.
RaiseHoldingRows(c) == Raise(c)

\* An exception while a transaction is open: its destructor rolls it back.
RollBack(c) ==
    \/ tx' = [tx EXCEPT ![c] = NoTx] /\ Goto(c, "raised")
    \/ ProcessDies({})

-----------------------------------------------------------------------------
(***************************************************************************)
(* check_permissions.  A command that is refused ends without a word: the  *)
(* response, which would report the errors, does not run.                  *)
(***************************************************************************)
Invoke(c) ==
    /\ pc[c] = "idle"
    /\ Goto(c, "gate")
    /\ UNCHANGED <<guild, lenient, warnings, req, fetching, tx, msg, reply, cmdlog>>

Needed(c) ==
    IF Kind(c) \in {"clear_guild_warnings", "view_guild_warnings", "view_muted_members"}
    THEN "manage_guild" ELSE "moderate_members"

\* The members whose rank is compared with the bot's: the one named, or the one
\* warned.
Ranked(c) ==
    CASE Kind(c) \in {"clear_warnings", "view_warnings"} -> {req[c].member}
      [] Kind(c) = "delete_warning"
           -> {w.user : w \in {v \in warnings : v.id = req[c].number}}
      [] OTHER -> {}

\* delete_warning looks the warning up, and its member; a member who has left
\* is an exception.
LookUpThrows(c) ==
    /\ Kind(c) = "delete_warning"
    /\ ~OneRow(Matching(c)) \/ Ranked(c) \cap Gone # {}

Refused(c) ==
    \/ ~Allowed(guild, Bot, Needed(c))
    \/ \E u \in Ranked(c) : TopPosition(guild, u) > TopPosition(guild, Bot)
    \/ Kind(c) = "delete_warning" /\ Matching(c) = {}

check_permissions(c) ==
    /\ pc[c] = "gate"
    /\ IF guild.roles[Bot] = {} THEN NullDereference(c)
       ELSE IF LookUpThrows(c) THEN Raise(c)
       ELSE IF \E u \in Ranked(c) : guild.roles[u] = {} THEN NullDereference(c)
       ELSE Goto(c, IF Refused(c) THEN "cancelled" ELSE "work") /\ UNCHANGED tx
    /\ UNCHANGED <<guild, lenient, warnings, req, fetching, msg, reply, cmdlog>>

-----------------------------------------------------------------------------
(***************************************************************************)
(* process_response: the statement ...                                     *)
(***************************************************************************)
\* A statement waits for the rows that another transaction has written.
Unlocked(c) == \A d \in Cmds \ {c} : tx[d].who \cap Matching(c) = {}

Begin(c, found) ==
    /\ tx' = [tx EXCEPT ![c] = [id |-> 1, who |-> Matching(c)]]
    /\ msg' = [msg EXCEPT ![c].says = IF found THEN "done" ELSE "none"]
    /\ Goto(c, "commit")

\* Mutant of delete_rows: says what the gate's look-up found.
delete_rows_unread(c) ==
    /\ Kind(c) \in Deleters
    /\ IF OneRow(Matching(c)) THEN Begin(c, TRUE) ELSE Raise(c) /\ UNCHANGED msg
    /\ UNCHANGED fetching

\* DELETE ... RETURNING
delete_rows(c) ==
    /\ Kind(c) \in Deleters
    /\ IF OneRow(Matching(c)) THEN Begin(c, Matching(c) # {})
       ELSE Raise(c) /\ UNCHANGED msg
    /\ UNCHANGED fetching

\* modcase_update_reason takes two parameters and is given three; a database that
\* goes along with that returns no row.
update_case(c) ==
    /\ Kind(c) \in Changers
    /\ IF lenient THEN Begin(c, FALSE) ELSE Raise(c) /\ UNCHANGED msg
    /\ UNCHANGED fetching

View(c, rows) ==
    /\ msg' = [msg EXCEPT ![c] = [says |-> IF rows = {} THEN "none" ELSE "view",
                                 rows |-> rows]]
    /\ Goto(c, "answer")
    /\ UNCHANGED tx

\* Mutant of view_warning_rows: the user and the guild change places.
view_warning_rows_swapped(c) ==
    Kind(c) \in WarnViews /\ View(c, {}) /\ UNCHANGED fetching

\* A guild's warnings are shown with the user each is for, who may not be in the
\* cache, and with the moderator who gave it, who may have left the guild.
view_warning_rows(c) ==
    /\ Kind(c) \in WarnViews
    /\ \/ View(c, Matching(c)) /\ UNCHANGED fetching
       \/ /\ Kind(c) = "view_guild_warnings"
          /\ \/ \E w \in warnings : w.user \in Gone /\ NullDereference(c)
             \/ Matching(c) # {} /\ Raise(c)
          /\ UNCHANGED <<msg, fetching>>

\* Statements that nothing prepares, or prepares with fewer parameters.
StatementFails(c) ==
    ~lenient /\ Kind(c) \in {"view_modcase", "view_guild_modcases"}

\* find_guild_member is given a person for the guild and the guild for a person,
\* and throws; view_mod_modcases reads a column the statement does not select.
\* view_modcase does so in a callback, which runs at once for a cached user.
CasesFound(c) ==
    \/ Raise(c) /\ UNCHANGED <<msg, fetching>>
    \/ /\ Kind(c) = "view_modcase"
       /\ fetching' = fetching \cup {c}
       /\ msg' = [msg EXCEPT ![c].says = "view"]
       /\ Goto(c, "answer") /\ UNCHANGED tx

view_case_rows(c) ==
    /\ Kind(c) \in CaseViews
    /\ IF StatementFails(c) \/ (Kind(c) = "view_modcase" /\ ~OneRow(Matching(c)))
       THEN Raise(c) /\ UNCHANGED <<msg, fetching>>
       ELSE IF Matching(c) = {} THEN View(c, {}) /\ UNCHANGED fetching
       ELSE CasesFound(c)

\* The callback finds the wrapper there or gone, and throws.
FetchedLate(c) ==
    /\ c \in fetching
    /\ pc[c] \notin {"segv", "dead"}
    /\ fetching' = fetching \ {c}
    /\ RaiseInCallback
    /\ UNCHANGED <<guild, lenient, warnings, req, msg, reply, cmdlog>>

\* The role is compared by pointer, and is a private copy: nobody has it.
HaveTheRole == {u \in RoleMuted : Cached("mute role") = Copied("mute role")}

\* Embeds are appended from parallel threads: of several, any may be lost.
ViewTimeouts(c) ==
    \/ \E seen \in SUBSET TimedOut :
          /\ Cardinality(TimedOut) <= 1 => seen = TimedOut
          /\ msg' = [msg EXCEPT ![c] = [says |-> "view",
                                       rows |-> {<<"timeout", u>> : u \in seen}]]
          /\ Goto(c, "answer") /\ UNCHANGED tx
    \/ Cardinality(TimedOut) > 1 /\ NullDereference(c) /\ UNCHANGED msg

\* For somebody with the mute role it would use the transaction it has committed.
view_muted_rows(c) ==
    /\ Kind(c) = "view_muted_members"
    /\ \/ "deleted" \in MuteRoles /\ NullDereference(c) /\ UNCHANGED msg
       \/ /\ MuteRoles # {"deleted"}
          /\ IF HaveTheRole # {} THEN Raise(c) /\ UNCHANGED msg ELSE ViewTimeouts(c)
    /\ UNCHANGED fetching

process_response(c) ==
    /\ pc[c] = "work"
    /\ Unlocked(c) \/ Kind(c) \in Views
    /\ delete_rows(c) \/ update_case(c) \/ view_warning_rows(c) \/ view_case_rows(c)
         \/ view_muted_rows(c)
    /\ UNCHANGED <<guild, lenient, warnings, req, reply, cmdlog>>

-----------------------------------------------------------------------------
(***************************************************************************)
(* ... its commit, and the answer.                                         *)
(***************************************************************************)
\* Only deletions hold rows.
Applied(c) == warnings' = {w \in warnings : <<"warning", w.id>> \notin tx[c].who}

\* The commit may fail, or take effect and its confirmation be lost.
Commit(c) ==
    /\ pc[c] = "commit"
    /\ \/ Applied(c) /\ Goto(c, "answer") /\ tx' = [tx EXCEPT ![c] = NoTx]
       \/ Applied(c) /\ RollBack(c)
       \/ UNCHANGED warnings /\ RollBack(c)
    /\ UNCHANGED <<guild, lenient, req, fetching, msg, reply, cmdlog>>

\* An edit that found no case, or that nobody waits for, goes on to the log.
Answer(c) ==
    /\ pc[c] = "answer"
    /\ IF Kind(c) \in Changers /\ (msg[c].says = "none" \/ ~Interactive(c))
       THEN Goto(c, "log") /\ UNCHANGED reply
       ELSE /\ IF Interactive(c) THEN Show(c, "final", msg[c]) ELSE UNCHANGED reply
            /\ Goto(c, "done")
    /\ UNCHANGED <<guild, lenient, warnings, req, fetching, tx, msg, cmdlog>>

\* command_insert in a transaction that has been committed.
LogChange(c) ==
    /\ pc[c] = "log"
    /\ Raise(c)
    /\ UNCHANGED <<guild, lenient, warnings, req, fetching, msg, reply, cmdlog>>

Kill ==
    /\ \E c \in Cmds : pc[c] \notin {"idle", "segv", "dead"}
    /\ ProcessDies({})
    /\ UNCHANGED <<guild, lenient, warnings, req, fetching, msg, reply, cmdlog>>

-----------------------------------------------------------------------------
wrapper_function(c) ==
    check_permissions(c) \/ process_response(c) \/ Commit(c) \/ Answer(c) \/ LogChange(c)

Next ==
    \/ \E c \in Cmds : Invoke(c) \/ wrapper_function(c) \/ FetchedLate(c)
    \/ Kill

Spec == Init /\ [][Next]_vars

\* The threads of the commands run.
FairSpec == Spec /\ \A c \in Cmds : WF_vars(wrapper_function(c))

-----------------------------------------------------------------------------
(***************************************************************************)
(* What holds of them.                                                     *)
(***************************************************************************)
Told(c, what) == reply[c].from = "final" /\ reply[c].body.says = what

\* Every command that told somebody it removed warnings has removed a warning of
\* its own, whatever other commands deleted at the time; the ones it named are gone.
SuccessesAreEarned ==
    LET successes == {c \in Cmds : Kind(c) \in Deleters /\ Told(c, "done")}
    IN  /\ Cardinality(successes) <= Cardinality(Warnings) - Cardinality(warnings)
        /\ \A c \in successes : Matching(c) = {}

\* An answer that there is no such warning is true, and stays so.
AbsenceIsTrue ==
    \A c \in Cmds :
        Kind(c) \in Deleters \cup WarnViews /\ Told(c, "none") => Matching(c) = {}

\* No edit of a case is in the command log, and none is answered: neither that the
\* case has been updated nor that it does not exist.
EditsGoUnanswered ==
    cmdlog = {} /\ \A c \in Cmds : Kind(c) \in Changers => reply[c].from = "none"

\* A command that was invoked comes to an end, though others hold the rows it needs.
EveryCommandEnds == \A c \in Cmds : pc[c] = "gate" ~> pc[c] \in Ended

=============================================================================
