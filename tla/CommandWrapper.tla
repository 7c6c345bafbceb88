--------------------------- MODULE CommandWrapper ---------------------------
(***************************************************************************)
(* The life of the moderation commands kick, ban, hardban, softban, unban  *)
(* and warn: gate, API calls, their callbacks, the modcase transactions    *)
(* those open, and the response.                                           *)
(*                                                                         *)
(* A command's thread and the callbacks of its API calls interleave; so do *)
(* different commands.  Every command owns one database connection, which  *)
(* carries one transaction at a time.  The wrapper is a local variable of  *)
(* the function that runs it, so a callback that comes after the function  *)
(* has returned runs on a destroyed object (LateCallback).                 *)
(***************************************************************************)
EXTENDS Guild, ModCases, Wrapper

CONSTANTS Requests,  \* what an invocation may ask for
          Guilds,    \* the role assignments administrators switch between
          BannedBefore,  \* who is on Discord's ban list to begin with
          Hooks,     \* the webhooks the guild has set: columns of its row
          Leniency   \* which of the two databases described below there may be

ASSUME CommandAssumption ==
    /\ Requests \subseteq Request
    /\ \A r \in Requests : WellFormed(r)
    /\ \A g \in Guilds : GuildRecord(g)
    /\ Hooks \subseteq {"member_kick", "member_ban_add", "member_ban_remove",
                    "modlog", "public_modlog"}
    /\ Leniency \subseteq BOOLEAN

(***************************************************************************)
(* The code nests transactions on one connection (the gates of kick, ban   *)
(* and unban) and takes the row exec_prepared1 returns for a look-up that  *)
(* finds nothing for a row of NULLs (log_modcase).  libpqxx documents      *)
(* neither: it throws in both cases.  A lenient database does neither.     *)
(***************************************************************************)
VARIABLES
    lenient,  \* whether the database does what the code takes for granted
    guild,    \* the guild as its administrators last edited it
    bans,     \* Discord's ban list: why a user is banned, "none" if he is not
    req,      \* the request each invocation carries
    call,     \* the API call of each command for each of its targets
    cases,    \* the modcases table
    cmdlog    \* the command log table

vars == <<guild, lenient, bans, req, pc, call, tx, msg, reply, cases, cmdlog>>

-----------------------------------------------------------------------------
BanReasons == {"none", "ban", "hardban", "softban"}

\* The steps of wrapper_function between check_permissions and its return.
RunningAt == {"calls", "errors", "flag", "show", "decide", "collect",
              "modlog", "reply", "log"}

\* "raised": an exception left wrapper_function.  "segv": the command's own
\* null dereference killed the process.  "dead": the process died around it.
PCs == RunningAt \cup {"idle", "gate", "cancelled", "done", "raised", "segv", "dead"}

\* "told": the error callback has written its text into errors and has yet to
\* put the target into members_with_errors or users_with_errors ("err").
CallStates ==
    {"none", "queued", "applied", "refused", "ok", "told", "err", "late"}

Row == [id : Nat, cmd : Cmds, target : Users]

\* id 0: no transaction.  who: the rows it will insert.
Transaction == [id : Nat, who : SUBSET Users]

\* errs: the targets whose errors are shown; success: the success embed is
\* attached; claimed: the targets that embed names.
Message == [errs      : SUBSET Users,
            success   : BOOLEAN,
            claimed   : SUBSET Users,
            ephemeral : BOOLEAN]

Reply == [from : {"none", "gate", "errors", "final"}, body : Message]

TypeOK ==
    /\ guild \in Guilds /\ lenient \in Leniency
    /\ bans \in [Users -> BanReasons]
    /\ req \in [Cmds -> Requests]
    /\ pc \in [Cmds -> PCs]
    /\ call \in [Cmds -> [Users -> CallStates]]
    /\ tx \in [Cmds -> Transaction]
    /\ msg \in [Cmds -> Message]
    /\ reply \in [Cmds -> Reply]
    /\ cases \subseteq Row
    /\ cmdlog \subseteq Cmds

Init ==
    /\ guild \in Guilds /\ lenient \in Leniency
    /\ bans = [u \in Users |-> IF u \in BannedBefore THEN "ban" ELSE "none"]
    /\ req \in [Cmds -> Requests]
    /\ pc = [c \in Cmds |-> "idle"]
    /\ call = [c \in Cmds |-> [u \in Users |-> "none"]]
    /\ tx = [c \in Cmds |-> NoTx]
    /\ msg = [c \in Cmds |-> EmptyMessage]
    /\ reply = [c \in Cmds |-> [from |-> "none", body |-> EmptyMessage]]
    /\ cases = {}
    /\ cmdlog = {}

-----------------------------------------------------------------------------
Kind(c)        == req[c].kind
Interactive(c) == req[c].interaction
Running(c)     == pc[c] \in RunningAt

\* The targets named in errors, and members_with_errors / users_with_errors: the
\* error callbacks fill one after the other.
reported(c) == {t \in Targets(req[c]) : call[c][t] \in {"told", "err"}}
targets_with_errors(c) == {t \in Targets(req[c]) : call[c][t] = "err"}

SnowflakeCount(c) == Cardinality(req[c].members) + Cardinality(req[c].users)

\* Mutant of are_all_errors: hybrids compare with the members alone.
are_all_member_errors(c) ==
    IF Kind(c) \in Hybrid
    THEN Cardinality(targets_with_errors(c)) = Cardinality(req[c].members)
    ELSE targets_with_errors(c) = Targets(req[c])

are_all_errors(c) ==
    IF Kind(c) \in Hybrid
    THEN Cardinality(targets_with_errors(c)) = SnowflakeCount(c)
    ELSE targets_with_errors(c) = Targets(req[c])

\* set_difference(targets, targets_with_errors)
targets_without_errors(c) == Targets(req[c]) \ targets_with_errors(c)

-----------------------------------------------------------------------------
(***************************************************************************)
(* wrapper_function: construction, gate, API calls.                        *)
(***************************************************************************)
\* The constructor parses the duration text, which may throw.
Invoke(c) ==
    /\ pc[c] = "idle"
    /\ IF req[c].duration = "throws"
       THEN Raise(c)
       ELSE Goto(c, "gate") /\ UNCHANGED tx
    /\ UNCHANGED <<guild, lenient, bans, req, call, msg, reply, cases, cmdlog>>

\* pqxx::work refuses a connection whose transaction is open.  The gates of kick
\* and ban hold one while get_protected_roles() opens its own.
GateThrows(c) == ~lenient /\ Kind(c) \in {"kick", "ban"} /\ ~SilentCancel(req[c])

\* An interaction is answered ephemerally, paginated or not.
RefuseInteraction(c) ==
    /\ Interactive(c)
    /\ Goto(c, "cancelled")
    /\ Show(c, "gate", [EmptyMessage EXCEPT !.ephemeral = TRUE])
    /\ UNCHANGED tx

\* automod's errors go to invoke_error_webhook, whose paginator empties the
\* command it then uses.
ErrorsToWebhook(c, errors) ==
    /\ ~Interactive(c)
    /\ IF TooLong(errors) THEN NullDereference(c)
       ELSE Goto(c, "cancelled") /\ UNCHANGED tx
    /\ UNCHANGED reply

\* The connection, or the statement, is not fit for that.
ErrorsThrow(c) == ~Interactive(c) /\ Raise(c) /\ UNCHANGED reply

CancelKick(c, errors) ==
    Kind(c) = "kick" /\ (RefuseInteraction(c) \/ ErrorsToWebhook(c, errors))

CancelBan(c, errors) ==
    Kind(c) = "ban" /\ (RefuseInteraction(c) \/ ErrorsToWebhook(c, errors))

CancelHardban(c, errors) ==
    Kind(c) = "hardban" /\ (RefuseInteraction(c) \/ ErrorsToWebhook(c, errors))

\* softban executes on a transaction it has committed, a statement that nothing
\* prepares.
CancelSoftban(c) == Kind(c) = "softban" /\ (RefuseInteraction(c) \/ ErrorsThrow(c))

\* unban's gate still holds its own transaction.
CancelUnban(c, errors) ==
    /\ Kind(c) = "unban"
    /\ \/ RefuseInteraction(c)
       \/ IF lenient THEN ErrorsToWebhook(c, errors) ELSE ErrorsThrow(c)

CancelWarn(c, errors) ==
    Kind(c) = "warn" /\ (RefuseInteraction(c) \/ ErrorsToWebhook(c, errors))

Cancel(c, errors) ==
    IF SilentCancel(req[c])
    THEN Goto(c, "cancelled") /\ UNCHANGED <<tx, reply>>
    ELSE \/ CancelKick(c, errors) \/ CancelBan(c, errors) \/ CancelHardban(c, errors)
         \/ CancelSoftban(c) \/ CancelUnban(c, errors) \/ CancelWarn(c, errors)

\* Mutant of MakesCalls: waits for the calls of an empty list.
MakesCallsForNobody(c) == Kind(c) = "warn" => Interactive(c)

\* automod warns nobody: process_warnings only acts for an interaction.
\* (A loop over nobody makes none.)
MakesCalls(c) == Targets(req[c]) # {} /\ (Kind(c) = "warn" => Interactive(c))

check_permissions(c) ==
    /\ pc[c] = "gate"
    /\ IF GateThrows(c)
       THEN /\ \/ Raise(c)
               \/ guild.roles[Bot] = {} /\ NullDereference(c)
               \/ guild.roles[req[c].author] = {} /\ NullDereference(c)
            /\ UNCHANGED reply
       ELSE IF EmptyFront(guild, req[c])
       THEN NullDereference(c) /\ UNCHANGED reply
       ELSE IF GateErrors(guild, req[c]) # {}
       THEN Cancel(c, GateErrors(guild, req[c]))
       ELSE /\ Goto(c, IF MakesCalls(c) THEN "calls" ELSE "errors")
            /\ UNCHANGED <<tx, reply>>
    /\ UNCHANGED <<guild, lenient, bans, req, call, msg, cases, cmdlog>>

\* Mutant of SendCall: the loop ends after its first target.
SendFirstCall(c, t) ==
    /\ pc[c] = "calls"
    /\ t \in Targets(req[c])
    /\ call' = [call EXCEPT ![c][t] = "queued"]
    /\ Goto(c, "errors")
    /\ UNCHANGED <<guild, lenient, bans, req, tx, msg, reply, cases, cmdlog>>

\* One iteration of the loop in process_kicks, process_bans, ...
SendCall(c, t) ==
    /\ pc[c] = "calls"
    /\ t \in Targets(req[c])
    /\ call[c][t] = "none"
    /\ call' = [call EXCEPT ![c][t] = "queued"]
    /\ IF \E u \in Targets(req[c]) \ {t} : call[c][u] = "none"
       THEN UNCHANGED pc
       ELSE Goto(c, "errors")
    /\ UNCHANGED <<guild, lenient, bans, req, tx, msg, reply, cases, cmdlog>>

process_kicks(c)    == Kind(c) = "kick"    /\ \E t \in Users : SendCall(c, t)
process_bans(c)     == Kind(c) = "ban"     /\ \E t \in Users : SendCall(c, t)
process_hardbans(c) == Kind(c) = "hardban" /\ \E t \in Users : SendCall(c, t)
process_softbans(c) == Kind(c) = "softban" /\ \E t \in Users : SendCall(c, t)
process_unbans(c)   == Kind(c) = "unban"   /\ \E t \in Users : SendCall(c, t)
process_warnings(c) == Kind(c) = "warn"    /\ \E t \in Users : SendCall(c, t)

process_calls(c) ==
    \/ process_kicks(c) \/ process_bans(c) \/ process_hardbans(c)
    \/ process_softbans(c) \/ process_unbans(c) \/ process_warnings(c)

-----------------------------------------------------------------------------
(***************************************************************************)
(* External: Discord and the HTTP queue.  A call reaches Discord even when *)
(* the process that queued it has died since.                              *)
(***************************************************************************)
\* guild_ban_add for softbans too: no wrapper ever calls it and guild_ban_delete.
Effect(kind, t) ==
    bans' = CASE kind \in Hybrid /\ bans[t] = "none" -> [bans EXCEPT ![t] = kind]
              [] kind = "unban" -> [bans EXCEPT ![t] = "none"]
              [] OTHER -> bans

Permits(kind, t) ==
    CASE kind = "unban" -> bans[t] # "none"
      [] kind = "warn"  -> TRUE
      [] OTHER          -> BotOutranks(guild, t)

DiscordApplies(c, t) ==
    /\ call[c][t] = "queued"
    /\ Permits(Kind(c), t)
    /\ call' = [call EXCEPT ![c][t] = "applied"]
    /\ Effect(Kind(c), t)
    /\ UNCHANGED <<guild, lenient, req, pc, tx, msg, reply, cases, cmdlog>>

\* Refused by Discord, or never delivered.
DiscordRefuses(c, t) ==
    /\ call[c][t] = "queued"
    /\ call' = [call EXCEPT ![c][t] = "refused"]
    /\ UNCHANGED <<guild, lenient, bans, req, pc, tx, msg, reply, cases, cmdlog>>

\* The call took effect but its answer was lost: D++ reports an error.
AnswerLost(c, t) ==
    /\ call[c][t] = "applied"
    /\ call' = [call EXCEPT ![c][t] = "refused"]
    /\ UNCHANGED <<guild, lenient, bans, req, pc, tx, msg, reply, cases, cmdlog>>

\* An administrator edits roles, positions or settings.
EditGuild ==
    /\ \E g \in Guilds \ {guild} : guild' = g
    /\ UNCHANGED <<lenient, bans, req, pc, call, tx, msg, reply, cases, cmdlog>>

\* The process is killed from outside; DB and Discord keep their state, and
\* idle commands may be invoked on the process started next.
Kill ==
    /\ \E c \in Cmds : Running(c) \/ pc[c] \in {"gate", "done", "raised"}
    /\ ProcessDies({})
    /\ UNCHANGED <<guild, lenient, bans, req, call, msg, reply, cases, cmdlog>>

-----------------------------------------------------------------------------
(***************************************************************************)
(* lambda_callback and log_modcase.                                        *)
(***************************************************************************)
\* member_wrapper and user_wrapper compare the pointers they were given.
MemberRows(c) == targets_without_errors(c)

\* hybrid_wrapper copies every member's user, so set_difference never finds a
\* member among users_with_errors.
HybridRows(c) == req[c].members \cup (req[c].users \ targets_with_errors(c))

LogRows(c, t) ==
    CASE Kind(c) \in {"softban", "unban"} -> {t}
      [] Kind(c) \in {"ban", "hardban"}   -> HybridRows(c)
      [] Kind(c) = "kick"                 -> MemberRows(c)
      [] Kind(c) = "warn"                 ->
           {u \in Targets(req[c]) : call'[c][u] # "err"}

\* An empty table has no last case; softban and unban do not even test for it.
NoLastCase(c) == cases = {} /\ (~lenient \/ Kind(c) \in {"softban", "unban"})

\* Reading the last case opens the transaction; the id is fixed from here on.
OpenModcase(c, t) ==
    IF ConnectionBusy(c) \/ NoLastCase(c)
    THEN RaiseInCallback
    ELSE /\ tx' = [tx EXCEPT ![c] = [id  |-> LastCaseId(cases) + 1,
                                     who |-> LogRows(c, t)]]
         /\ UNCHANGED pc

CallbackSucceeds(c, t) ==
    /\ Running(c)
    /\ call[c][t] = "applied"
    /\ call' = [call EXCEPT ![c][t] = "ok"]
    /\ OpenModcase(c, t)
    /\ UNCHANGED <<guild, lenient, bans, req, msg, reply, cases, cmdlog>>

\* errors.push_back
CallbackFails(c, t) ==
    /\ Running(c)
    /\ call[c][t] = "refused"
    /\ call' = [call EXCEPT ![c][t] = "told"]
    /\ UNCHANGED <<guild, lenient, bans, req, pc, tx, msg, reply, cases, cmdlog>>

\* users_with_errors.insert; warn goes on to log the case all the same.
RecordFailure(c, t) ==
    /\ Running(c)
    /\ call[c][t] = "told"
    /\ call' = [call EXCEPT ![c][t] = "err"]
    /\ IF Kind(c) = "warn" THEN OpenModcase(c, t) ELSE UNCHANGED <<pc, tx>>
    /\ UNCHANGED <<guild, lenient, bans, req, msg, reply, cases, cmdlog>>

\* Mutant of LateCallback: an exception in the thread cancels the callbacks.
LateCallbackAfterReturn(c, t) ==
    /\ pc[c] = "done"
    /\ call[c][t] \in {"applied", "refused", "told"}
    /\ call' = [call EXCEPT ![c][t] = "late"]
    /\ RaiseInCallback
    /\ UNCHANGED <<guild, lenient, bans, req, msg, reply, cases, cmdlog>>

\* The lambda's this points to a wrapper that no longer exists; its connection
\* is closed, so nothing it may still do reaches the database.
LateCallback(c, t) ==
    /\ pc[c] \in {"done", "raised"}
    /\ call[c][t] \in {"applied", "refused", "told"}
    /\ call' = [call EXCEPT ![c][t] = "late"]
    /\ RaiseInCallback
    /\ UNCHANGED <<guild, lenient, bans, req, msg, reply, cases, cmdlog>>

\* Mutants of CommitModcase: a number is taken over by its last writer; the
\* inserts are repeated under ever new numbers.
CommitModcaseOver(c) ==
    /\ Running(c)
    /\ tx[c] # NoTx
    /\ cases' = {row \in cases : row.id # tx[c].id}
                   \cup {[id |-> tx[c].id, cmd |-> c, target |-> t] : t \in tx[c].who}
    /\ tx' = [tx EXCEPT ![c] = NoTx]
    /\ UNCHANGED <<guild, lenient, bans, req, pc, call, msg, reply, cmdlog>>

CommitModcaseAgain(c) ==
    /\ Running(c)
    /\ tx[c] # NoTx
    /\ cases' = cases \cup {[id |-> tx[c].id, cmd |-> c, target |-> t] : t \in tx[c].who}
    /\ tx' = [tx EXCEPT ![c].id = LastCaseId(cases') + 1]
    /\ UNCHANGED <<guild, lenient, bans, req, pc, call, msg, reply, cmdlog>>

\* The inserts and the commit take effect together.
CommitModcase(c) ==
    /\ Running(c)
    /\ tx[c] # NoTx
    /\ cases' = cases \cup {[id |-> tx[c].id, cmd |-> c, target |-> t] : t \in tx[c].who}
    /\ tx' = [tx EXCEPT ![c] = NoTx]
    /\ UNCHANGED <<guild, lenient, bans, req, pc, call, msg, reply, cmdlog>>

\* The database refuses, or the connection goes away with the wrapper.
AbortModcase(c) ==
    /\ tx[c] # NoTx
    /\ \/ tx' = [tx EXCEPT ![c] = NoTx] /\ UNCHANGED pc
       \/ ProcessDies({})
    /\ UNCHANGED <<guild, lenient, bans, req, call, msg, reply, cases, cmdlog>>

-----------------------------------------------------------------------------
(***************************************************************************)
(* process_response, in the order its code reads the shared vectors:       *)
(* errors (SnapshotErrors), are_all_errors for the error part (FlagErrors, *)
(* and once more in ShowErrors), are_all_errors for the success part       *)
(* (Decide), the difference (Collect), the webhooks (Modlogs), the answer  *)
(* (Answer) and the command log.                                           *)
(***************************************************************************)
SnapshotErrors(c) ==
    /\ pc[c] = "errors"
    /\ msg' = [msg EXCEPT ![c].errs = reported(c)]
    /\ Goto(c, IF reported(c) = {} THEN "decide" ELSE "flag")
    /\ UNCHANGED <<guild, lenient, bans, req, call, tx, reply, cases, cmdlog>>

\* invoke_error_webhook joins the errors anew.
ErrorWebhook(c) ==
    /\ IF ConnectionBusy(c) THEN Raise(c)
       ELSE IF TooLong(reported(c)) THEN NullDereference(c)
       ELSE Goto(c, "decide") /\ UNCHANGED tx
    /\ UNCHANGED <<msg, reply>>

Flagged(c) == [msg[c] EXCEPT !.ephemeral = are_all_errors(c)]

\* kick, unban: they ask again whether anybody is left to succeed (ShowErrors).
ShowErrorsIfAllFailed(c) ==
    IF Interactive(c)
    THEN /\ msg' = [msg EXCEPT ![c] = Flagged(c)]
         /\ Goto(c, "show")
         /\ UNCHANGED <<tx, reply>>
    ELSE ErrorWebhook(c)

\* ban, hardban, softban: shown now in any case.
ShowErrorsAlways(c) ==
    IF Interactive(c)
    THEN /\ msg' = [msg EXCEPT ![c] = Flagged(c)]
         /\ IF TooLong(msg[c].errs) THEN Paginate(c, "errors", Flagged(c))
            ELSE /\ Show(c, "errors", Flagged(c))
                 /\ Goto(c, "decide") /\ UNCHANGED tx
    ELSE ErrorWebhook(c)

FlagKick(c)    == Kind(c) = "kick"    /\ ShowErrorsIfAllFailed(c)
FlagUnban(c)   == Kind(c) = "unban"   /\ ShowErrorsIfAllFailed(c)
FlagBan(c)     == Kind(c) = "ban"     /\ ShowErrorsAlways(c)
FlagHardban(c) == Kind(c) = "hardban" /\ ShowErrorsAlways(c)

\* softban's automod branch executes "botlog", which nothing prepares.
FlagSoftban(c) ==
    /\ Kind(c) = "softban"
    /\ IF Interactive(c) THEN ShowErrorsAlways(c)
       ELSE Raise(c) /\ UNCHANGED <<msg, reply>>

\* warn only attaches them to the message.
FlagWarn(c) ==
    /\ Kind(c) = "warn"
    /\ msg' = [msg EXCEPT ![c] = Flagged(c)]
    /\ Goto(c, "decide")
    /\ UNCHANGED <<tx, reply>>

FlagErrors(c) ==
    /\ pc[c] = "flag"
    /\ \/ FlagKick(c) \/ FlagUnban(c) \/ FlagBan(c)
       \/ FlagHardban(c) \/ FlagSoftban(c) \/ FlagWarn(c)
    /\ UNCHANGED <<guild, lenient, bans, req, call, cases, cmdlog>>

\* kick, unban: shown now only when nobody is left to succeed.
ShowErrors(c) ==
    /\ pc[c] = "show"
    /\ IF ~are_all_errors(c)
       THEN Goto(c, "decide") /\ UNCHANGED <<tx, reply>>
       ELSE IF TooLong(msg[c].errs) THEN Paginate(c, "errors", msg[c])
       ELSE Show(c, "errors", msg[c]) /\ Goto(c, "decide") /\ UNCHANGED tx
    /\ UNCHANGED <<guild, lenient, bans, req, call, msg, cases, cmdlog>>

Decide(c) ==
    /\ pc[c] = "decide"
    /\ Goto(c, IF are_all_errors(c) THEN "reply" ELSE "collect")
    /\ UNCHANGED <<guild, lenient, bans, req, call, tx, msg, reply, cases, cmdlog>>

\* Mutant of Claim: names only those already known to have succeeded.
ClaimDone(c, all) ==
    msg' = [msg EXCEPT ![c].success = TRUE,
                       ![c].claimed = {t \in all : call[c][t] = "ok"}]

\* The success embed names set_difference(all, targets_with_errors).
Claim(c, all) ==
    msg' = [msg EXCEPT ![c].success = TRUE,
                       ![c].claimed = all \ targets_with_errors(c)]

CollectKicked(c)     == Kind(c) = "kick"    /\ Claim(c, req[c].members)
CollectBanned(c)     == Kind(c) = "ban"     /\ Claim(c, Targets(req[c]))
CollectHardbanned(c) == Kind(c) = "hardban" /\ Claim(c, Targets(req[c]))
CollectSoftbanned(c) == Kind(c) = "softban" /\ Claim(c, Targets(req[c]))
CollectUnbanned(c)   == Kind(c) = "unban"   /\ Claim(c, req[c].users)
CollectWarned(c)     == Kind(c) = "warn"    /\ Claim(c, req[c].members)

Collect(c) ==
    /\ pc[c] = "collect"
    /\ \/ CollectKicked(c) \/ CollectBanned(c) \/ CollectHardbanned(c)
       \/ CollectSoftbanned(c) \/ CollectUnbanned(c) \/ CollectWarned(c)
    /\ Goto(c, "modlog")
    /\ UNCHANGED <<guild, lenient, bans, req, call, tx, reply, cases, cmdlog>>

\* Reading the webhooks needs the connection; at(0), taken for the log of one
\* person or none, needs somebody to show.
PostLogs(c, columns) ==
    IF ConnectionBusy(c) \/ (Hooks \cap columns # {} /\ msg[c].claimed = {})
    THEN Raise(c)
    ELSE Goto(c, "reply") /\ UNCHANGED tx

\* The public log of a kick takes at(0) for more than one person only.
LogKicks(c) == Kind(c) = "kick" /\ PostLogs(c, {"member_kick", "modlog"})

LogBans(c) ==
    Kind(c) = "ban" /\ PostLogs(c, {"member_ban_add", "modlog", "public_modlog"})

LogHardbans(c) ==
    Kind(c) = "hardban" /\ PostLogs(c, {"member_ban_add", "modlog", "public_modlog"})

LogSoftbans(c) ==
    Kind(c) = "softban" /\ PostLogs(c, {"member_ban_add", "modlog", "public_modlog"})

\* get_unban_log selects one column; asking its row for "modlog" throws.
LogUnbans(c) == Kind(c) = "unban" /\ Raise(c)

LogWarns(c) == Kind(c) = "warn" /\ PostLogs(c, {"modlog", "public_modlog"})

Modlogs(c) ==
    /\ pc[c] = "modlog"
    /\ \/ LogKicks(c) \/ LogBans(c) \/ LogHardbans(c)
       \/ LogSoftbans(c) \/ LogUnbans(c) \/ LogWarns(c)
    /\ UNCHANGED <<guild, lenient, bans, req, call, msg, reply, cases, cmdlog>>

\* When the answer goes through a paginator.
KickPaginates(m)    == embeds(m) > 2
UnbanPaginates(m)   == embeds(m) > 2
BanPaginates(m)     == embeds(m) # 1
HardbanPaginates(m) == embeds(m) # 1
SoftbanPaginates(m) == embeds(m) # 1
WarnPaginates(m)    == embeds(m) # 1

Paginates(kind, m) ==
    CASE kind = "kick"    -> KickPaginates(m)
      [] kind = "unban"   -> UnbanPaginates(m)
      [] kind = "ban"     -> BanPaginates(m)
      [] kind = "hardban" -> HardbanPaginates(m)
      [] kind = "softban" -> SoftbanPaginates(m)
      [] kind = "warn"    -> WarnPaginates(m)

Answer(c) ==
    /\ pc[c] = "reply"
    /\ IF Interactive(c) /\ Paginates(Kind(c), msg[c])
       THEN Paginate(c, "final", msg[c])
       ELSE /\ Show(c, "final", msg[c])
            /\ Goto(c, IF Interactive(c) THEN "log" ELSE "done")
            /\ UNCHANGED tx
    /\ UNCHANGED <<guild, lenient, bans, req, call, msg, cases, cmdlog>>

\* Mutant of log_command_invoke: gives up on a busy connection.
log_command_invoke_if_free(c) ==
    /\ pc[c] = "log"
    /\ Goto(c, "done") /\ UNCHANGED tx
    /\ cmdlog' = IF ConnectionBusy(c) THEN cmdlog ELSE cmdlog \cup {c}
    /\ UNCHANGED <<guild, lenient, bans, req, call, msg, reply, cases>>

log_command_invoke(c) ==
    /\ pc[c] = "log"
    /\ IF ConnectionBusy(c)
       THEN Raise(c) /\ UNCHANGED cmdlog
       ELSE Goto(c, "done") /\ UNCHANGED tx /\ cmdlog' = cmdlog \cup {c}
    /\ UNCHANGED <<guild, lenient, bans, req, call, msg, reply, cases>>

-----------------------------------------------------------------------------
wrapper_function(c) ==
    \/ check_permissions(c) \/ process_calls(c)
    \/ SnapshotErrors(c) \/ FlagErrors(c) \/ ShowErrors(c) \/ Decide(c)
    \/ Collect(c) \/ Modlogs(c) \/ Answer(c) \/ log_command_invoke(c)

lambda_callback(c, t) ==
    \/ CallbackSucceeds(c, t) \/ CallbackFails(c, t) \/ RecordFailure(c, t)
    \/ LateCallback(c, t)

Modcase(c) == CommitModcase(c) \/ AbortModcase(c)

Discord(c, t) == DiscordApplies(c, t) \/ DiscordRefuses(c, t)

Next ==
    \/ \E c \in Cmds : Invoke(c) \/ wrapper_function(c) \/ Modcase(c)
    \/ \E c \in Cmds, t \in Users :
          Discord(c, t) \/ AnswerLost(c, t) \/ lambda_callback(c, t)
    \/ EditGuild
    \/ Kill

Spec == Init /\ [][Next]_vars

(***************************************************************************)
(* Fairness.  The code's threads are run: a wrapper takes its next step,   *)
(* a transaction ends, a queued call is answered (D++ times requests out)  *)
(* and its callback is run.  Nothing is assumed of users, administrators,  *)
(* crashes or lost answers.                                                *)
(***************************************************************************)
Fairness ==
    /\ \A c \in Cmds : WF_vars(wrapper_function(c)) /\ WF_vars(Modcase(c))
    /\ \A c \in Cmds, t \in Users :
          WF_vars(Discord(c, t)) /\ WF_vars(lambda_callback(c, t))

FairSpec == Spec /\ Fairness

-----------------------------------------------------------------------------
(***************************************************************************)
(* Safety.                                                                 *)
(***************************************************************************)
\* Case ids have no gaps: whatever callbacks race, abort or die between their
\* look-up and their inserts, the ids in the table are exactly 1..last.
CaseIdsContiguous == Contiguous(cases)

\* An ephemeral answer is final: when a response hides itself because every
\* target failed, every call has been answered with an error and none can
\* still succeed, so no success is ever hidden from the channel.
EphemeralMeansNobodySucceeds ==
    \A c \in Cmds :
        reply[c].from \in {"errors", "final"} /\ reply[c].body.ephemeral =>
            /\ \A t \in Targets(req[c]) : call[c][t] = "err"
            /\ ~reply[c].body.success

\* The final answer of a command names every target whose success callback
\* has run, however the callbacks interleaved with the response.
SuccessNeverHidden ==
    \A c \in Cmds : \A t \in Targets(req[c]) :
        pc[c] \in {"modlog", "reply", "log"} /\ call[c][t] = "ok" =>
            msg[c].success /\ t \in msg[c].claimed

\* A case number is evidence: a command records at most one number per
\* callback that ran, and only about its own targets.
CasesAreEarned ==
    \A c \in Cmds :
        LET rows == {row \in cases : row.cmd = c}
            ran  == {t \in Targets(req[c]) :
                        \/ call[c][t] = "ok"
                        \/ Kind(c) = "warn" /\ call[c][t] = "err"}
        IN  /\ Cardinality(CaseIds(rows)) <= Cardinality(ran)
            /\ \A row \in rows : row.target \in Targets(req[c])

\* Only a command whose answer stands is logged as used: it came from a
\* person, made all its calls, and its answer fitted one message.
LoggedMeansAnswered ==
    \A c \in cmdlog :
        /\ Interactive(c)
        /\ reply[c].from = "final"
        /\ \A t \in Targets(req[c]) : call[c][t] # "none"
        /\ ~Paginates(Kind(c), reply[c].body)

\* Nobody waits in vain: a person's command that came to its end has been
\* answered, except for the two refusals that return before the error reply.
EndedMeansAnswered ==
    \A c \in Cmds : Interactive(c) =>
        /\ pc[c] = "cancelled" => reply[c].from = "gate" \/ SilentCancel(req[c])
        /\ pc[c] = "done" => reply[c].from = "final" /\ c \in cmdlog

\* The commands that act against the people they name.
Punishes == {"kick", "warn"} \cup Hybrid

\* No punishment reaches the owner, the bot or its own author through the
\* member list, whoever asks, whatever else the list holds and whatever is
\* edited meanwhile: the branches that stay silent about the owner (is_owner,
\* ignore_owner_repeat, hardban's missing self check) are each covered by
\* another one.
UntouchablesAreSafe ==
    \A c \in Cmds, t \in Users :
        Kind(c) \in Punishes /\ t \in req[c].members /\ call[c][t] # "none" =>
            t \notin {Owner, Bot, req[c].author}

OneRoleEach == \A u \in Users : \E r \in Roles : guild.roles[u] = {r}

Passes(c) == pc[c] = "gate" /\ pc'[c] \in {"calls", "errors"}

\* Where everybody has one role, no gate lets a punishment pass against a member
\* who ranks above its author or above the bot.  (hardban does not look at the
\* author's rank: he is the owner.)
RankIsRespected ==
    [][\A c \in Cmds : Passes(c) /\ OneRoleEach /\ Kind(c) \in Punishes =>
          \A m \in req[c].members :
              /\ Highest(guild, m) <= Highest(guild, Bot)
              /\ Kind(c) # "hardban" =>
                     Highest(guild, m) <= Highest(guild, req[c].author)]_vars

-----------------------------------------------------------------------------
(***************************************************************************)
(* The modcases table implements the abstract ledger.                      *)
(***************************************************************************)
Ledger == INSTANCE CaseLedger WITH Before <- {}

LedgerSpec == Ledger!Spec

-----------------------------------------------------------------------------
(***************************************************************************)
(* Liveness, under FairSpec.                                               *)
(***************************************************************************)
Ended == {"cancelled", "done", "raised", "segv", "dead"}

\* A command that reached its gate ends, one way or another: the response
\* never waits for the callbacks.
EveryCommandEnds == \A c \in Cmds : pc[c] = "gate" ~> pc[c] \in Ended

\* Every call is settled: its callback runs, on the wrapper or too late for
\* it, unless the process dies first.
EveryCallSettles ==
    \A c \in Cmds, t \in Users :
        call[c][t] = "queued" ~>
            call[c][t] \in {"ok", "err", "late"} \/ pc[c] \in {"segv", "dead"}

=============================================================================
