------------------------------ MODULE Channels ------------------------------
(***************************************************************************)
(* lock, unlock, lockdown and remove_lockdown: a gate, one permission edit *)
(* per channel, the callbacks of those edits, the cases they record, and   *)
(* the response, which does not wait for them.                             *)
(*                                                                         *)
(* lock and unlock act on the channels they are given and record a case    *)
(* for each edit that succeeds; the lockdowns act on the channels the      *)
(* guild has configured and record one case, from the response.            *)
(***************************************************************************)
EXTENDS Guild, ModCases, Wrapper

CONSTANTS Channels,    \* the guild's channels
          Hidden,      \* those administrators keep from everybody
          Deleted,     \* ids of channels that no longer exist
          Batches,     \* what the invocations may ask for, together
          Guilds,      \* the states administrators switch the guild between
          Lists,       \* the lockdown lists they configure; {} is NULL
          Before       \* the cases of earlier commands, numbered without gaps

\* Nothing: the punished_id of a lockdown's case is an empty list.
NoChannel == "no channel"

ChannelRequest ==
    [kind        : {"lock", "unlock", "lockdown", "remove_lockdown"},
     author      : Users,
     channels    : SUBSET Channels,  \* the channels named
     here        : Channels,         \* the channel it is sent in
     interaction : BOOLEAN]

ASSUME ChannelsAssumption ==
    /\ IsFiniteSet(Channels)
    /\ Hidden \subseteq Channels
    /\ Channels \cap Deleted = {}
    /\ NoChannel \notin Channels
    /\ Batches \subseteq [Cmds -> ChannelRequest]
    /\ \A g \in Guilds : GuildRecord(g)
    /\ Lists \subseteq SUBSET (Channels \cup Deleted)
    /\ \A row \in Before : row.cmd \notin Cmds
    /\ Contiguous(Before) /\ LastCaseId(Before) \in Nat

VARIABLES
    guild,      \* roles and settings, as last edited
    lockdown,   \* moderation_config.lockdown_channels
    overwrite,  \* what Discord's overwrite of @everyone says of each channel
    req,        \* the request each invocation carries
    found,      \* the channels member of each wrapper
    call,       \* the permission edit of each command for each channel
    cases,      \* the modcases table
    cmdlog      \* the command log table

vars == <<guild, lockdown, overwrite, req, found, call, pc, tx, msg, reply, cases, cmdlog>>

-----------------------------------------------------------------------------
RunningAt == {"calls", "errors", "flag", "decide", "collect", "case", "modlog",
              "reply", "log"}

PCs == RunningAt \cup {"idle", "gate", "fetch", "cancelled", "done",
                       "raised", "segv", "dead"}

\* "told": between the insertion into errors and that into channels_with_errors.
CallStates == {"none", "queued", "applied", "refused", "ok", "told", "err", "late"}

\* An overwrite: send_messages allowed, denied or left to the roles, and
\* whether another permission (here: to see the channel) is denied with it.
Overwrite == [send : {"allow", "deny", "unset"}, hidden : BOOLEAN]

Row == [id : Nat, cmd : Cmds, target : Channels \cup {NoChannel}]

TypeOK ==
    /\ guild \in Guilds
    /\ lockdown \in Lists
    /\ overwrite \in [Channels -> Overwrite]
    /\ req \in Batches
    /\ found \in [Cmds -> SUBSET (Channels \cup {NoChannel})]
    /\ call \in [Cmds -> [Channels -> CallStates]]
    /\ pc \in [Cmds -> PCs]
    /\ tx \in [Cmds -> [id : Nat, who : SUBSET (Channels \cup {NoChannel})]]
    /\ msg \in [Cmds -> MessageAbout(Channels \cup Deleted)]
    /\ reply \in [Cmds -> [from : {"none", "gate", "errors", "final"},
                           body : MessageAbout(Channels \cup Deleted)]]
    /\ cases \ Before \subseteq Row
    /\ Before \subseteq cases
    /\ cmdlog \subseteq Cmds

Init ==
    /\ guild \in Guilds
    /\ lockdown \in Lists
    /\ overwrite = [ch \in Channels |-> [send |-> "unset", hidden |-> ch \in Hidden]]
    /\ req \in Batches
    /\ found = [c \in Cmds |-> {}]
    /\ call = [c \in Cmds |-> [ch \in Channels |-> "none"]]
    /\ pc = [c \in Cmds |-> "idle"]
    /\ tx = [c \in Cmds |-> NoTx]
    /\ msg = [c \in Cmds |-> EmptyMessage]
    /\ reply = [c \in Cmds |-> [from |-> "none", body |-> EmptyMessage]]
    /\ cases = Before
    /\ cmdlog = {}

-----------------------------------------------------------------------------
Kind(c)        == req[c].kind
Interactive(c) == req[c].interaction
Running(c)     == pc[c] \in RunningAt
Lockdown(c)    == Kind(c) \in {"lockdown", "remove_lockdown"}
Locks(c)       == Kind(c) \in {"lock", "lockdown"}

\* The channels named in errors, and channels_with_errors, which unlock never
\* fills and a lockdown that found no channel at all fills at once.
reported(c) == {ch \in Channels : call[c][ch] \in {"told", "err"}}

channels_with_errors(c) ==
    CASE Kind(c) = "unlock"      -> {}
      [] found[c] = {NoChannel}  -> {NoChannel}
      [] OTHER                   -> {ch \in Channels : call[c][ch] = "err"}

\* Mutant of are_all_errors: whether there are errors at all.
are_any_errors(c) == channels_with_errors(c) # {}

are_all_errors(c) ==
    Cardinality(channels_with_errors(c)) = Cardinality(found[c])

-----------------------------------------------------------------------------
(***************************************************************************)
(* The gates.                                                              *)
(***************************************************************************)
Invoke(c) ==
    /\ pc[c] = "idle"
    /\ Goto(c, "gate")
    /\ UNCHANGED <<guild, lockdown, overwrite, req, found, call, tx, msg, reply,
                   cases, cmdlog>>

LockErrors(c)   == BotLacks(guild, "manage_roles")
                     \cup AuthorLacks(guild, req[c], "manage_roles")
UnlockErrors(c) == BotLacks(guild, "manage_roles")
                     \cup AuthorLacks(guild, req[c], "manage_roles")

\* Whoever asks: a lockdown asks nothing of its author.
NoList(c) == ErrorIf(lockdown = {}, "no_channels_set", req[c].author)
LockdownErrors(c)       == BotLacks(guild, "manage_roles") \cup NoList(c)
RemoveLockdownErrors(c) == BotLacks(guild, "manage_roles") \cup NoList(c)

GateErrorsOf(c) ==
    CASE Kind(c) = "lock"            -> LockErrors(c)
      [] Kind(c) = "unlock"          -> UnlockErrors(c)
      [] Kind(c) = "lockdown"        -> LockdownErrors(c)
      [] Kind(c) = "remove_lockdown" -> RemoveLockdownErrors(c)

\* lock, unlock: hidden from the channel, or sent to the error webhook, whose
\* paginator takes the command it then uses.
CancelLock(c, errors) ==
    IF Interactive(c)
    THEN /\ Goto(c, "cancelled") /\ UNCHANGED tx
         /\ Show(c, "gate", [EmptyMessage EXCEPT !.ephemeral = TRUE])
    ELSE /\ IF TooLong(errors) THEN NullDereference(c)
            ELSE Goto(c, "cancelled") /\ UNCHANGED tx
         /\ UNCHANGED reply

\* lockdown, remove_lockdown: pages of text, for everybody to see.
CancelLockdown(c) ==
    Goto(c, "cancelled") /\ UNCHANGED tx /\ Show(c, "gate", EmptyMessage)

\* The lockdowns look up the author's highest role too, but never at it.
NoTopRole(c) ==
    guild.roles[Bot] = {} \/ (~Lockdown(c) /\ guild.roles[req[c].author] = {})

check_permissions(c) ==
    /\ pc[c] = "gate"
    /\ IF NoTopRole(c)
       THEN NullDereference(c) /\ UNCHANGED reply
       ELSE IF GateErrorsOf(c) = {}
       THEN Goto(c, "fetch") /\ UNCHANGED <<tx, reply>>
       ELSE IF Lockdown(c) THEN CancelLockdown(c)
       ELSE CancelLock(c, GateErrorsOf(c))
    /\ UNCHANGED <<guild, lockdown, overwrite, req, found, call, msg, cases, cmdlog>>

-----------------------------------------------------------------------------
(***************************************************************************)
(* The edits.                                                              *)
(***************************************************************************)
\* No channel named: the current one.
Named(c) == IF req[c].channels = {} THEN {req[c].here} ELSE req[c].channels

process_locks(c) ==
    /\ Kind(c) = "lock"
    /\ found' = [found EXCEPT ![c] = Named(c)]
    /\ Goto(c, "calls") /\ UNCHANGED <<tx, msg>>

process_unlocks(c) ==
    /\ Kind(c) = "unlock"
    /\ found' = [found EXCEPT ![c] = Named(c)]
    /\ Goto(c, "calls") /\ UNCHANGED <<tx, msg>>

\* Mutant of FetchList: a deleted channel stays in the list of channels.
FetchDeleted(c) ==
    IF lockdown = {}
    THEN Raise(c) /\ UNCHANGED <<found, msg>>
    ELSE /\ found' = [found EXCEPT ![c] = lockdown]
         /\ msg' = [msg EXCEPT ![c].errs = lockdown \cap Deleted]
         /\ Goto(c, "calls")
         /\ UNCHANGED tx

\* The list is read again, and looked up in the cache: every missing channel
\* becomes the same null pointer.  With channels beside it, the loop that makes
\* the calls starts at the null pointer; a list that is gone cannot be read.
FetchList(c) ==
    LET present == lockdown \cap Channels
        missing == lockdown \cap Deleted
    IN  IF lockdown = {}
        THEN Raise(c) /\ UNCHANGED <<found, msg>>
        ELSE IF missing # {} /\ present # {}
        THEN NullDereference(c) /\ UNCHANGED <<found, msg>>
        ELSE /\ found' = [found EXCEPT ![c] = IF present = {} THEN {NoChannel} ELSE present]
             /\ msg' = [msg EXCEPT ![c].errs = missing]
             /\ Goto(c, IF present = {} THEN "errors" ELSE "calls")
             /\ UNCHANGED tx

process_lockdown(c)         == Kind(c) = "lockdown" /\ FetchList(c)
process_lockdown_removal(c) == Kind(c) = "remove_lockdown" /\ FetchList(c)

process_channels(c) ==
    /\ pc[c] = "fetch"
    /\ \/ process_locks(c) \/ process_unlocks(c)
       \/ process_lockdown(c) \/ process_lockdown_removal(c)
    /\ UNCHANGED <<guild, lockdown, overwrite, req, call, reply, cases, cmdlog>>

\* One iteration of the loop over channels.
channel_edit_permissions(c, ch) ==
    /\ pc[c] = "calls"
    /\ ch \in found[c]
    /\ call[c][ch] = "none"
    /\ call' = [call EXCEPT ![c][ch] = "queued"]
    /\ IF \E other \in found[c] \ {ch} : call[c][other] = "none"
       THEN UNCHANGED pc
       ELSE Goto(c, "errors")
    /\ UNCHANGED <<guild, lockdown, overwrite, req, found, tx, msg, reply, cases, cmdlog>>

\* Mutant of Edited: an unlock denies too.
EditedAsLock(c, ch) == [send |-> "deny", hidden |-> FALSE]

\* The overwrite of @everyone is replaced as a whole.
Edited(c, ch) == [send |-> IF Locks(c) THEN "deny" ELSE "allow", hidden |-> FALSE]

\* External: Discord and its connection, as in CommandWrapper.
DiscordApplies(c, ch) ==
    /\ call[c][ch] = "queued"
    /\ call' = [call EXCEPT ![c][ch] = "applied"]
    /\ overwrite' = [overwrite EXCEPT ![ch] = Edited(c, ch)]
    /\ UNCHANGED <<guild, lockdown, req, found, pc, tx, msg, reply, cases, cmdlog>>

\* Refused by Discord or never delivered; or delivered, and the answer lost.
DiscordRefuses(c, ch) ==
    /\ call[c][ch] \in {"queued", "applied"}
    /\ call' = [call EXCEPT ![c][ch] = "refused"]
    /\ UNCHANGED <<guild, lockdown, overwrite, req, found, pc, tx, msg, reply,
                   cases, cmdlog>>

\* Administrators edit the guild or the list, as long as a command is to read them.
EditGuild ==
    /\ \/ /\ \E c \in Cmds : pc[c] = "gate" /\ ~Lockdown(c)
          /\ guild' \in Guilds \ {guild} /\ UNCHANGED lockdown
       \/ /\ \E c \in Cmds : pc[c] = "fetch" /\ Lockdown(c)
          /\ lockdown' \in Lists \ {lockdown} /\ UNCHANGED guild
    /\ UNCHANGED <<overwrite, req, found, call, pc, tx, msg, reply, cases, cmdlog>>

Kill ==
    /\ \E c \in Cmds : Running(c) \/ pc[c] \in {"gate", "fetch", "done", "raised"}
    /\ ProcessDies({})
    /\ UNCHANGED <<guild, lockdown, overwrite, req, found, call, msg, reply, cases, cmdlog>>

-----------------------------------------------------------------------------
(***************************************************************************)
(* lambda_callback.  lock and unlock record a case per success; they take  *)
(* the last case for granted, and an empty table has none.                 *)
(***************************************************************************)
\* Mutant of OpenCase: the channels edited so far are all recorded.
OpenCaseForAll(c, ch) ==
    IF ConnectionBusy(c) \/ cases = {}
    THEN RaiseInCallback
    ELSE /\ tx' = [tx EXCEPT ![c] = [id |-> LastCaseId(cases) + 1, who |-> found[c]]]
         /\ UNCHANGED pc

OpenCase(c, who) ==
    IF ConnectionBusy(c) \/ cases = {}
    THEN RaiseInCallback
    ELSE /\ tx' = [tx EXCEPT ![c] = [id |-> LastCaseId(cases) + 1, who |-> {who}]]
         /\ UNCHANGED pc

EditSucceeds(c, ch) ==
    /\ Running(c)
    /\ call[c][ch] = "applied"
    /\ call' = [call EXCEPT ![c][ch] = "ok"]
    /\ IF Lockdown(c) THEN UNCHANGED <<pc, tx>> ELSE OpenCase(c, ch)
    /\ UNCHANGED <<guild, lockdown, overwrite, req, found, msg, reply, cases, cmdlog>>

\* errors first, then channels_with_errors.
EditFails(c, ch) ==
    /\ Running(c)
    /\ \/ call[c][ch] = "refused" /\ call' = [call EXCEPT ![c][ch] = "told"]
       \/ call[c][ch] = "told" /\ call' = [call EXCEPT ![c][ch] = "err"]
    /\ UNCHANGED <<guild, lockdown, overwrite, req, found, pc, tx, msg, reply,
                   cases, cmdlog>>

\* On a wrapper that exists no more.
LateCallback(c, ch) ==
    /\ pc[c] \in {"done", "raised"}
    /\ call[c][ch] \in {"applied", "refused", "told"}
    /\ call' = [call EXCEPT ![c][ch] = "late"]
    /\ RaiseInCallback
    /\ UNCHANGED <<guild, lockdown, overwrite, req, found, msg, reply, cases, cmdlog>>

lambda_callback(c, ch) ==
    EditSucceeds(c, ch) \/ EditFails(c, ch) \/ LateCallback(c, ch)

\* Mutant of CommitCase: replaces the rows under its number.
CommitCaseOver(c) ==
    /\ Running(c)
    /\ tx[c] # NoTx
    /\ cases' = {row \in cases : row.id # tx[c].id}
                   \cup {[id |-> tx[c].id, cmd |-> c, target |-> ch] : ch \in tx[c].who}
    /\ tx' = [tx EXCEPT ![c] = NoTx]
    /\ IF pc[c] = "case" THEN Goto(c, "modlog") ELSE UNCHANGED pc
    /\ UNCHANGED <<guild, lockdown, overwrite, req, found, call, msg, reply, cmdlog>>

\* The response of a lockdown waits for its own commit.
CommitCase(c) ==
    /\ Running(c)
    /\ tx[c] # NoTx
    /\ cases' = cases \cup {[id |-> tx[c].id, cmd |-> c, target |-> ch] : ch \in tx[c].who}
    /\ tx' = [tx EXCEPT ![c] = NoTx]
    /\ IF pc[c] = "case" THEN Goto(c, "modlog") ELSE UNCHANGED pc
    /\ UNCHANGED <<guild, lockdown, overwrite, req, found, call, msg, reply, cmdlog>>

\* The database refuses: in a callback or, for a lockdown, in the response.
AbortCase(c) ==
    /\ tx[c] # NoTx
    /\ \/ /\ tx' = [tx EXCEPT ![c] = NoTx]
          /\ IF pc[c] = "case" THEN Goto(c, "raised") ELSE UNCHANGED pc
       \/ ProcessDies({})
    /\ UNCHANGED <<guild, lockdown, overwrite, req, found, call, msg, reply, cases, cmdlog>>

-----------------------------------------------------------------------------
(***************************************************************************)
(* process_response.                                                       *)
(***************************************************************************)
SnapshotErrors(c) ==
    /\ pc[c] = "errors"
    /\ msg' = [msg EXCEPT ![c].errs = @ \cup reported(c)]
    /\ Goto(c, IF msg'[c].errs = {} THEN "decide" ELSE "flag")
    /\ UNCHANGED <<guild, lockdown, overwrite, req, found, call, tx, reply, cases, cmdlog>>

\* A person is shown the errors at once, whoever else succeeds.
ShowErrors(c) ==
    LET shown == [msg[c] EXCEPT !.ephemeral = are_all_errors(c)]
    IN  /\ Interactive(c)
        /\ msg' = [msg EXCEPT ![c] = shown]
        /\ IF TooLong(msg[c].errs) THEN Paginate(c, "errors", shown)
           ELSE Show(c, "errors", shown) /\ Goto(c, "decide") /\ UNCHANGED tx

\* lock, unlock: invoke_error_webhook joins the errors anew.
ErrorWebhook(c) ==
    /\ ~Interactive(c) /\ ~Lockdown(c)
    /\ IF ConnectionBusy(c) THEN Raise(c)
       ELSE IF TooLong(reported(c)) THEN NullDereference(c)
       ELSE Goto(c, "decide") /\ UNCHANGED tx
    /\ UNCHANGED <<msg, reply>>

\* The lockdowns: "botlog", which nothing prepares.
ErrorLog(c) ==
    /\ ~Interactive(c) /\ Lockdown(c)
    /\ Raise(c)
    /\ UNCHANGED <<msg, reply>>

FlagErrors(c) ==
    /\ pc[c] = "flag"
    /\ ShowErrors(c) \/ ErrorWebhook(c) \/ ErrorLog(c)
    /\ UNCHANGED <<guild, lockdown, overwrite, req, found, call, cases, cmdlog>>

Decide(c) ==
    /\ pc[c] = "decide"
    /\ Goto(c, IF are_all_errors(c) THEN "reply" ELSE "collect")
    /\ UNCHANGED <<guild, lockdown, overwrite, req, found, call, tx, msg, reply,
                   cases, cmdlog>>

\* Mutant of CollectLocked: names only the channels known to be locked by now.
CollectLockedByNow(c) ==
    /\ Kind(c) = "lock"
    /\ msg' = [msg EXCEPT ![c].success = TRUE,
                          ![c].claimed = {ch \in found[c] : call[c][ch] = "ok"}]
    /\ Goto(c, "modlog")
    /\ UNCHANGED tx

\* set_difference(channels, channels_with_errors), which for unlock is all.
CollectLocked(c) ==
    /\ Kind(c) = "lock"
    /\ msg' = [msg EXCEPT ![c].success = TRUE,
                          ![c].claimed = found[c] \ channels_with_errors(c)]
    /\ Goto(c, "modlog")
    /\ UNCHANGED tx

CollectUnlocked(c) ==
    /\ Kind(c) = "unlock"
    /\ msg' = [msg EXCEPT ![c].success = TRUE,
                          ![c].claimed = found[c] \ channels_with_errors(c)]
    /\ Goto(c, "modlog")
    /\ UNCHANGED tx

\* set_difference(channels, channels): nobody.  The case is recorded here, under
\* an empty list of ids, if there is a last case to count from.
CollectLockdown(c) ==
    /\ Lockdown(c)
    /\ IF cases = {}
       THEN Raise(c) /\ UNCHANGED msg
       ELSE /\ tx' = [tx EXCEPT ![c] = [id |-> LastCaseId(cases) + 1, who |-> {NoChannel}]]
            /\ msg' = [msg EXCEPT ![c].success = TRUE]
            /\ Goto(c, "case")

Collect(c) ==
    /\ pc[c] = "collect"
    /\ CollectLocked(c) \/ CollectUnlocked(c) \/ CollectLockdown(c)
    /\ UNCHANGED <<guild, lockdown, overwrite, req, found, call, reply, cases, cmdlog>>

LogLock(c) ==
    /\ Kind(c) \in {"lock", "unlock"}
    /\ IF ConnectionBusy(c) THEN Raise(c) ELSE Goto(c, "reply") /\ UNCHANGED tx

\* The webhooks are read on the transaction that the case has committed.
LogLockdown(c) == Lockdown(c) /\ Raise(c)

Modlogs(c) ==
    /\ pc[c] = "modlog"
    /\ LogLock(c) \/ LogLockdown(c)
    /\ UNCHANGED <<guild, lockdown, overwrite, req, found, call, msg, reply, cases, cmdlog>>

\* More or less than one embed goes through a paginator.
Answer(c) ==
    /\ pc[c] = "reply"
    /\ IF Interactive(c) /\ embeds(msg[c]) # 1
       THEN Paginate(c, "final", msg[c])
       ELSE /\ Show(c, "final", msg[c])
            /\ Goto(c, IF Interactive(c) THEN "log" ELSE "done")
            /\ UNCHANGED tx
    /\ UNCHANGED <<guild, lockdown, overwrite, req, found, call, msg, cases, cmdlog>>

log_command_invoke(c) ==
    /\ pc[c] = "log"
    /\ IF ConnectionBusy(c)
       THEN Raise(c) /\ UNCHANGED cmdlog
       ELSE Goto(c, "done") /\ UNCHANGED tx /\ cmdlog' = cmdlog \cup {c}
    /\ UNCHANGED <<guild, lockdown, overwrite, req, found, call, msg, reply, cases>>

-----------------------------------------------------------------------------
wrapper_function(c) ==
    \/ check_permissions(c) \/ process_channels(c)
    \/ \E ch \in Channels : channel_edit_permissions(c, ch)
    \/ SnapshotErrors(c) \/ FlagErrors(c) \/ Decide(c) \/ Collect(c)
    \/ Modlogs(c) \/ Answer(c) \/ log_command_invoke(c)

Modcase(c) == CommitCase(c) \/ AbortCase(c)

Discord(c, ch) == DiscordApplies(c, ch) \/ DiscordRefuses(c, ch)

Next ==
    \/ \E c \in Cmds : Invoke(c) \/ wrapper_function(c) \/ Modcase(c)
    \/ \E c \in Cmds, ch \in Channels : Discord(c, ch) \/ lambda_callback(c, ch)
    \/ EditGuild
    \/ Kill

Spec == Init /\ [][Next]_vars

-----------------------------------------------------------------------------
(***************************************************************************)
(* What holds of them.                                                     *)
(***************************************************************************)
Succeeded(c) == {ch \in Channels : call[c][ch] = "ok"}

\* Errors hidden from the channel, by are_all_errors, mean that no edit of the
\* command has succeeded or ever will be seen to: not even the edits still
\* unanswered when the response looked.
EphemeralMeansNobodySucceeds ==
    \A c \in Cmds :
        reply[c].from \in {"errors", "final"} /\ reply[c].body.ephemeral
            => Succeeded(c) = {} /\ found[c] # {}

\* Whatever the callbacks, the commits and the other command do, a lock or
\* unlock records at most one case per channel, and only for an edit that
\* succeeded; a lockdown records one case, about no channel.
CasesAreEarned ==
    \A row \in cases \ Before :
        /\ IF Lockdown(row.cmd) THEN row.target = NoChannel
           ELSE row.target \in Succeeded(row.cmd)
        /\ \A other \in cases \ Before :
              other.cmd = row.cmd /\ other.target = row.target => other = row

\* Whatever is answered when the response looks, the final answer names every
\* channel whose edit succeeds, before it or after.
SuccessNeverHidden ==
    \A c \in Cmds :
        reply[c].from = "final" => Succeeded(c) \subseteq reply[c].body.claimed

\* A locked channel was locked, and an unlocked one unlocked, by a command that
\* got through its gate, named it or found it in the list, and had made its call.
OverwriteIsAccountable ==
    \A ch \in Channels :
        overwrite[ch].send # "unset" =>
            \E c \in Cmds : /\ Locks(c) = (overwrite[ch].send = "deny")
                           /\ ch \in found[c]
                           /\ call[c][ch] \notin {"none", "queued"}

\* The table under all of them together is the append-only ledger of CaseLedger.
Ledger == INSTANCE CaseLedger WITH Users <- Channels \cup {NoChannel}
LedgerSpec == Ledger!Spec

=============================================================================
