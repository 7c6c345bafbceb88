------------------------------- MODULE Mutes -------------------------------
(***************************************************************************)
(* mute and unmute.  mute times each member out or gives him the mute      *)
(* role, as the guild's configuration says, and its callbacks number the   *)
(* timeouts in a table; unmute takes the role away, where there is one,    *)
(* and always the timeout: one or two calls per member, whose callbacks    *)
(* share one list of errors.                                               *)
(***************************************************************************)
EXTENDS Guild, Wrapper

CONSTANTS Batches,       \* what the invocations may ask for, together
          Guilds,        \* the guilds to run in
          Configs,       \* the rows of moderation_config administrators switch between
          TimedOut,      \* who has been timed out by hand
          Hooks,         \* the webhooks the guild has set
          KeyIsNumber,   \* whether permanent_timeouts_pkey is the timeout's id, or the user's
          Lenient        \* whether the database does what the code takes for granted

MuteRequest == [kind        : {"mute", "unmute"},
                author      : Users,
                members     : SUBSET Users,
                interaction : BOOLEAN,
                duration    : {"nullopt", "throws"}]

Config == [use_timeout : {"NULL", "false", "true"},
           mute_role   : {"NULL", "deleted", "present"}]

ASSUME MutesAssumption ==
    /\ Batches \subseteq [Cmds -> MuteRequest]
    /\ \A g \in Guilds : GuildRecord(g)
    /\ Configs \subseteq Config
    /\ TimedOut \subseteq Users
    /\ Hooks \subseteq {"modlog", "public_modlog"}
    /\ KeyIsNumber \in BOOLEAN
    /\ Lenient \in BOOLEAN

VARIABLES
    guild,      \* roles and settings
    config,     \* the guild's row of moderation_config
    timedout,   \* Discord: who is timed out
    rolemuted,  \* Discord: who has the mute role
    timeouts,   \* the permanent_timeouts table
    req,        \* the request each invocation carries
    apis,       \* the calls each command makes per member
    call,       \* those calls
    cmdlog      \* the command log table

vars == <<guild, config, timedout, rolemuted, timeouts, req, apis, call,
          pc, tx, msg, reply, cmdlog>>

Apis == {"role", "timeout"}

\* An error is about a call for a member, or about the mute role.
Errors == Apis \X Users
NoRole == <<"no mute role", Bot>>

RunningAt == {"calls", "errors", "flag", "decide", "collect", "modlog", "reply", "log"}
Ended     == {"cancelled", "done", "raised", "segv", "dead"}
PCs       == RunningAt \cup Ended \cup {"idle", "gate", "fetch"}

\* "marked": between the insertion into members_with_errors and that into errors.
CallStates == {"none", "queued", "applied", "refused", "ok", "marked", "err", "late"}

MessageBody == [errs : SUBSET (Errors \cup {NoRole}), success : BOOLEAN,
                claimed : SUBSET Users, ephemeral : BOOLEAN]

TypeOK ==
    /\ guild \in Guilds
    /\ config \in Configs
    /\ timedout \subseteq Users
    /\ rolemuted \subseteq Users
    /\ timeouts \subseteq [id : Nat \ {0}, user : Users]
    /\ req \in Batches
    /\ apis \in [Cmds -> SUBSET Apis]
    /\ call \in [Cmds -> [Apis -> [Users -> CallStates]]]
    /\ pc \in [Cmds -> PCs]
    /\ tx \in [Cmds -> [id : Nat, who : SUBSET Users]]
    /\ msg \in [Cmds -> MessageBody]
    /\ reply \in [Cmds -> [from : {"none", "gate", "final"}, body : MessageBody]]
    /\ cmdlog \subseteq Cmds

Init ==
    /\ guild \in Guilds
    /\ config \in Configs
    /\ timedout = TimedOut
    /\ rolemuted = {}
    /\ timeouts = {}
    /\ req \in Batches
    /\ apis = [c \in Cmds |-> {}]
    /\ call = [c \in Cmds |-> [a \in Apis |-> [u \in Users |-> "none"]]]
    /\ pc = [c \in Cmds |-> "idle"]
    /\ tx = [c \in Cmds |-> NoTx]
    /\ msg = [c \in Cmds |-> EmptyMessage]
    /\ reply = [c \in Cmds |-> [from |-> "none", body |-> EmptyMessage]]
    /\ cmdlog = {}

-----------------------------------------------------------------------------
Kind(c)        == req[c].kind
Interactive(c) == req[c].interaction
Running(c)     == pc[c] \in RunningAt

\* A transaction that writes no row.
Reading == [id |-> 1, who |-> {}]

reported(c) ==
    {e \in Errors : call[c][e[1]][e[2]] = "err"}
      \cup (IF Kind(c) = "mute" /\ apis[c] = {} THEN {NoRole} ELSE {})

members_with_errors(c) ==
    {u \in Users : \E a \in Apis : call[c][a][u] \in {"marked", "err"}}

\* Mutant of are_all_errors: whether there are errors at all.
are_any_errors(c) == members_with_errors(c) # {}

are_all_errors(c) ==
    Cardinality(members_with_errors(c)) = Cardinality(req[c].members)

-----------------------------------------------------------------------------
(***************************************************************************)
(* The gates.                                                              *)
(***************************************************************************)
Invoke(c) ==
    /\ pc[c] = "idle"
    /\ Goto(c, "gate")
    /\ UNCHANGED <<guild, config, timedout, rolemuted, timeouts, req, apis, call,
                   tx, msg, reply, cmdlog>>

check_mute_possible(r) ==
    UNION {IsSelf(r, m) \cup IsOwner(r, m) \cup IsBot(m) \cup IsProtected(guild, m)
             \cup AboveBot(guild, m) \cup AboveAuthor(guild, r, m) : m \in r.members}

MuteErrors(r) ==
    LET denied == AuthorLacks(guild, r, "kick_members")
    IN  BotLacks(guild, "moderate_members") \cup denied
          \cup (IF denied = {} THEN check_mute_possible(r) ELSE {})

\* Nothing is asked of the author's permissions.
UnmuteErrors(r) ==
    BotLacks(guild, "moderate_members") \cup
    UNION {IsSelf(r, m) \cup IsOwner(r, m) \cup IsBot(m) \cup IsProtected(guild, m)
             \cup AboveBot(guild, m) \cup AboveAuthor(guild, r, m) : m \in r.members}

GateErrorsOf(c) == IF Kind(c) = "mute" THEN MuteErrors(req[c]) ELSE UnmuteErrors(req[c])

\* The members whose front() is taken, after the bot's and the author's.
FrontsOf(c) ==
    IF Kind(c) = "mute" /\ AuthorLacks(guild, req[c], "kick_members") # {}
    THEN {} ELSE req[c].members

RefuseInteraction(c) ==
    /\ Interactive(c)
    /\ Goto(c, "cancelled") /\ UNCHANGED tx
    /\ Show(c, "gate", [EmptyMessage EXCEPT !.ephemeral = TRUE])

\* invoke_error_webhook, whose paginator takes the command it then uses.
CancelMute(c) ==
    /\ Kind(c) = "mute"
    /\ \/ RefuseInteraction(c)
       \/ /\ ~Interactive(c)
          /\ IF TooLong(MuteErrors(req[c])) THEN NullDereference(c)
             ELSE Goto(c, "cancelled") /\ UNCHANGED tx
          /\ UNCHANGED reply

\* A statement nothing prepares, on a transaction that is committed.
CancelUnmute(c) ==
    /\ Kind(c) = "unmute"
    /\ \/ RefuseInteraction(c)
       \/ ~Interactive(c) /\ Raise(c) /\ UNCHANGED reply

\* mute's gate keeps its transaction while it opens others.
GateThrows(c) == ~Lenient /\ Kind(c) = "mute"

check_permissions(c) ==
    /\ pc[c] = "gate"
    /\ IF guild.roles[Bot] = {} \/ guild.roles[req[c].author] = {}
       THEN NullDereference(c) /\ UNCHANGED reply
       ELSE IF GateThrows(c) THEN Raise(c) /\ UNCHANGED reply
       ELSE IF \E u \in FrontsOf(c) : guild.roles[u] = {}
       THEN NullDereference(c) /\ UNCHANGED reply
       ELSE IF GateErrorsOf(c) = {} THEN Goto(c, "fetch") /\ UNCHANGED <<tx, reply>>
       ELSE CancelMute(c) \/ CancelUnmute(c)
    /\ UNCHANGED <<guild, config, timedout, rolemuted, timeouts, req, apis, call,
                   msg, cmdlog>>

-----------------------------------------------------------------------------
(***************************************************************************)
(* process_mutes and process_unmutes.                                      *)
(***************************************************************************)
\* What the command asks of Discord for each member; mute keeps the transaction
\* open in which it read the configuration until the last call is sent.
SetOut(c, with) ==
    /\ apis' = [apis EXCEPT ![c] = with]
    /\ IF with = {} \/ req[c].members = {}
       THEN Goto(c, "errors") /\ UNCHANGED tx
       ELSE /\ Goto(c, "calls")
            /\ tx' = [tx EXCEPT ![c] = IF Kind(c) = "mute" THEN Reading ELSE NoTx]

\* Without a configured mute role, or with a deleted one, nothing is sent.  With
\* one, the audit reason is made of the duration, of which there is none: the
\* empty optional is read.
MuteByRole(c) ==
    IF config.mute_role # "present" THEN SetOut(c, {})
    ELSE SetOut(c, {"role"}) \/ (NullDereference(c) /\ UNCHANGED apis)

process_mutes(c) ==
    /\ Kind(c) = "mute"
    /\ IF req[c].duration = "throws" THEN Raise(c) /\ UNCHANGED apis
       ELSE IF config.use_timeout # "false" THEN SetOut(c, {"timeout"})
       ELSE MuteByRole(c)

process_unmutes(c) ==
    /\ Kind(c) = "unmute"
    /\ SetOut(c, IF config.mute_role = "present" THEN Apis ELSE {"timeout"})

process_calls(c) ==
    /\ pc[c] = "fetch"
    /\ process_mutes(c) \/ process_unmutes(c)
    /\ UNCHANGED <<guild, config, timedout, rolemuted, timeouts, req, call, msg,
                   reply, cmdlog>>

Sent(c, t)    == {a \in Apis : call[c][a][t] # "none"}
Unsent(c)     == {u \in req[c].members : Sent(c, u) # apis[c]}

\* One call of the loop over members: the role goes before the timeout.
SendCall(c, a, t) ==
    /\ pc[c] = "calls"
    /\ t \in req[c].members /\ a \in apis[c] \ Sent(c, t)
    /\ a = "timeout" => "role" \notin apis[c] \ Sent(c, t)
    /\ \A u \in req[c].members \ {t} : Sent(c, u) \in {{}, apis[c]}
    /\ call' = [call EXCEPT ![c][a][t] = "queued"]
    /\ IF Unsent(c) = {t} /\ apis[c] \ Sent(c, t) = {a}
       THEN Goto(c, "errors") /\ tx' = [tx EXCEPT ![c] = NoTx]
       ELSE UNCHANGED <<pc, tx>>
    /\ UNCHANGED <<guild, config, timedout, rolemuted, timeouts, req, apis, msg,
                   reply, cmdlog>>

\* External.  guild_member_timeout takes the date on which a timeout ends; mute
\* gives it max_timeout_seconds, a date in January 1970, which ends one.
Effect(c, a, t) ==
    IF a = "role"
    THEN /\ rolemuted' = IF Kind(c) = "mute" THEN rolemuted \cup {t} ELSE rolemuted \ {t}
         /\ UNCHANGED timedout
    ELSE timedout' = timedout \ {t} /\ UNCHANGED rolemuted

DiscordApplies(c, a, t) ==
    /\ call[c][a][t] = "queued"
    /\ BotOutranks(guild, t)
    /\ call' = [call EXCEPT ![c][a][t] = "applied"]
    /\ Effect(c, a, t)
    /\ UNCHANGED <<guild, config, timeouts, req, apis, pc, tx, msg, reply, cmdlog>>

\* Refused or never delivered; or delivered, and the answer lost.
DiscordRefuses(c, a, t) ==
    /\ call[c][a][t] \in {"queued", "applied"}
    /\ call' = [call EXCEPT ![c][a][t] = "refused"]
    /\ UNCHANGED <<guild, config, timedout, rolemuted, timeouts, req, apis, pc, tx,
                   msg, reply, cmdlog>>

\* Administrators edit the configuration while a command is to read it.
EditConfig ==
    /\ \E c \in Cmds : pc[c] = "fetch"
    /\ config' \in Configs \ {config}
    /\ UNCHANGED <<guild, timedout, rolemuted, timeouts, req, apis, call, pc, tx, msg,
                   reply, cmdlog>>

Kill ==
    /\ \E c \in Cmds : Running(c) \/ pc[c] \in {"gate", "fetch", "done", "raised"}
    /\ ProcessDies({})
    /\ UNCHANGED <<guild, config, timedout, rolemuted, timeouts, req, apis, call,
                   msg, reply, cmdlog>>

-----------------------------------------------------------------------------
(***************************************************************************)
(* lambda_callback.  mute records a timeout; it takes the connection even  *)
(* when it has nothing to record.                                          *)
(***************************************************************************)
LastTimeout ==
    CHOOSE n \in {row.id : row \in timeouts} : \A row \in timeouts : row.id <= n

\* The last id, as it is.
TimeoutId == IF timeouts = {} THEN 1 ELSE LastTimeout

OpenTimeout(c, t) ==
    IF ConnectionBusy(c) \/ ("timeout" \in apis[c] /\ timeouts = {} /\ ~Lenient)
    THEN RaiseInCallback
    ELSE /\ tx' = [tx EXCEPT ![c] = IF "timeout" \in apis[c]
                                   THEN [id |-> TimeoutId, who |-> {t}] ELSE Reading]
         /\ UNCHANGED pc

CallSucceeds(c, a, t) ==
    /\ Running(c)
    /\ call[c][a][t] = "applied"
    /\ call' = [call EXCEPT ![c][a][t] = "ok"]
    /\ IF Kind(c) = "mute" THEN OpenTimeout(c, t) ELSE UNCHANGED <<pc, tx>>
    /\ UNCHANGED <<guild, config, timedout, rolemuted, timeouts, req, apis, msg,
                   reply, cmdlog>>

\* Mutant of CallFails: records before it looks at the error.
CallFailsOnRecord(c, a, t) ==
    /\ Running(c)
    /\ \/ /\ call[c][a][t] = "refused" /\ call' = [call EXCEPT ![c][a][t] = "marked"]
          /\ IF Kind(c) = "mute" THEN OpenTimeout(c, t) ELSE UNCHANGED <<pc, tx>>
       \/ /\ call[c][a][t] = "marked" /\ call' = [call EXCEPT ![c][a][t] = "err"]
          /\ UNCHANGED <<pc, tx>>
    /\ UNCHANGED <<guild, config, timedout, rolemuted, timeouts, req, apis, msg,
                   reply, cmdlog>>

\* members_with_errors first, then errors.
CallFails(c, a, t) ==
    /\ Running(c)
    /\ \/ call[c][a][t] = "refused" /\ call' = [call EXCEPT ![c][a][t] = "marked"]
       \/ call[c][a][t] = "marked" /\ call' = [call EXCEPT ![c][a][t] = "err"]
    /\ UNCHANGED <<guild, config, timedout, rolemuted, timeouts, req, apis, pc, tx,
                   msg, reply, cmdlog>>

\* On a wrapper that exists no more.
LateCallback(c, a, t) ==
    /\ pc[c] \in {"done", "raised"}
    /\ call[c][a][t] \in {"applied", "refused", "marked"}
    /\ call' = [call EXCEPT ![c][a][t] = "late"]
    /\ RaiseInCallback
    /\ UNCHANGED <<guild, config, timedout, rolemuted, timeouts, req, apis, msg,
                   reply, cmdlog>>

lambda_callback(c, a, t) ==
    CallSucceeds(c, a, t) \/ CallFails(c, a, t) \/ LateCallback(c, a, t)

\* The row of a member who has one already, or a number that is taken, is kept
\* (its reason is overwritten), depending on what the primary key is.
Taken(c) ==
    {row \in timeouts : IF KeyIsNumber THEN row.id = tx[c].id ELSE row.user \in tx[c].who}

\* A callback's transaction commits.
CommitTimeout(c) ==
    /\ Running(c) /\ pc[c] # "calls"
    /\ tx[c] # NoTx
    /\ timeouts' = IF Taken(c) # {} THEN timeouts
                   ELSE timeouts \cup {[id |-> tx[c].id, user |-> t] : t \in tx[c].who}
    /\ tx' = [tx EXCEPT ![c] = NoTx]
    /\ UNCHANGED <<guild, config, timedout, rolemuted, req, apis, call, pc, msg,
                   reply, cmdlog>>

\* The database refuses it.
AbortTimeout(c) ==
    /\ tx[c] # NoTx /\ pc[c] # "calls"
    /\ \/ tx' = [tx EXCEPT ![c] = NoTx] /\ UNCHANGED pc
       \/ ProcessDies({})
    /\ UNCHANGED <<guild, config, timedout, rolemuted, timeouts, req, apis, call,
                   msg, reply, cmdlog>>

-----------------------------------------------------------------------------
(***************************************************************************)
(* process_response.                                                       *)
(***************************************************************************)
SnapshotErrors(c) ==
    /\ pc[c] = "errors"
    /\ msg' = [msg EXCEPT ![c].errs = reported(c)]
    /\ Goto(c, IF reported(c) = {} THEN "decide" ELSE "flag")
    /\ UNCHANGED <<guild, config, timedout, rolemuted, timeouts, req, apis, call, tx,
                   reply, cmdlog>>

\* A person will be shown the errors with the answer.
FlagAnswer(c) ==
    /\ Interactive(c)
    /\ msg' = [msg EXCEPT ![c].ephemeral = are_all_errors(c)]
    /\ Goto(c, "decide") /\ UNCHANGED tx

\* automod's go elsewhere, through invoke_error_webhook, which joins them anew ...
FlagMute(c) ==
    /\ ~Interactive(c) /\ Kind(c) = "mute"
    /\ IF ConnectionBusy(c) THEN Raise(c)
       ELSE IF TooLong(reported(c)) THEN NullDereference(c)
       ELSE Goto(c, "decide") /\ UNCHANGED tx
    /\ msg' = [msg EXCEPT ![c].errs = {}]

\* ... or through a statement that nothing prepares.
FlagUnmute(c) == ~Interactive(c) /\ Kind(c) = "unmute" /\ Raise(c) /\ UNCHANGED msg

FlagErrors(c) ==
    /\ pc[c] = "flag"
    /\ FlagAnswer(c) \/ FlagMute(c) \/ FlagUnmute(c)
    /\ UNCHANGED <<guild, config, timedout, rolemuted, timeouts, req, apis, call,
                   reply, cmdlog>>

Decide(c) ==
    /\ pc[c] = "decide"
    /\ Goto(c, IF are_all_errors(c) THEN "reply" ELSE "collect")
    /\ UNCHANGED <<guild, config, timedout, rolemuted, timeouts, req, apis, call, tx,
                   msg, reply, cmdlog>>

\* Mutant of Claim: only those every call for whom has been answered.
ClaimAnswered(c) ==
    msg' = [msg EXCEPT ![c].success = TRUE,
                       ![c].claimed = {u \in req[c].members :
                                         \A a \in apis[c] : call[c][a][u] = "ok"}]

Claim(c) ==
    msg' = [msg EXCEPT ![c].success = TRUE,
                       ![c].claimed = req[c].members \ members_with_errors(c)]

CollectMuted(c)   == Kind(c) = "mute"   /\ Claim(c)
CollectUnmuted(c) == Kind(c) = "unmute" /\ Claim(c)

Collect(c) ==
    /\ pc[c] = "collect"
    /\ CollectMuted(c) \/ CollectUnmuted(c)
    /\ Goto(c, "modlog")
    /\ UNCHANGED <<guild, config, timedout, rolemuted, timeouts, req, apis, call, tx,
                   reply, cmdlog>>

\* The log takes the avatar of the first of at most one: of nobody, it throws.
PostLogs(c) ==
    IF ConnectionBusy(c) \/ (Hooks # {} /\ msg[c].claimed = {})
    THEN Raise(c)
    ELSE Goto(c, "reply") /\ UNCHANGED tx

LogMutes(c)   == Kind(c) = "mute"   /\ PostLogs(c)
LogUnmutes(c) == Kind(c) = "unmute" /\ PostLogs(c)

Modlogs(c) ==
    /\ pc[c] = "modlog"
    /\ LogMutes(c) \/ LogUnmutes(c)
    /\ UNCHANGED <<guild, config, timedout, rolemuted, timeouts, req, apis, call, msg,
                   reply, cmdlog>>

Answer(c) ==
    /\ pc[c] = "reply"
    /\ IF Interactive(c) /\ embeds(msg[c]) # 1
       THEN Paginate(c, "final", msg[c])
       ELSE /\ Show(c, "final", msg[c])
            /\ Goto(c, IF Interactive(c) THEN "log" ELSE "done")
            /\ UNCHANGED tx
    /\ UNCHANGED <<guild, config, timedout, rolemuted, timeouts, req, apis, call, msg,
                   cmdlog>>

\* log_command_invoke, or unmute's own insertion.
log_command_invoke(c) ==
    /\ pc[c] = "log"
    /\ IF ConnectionBusy(c)
       THEN Raise(c) /\ UNCHANGED cmdlog
       ELSE Goto(c, "done") /\ UNCHANGED tx /\ cmdlog' = cmdlog \cup {c}
    /\ UNCHANGED <<guild, config, timedout, rolemuted, timeouts, req, apis, call, msg,
                   reply>>

-----------------------------------------------------------------------------
wrapper_function(c) ==
    \/ check_permissions(c) \/ process_calls(c)
    \/ \E a \in Apis, t \in Users : SendCall(c, a, t)
    \/ SnapshotErrors(c) \/ FlagErrors(c) \/ Decide(c) \/ Collect(c)
    \/ Modlogs(c) \/ Answer(c) \/ log_command_invoke(c)

Discord(c, a, t) == DiscordApplies(c, a, t) \/ DiscordRefuses(c, a, t)

Next ==
    \/ \E c \in Cmds :
          Invoke(c) \/ wrapper_function(c) \/ CommitTimeout(c) \/ AbortTimeout(c)
    \/ \E c \in Cmds, a \in Apis, t \in Users :
          Discord(c, a, t) \/ lambda_callback(c, a, t)
    \/ EditConfig
    \/ Kill

Spec == Init /\ [][Next]_vars

-----------------------------------------------------------------------------
(***************************************************************************)
(* What holds of them.                                                     *)
(***************************************************************************)
AllWell(c, t) == \A a \in apis[c] : call[c][a][t] = "ok"
\* (A callback may be cut in two by the end of its wrapper.)
Failing(c, t) == \E a \in apis[c] : call[c][a][t] \in {"marked", "err", "late"}

\* An answer hidden as a failure for everybody stays true: some call has failed
\* for every member, however the callbacks went on, and it claims no success.
HiddenMeansAllFailed ==
    \A c \in Cmds :
        reply[c].from = "final" /\ reply[c].body.ephemeral
            => /\ ~reply[c].body.success
               /\ \A t \in req[c].members : Failing(c, t)

\* The answer, put together while callbacks still run, names as muted or unmuted
\* everybody for whom all calls succeed, before it or after.
SuccessNeverHidden ==
    \A c \in Cmds :
        msg[c].success => {t \in req[c].members : AllWell(c, t)} \subseteq msg[c].claimed

\* The numbers in permanent_timeouts never advance; where they are its key, the
\* table holds the first member ever timed out and nobody else.
TimeoutNumbersStandStill ==
    /\ \A row \in timeouts : row.id = 1
    /\ KeyIsNumber => Cardinality(timeouts) <= 1

\* A member in that table is one whom a mute that passed its gate named, and the
\* callback of whose call reported success.
RecordedMeansApplied ==
    \A row \in timeouts :
        \E c \in Cmds : Kind(c) = "mute" /\ call[c]["timeout"][row.user] = "ok"

-----------------------------------------------------------------------------
(***************************************************************************)
(* What moderation.h says of mute, and the code does not do: the run that  *)
(* checks it ends in a violation.                                          *)
(***************************************************************************)
\* "Uses the discord timeout feature if specified": a member for whom a mute's
\* timeout has been confirmed, and about whom no other command is, is timed out.
TimeoutIsGiven ==
    \A c \in Cmds : \A t \in req[c].members :
        /\ Kind(c) = "mute" /\ call[c]["timeout"][t] = "ok"
        /\ \A d \in Cmds \ {c} : t \notin req[d].members
        => t \in timedout

=============================================================================
