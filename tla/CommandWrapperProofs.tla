------------------------ MODULE CommandWrapperProofs ------------------------
(***************************************************************************)
(* Theorems about CommandWrapper, for any commands, people, guilds and     *)
(* requests.                                                               *)
(***************************************************************************)
EXTENDS CommandWrapper, FiniteSetTheorems, TLAPS

-----------------------------------------------------------------------------
(***************************************************************************)
(* Type correctness.                                                       *)
(***************************************************************************)
\* The parts of a request have the types Guild gives them.
LEMMA RequestTypes ==
    ASSUME req \in [Cmds -> Requests], NEW c \in Cmds
    PROVE  /\ req[c] \in Request
           /\ req[c].members \subseteq Users
           /\ req[c].users \subseteq Users
           /\ Targets(req[c]) \subseteq Users
           /\ Kind(c) \in Kinds
<1>1. req[c] \in Request
  BY CommandAssumption
<1> QED
  BY <1>1 DEF Request, Targets, Kind

\* A thread may be sent to any of the program's points.
LEMMA GotoType ==
    ASSUME TypeOK, NEW c \in Cmds, NEW where \in PCs, Goto(c, where)
    PROVE  pc' \in [Cmds -> PCs]
  BY DEF Goto, TypeOK

\* The death of the process leaves every thread and connection well typed.
LEMMA ProcessDiesType ==
    ASSUME TypeOK, NEW culprits, ProcessDies(culprits)
    PROVE  pc' \in [Cmds -> PCs] /\ tx' \in [Cmds -> Transaction]
  BY DEF ProcessDies, TypeOK, PCs, RunningAt, Transaction, NoTx

\* So does an exception, wherever it is thrown.
LEMMA RaiseType ==
    ASSUME TypeOK, NEW c \in Cmds,
           Raise(c) \/ RaiseInCallback \/ NullDereference(c)
    PROVE  pc' \in [Cmds -> PCs] /\ tx' \in [Cmds -> Transaction]
<1>1. CASE Goto(c, "raised") /\ UNCHANGED tx
  BY <1>1, GotoType DEF TypeOK, PCs
<1>2. CASE ProcessDies({}) \/ ProcessDies({c})
  BY <1>2, ProcessDiesType
<1>3. CASE UNCHANGED <<pc, tx>>
  BY <1>3 DEF TypeOK
<1> QED
  BY <1>1, <1>2, <1>3 DEF Raise, RaiseInCallback, NullDereference

\* A call may be in any of its states.
LEMMA CallType ==
    ASSUME TypeOK, NEW c \in Cmds, NEW t \in Users, NEW s \in CallStates,
           call' = [call EXCEPT ![c][t] = s]
    PROVE  call' \in [Cmds -> [Users -> CallStates]]
  BY DEF TypeOK

\* The errors of a command are its targets'.
LEMMA ErrorsAreTargets ==
    ASSUME TypeOK, NEW c \in Cmds
    PROVE  /\ reported(c) \subseteq Users
           /\ targets_with_errors(c) \subseteq Users
           /\ targets_without_errors(c) \subseteq Users
  BY RequestTypes DEF TypeOK, reported, targets_with_errors, targets_without_errors

\* However a kind refuses, the thread is cancelled or ends badly, and only a
\* person's interaction is answered.
LEMMA CancelShape ==
    ASSUME NEW c \in Cmds, NEW errors, Cancel(c, errors)
    PROVE  \/ Goto(c, "cancelled") /\ UNCHANGED <<tx, reply>>
           \/ /\ Goto(c, "cancelled") /\ UNCHANGED tx
              /\ Show(c, "gate", [EmptyMessage EXCEPT !.ephemeral = TRUE])
           \/ (Raise(c) \/ NullDereference(c)) /\ UNCHANGED reply
  BY DEF Cancel, CancelKick, CancelBan, CancelHardban, CancelSoftban, CancelUnban,
     CancelWarn, RefuseInteraction, ErrorsToWebhook, ErrorsThrow

\* Whatever the kind, the success embed names the targets without an error.
LEMMA CollectShape ==
    ASSUME req \in [Cmds -> Requests], NEW c \in Cmds, Collect(c)
    PROVE  /\ msg' = [msg EXCEPT ![c].success = TRUE,
                                 ![c].claimed = targets_without_errors(c)]
           /\ pc[c] = "collect" /\ Goto(c, "modlog")
           /\ UNCHANGED <<guild, lenient, bans, req, call, tx, reply, cases, cmdlog>>
<1>1. WellFormed(req[c])
  BY CommandAssumption
<1>2. /\ Kind(c) \in {"kick", "warn"} => Targets(req[c]) = req[c].members
      /\ Kind(c) = "unban" => Targets(req[c]) = req[c].users
  BY <1>1 DEF WellFormed, Kind, Targets
<1> QED
  BY <1>2 DEF Collect, CollectKicked, CollectBanned, CollectHardbanned,
     CollectSoftbanned, CollectUnbanned, CollectWarned, Claim, targets_without_errors

\* Whatever the kind, the logs let the thread go on to its answer or raise.
LEMMA ModlogsShape ==
    ASSUME NEW c \in Cmds, Modlogs(c)
    PROVE  /\ pc[c] = "modlog"
           /\ Raise(c) \/ (Goto(c, "reply") /\ UNCHANGED tx)
           /\ UNCHANGED <<guild, lenient, bans, req, call, msg, reply, cases, cmdlog>>
  BY DEF Modlogs, LogKicks, LogBans, LogHardbans, LogSoftbans, LogUnbans, LogWarns,
     PostLogs

\* What a response shows is a message.
LEMMA ShowType ==
    ASSUME TypeOK, NEW c \in Cmds, NEW body \in Message,
           NEW from \in {"none", "gate", "errors", "final"}, Show(c, from, body)
    PROVE  reply' \in [Cmds -> Reply]
  BY DEF Show, TypeOK, Reply

-----------------------------------------------------------------------------
(***************************************************************************)
(* The numbers in the modcases table.                                      *)
(***************************************************************************)
\* Numbers without gaps: the highest exists, and is how many there are.
LEMMA LastOfContiguous ==
    ASSUME NEW rows, NEW k \in Nat, CaseIds(rows) = 1 .. k
    PROVE  LastCaseId(rows) = k
<1>1. CASE rows = {}
  <2>1. CaseIds(rows) = {}
    BY <1>1 DEF CaseIds
  <2>2. k = 0
    BY <2>1
  <2> QED
    BY <1>1, <2>2 DEF LastCaseId
<1>2. CASE rows # {}
  <2>1. CaseIds(rows) # {}
    BY <1>2 DEF CaseIds
  <2>2. k \in 1 .. k
    BY <2>1
  <2>3. \A n \in 1 .. k : (\A m \in 1 .. k : m <= n) => n = k
    BY <2>2
  <2>4. \A m \in 1 .. k : m <= k
    OBVIOUS
  <2> QED
    BY <1>2, <2>2, <2>3, <2>4 DEF LastCaseId
<1> QED
  BY <1>1, <1>2

\* A table with the numbers 1..k, to which rows with one number up to k + 1
\* are added, has no gaps either.
LEMMA ContiguousGrows ==
    ASSUME NEW k \in Nat, NEW n \in 1 .. (k + 1)
    PROVE  \E j \in Nat : j >= k /\ (1 .. k) \cup {n} = 1 .. j
<1>1. CASE n = k + 1
  <2>1. (1 .. k) \cup {n} = 1 .. (k + 1)
    BY <1>1
  <2> QED
    BY <2>1
<1>2. CASE n # k + 1
  <2>1. (1 .. k) \cup {n} = 1 .. k
    BY <1>2
  <2> QED
    BY <2>1
<1> QED
  BY <1>1, <1>2

\* The invariant behind CaseIdsContiguous: an open transaction's number was
\* one above the highest when it read it, and the highest only grows.  It is
\* also above every number its own command has recorded.
NumbersInv ==
    /\ \E k \in Nat : CaseIds(cases) = 1 .. k
    /\ \A c \in Cmds : tx[c] # NoTx =>
          /\ tx[c].id \in 1 .. (LastCaseId(cases) + 1)
          /\ \A row \in cases : row.cmd = c => row.id < tx[c].id

LEMMA LastCaseIdType ==
    ASSUME NumbersInv
    PROVE  LastCaseId(cases) \in Nat /\ CaseIds(cases) = 1 .. LastCaseId(cases)
  BY LastOfContiguous DEF NumbersInv

-----------------------------------------------------------------------------
(***************************************************************************)
(* TypeOK, action by action.                                               *)
(***************************************************************************)
LEMMA TypeInit == Init => TypeOK
  BY CommandAssumption DEF Init, TypeOK, PCs, RunningAt, CallStates, BanReasons,
     Transaction, NoTx, Message, EmptyMessage, Reply

\* The command's own thread.
LEMMA TypeThread ==
    ASSUME TypeOK, NEW c \in Cmds,
           Invoke(c) \/ check_permissions(c) \/ Decide(c) \/ Modlogs(c)
             \/ log_command_invoke(c)
    PROVE  TypeOK'
<1>1. CASE Invoke(c)
  <2>1. pc' \in [Cmds -> PCs] /\ tx' \in [Cmds -> Transaction]
    BY <1>1, RaiseType, GotoType DEF Invoke, TypeOK, PCs
  <2> QED
    BY <1>1, <2>1 DEF Invoke, TypeOK
<1>2. CASE check_permissions(c)
  <2>1. ASSUME Cancel(c, GateErrors(guild, req[c]))
        PROVE  /\ pc' \in [Cmds -> PCs] /\ tx' \in [Cmds -> Transaction]
               /\ reply' \in [Cmds -> Reply]
    <3>1. [EmptyMessage EXCEPT !.ephemeral = TRUE] \in Message
      BY DEF EmptyMessage, Message
    <3>2. CASE Goto(c, "cancelled") /\ UNCHANGED tx
      <4>1. UNCHANGED reply \/ Show(c, "gate", [EmptyMessage EXCEPT !.ephemeral = TRUE])
        BY <2>1, CancelShape
      <4> QED
        BY <3>1, <3>2, <4>1, GotoType, ShowType DEF TypeOK, PCs
    <3>3. CASE (Raise(c) \/ NullDereference(c)) /\ UNCHANGED reply
      BY <3>3, RaiseType DEF TypeOK
    <3> QED
      BY <2>1, <3>2, <3>3, CancelShape
  <2>2. ASSUME Raise(c) \/ NullDereference(c), UNCHANGED reply
        PROVE  /\ pc' \in [Cmds -> PCs] /\ tx' \in [Cmds -> Transaction]
               /\ reply' \in [Cmds -> Reply]
    BY <2>2, RaiseType DEF TypeOK
  <2>3. ASSUME Goto(c, "calls") \/ Goto(c, "errors"), UNCHANGED <<tx, reply>>
        PROVE  /\ pc' \in [Cmds -> PCs] /\ tx' \in [Cmds -> Transaction]
               /\ reply' \in [Cmds -> Reply]
    BY <2>3, GotoType DEF TypeOK, PCs, RunningAt
  <2>4. /\ pc' \in [Cmds -> PCs] /\ tx' \in [Cmds -> Transaction]
        /\ reply' \in [Cmds -> Reply]
    BY <1>2, <2>1, <2>2, <2>3 DEF check_permissions
  <2> QED
    BY <1>2, <2>4 DEF check_permissions, TypeOK
<1>3. CASE Decide(c)
  BY <1>3, GotoType DEF Decide, TypeOK, PCs, RunningAt
<1>4. CASE Modlogs(c)
  <2>1. pc' \in [Cmds -> PCs] /\ tx' \in [Cmds -> Transaction]
    BY <1>4, ModlogsShape, RaiseType, GotoType DEF TypeOK, PCs, RunningAt
  <2> QED
    BY <1>4, <2>1, ModlogsShape DEF TypeOK
<1>5. CASE log_command_invoke(c)
  <2>1. pc' \in [Cmds -> PCs] /\ tx' \in [Cmds -> Transaction]
    BY <1>5, RaiseType, GotoType DEF log_command_invoke, TypeOK, PCs
  <2>2. cmdlog' \subseteq Cmds
    BY <1>5 DEF log_command_invoke, TypeOK
  <2> QED
    BY <1>5, <2>1, <2>2 DEF log_command_invoke, TypeOK
<1> QED
  BY <1>1, <1>2, <1>3, <1>4, <1>5

\* The response: what it assembles and what it shows.
LEMMA TypeResponse ==
    ASSUME TypeOK, NEW c \in Cmds,
           SnapshotErrors(c) \/ FlagErrors(c) \/ ShowErrors(c) \/ Collect(c)
             \/ Answer(c)
    PROVE  TypeOK'
<1>m. msg[c] \in Message
  BY DEF TypeOK
<1>f. Flagged(c) \in Message
  BY <1>m DEF Flagged, Message, are_all_errors
<1>1. CASE SnapshotErrors(c)
  <2>1. msg' \in [Cmds -> Message]
    BY <1>1, <1>m, ErrorsAreTargets DEF SnapshotErrors, TypeOK, Message
  <2>2. pc' \in [Cmds -> PCs]
    BY <1>1, GotoType DEF SnapshotErrors, PCs, RunningAt
  <2> QED
    BY <1>1, <2>1, <2>2 DEF SnapshotErrors, TypeOK
<1>2. CASE FlagErrors(c)
  <2>1. ASSUME ErrorWebhook(c)
        PROVE  /\ pc' \in [Cmds -> PCs] /\ tx' \in [Cmds -> Transaction]
               /\ msg' \in [Cmds -> Message] /\ reply' \in [Cmds -> Reply]
    BY <2>1, RaiseType, GotoType DEF ErrorWebhook, TypeOK, PCs, RunningAt
  <2>2. ASSUME ShowErrorsIfAllFailed(c) \/ ShowErrorsAlways(c), Interactive(c)
        PROVE  /\ pc' \in [Cmds -> PCs] /\ tx' \in [Cmds -> Transaction]
               /\ msg' \in [Cmds -> Message] /\ reply' \in [Cmds -> Reply]
    <3>1. msg' \in [Cmds -> Message]
      BY <2>2, <1>f DEF ShowErrorsIfAllFailed, ShowErrorsAlways, TypeOK
    <3>2. CASE Paginate(c, "errors", Flagged(c))
      BY <3>1, <3>2, <1>f, ShowType, RaiseType DEF Paginate
    <3>3. CASE Show(c, "errors", Flagged(c)) /\ Goto(c, "decide") /\ UNCHANGED tx
      BY <3>1, <3>3, <1>f, ShowType, GotoType DEF TypeOK, PCs, RunningAt
    <3>4. CASE Goto(c, "show") /\ UNCHANGED <<tx, reply>>
      BY <3>1, <3>4, GotoType DEF TypeOK, PCs, RunningAt
    <3> QED
      BY <2>2, <3>2, <3>3, <3>4 DEF ShowErrorsIfAllFailed, ShowErrorsAlways
  <2>3. CASE ShowErrorsIfAllFailed(c) \/ ShowErrorsAlways(c)
    <3>1. /\ pc' \in [Cmds -> PCs] /\ tx' \in [Cmds -> Transaction]
          /\ msg' \in [Cmds -> Message] /\ reply' \in [Cmds -> Reply]
      BY <2>1, <2>2, <2>3 DEF ShowErrorsIfAllFailed, ShowErrorsAlways
    <3> QED
      BY <1>2, <3>1 DEF FlagErrors, TypeOK
  <2>4. CASE FlagSoftban(c) /\ ~Interactive(c)
    <3>1. /\ pc' \in [Cmds -> PCs] /\ tx' \in [Cmds -> Transaction]
          /\ UNCHANGED <<msg, reply>>
      BY <2>4, RaiseType DEF FlagSoftban
    <3> QED
      BY <1>2, <3>1 DEF FlagErrors, TypeOK
  <2>5. CASE FlagWarn(c)
    <3>1. msg' \in [Cmds -> Message] /\ pc' \in [Cmds -> PCs]
      BY <2>5, <1>f, GotoType DEF FlagWarn, TypeOK, PCs, RunningAt
    <3> QED
      BY <1>2, <2>5, <3>1 DEF FlagErrors, FlagWarn, TypeOK
  <2> QED
    BY <1>2, <2>3, <2>4, <2>5
       DEF FlagErrors, FlagKick, FlagUnban, FlagBan, FlagHardban, FlagSoftban
<1>3. CASE Collect(c)
  <2>0. req \in [Cmds -> Requests]
    BY DEF TypeOK
  <2>1. msg' \in [Cmds -> Message]
    <3>1. targets_without_errors(c) \subseteq Users
      BY ErrorsAreTargets
    <3>2. [msg[c] EXCEPT !.success = TRUE, !.claimed = targets_without_errors(c)]
              \in Message
      BY <1>m, <3>1 DEF Message
    <3>3. msg' = [msg EXCEPT ![c] = [msg[c] EXCEPT
                     !.success = TRUE, !.claimed = targets_without_errors(c)]]
      BY <1>3, <2>0, CollectShape
    <3> QED
      BY <3>2, <3>3 DEF TypeOK
  <2>2. pc' \in [Cmds -> PCs]
    BY <1>3, <2>0, CollectShape, GotoType DEF PCs, RunningAt
  <2> QED
    BY <1>3, <2>0, <2>1, <2>2, CollectShape DEF TypeOK
<1>4. CASE Answer(c)
  <2>1. /\ pc' \in [Cmds -> PCs] /\ tx' \in [Cmds -> Transaction]
        /\ reply' \in [Cmds -> Reply]
    BY <1>4, <1>m, ShowType, RaiseType, GotoType
       DEF Answer, Paginate, TypeOK, PCs, RunningAt
  <2> QED
    BY <1>4, <2>1 DEF Answer, TypeOK
<1>5. CASE ShowErrors(c)
  <2>1. CASE Paginate(c, "errors", msg[c])
    BY <1>5, <2>1, <1>m, ShowType, RaiseType DEF ShowErrors, Paginate, TypeOK
  <2>2. CASE Show(c, "errors", msg[c]) /\ Goto(c, "decide") /\ UNCHANGED tx
    BY <1>5, <2>2, <1>m, ShowType, GotoType DEF ShowErrors, TypeOK, PCs, RunningAt
  <2>3. CASE Goto(c, "decide") /\ UNCHANGED <<tx, reply>>
    BY <1>5, <2>3, GotoType DEF ShowErrors, TypeOK, PCs, RunningAt
  <2> QED
    BY <1>5, <2>1, <2>2, <2>3 DEF ShowErrors
<1> QED
  BY <1>1, <1>2, <1>3, <1>4, <1>5

\* The API calls, and everything outside the process.
LEMMA TypeCalls ==
    ASSUME TypeOK, NEW c \in Cmds, NEW t \in Users,
           SendCall(c, t) \/ Discord(c, t) \/ AnswerLost(c, t) \/ LateCallback(c, t)
    PROVE  TypeOK'
<1>1. CASE SendCall(c, t)
  <2>1. pc' \in [Cmds -> PCs]
    BY <1>1, GotoType DEF SendCall, TypeOK, PCs, RunningAt
  <2>2. call' \in [Cmds -> [Users -> CallStates]]
    BY <1>1, CallType DEF SendCall, CallStates
  <2> QED
    BY <1>1, <2>1, <2>2 DEF SendCall, TypeOK
<1>2. CASE DiscordApplies(c, t)
  <2>1. call' \in [Cmds -> [Users -> CallStates]]
    BY <1>2, CallType DEF DiscordApplies, CallStates
  <2>2. Hybrid \subseteq BanReasons
    BY DEF Hybrid, BanReasons
  <2>3. bans' \in [Users -> BanReasons]
    BY <1>2, <2>2 DEF DiscordApplies, Effect, TypeOK, BanReasons
  <2> QED
    BY <1>2, <2>1, <2>3 DEF DiscordApplies, TypeOK
<1>3. CASE DiscordRefuses(c, t) \/ AnswerLost(c, t)
  <2>1. call' \in [Cmds -> [Users -> CallStates]]
    BY <1>3, CallType DEF DiscordRefuses, AnswerLost, CallStates
  <2> QED
    BY <1>3, <2>1 DEF DiscordRefuses, AnswerLost, TypeOK
<1>4. CASE LateCallback(c, t)
  <2>1. call' \in [Cmds -> [Users -> CallStates]]
    BY <1>4, CallType DEF LateCallback, CallStates
  <2>2. pc' \in [Cmds -> PCs] /\ tx' \in [Cmds -> Transaction]
    BY <1>4, RaiseType DEF LateCallback
  <2> QED
    BY <1>4, <2>1, <2>2 DEF LateCallback, TypeOK
<1> QED
  BY <1>1, <1>2, <1>3, <1>4 DEF Discord

LEMMA TypeOutside == TypeOK /\ (EditGuild \/ Kill) => TypeOK'
<1> SUFFICES ASSUME TypeOK, EditGuild \/ Kill PROVE TypeOK'
  OBVIOUS
<1>1. CASE EditGuild
  BY <1>1 DEF EditGuild, TypeOK
<1>2. CASE Kill
  <2>1. pc' \in [Cmds -> PCs] /\ tx' \in [Cmds -> Transaction]
    BY <1>2, ProcessDiesType DEF Kill
  <2> QED
    BY <1>2, <2>1 DEF Kill, TypeOK
<1> QED
  BY <1>1, <1>2

\* The rows of a transaction are about people.
LEMMA LogRowsType ==
    ASSUME TypeOK, NEW c \in Cmds, NEW t \in Users
    PROVE  LogRows(c, t) \subseteq Users
<1>1. {u \in Targets(req[c]) : call'[c][u] # "err"} \subseteq Users
  BY RequestTypes DEF TypeOK
<1>2. HybridRows(c) \subseteq Users /\ MemberRows(c) \subseteq Users
  BY RequestTypes, ErrorsAreTargets DEF TypeOK, HybridRows, MemberRows
<1>3. Kind(c) \in Kinds
  BY RequestTypes DEF TypeOK
<1> QED
  BY <1>1, <1>2, <1>3 DEF LogRows, Kinds, Hybrid

\* The number a transaction reads is a number.
LEMMA OpenModcaseType ==
    ASSUME TypeOK, NumbersInv, NEW c \in Cmds, NEW t \in Users, OpenModcase(c, t)
    PROVE  pc' \in [Cmds -> PCs] /\ tx' \in [Cmds -> Transaction]
<1>1. [id |-> LastCaseId(cases) + 1, who |-> LogRows(c, t)] \in Transaction
  BY LastCaseIdType, LogRowsType DEF Transaction
<1> QED
  BY <1>1, RaiseType DEF OpenModcase, TypeOK

\* The callbacks and their transactions.
LEMMA TypeCallbacks ==
    ASSUME TypeOK, NumbersInv, NEW c \in Cmds, NEW t \in Users,
           CallbackSucceeds(c, t) \/ CallbackFails(c, t) \/ RecordFailure(c, t)
             \/ Modcase(c)
    PROVE  TypeOK'
<1>1. CASE CallbackSucceeds(c, t) \/ CallbackFails(c, t) \/ RecordFailure(c, t)
  <2>1. call' \in [Cmds -> [Users -> CallStates]]
    <3>1. \/ call' = [call EXCEPT ![c][t] = "ok"]
          \/ call' = [call EXCEPT ![c][t] = "told"]
          \/ call' = [call EXCEPT ![c][t] = "err"]
      BY <1>1 DEF CallbackSucceeds, CallbackFails, RecordFailure
    <3> QED
      BY <3>1, CallType DEF CallStates
  <2>2. pc' \in [Cmds -> PCs] /\ tx' \in [Cmds -> Transaction]
    BY <1>1, OpenModcaseType DEF CallbackSucceeds, CallbackFails, RecordFailure, TypeOK
  <2> QED
    BY <1>1, <2>1, <2>2 DEF CallbackSucceeds, CallbackFails, RecordFailure, TypeOK
<1>2. CASE CommitModcase(c)
  <2>1. tx[c] \in Transaction
    BY DEF TypeOK
  <2>2. cases' \subseteq Row
    BY <1>2, <2>1 DEF CommitModcase, TypeOK, Row, Transaction
  <2>3. tx' \in [Cmds -> Transaction]
    BY <1>2 DEF CommitModcase, TypeOK, Transaction, NoTx
  <2> QED
    BY <1>2, <2>2, <2>3 DEF CommitModcase, TypeOK
<1>3. CASE AbortModcase(c)
  <2>1. pc' \in [Cmds -> PCs] /\ tx' \in [Cmds -> Transaction]
    BY <1>3, ProcessDiesType DEF AbortModcase, TypeOK, Transaction, NoTx
  <2> QED
    BY <1>3, <2>1 DEF AbortModcase, TypeOK
<1> QED
  BY <1>1, <1>2, <1>3 DEF Modcase

LEMMA TypeStep == TypeOK /\ NumbersInv /\ [Next]_vars => TypeOK'
<1> SUFFICES ASSUME TypeOK, NumbersInv, [Next]_vars PROVE TypeOK'
  OBVIOUS
<1>1. ASSUME NEW c \in Cmds, Invoke(c) \/ wrapper_function(c) \/ Modcase(c)
      PROVE  TypeOK'
  <2>1. CASE process_calls(c)
    <3>1. PICK t \in Users : SendCall(c, t)
      BY <2>1 DEF process_calls, process_kicks, process_bans, process_hardbans,
         process_softbans, process_unbans, process_warnings
    <3> QED
      BY <3>1, TypeCalls
  <2>2. CASE Modcase(c)
    BY <2>2, GuildAssumption, TypeCallbacks
  <2> QED
    BY <1>1, <2>1, <2>2, TypeThread, TypeResponse DEF wrapper_function
<1>2. ASSUME NEW c \in Cmds, NEW t \in Users,
             Discord(c, t) \/ AnswerLost(c, t) \/ lambda_callback(c, t)
      PROVE  TypeOK'
  BY <1>2, TypeCalls, TypeCallbacks DEF lambda_callback
<1>3. CASE EditGuild \/ Kill
  BY <1>3, TypeOutside
<1>4. CASE UNCHANGED vars
  BY <1>4 DEF vars, TypeOK
<1> QED
  BY <1>1, <1>2, <1>3, <1>4 DEF Next

-----------------------------------------------------------------------------
(***************************************************************************)
(* Case numbers have no gaps, and the table is an append-only ledger.      *)
(***************************************************************************)
\* What a step can do to an open transaction, short of committing it.
KeptOrOpened ==
    /\ cases' = cases
    /\ \A d \in Cmds : \/ tx'[d] = tx[d]
                       \/ tx'[d] = NoTx
                       \/ tx'[d].id = LastCaseId(cases) + 1

\* A bad end keeps transactions or drops them all.
LEMMA BadEndsKeep ==
    ASSUME TypeOK, NEW c \in Cmds,
           Raise(c) \/ RaiseInCallback \/ NullDereference(c)
             \/ ProcessDies({}) \/ UNCHANGED tx
    PROVE  \A d \in Cmds : tx'[d] = tx[d] \/ tx'[d] = NoTx
  BY DEF Raise, RaiseInCallback, NullDereference, ProcessDies

\* Nothing the thread does touches a transaction but by ending it badly.
LEMMA ThreadKeeps ==
    ASSUME TypeOK, NEW c \in Cmds, Invoke(c) \/ wrapper_function(c)
    PROVE  KeptOrOpened
<1>0. ASSUME Raise(c) \/ NullDereference(c) \/ UNCHANGED tx, cases' = cases
      PROVE  KeptOrOpened
  BY <1>0, BadEndsKeep DEF KeptOrOpened
<1>1. CASE Invoke(c)
  BY <1>0, <1>1 DEF Invoke
<1>2. CASE check_permissions(c)
  <2>1. Cancel(c, GateErrors(guild, req[c])) =>
           Raise(c) \/ NullDereference(c) \/ UNCHANGED tx
    BY CancelShape
  <2> QED
    BY <1>0, <1>2, <2>1 DEF check_permissions
<1>3. CASE process_calls(c)
  <2>1. UNCHANGED <<tx, cases>>
    BY <1>3 DEF process_calls, process_kicks, process_bans, process_hardbans,
       process_softbans, process_unbans, process_warnings, SendCall
  <2> QED
    BY <1>0, <2>1
<1>4. CASE FlagErrors(c)
  <2>1. Raise(c) \/ NullDereference(c) \/ UNCHANGED tx
    BY <1>4 DEF FlagErrors, FlagKick, FlagUnban, FlagBan, FlagHardban, FlagSoftban,
       FlagWarn, ShowErrorsIfAllFailed, ShowErrorsAlways, ErrorWebhook, Paginate
  <2> QED
    BY <1>0, <1>4, <2>1 DEF FlagErrors
<1>5. CASE SnapshotErrors(c) \/ Decide(c) \/ Collect(c)
  BY <1>0, <1>5 DEF SnapshotErrors, Decide, Collect
<1>6. CASE Modlogs(c) \/ Answer(c) \/ log_command_invoke(c)
  BY <1>0, <1>6, ModlogsShape DEF Answer, Paginate, log_command_invoke
<1>7. CASE ShowErrors(c)
  BY <1>0, <1>7 DEF ShowErrors, Paginate
<1> QED
  BY <1>1, <1>2, <1>3, <1>4, <1>5, <1>6, <1>7 DEF wrapper_function

\* A step keeps, drops or opens transactions, or commits one.
LEMMA TransactionSteps ==
    ASSUME TypeOK, [Next]_vars
    PROVE  KeptOrOpened \/ \E c \in Cmds : CommitModcase(c)
<1>1. ASSUME NEW c \in Cmds, Invoke(c) \/ wrapper_function(c)
      PROVE  KeptOrOpened
  BY <1>1, ThreadKeeps
<1>2. ASSUME NEW c \in Cmds, Modcase(c)
      PROVE  KeptOrOpened \/ CommitModcase(c)
  <2>1. CASE AbortModcase(c)
    BY <2>1 DEF AbortModcase, ProcessDies, KeptOrOpened, TypeOK
  <2> QED
    BY <1>2, <2>1 DEF Modcase
<1>3. ASSUME NEW c \in Cmds, NEW t \in Users,
             Discord(c, t) \/ AnswerLost(c, t) \/ LateCallback(c, t)
      PROVE  KeptOrOpened
  BY <1>3, BadEndsKeep DEF Discord, DiscordApplies, DiscordRefuses, AnswerLost,
     LateCallback, KeptOrOpened
<1>4. ASSUME NEW c \in Cmds, NEW t \in Users,
             CallbackSucceeds(c, t) \/ CallbackFails(c, t) \/ RecordFailure(c, t)
      PROVE  KeptOrOpened
  <2>1. cases' = cases /\ (OpenModcase(c, t) \/ UNCHANGED tx)
    BY <1>4 DEF CallbackSucceeds, CallbackFails, RecordFailure
  <2>2. CASE RaiseInCallback \/ UNCHANGED tx
    BY <2>1, <2>2, BadEndsKeep DEF KeptOrOpened
  <2>3. CASE tx' = [tx EXCEPT ![c] = [id  |-> LastCaseId(cases) + 1,
                                      who |-> LogRows(c, t)]]
    BY <2>1, <2>3 DEF KeptOrOpened, TypeOK
  <2> QED
    BY <2>1, <2>2, <2>3 DEF OpenModcase
<1>5. CASE EditGuild \/ Kill
  BY <1>5 DEF EditGuild, Kill, ProcessDies, KeptOrOpened
<1>6. CASE UNCHANGED vars
  BY <1>6 DEF vars, KeptOrOpened
<1> QED
  BY <1>1, <1>2, <1>3, <1>4, <1>5, <1>6 DEF Next, lambda_callback

\* The rows a commit adds carry one number.
LEMMA CommitAddsNumber ==
    ASSUME NEW c \in Cmds, CommitModcase(c)
    PROVE  \/ cases' = cases
           \/ CaseIds(cases') = CaseIds(cases) \cup {tx[c].id}
<1> DEFINE New == {[id |-> tx[c].id, cmd |-> c, target |-> t] : t \in tx[c].who}
<1>1. cases' = cases \cup New
  BY DEF CommitModcase
<1>2. CASE tx[c].who = {}
  BY <1>1, <1>2
<1>3. CASE tx[c].who # {}
  <2>1. CaseIds(New) = {tx[c].id}
    <3>1. \A row \in New : row.id = tx[c].id
      OBVIOUS
    <3>2. PICK t \in tx[c].who : TRUE
      BY <1>3
    <3>3. [id |-> tx[c].id, cmd |-> c, target |-> t] \in New
      BY <3>2
    <3>4. New # {}
      BY <3>3
    <3> HIDE DEF New
    <3> QED
      BY <3>1, <3>4 DEF CaseIds
  <2>2. CaseIds(cases') = CaseIds(cases) \cup CaseIds(New)
    BY <1>1 DEF CaseIds
  <2> QED
    BY <2>1, <2>2
<1> QED
  BY <1>2, <1>3

LEMMA NumbersInit == Init => NumbersInv
<1> SUFFICES ASSUME Init PROVE NumbersInv
  OBVIOUS
<1>1. CaseIds(cases) = 1 .. 0
  BY DEF Init, CaseIds
<1>2. \A c \in Cmds : tx[c] = NoTx
  BY DEF Init
<1> QED
  BY <1>1, <1>2 DEF NumbersInv

LEMMA NumbersStep == TypeOK /\ NumbersInv /\ [Next]_vars => NumbersInv'
<1> SUFFICES ASSUME TypeOK, NumbersInv, [Next]_vars PROVE NumbersInv'
  OBVIOUS
<1> DEFINE k == LastCaseId(cases)
<1>k. k \in Nat /\ CaseIds(cases) = 1 .. k
  BY LastCaseIdType
<1>b. \A row \in cases : row.id \in 1 .. k
  BY <1>k DEF CaseIds
<1>1. CASE KeptOrOpened
  <2>1. LastCaseId(cases') = k /\ CaseIds(cases') = 1 .. k
    BY <1>1, <1>k DEF KeptOrOpened
  <2>2. ASSUME NEW d \in Cmds, tx'[d] # NoTx
        PROVE  /\ tx'[d].id \in 1 .. (LastCaseId(cases') + 1)
               /\ \A row \in cases' : row.cmd = d => row.id < tx'[d].id
    <3>1. CASE tx'[d] = tx[d]
      BY <1>1, <2>1, <2>2, <3>1 DEF KeptOrOpened, NumbersInv
    <3>2. CASE tx'[d].id = k + 1
      <4> HIDE DEF k
      <4> QED
        BY <1>1, <1>k, <1>b, <2>1, <3>2 DEF KeptOrOpened
    <3> QED
      BY <1>1, <2>2, <3>1, <3>2 DEF KeptOrOpened
  <2> QED
    BY <1>k, <2>1, <2>2 DEF NumbersInv
<1>2. ASSUME NEW c \in Cmds, CommitModcase(c)
      PROVE  NumbersInv'
  <2>1. tx[c].id \in 1 .. (k + 1)
    BY <1>2 DEF CommitModcase, NumbersInv
  <2>2. PICK j \in Nat : j >= k /\ CaseIds(cases') = 1 .. j
    <3> HIDE DEF k
    <3>1. CASE cases' = cases
      BY <1>k, <3>1
    <3>2. CASE CaseIds(cases') = CaseIds(cases) \cup {tx[c].id}
      <4>1. PICK j \in Nat : j >= k /\ (1 .. k) \cup {tx[c].id} = 1 .. j
        BY <1>k, <2>1, ContiguousGrows
      <4> QED
        BY <1>k, <3>2, <4>1
    <3> QED
      BY <1>2, <3>1, <3>2, CommitAddsNumber
  <2>3. LastCaseId(cases') = j
    BY <2>2, LastOfContiguous
  <2>4. ASSUME NEW d \in Cmds, tx'[d] # NoTx
        PROVE  /\ tx'[d].id \in 1 .. (LastCaseId(cases') + 1)
               /\ \A row \in cases' : row.cmd = d => row.id < tx'[d].id
    <3>1. d # c /\ tx'[d] = tx[d]
      BY <1>2, <2>4 DEF CommitModcase, TypeOK
    <3>2. tx[d].id \in 1 .. (k + 1) /\ \A row \in cases : row.cmd = d => row.id < tx[d].id
      BY <2>4, <3>1 DEF NumbersInv
    <3>3. \A row \in cases' : row.cmd = d => row \in cases
      BY <1>2, <3>1 DEF CommitModcase
    <3> HIDE DEF k
    <3> QED
      BY <1>k, <2>2, <2>3, <3>1, <3>2, <3>3
  <2> QED
    BY <2>2, <2>4 DEF NumbersInv
<1> QED
  BY <1>1, <1>2, TransactionSteps

\* The inductive invariant.
LEMMA Inductive == Spec => [](TypeOK /\ NumbersInv)
<1>1. Init => TypeOK /\ NumbersInv
  BY TypeInit, NumbersInit
<1>2. TypeOK /\ NumbersInv /\ [Next]_vars => (TypeOK /\ NumbersInv)'
  BY TypeStep, NumbersStep
<1> QED
  BY <1>1, <1>2, PTL DEF Spec

\* Every variable keeps its type, for any number of commands and people.
THEOREM TypeCorrect == Spec => []TypeOK
  BY Inductive, PTL

\* However many commands' callbacks race for a number, abort or die with it,
\* the case numbers in the table are 1, 2, ... without a gap.
THEOREM NumbersHaveNoGaps == Spec => []CaseIdsContiguous
<1>1. NumbersInv => CaseIdsContiguous
  BY LastCaseIdType DEF CaseIdsContiguous, Contiguous
<1> QED
  BY <1>1, Inductive, PTL

\* A commit is a Record of the ledger, or changes nothing; no other step
\* touches the table.
LEMMA LedgerStep == TypeOK /\ NumbersInv /\ [Next]_vars => [Ledger!Next]_cases
<1> SUFFICES ASSUME TypeOK, NumbersInv, [Next]_vars PROVE [Ledger!Next]_cases
  OBVIOUS
<1>1. CASE KeptOrOpened
  BY <1>1 DEF KeptOrOpened
<1>2. ASSUME NEW c \in Cmds, CommitModcase(c)
      PROVE  [Ledger!Next]_cases
  <2> DEFINE n == tx[c].id
  <2>1. /\ n \in 1 .. (LastCaseId(cases) + 1)
        /\ Ledger!Fresh(c, n)
    BY <1>2 DEF CommitModcase, NumbersInv, Ledger!Fresh
  <2>2. tx[c].who \subseteq Users
    BY DEF TypeOK, Transaction
  <2>3. cases' = cases \cup {[id |-> n, cmd |-> c, target |-> t] : t \in tx[c].who}
    BY <1>2 DEF CommitModcase
  <2>4. CASE tx[c].who = {}
    BY <2>3, <2>4
  <2>5. CASE tx[c].who # {}
    <3>1. tx[c].who \in (SUBSET Users) \ {{}}
      BY <2>2, <2>5
    <3>2. Ledger!Record(c, n)
      BY <2>1, <2>3, <3>1 DEF Ledger!Record
    <3>3. Ledger!LastCaseId(cases) = LastCaseId(cases)
      BY DEF Ledger!LastCaseId, LastCaseId, Ledger!CaseIds, CaseIds
    <3> QED
      BY <2>1, <3>2, <3>3 DEF Ledger!Next
  <2> QED
    BY <2>4, <2>5
<1> QED
  BY <1>1, <1>2, TransactionSteps

\* The table is an append-only ledger in which a command's numbers rise.
THEOREM ImplementsLedger == Spec => LedgerSpec
<1>1. Init => Ledger!Init
  BY DEF Init, Ledger!Init
<1> QED
  BY <1>1, LedgerStep, Inductive, PTL DEF Spec, LedgerSpec, Ledger!Spec

-----------------------------------------------------------------------------
(***************************************************************************)
(* What the answers can be trusted for, with callbacks writing the shared  *)
(* error vectors while the response is being put together.  First: errors  *)
(* only accumulate.                                                        *)
(***************************************************************************)
\* A target whose error has been recorded stays with it.
ErrorsStay ==
    /\ req' = req
    /\ \A c \in Cmds, t \in Users : call[c][t] = "err" => call'[c][t] = "err"

LEMMA ErrorsAreFinal ==
    ASSUME TypeOK, [Next]_vars
    PROVE  ErrorsStay
<1>0. UNCHANGED <<req, call>> => ErrorsStay
  BY DEF ErrorsStay
<1>1. ASSUME NEW c \in Cmds, Invoke(c) \/ wrapper_function(c) \/ Modcase(c)
      PROVE  ErrorsStay
  <2>1. CASE process_calls(c)
    <3>1. PICK t \in Users : SendCall(c, t)
      BY <2>1 DEF process_calls, process_kicks, process_bans, process_hardbans,
         process_softbans, process_unbans, process_warnings
    <3> QED
      BY <3>1 DEF SendCall, ErrorsStay, TypeOK
  <2>2. CASE ~process_calls(c)
    <3>1. UNCHANGED <<req, call>>
      BY <1>1, <2>2 DEF Invoke, wrapper_function, Modcase, CommitModcase, AbortModcase,
         check_permissions, SnapshotErrors, FlagErrors, ShowErrors, Decide, Collect,
         Modlogs, Answer, log_command_invoke
    <3> QED
      BY <1>0, <3>1
  <2> QED
    BY <2>1, <2>2
<1>2. ASSUME NEW c \in Cmds, NEW t \in Users,
             Discord(c, t) \/ AnswerLost(c, t) \/ lambda_callback(c, t)
      PROVE  ErrorsStay
  <2>1. /\ req' = req
        /\ call[c][t] # "err"
        /\ \E s \in CallStates : call' = [call EXCEPT ![c][t] = s]
    BY <1>2 DEF Discord, DiscordApplies, DiscordRefuses, AnswerLost, lambda_callback,
       CallbackSucceeds, CallbackFails, RecordFailure, LateCallback, CallStates
  <2> QED
    BY <2>1 DEF ErrorsStay, TypeOK
<1>3. CASE EditGuild \/ Kill \/ UNCHANGED vars
  BY <1>0, <1>3 DEF EditGuild, Kill, vars
<1> QED
  BY <1>1, <1>2, <1>3 DEF Next

\* Counting errors against snowflakes, as hybrid_wrapper does, is no different:
\* when the counts agree, everybody has failed.
LEMMA AllErrorsMeansEverybody ==
    ASSUME TypeOK, NEW c \in Cmds, are_all_errors(c)
    PROVE  targets_with_errors(c) = Targets(req[c])
<1> DEFINE M == req[c].members
           U == req[c].users
           E == targets_with_errors(c)
<1>1. M \subseteq Users /\ U \subseteq Users
  BY RequestTypes DEF TypeOK
<1>2. IsFiniteSet(M) /\ IsFiniteSet(U)
  BY <1>1, GuildAssumption, FS_Subset
<1>3. E \subseteq M \cup U
  BY DEF targets_with_errors, Targets
<1>4. CASE Kind(c) \in Hybrid
  <2>1. Cardinality(E) = Cardinality(M) + Cardinality(U)
    BY <1>4 DEF are_all_errors, SnowflakeCount
  <2>2. /\ IsFiniteSet(M \cup U)
        /\ Cardinality(M \cup U) =
              Cardinality(M) + Cardinality(U) - Cardinality(M \cap U)
    BY <1>2, FS_Union
  <2>3. IsFiniteSet(M \cap U)
    BY <1>2, FS_Subset
  <2>4. /\ Cardinality(M \cap U) \in Nat /\ Cardinality(M) \in Nat
        /\ Cardinality(U) \in Nat
    BY <1>2, <2>3, FS_CardinalityType
  <2>5. Cardinality(E) >= Cardinality(M \cup U)
    BY <2>1, <2>2, <2>4
  <2>6. /\ IsFiniteSet(E)
        /\ Cardinality(E) <= Cardinality(M \cup U)
        /\ Cardinality(M \cup U) = Cardinality(E) => M \cup U = E
    <3> HIDE DEF M, U, E
    <3> QED
      BY <1>3, <2>2, FS_Subset
  <2>7. Cardinality(E) \in Nat /\ Cardinality(M \cup U) \in Nat
    BY <2>2, <2>6, FS_CardinalityType
  <2> QED
    BY <2>5, <2>6, <2>7 DEF Targets
<1>5. CASE Kind(c) \notin Hybrid
  BY <1>5 DEF are_all_errors
<1> QED
  BY <1>4, <1>5

\* Once everybody has failed, it stays so.
LEMMA AllErrorsStays ==
    ASSUME TypeOK, ErrorsStay, NEW c \in Cmds, are_all_errors(c)
    PROVE  are_all_errors(c)'
<1>1. targets_with_errors(c) = Targets(req[c]) /\ Targets(req[c]) \subseteq Users
  BY AllErrorsMeansEverybody, RequestTypes DEF TypeOK
<1>2. \A t \in Targets(req[c]) : call'[c][t] = "err"
  BY <1>1 DEF targets_with_errors, ErrorsStay
<1>3. req' = req
  BY DEF ErrorsStay
<1>4. targets_with_errors(c)' = Targets(req[c])
  BY <1>2, <1>3 DEF targets_with_errors
<1> QED
  BY <1>1, <1>3, <1>4 DEF are_all_errors, Kind, SnowflakeCount

-----------------------------------------------------------------------------
(***************************************************************************)
(* The invariant of the response.                                          *)
(***************************************************************************)
\* Every target is named as a success or has failed since.
Covered(c) ==
    \A t \in Targets(req[c]) : t \in msg[c].claimed \/ call[c][t] = "err"

\* Where the thread may be once the success embed is attached.
Succeeded == {"modlog", "reply", "log", "done", "raised", "segv", "dead"}

\* An answer is public and covers everybody who has not failed, or nobody is
\* left who has not; a hidden one implies the latter, before and after it is
\* shown.
Response(c) ==
    /\ msg[c].success => pc[c] \in Succeeded
    /\ pc[c] = "modlog" => msg[c].success /\ Covered(c)
    /\ pc[c] \in {"reply", "log"} =>
          are_all_errors(c) \/ (msg[c].success /\ Covered(c))
    /\ msg[c].ephemeral => /\ are_all_errors(c) /\ ~msg[c].success
                           /\ pc[c] \notin {"collect", "modlog"}
    /\ reply[c].from \in {"errors", "final"} /\ reply[c].body.ephemeral =>
          are_all_errors(c) /\ ~reply[c].body.success

ResponseInv == \A c \in Cmds : Response(c)

\* The steps that neither assemble nor show anything of command c's response,
\* and leave its thread where it was, before its response, or at a bad end.
Early == {"idle", "gate", "cancelled", "calls", "errors"}

Moves(c) ==
    \/ pc'[c] = pc[c]
    \/ pc'[c] \in {"raised", "segv", "dead", "done"}
    \/ pc[c] \in Early /\ pc'[c] \in Early
    \/ pc[c] = "modlog" /\ pc'[c] = "reply"

Aside(c) ==
    /\ Moves(c)
    /\ msg'[c] = msg[c]
    /\ reply'[c] = reply[c] \/ reply'[c].from = "gate"

LEMMA AsideKeeps ==
    ASSUME TypeOK, ErrorsStay, NEW c \in Cmds, Response(c), Aside(c)
    PROVE  Response(c)'
<1>1. are_all_errors(c) => are_all_errors(c)'
  BY AllErrorsStays
<1>2. Covered(c) => Covered(c)'
  <2>1. Targets(req[c]) \subseteq Users
    BY RequestTypes DEF TypeOK
  <2> QED
    BY <2>1 DEF Covered, Aside, ErrorsStay
<1>3. msg[c].success => pc'[c] \in Succeeded
  BY DEF Aside, Moves, Response, Succeeded, Early
<1>4. pc'[c] = "modlog" => pc[c] = "modlog"
  BY DEF Aside, Moves, Early
<1>5. pc'[c] \in {"reply", "log"} => pc[c] \in {"reply", "log", "modlog"}
  BY DEF Aside, Moves, Early
<1>6. pc'[c] = "collect" => pc[c] = "collect"
  BY DEF Aside, Moves, Early
<1> QED
  BY <1>1, <1>2, <1>3, <1>4, <1>5, <1>6 DEF Aside, Response

\* Bad ends, whoever causes them.
LEMMA BadEndsMove ==
    ASSUME TypeOK, NEW c \in Cmds, NEW d \in Cmds,
           Raise(d) \/ RaiseInCallback \/ NullDereference(d)
             \/ ProcessDies({}) \/ UNCHANGED pc
    PROVE  Moves(c)
  BY DEF Raise, RaiseInCallback, NullDereference, ProcessDies, Goto, Moves, TypeOK

\* A thread's steps before its response, and outside its message.
LEMMA GotoMoves ==
    ASSUME TypeOK, NEW c \in Cmds, NEW d \in Cmds, NEW where,
           Goto(d, where),
           \/ c # d
           \/ pc[d] \in Early /\ where \in Early
           \/ where = "done"
           \/ pc[d] = "modlog" /\ where = "reply"
    PROVE  Moves(c)
  BY DEF Goto, Moves, TypeOK

Responds(c) ==
    SnapshotErrors(c) \/ FlagErrors(c) \/ ShowErrors(c) \/ Decide(c) \/ Collect(c)
      \/ Answer(c)

\* The steps of a thread that leave messages alone.
LEMMA PlainStepsAreAside ==
    ASSUME TypeOK, NEW c \in Cmds, NEW d \in Cmds,
           Invoke(d) \/ check_permissions(d) \/ process_calls(d)
             \/ Modlogs(d) \/ log_command_invoke(d)
    PROVE  Aside(c)
<1>1. CASE Invoke(d)
  <2>1. Moves(c)
    BY <1>1, BadEndsMove, GotoMoves DEF Invoke, Early
  <2> QED
    BY <1>1, <2>1 DEF Invoke, Aside
<1>2. CASE check_permissions(d)
  <2>1. Cancel(d, GateErrors(guild, req[d])) =>
           Raise(d) \/ NullDereference(d) \/ Goto(d, "cancelled")
    BY CancelShape
  <2>2. Cancel(d, GateErrors(guild, req[d])) =>
           \/ UNCHANGED reply
           \/ Show(d, "gate", [EmptyMessage EXCEPT !.ephemeral = TRUE])
    BY CancelShape
  <2>3. Moves(c)
    BY <1>2, <2>1, BadEndsMove, GotoMoves DEF check_permissions, Early
  <2>4. reply'[c] = reply[c] \/ reply'[c].from = "gate"
    <3>1. CASE UNCHANGED reply
      BY <3>1
    <3>2. CASE Show(d, "gate", [EmptyMessage EXCEPT !.ephemeral = TRUE])
      BY <3>2 DEF Show, TypeOK
    <3> QED
      BY <1>2, <2>2, <3>1, <3>2 DEF check_permissions
  <2> QED
    BY <1>2, <2>3, <2>4 DEF check_permissions, Aside
<1>3. CASE process_calls(d)
  <2>1. PICK t \in Users : SendCall(d, t)
    BY <1>3 DEF process_calls, process_kicks, process_bans, process_hardbans,
       process_softbans, process_unbans, process_warnings
  <2>2. Moves(c)
    BY <2>1, BadEndsMove, GotoMoves DEF SendCall, Early
  <2> QED
    BY <2>1, <2>2 DEF SendCall, Aside
<1>4. CASE Modlogs(d)
  <2>1. Moves(c)
    BY <1>4, BadEndsMove, GotoMoves, ModlogsShape
  <2> QED
    BY <1>4, <2>1, ModlogsShape DEF Aside
<1>5. CASE log_command_invoke(d)
  <2>1. Moves(c)
    BY <1>5, BadEndsMove, GotoMoves DEF log_command_invoke
  <2> QED
    BY <1>5, <2>1 DEF log_command_invoke, Aside
<1> QED
  BY <1>1, <1>2, <1>3, <1>4, <1>5

\* Other commands' responses.
LEMMA OthersAreAside ==
    ASSUME TypeOK, NEW c \in Cmds, NEW d \in Cmds, c # d, Responds(d)
    PROVE  Aside(c)
<1>1. CASE SnapshotErrors(d) \/ Decide(d)
  <2>1. Moves(c)
    BY <1>1, GotoMoves DEF SnapshotErrors, Decide
  <2> QED
    BY <1>1, <2>1 DEF SnapshotErrors, Decide, Aside, TypeOK
<1>c. CASE Collect(d)
  <2>0. req \in [Cmds -> Requests]
    BY DEF TypeOK
  <2>1. Moves(c)
    BY <1>c, <2>0, CollectShape, GotoMoves
  <2> QED
    BY <1>c, <2>0, <2>1, CollectShape DEF Aside, TypeOK
<1>2. CASE FlagErrors(d)
  <2>1. /\ Raise(d) \/ NullDereference(d) \/ Goto(d, "show") \/ Goto(d, "decide")
        /\ msg'[c] = msg[c] /\ reply'[c] = reply[c]
    BY <1>2 DEF FlagErrors, FlagKick, FlagUnban, FlagBan, FlagHardban, FlagSoftban,
       FlagWarn, ShowErrorsIfAllFailed, ShowErrorsAlways, ErrorWebhook, Paginate,
       Show, TypeOK
  <2>2. Moves(c)
    BY <2>1, BadEndsMove, GotoMoves
  <2> QED
    BY <2>1, <2>2 DEF Aside
<1>3. CASE Answer(d)
  <2>1. /\ \/ NullDereference(d)
           \/ \E where : Goto(d, where)
        /\ msg'[c] = msg[c] /\ reply'[c] = reply[c]
    BY <1>3 DEF Answer, Paginate, Show, TypeOK
  <2>2. Moves(c)
    BY <2>1, BadEndsMove, GotoMoves
  <2> QED
    BY <2>1, <2>2 DEF Aside
<1>4. CASE ShowErrors(d)
  <2>1. /\ NullDereference(d) \/ Goto(d, "decide")
        /\ msg'[c] = msg[c] /\ reply'[c] = reply[c]
    BY <1>4 DEF ShowErrors, Paginate, Show, TypeOK
  <2>2. Moves(c)
    BY <2>1, BadEndsMove, GotoMoves
  <2> QED
    BY <2>1, <2>2 DEF Aside
<1> QED
  BY <1>1, <1>c, <1>2, <1>3, <1>4 DEF Responds

\* Every step is aside of a command's response, or a step of that response.
LEMMA StepsOfAResponse ==
    ASSUME TypeOK, [Next]_vars, NEW c \in Cmds
    PROVE  Aside(c) \/ Responds(c)
<1>1. ASSUME NEW d \in Cmds, Invoke(d) \/ wrapper_function(d)
      PROVE  Aside(c) \/ Responds(c)
  BY <1>1, PlainStepsAreAside, OthersAreAside DEF wrapper_function, Responds
<1>2. ASSUME NEW d \in Cmds, Modcase(d)
      PROVE  Aside(c)
  <2>1. UNCHANGED <<msg, reply>> /\ (UNCHANGED pc \/ ProcessDies({}))
    BY <1>2 DEF Modcase, CommitModcase, AbortModcase
  <2> QED
    BY <2>1, BadEndsMove DEF Aside
<1>3. ASSUME NEW d \in Cmds, NEW t \in Users,
             Discord(d, t) \/ AnswerLost(d, t) \/ lambda_callback(d, t)
      PROVE  Aside(c)
  <2>1. UNCHANGED <<msg, reply>> /\ (UNCHANGED pc \/ RaiseInCallback)
    BY <1>3 DEF Discord, DiscordApplies, DiscordRefuses, AnswerLost, lambda_callback,
       CallbackSucceeds, CallbackFails, RecordFailure, LateCallback,
       OpenModcase
  <2> QED
    BY <2>1, <1>3, BadEndsMove DEF Aside
<1>4. CASE EditGuild \/ Kill
  <2>1. UNCHANGED <<msg, reply>> /\ (UNCHANGED pc \/ ProcessDies({}))
    BY <1>4 DEF EditGuild, Kill
  <2> QED
    BY <2>1, BadEndsMove DEF Aside
<1>5. CASE UNCHANGED vars
  BY <1>5 DEF vars, Aside, Moves
<1> QED
  BY <1>1, <1>2, <1>3, <1>4, <1>5 DEF Next

-----------------------------------------------------------------------------
(***************************************************************************)
(* The steps of the response keep its invariant.                           *)
(***************************************************************************)
\* What FlagErrors does to the message and to what is shown.
LEMMA FlagEffect ==
    ASSUME TypeOK, NEW c \in Cmds, FlagErrors(c)
    PROVE  /\ pc'[c] \in {"show", "decide", "raised", "segv", "dead"}
           /\ msg'[c] = msg[c] \/ msg'[c] = Flagged(c)
           /\ \/ reply'[c] = reply[c]
              \/ reply'[c] = [from |-> "errors", body |-> Flagged(c)]
<1>1. Goto(c, "show") \/ Goto(c, "decide") \/ Raise(c) \/ NullDereference(c)
  BY DEF FlagErrors, FlagKick, FlagUnban, FlagBan, FlagHardban, FlagSoftban,
     FlagWarn, ShowErrorsIfAllFailed, ShowErrorsAlways, ErrorWebhook, Paginate
<1>2. pc[c] = "flag"
  BY DEF FlagErrors
<1>3. pc'[c] \in {"show", "decide", "raised", "segv", "dead"}
  BY <1>1, <1>2 DEF Goto, Raise, NullDereference, ProcessDies, TypeOK
<1>4. UNCHANGED msg \/ msg' = [msg EXCEPT ![c] = Flagged(c)]
  BY DEF FlagErrors, FlagKick, FlagUnban, FlagBan, FlagHardban, FlagSoftban,
     FlagWarn, ShowErrorsIfAllFailed, ShowErrorsAlways, ErrorWebhook
<1>5. UNCHANGED reply \/ Show(c, "errors", Flagged(c))
  BY DEF FlagErrors, FlagKick, FlagUnban, FlagBan, FlagHardban, FlagSoftban,
     FlagWarn, ShowErrorsIfAllFailed, ShowErrorsAlways, ErrorWebhook, Paginate
<1>6. \/ reply'[c] = reply[c]
      \/ reply'[c] = [from |-> "errors", body |-> Flagged(c)]
  BY <1>5 DEF Show, TypeOK
<1>7. msg'[c] = msg[c] \/ msg'[c] = Flagged(c)
  BY <1>4 DEF TypeOK
<1> QED
  BY <1>3, <1>6, <1>7

LEMMA RespondsKeeps ==
    ASSUME TypeOK, ErrorsStay, NEW c \in Cmds, Response(c), Responds(c)
    PROVE  Response(c)'
<1>1. are_all_errors(c) => are_all_errors(c)'
  BY AllErrorsStays
<1>m. msg[c] \in Message
  BY DEF TypeOK
<1>2. CASE SnapshotErrors(c)
  <2>1. pc[c] = "errors" /\ pc'[c] \in {"flag", "decide"} /\ reply' = reply
    BY <1>2 DEF SnapshotErrors, Goto, TypeOK
  <2>2. ~msg[c].success
    BY <2>1 DEF Response, Succeeded
  <2>3. msg'[c].success = msg[c].success /\ msg'[c].ephemeral = msg[c].ephemeral
    BY <1>2, <1>m DEF SnapshotErrors, TypeOK, Message
  <2> QED
    BY <1>1, <2>1, <2>2, <2>3 DEF Response
<1>3. CASE FlagErrors(c)
  <2>1. pc[c] = "flag"
    BY <1>3 DEF FlagErrors
  <2>2. ~msg[c].success
    BY <2>1 DEF Response, Succeeded
  <2>3. ~Flagged(c).success /\ (Flagged(c).ephemeral => are_all_errors(c))
    BY <2>2, <1>m DEF Flagged, Message
  <2>4. ~msg'[c].success /\ (msg'[c].ephemeral => are_all_errors(c))
    BY <1>3, <2>2, <2>3, FlagEffect DEF Response
  <2>5. reply'[c].from \in {"errors", "final"} /\ reply'[c].body.ephemeral =>
            are_all_errors(c) /\ ~reply'[c].body.success
    <3>1. CASE reply'[c] = reply[c]
      BY <3>1 DEF Response
    <3>2. CASE reply'[c] = [from |-> "errors", body |-> Flagged(c)]
      BY <3>2, <2>3
    <3> QED
      BY <1>3, <3>1, <3>2, FlagEffect
  <2>6. pc'[c] \in {"show", "decide", "raised", "segv", "dead"}
    BY <1>3, FlagEffect
  <2> QED
    BY <1>1, <2>4, <2>5, <2>6 DEF Response
<1>4. CASE Decide(c)
  <2>1. /\ pc[c] = "decide"
        /\ pc'[c] = (IF are_all_errors(c) THEN "reply" ELSE "collect")
        /\ msg' = msg /\ reply' = reply
    BY <1>4 DEF Decide, Goto, TypeOK
  <2>2. ~msg[c].success
    BY <2>1 DEF Response, Succeeded
  <2> QED
    BY <1>1, <2>1, <2>2 DEF Response
<1>5. CASE Collect(c)
  <2>0. req \in [Cmds -> Requests]
    BY DEF TypeOK
  <2>1. pc[c] = "collect" /\ pc'[c] = "modlog" /\ reply' = reply
    BY <1>5, <2>0, CollectShape DEF Goto, TypeOK
  <2>2. ~msg[c].ephemeral
    BY <2>1 DEF Response
  <2>3. /\ msg'[c].success /\ ~msg'[c].ephemeral
        /\ msg'[c].claimed = targets_without_errors(c)
    <3>1. msg'[c] = [msg[c] EXCEPT !.success = TRUE,
                                   !.claimed = targets_without_errors(c)]
      BY <1>5, <2>0, CollectShape DEF TypeOK
    <3> QED
      BY <1>m, <2>2, <3>1 DEF Message
  <2>4. Covered(c)'
    BY <1>5, <2>0, <2>3, CollectShape
       DEF Covered, targets_without_errors, targets_with_errors
  <2> QED
    BY <1>1, <2>1, <2>3, <2>4 DEF Response, Succeeded
<1>6. CASE Answer(c)
  <2>1. /\ pc[c] = "reply" /\ pc'[c] \in {"log", "done", "segv"}
        /\ msg' = msg /\ call' = call /\ req' = req
        /\ reply'[c] = [from |-> "final", body |-> msg[c]]
    BY <1>6 DEF Answer, Paginate, Show, NullDereference, ProcessDies, Goto, TypeOK
  <2>2. Covered(c) => Covered(c)'
    BY <2>1 DEF Covered
  <2>3. reply'[c].body.ephemeral => are_all_errors(c) /\ ~reply'[c].body.success
    BY <2>1 DEF Response
  <2>4. /\ pc'[c] \in Succeeded
        /\ pc'[c] \notin {"modlog", "reply", "collect"}
    BY <2>1 DEF Succeeded
  <2> QED
    BY <1>1, <2>1, <2>2, <2>3, <2>4 DEF Response
<1>7. CASE ShowErrors(c)
  <2>1. pc[c] = "show" /\ pc'[c] \in {"decide", "segv"} /\ msg' = msg
    BY <1>7 DEF ShowErrors, Paginate, NullDereference, ProcessDies, Goto, TypeOK
  <2>2. ~msg[c].success
    BY <2>1 DEF Response, Succeeded
  <2>3. \/ reply'[c] = reply[c]
        \/ reply'[c] = [from |-> "errors", body |-> msg[c]]
    BY <1>7 DEF ShowErrors, Paginate, Show, TypeOK
  <2> QED
    BY <1>1, <2>1, <2>2, <2>3 DEF Response
<1> QED
  BY <1>2, <1>3, <1>4, <1>5, <1>6, <1>7 DEF Responds

LEMMA ResponseInit == Init => ResponseInv
  BY DEF Init, ResponseInv, Response, EmptyMessage

LEMMA ResponseStep == TypeOK /\ ResponseInv /\ [Next]_vars => ResponseInv'
<1> SUFFICES ASSUME TypeOK, ResponseInv, [Next]_vars, NEW c \in Cmds
             PROVE  Response(c)'
  BY DEF ResponseInv
<1>1. Response(c) /\ ErrorsStay
  BY ErrorsAreFinal DEF ResponseInv
<1> QED
  BY <1>1, StepsOfAResponse, AsideKeeps, RespondsKeeps

LEMMA ResponseInductive == Spec => [](TypeOK /\ ResponseInv)
  BY ResponseInit, ResponseStep, TypeCorrect, PTL DEF Spec

\* Whatever the callbacks do while it is assembled, the final answer names
\* every target whose success callback has run.
THEOREM NoSuccessIsHidden == Spec => []SuccessNeverHidden
<1>1. TypeOK /\ ResponseInv => SuccessNeverHidden
  <2> SUFFICES ASSUME TypeOK, ResponseInv, NEW c \in Cmds, NEW t \in Targets(req[c]),
                      pc[c] \in {"modlog", "reply", "log"}, call[c][t] = "ok"
               PROVE  msg[c].success /\ t \in msg[c].claimed
    BY DEF SuccessNeverHidden
  <2>1. Response(c)
    BY DEF ResponseInv
  <2>2. ~are_all_errors(c)
    BY AllErrorsMeansEverybody DEF targets_with_errors
  <2>3. msg[c].success /\ Covered(c)
    BY <2>1, <2>2 DEF Response
  <2> QED
    BY <2>3 DEF Covered
<1> QED
  BY <1>1, ResponseInductive, PTL

\* An answer that hides itself is right to: everybody has failed, for good.
THEOREM HiddenAnswersAreFinal == Spec => []EphemeralMeansNobodySucceeds
<1>1. TypeOK /\ ResponseInv => EphemeralMeansNobodySucceeds
  <2> SUFFICES ASSUME TypeOK, ResponseInv, NEW c \in Cmds,
                      reply[c].from \in {"errors", "final"},
                      reply[c].body.ephemeral
               PROVE  /\ \A t \in Targets(req[c]) : call[c][t] = "err"
                      /\ ~reply[c].body.success
    BY DEF EphemeralMeansNobodySucceeds
  <2>1. are_all_errors(c) /\ ~reply[c].body.success
    BY DEF ResponseInv, Response
  <2> QED
    BY <2>1, AllErrorsMeansEverybody DEF targets_with_errors
<1> QED
  BY <1>1, ResponseInductive, PTL

-----------------------------------------------------------------------------
(***************************************************************************)
(* What is owed to whom: a number for each callback that ran, an answer to *)
(* each person whose command came to its end.                              *)
(***************************************************************************)
\* Calls are made of targets only, and their outcomes are final.
CallsInv == \A c \in Cmds, t \in Users : call[c][t] # "none" => t \in Targets(req[c])

CallMoves(c, t) ==
    /\ call[c][t] \notin {"ok", "err", "late"} /\ call'[c][t] # "none"
    /\ t \in Targets(req[c])

LEMMA CallSteps ==
    ASSUME TypeOK, CallsInv, [Next]_vars
    PROVE  /\ req' = req
           /\ \A c \in Cmds, t \in Users : call'[c][t] = call[c][t] \/ CallMoves(c, t)
<1>0. ASSUME NEW c \in Cmds, NEW t \in Users, NEW s,
             call' = [call EXCEPT ![c][t] = s], s # "none",
             call[c][t] \notin {"ok", "err", "late"}, t \in Targets(req[c])
      PROVE  \A d \in Cmds, u \in Users : call'[d][u] = call[d][u] \/ CallMoves(d, u)
  BY <1>0 DEF CallMoves, TypeOK
<1>1. ASSUME NEW c \in Cmds, NEW t \in Users,
             SendCall(c, t) \/ Discord(c, t) \/ AnswerLost(c, t) \/ lambda_callback(c, t)
      PROVE  /\ req' = req
             /\ \A d \in Cmds, u \in Users : call'[d][u] = call[d][u] \/ CallMoves(d, u)
  <2>1. t \in Targets(req[c]) /\ req' = req
    BY <1>1 DEF SendCall, Discord, DiscordApplies, DiscordRefuses, AnswerLost,
       lambda_callback, CallbackSucceeds, CallbackFails, RecordFailure, LateCallback,
       CallsInv
  <2>2. \E s : /\ call' = [call EXCEPT ![c][t] = s] /\ s # "none"
               /\ call[c][t] \notin {"ok", "err", "late"}
    BY <1>1 DEF SendCall, Discord, DiscordApplies, DiscordRefuses, AnswerLost,
       lambda_callback, CallbackSucceeds, CallbackFails, RecordFailure, LateCallback
  <2> QED  BY <1>0, <2>1, <2>2
<1>2. ASSUME NEW c \in Cmds, Invoke(c) \/ wrapper_function(c) \/ Modcase(c),
             ~process_calls(c)
      PROVE  UNCHANGED <<req, call>>
  BY <1>2 DEF Invoke, wrapper_function, Modcase, CommitModcase, AbortModcase,
     check_permissions, SnapshotErrors, FlagErrors, ShowErrors, Decide, Collect,
     Modlogs, Answer, log_command_invoke
<1>3. ASSUME NEW c \in Cmds, process_calls(c) PROVE \E t \in Users : SendCall(c, t)
  BY <1>3 DEF process_calls, process_kicks, process_bans, process_hardbans,
     process_softbans, process_unbans, process_warnings
<1>4. EditGuild \/ Kill \/ UNCHANGED vars => UNCHANGED <<req, call>>
  BY DEF EditGuild, Kill, vars
<1> QED  BY <1>1, <1>2, <1>3, <1>4 DEF Next

LEMMA CallsInit == Init => CallsInv
BY DEF Init, CallsInv

LEMMA CallsStep == TypeOK /\ CallsInv /\ [Next]_vars => CallsInv'
BY CallSteps DEF CallsInv, CallMoves, Targets

\* The callbacks of a command that log a case, and the numbers it has recorded.
Ran(c) == {t \in Targets(req[c]) :
              call[c][t] = "ok" \/ (Kind(c) = "warn" /\ call[c][t] = "err")}

Numbers(c) == CaseIds({row \in cases : row.cmd = c})

\* An open transaction is one callback's, and what it will record is earned: it
\* counts as recorded already.
Earned(c) ==
    /\ IsFiniteSet(Numbers(c))
    /\ Cardinality(Numbers(c)) + (IF tx[c] = NoTx THEN 0 ELSE 1) <= Cardinality(Ran(c))
    /\ tx[c].who \subseteq Targets(req[c])
    /\ \A row \in cases : row.cmd = c => row.target \in Targets(req[c])

EarnedInv == \A c \in Cmds : Earned(c)

LEMMA RanIsFinite ==
    ASSUME TypeOK, NEW c \in Cmds
    PROVE  IsFiniteSet(Ran(c)) /\ Cardinality(Ran(c)) \in Nat
<1>1. Ran(c) \subseteq Users
  BY RequestTypes DEF Ran, TypeOK
<1> QED  BY <1>1, GuildAssumption, FS_Subset, FS_CardinalityType

\* What ran has run.
LEMMA RanGrows ==
    ASSUME TypeOK, CallsInv, [Next]_vars, NEW c \in Cmds
    PROVE  /\ Ran(c) \subseteq Ran(c)'
           /\ Cardinality(Ran(c)) <= Cardinality(Ran(c))'
           /\ \A t \in Ran(c)' : t \notin Ran(c) =>
                 Cardinality(Ran(c)) + 1 <= Cardinality(Ran(c))'
<1>1. Ran(c) \subseteq Ran(c)'
  <2>1. req[c].members \subseteq Users /\ req[c].users \subseteq Users
    BY RequestTypes DEF TypeOK
  <2>2. req' = req
    BY CallSteps
  <2>3. \A t \in Targets(req[c]) : call[c][t] \in {"ok", "err"} => call'[c][t] = call[c][t]
    BY <2>1, CallSteps DEF CallMoves, Targets
  <2> QED  BY <2>2, <2>3 DEF Ran, Kind, Targets
<1>2. IsFiniteSet(Ran(c)) /\ IsFiniteSet(Ran(c)')
  <2>1. Ran(c)' \subseteq Users
    BY RequestTypes, CallSteps DEF Ran, TypeOK, Targets
  <2> QED  BY <2>1, RanIsFinite, GuildAssumption, FS_Subset
<1>3. Cardinality(Ran(c)) <= Cardinality(Ran(c)')
  BY <1>1, <1>2, FS_Subset
<1>4. ASSUME NEW t \in Ran(c)', t \notin Ran(c)
      PROVE  Cardinality(Ran(c)) + 1 <= Cardinality(Ran(c)')
  <2> DEFINE more == Ran(c) \cup {t}
  <2>1. Cardinality(more) = Cardinality(Ran(c)) + 1
    BY <1>2, <1>4, FS_AddElement
  <2>2. more \subseteq Ran(c)'
    BY <1>1
  <2>3. Cardinality(more) <= Cardinality(Ran(c)')
    BY <1>2, <2>2, FS_Subset
  <2> QED  BY <2>1, <2>3
<1> QED  BY <1>1, <1>3, <1>4

\* A transaction is opened by a callback, on a connection that is free.
LEMMA OpenedIsEarned ==
    ASSUME TypeOK, CallsInv, [Next]_vars, NEW c \in Cmds,
           tx'[c] # tx[c], tx'[c] # NoTx
    PROVE  /\ tx[c] = NoTx
           /\ tx'[c].who \subseteq Targets(req[c])
           /\ \E t \in Ran(c)' : t \notin Ran(c)
<1>1. ASSUME NEW d \in Cmds, Invoke(d) \/ wrapper_function(d) PROVE FALSE
  <2>1. \A e \in Cmds : tx'[e] = tx[e] \/ tx'[e] = NoTx
    <3>1. CASE process_calls(d)
      BY <3>1 DEF process_calls, process_kicks, process_bans, process_hardbans,
         process_softbans, process_unbans, process_warnings, SendCall
    <3>2. check_permissions(d) => Raise(d) \/ NullDereference(d) \/ UNCHANGED tx
      BY CancelShape DEF check_permissions
    <3>3. FlagErrors(d) => Raise(d) \/ NullDereference(d) \/ UNCHANGED tx
      BY DEF FlagErrors, FlagKick, FlagUnban, FlagBan, FlagHardban, FlagSoftban,
         FlagWarn, ShowErrorsIfAllFailed, ShowErrorsAlways, ErrorWebhook, Paginate
    <3>4. Modlogs(d) => Raise(d) \/ UNCHANGED tx
      BY ModlogsShape
    <3>5. CASE ~process_calls(d)
      <4>1. Raise(d) \/ NullDereference(d) \/ UNCHANGED tx
        BY <1>1, <3>2, <3>3, <3>4, <3>5 DEF Invoke, wrapper_function, SnapshotErrors,
           ShowErrors, Decide, Collect, Answer, Paginate, log_command_invoke
      <4> QED  BY <4>1, BadEndsKeep
    <3> QED  BY <3>1, <3>5
  <2> QED  BY <2>1
<1>2. ASSUME NEW d \in Cmds, Modcase(d) PROVE FALSE
  BY <1>2 DEF Modcase, CommitModcase, AbortModcase, ProcessDies, TypeOK
<1>3. ASSUME NEW d \in Cmds, NEW t \in Users,
             \/ Discord(d, t) \/ AnswerLost(d, t) \/ LateCallback(d, t)
             \/ CallbackFails(d, t)
      PROVE  FALSE
  BY <1>3, BadEndsKeep DEF Discord, DiscordApplies, DiscordRefuses, AnswerLost,
     LateCallback, CallbackFails
<1>4. EditGuild \/ Kill \/ UNCHANGED vars => FALSE
  BY DEF EditGuild, Kill, vars, ProcessDies
<1>5. ASSUME NEW d \in Cmds, NEW t \in Users,
             \/ CallbackSucceeds(d, t) /\ call'[d][t] = "ok" /\ call[d][t] = "applied"
             \/ /\ RecordFailure(d, t) /\ call'[d][t] = "err" /\ call[d][t] = "told"
                /\ Kind(d) = "warn"
      PROVE  /\ tx[c] = NoTx
             /\ tx'[c].who \subseteq Targets(req[c])
             /\ \E u \in Ran(c)' : u \notin Ran(c)
  <2>1. OpenModcase(d, t) /\ req' = req
    BY <1>5 DEF CallbackSucceeds, RecordFailure
  <2>2. ~ConnectionBusy(d) /\ tx' = [tx EXCEPT ![d] = [id  |-> LastCaseId(cases) + 1,
                                                     who |-> LogRows(d, t)]]
    BY <2>1, BadEndsKeep DEF OpenModcase
  <2>3. c = d /\ tx'[c].who = LogRows(c, t)
    BY <2>2 DEF TypeOK
  <2>4. t \in Targets(req[c])
    BY <1>5, <2>3 DEF CallsInv
  <2>5. t \in Ran(c)' /\ t \notin Ran(c)
    BY <1>5, <2>1, <2>3, <2>4 DEF Ran, Kind, Targets
  <2>6. LogRows(c, t) \subseteq Targets(req[c])
    <3>1. Kind(c) \in Kinds
      BY RequestTypes DEF TypeOK
    <3>2. HybridRows(c) \subseteq Targets(req[c]) /\ MemberRows(c) \subseteq Targets(req[c])
      BY DEF HybridRows, MemberRows, targets_without_errors, Targets
    <3> QED  BY <2>4, <3>1, <3>2 DEF LogRows, Kinds, Hybrid
  <2> QED  BY <2>2, <2>3, <2>5, <2>6 DEF ConnectionBusy
<1>6. ASSUME NEW d \in Cmds, NEW t \in Users, CallbackSucceeds(d, t)
      PROVE  call'[d][t] = "ok" /\ call[d][t] = "applied"
  BY <1>6 DEF CallbackSucceeds, TypeOK
<1>7. ASSUME NEW d \in Cmds, NEW t \in Users, RecordFailure(d, t)
      PROVE  /\ call'[d][t] = "err" /\ call[d][t] = "told"
             /\ Kind(d) # "warn" => UNCHANGED tx
  BY <1>7 DEF RecordFailure, TypeOK
<1> QED  BY <1>1, <1>2, <1>3, <1>4, <1>5, <1>6, <1>7 DEF Next, lambda_callback

LEMMA EarnedInit == Init => EarnedInv
<1> SUFFICES ASSUME Init, NEW c \in Cmds PROVE Earned(c)
  BY DEF EarnedInv
<1>1. Numbers(c) = {} /\ tx[c] = NoTx /\ tx[c].who = {}
  BY DEF Init, Numbers, CaseIds, NoTx
<1>2. Cardinality(Ran(c)) \in Nat
  BY TypeInit, RanIsFinite
<1> QED  BY <1>1, <1>2, FS_EmptySet DEF Init, Earned

LEMMA EarnedStep == TypeOK /\ CallsInv /\ EarnedInv /\ [Next]_vars => EarnedInv'
<1> SUFFICES ASSUME TypeOK, CallsInv, EarnedInv, [Next]_vars, NEW c \in Cmds
             PROVE  Earned(c)'
  BY DEF EarnedInv
<1>1. Earned(c) /\ req' = req /\ Targets(req[c])' = Targets(req[c])
  BY CallSteps DEF EarnedInv
<1>n. Cardinality(Ran(c)) \in Nat /\ Cardinality(Numbers(c)) \in Nat
  BY <1>1, RanIsFinite, FS_CardinalityType DEF Earned
<1>m. Cardinality(Ran(c)') \in Nat
  <2>1. Ran(c)' \subseteq Users
    BY <1>1, RequestTypes DEF Ran, TypeOK
  <2> QED  BY <2>1, GuildAssumption, FS_Subset, FS_CardinalityType
<1>2. ASSUME NEW d \in Cmds, CommitModcase(d), c = d PROVE Earned(c)'
  <2> DEFINE New == {[id |-> tx[c].id, cmd |-> c, target |-> t] : t \in tx[c].who}
  <2>1. cases' = cases \cup New /\ tx[c] # NoTx /\ tx'[c] = NoTx
    BY <1>2 DEF CommitModcase, TypeOK
  <2>2. Numbers(c)' \subseteq Numbers(c) \cup {tx[c].id}
    BY <2>1 DEF Numbers, CaseIds
  <2>3. /\ IsFiniteSet(Numbers(c)')
        /\ Cardinality(Numbers(c)') <= Cardinality(Numbers(c)) + 1
        /\ Cardinality(Numbers(c)') \in Nat
    <3> DEFINE more == Numbers(c) \cup {tx[c].id}
    <3>1. IsFiniteSet(more) /\ Cardinality(more) <= Cardinality(Numbers(c)) + 1
      <4>1. IsFiniteSet(Numbers(c)) /\ Cardinality(Numbers(c)) \in Nat
        BY <1>1, <1>n DEF Earned
      <4>2. /\ IsFiniteSet(more)
            /\ Cardinality(more) = IF tx[c].id \in Numbers(c) THEN Cardinality(Numbers(c))
                                   ELSE Cardinality(Numbers(c)) + 1
        BY <4>1, FS_AddElement
      <4> HIDE DEF more
      <4> QED  BY <4>1, <4>2
    <3>2. IsFiniteSet(Numbers(c)') /\ Cardinality(Numbers(c)') <= Cardinality(more)
      BY <2>2, <3>1, FS_Subset
    <3>3. Cardinality(more) \in Nat /\ Cardinality(Numbers(c)') \in Nat
      BY <3>1, <3>2, FS_CardinalityType
    <3> HIDE DEF more
    <3> QED  BY <1>n, <3>1, <3>2, <3>3
  <2>4. Cardinality(Numbers(c)') <= Cardinality(Ran(c)')
    BY <1>1, <1>n, <1>m, <2>1, <2>3, RanGrows DEF Earned
  <2>5. \A row \in cases' : row.cmd = c => row.target \in Targets(req[c])
    BY <1>1, <2>1 DEF Earned
  <2>6. tx'[c].who \subseteq Targets(req[c])
    BY <2>1 DEF NoTx
  <2> QED  BY <1>1, <1>m, <2>1, <2>3, <2>4, <2>5, <2>6 DEF Earned
<1>3. ASSUME Numbers(c)' = Numbers(c), \A row \in cases' : row.cmd = c => row \in cases
      PROVE  Earned(c)'
  <2>1. CASE tx'[c] = tx[c] \/ tx'[c] = NoTx
    <3>1. tx'[c].who \subseteq Targets(req[c])
      BY <1>1, <2>1 DEF Earned, NoTx
    <3>2. Cardinality(Numbers(c)) + (IF tx'[c] = NoTx THEN 0 ELSE 1) <= Cardinality(Ran(c)')
      BY <1>1, <1>n, <1>m, <2>1, RanGrows DEF Earned
    <3> QED  BY <1>1, <1>3, <3>1, <3>2 DEF Earned
  <2>2. CASE tx'[c] # tx[c] /\ tx'[c] # NoTx
    <3>1. /\ tx[c] = NoTx /\ tx'[c].who \subseteq Targets(req[c])
          /\ Cardinality(Ran(c)) + 1 <= Cardinality(Ran(c)')
      BY <2>2, OpenedIsEarned, RanGrows
    <3>2. Cardinality(Numbers(c)) + 1 <= Cardinality(Ran(c)')
      BY <1>1, <1>n, <1>m, <3>1 DEF Earned
    <3> QED  BY <1>1, <1>3, <2>2, <3>1, <3>2 DEF Earned
  <2> QED  BY <2>1, <2>2
<1>4. CASE KeptOrOpened
  BY <1>3, <1>4 DEF KeptOrOpened, Numbers
<1>5. ASSUME NEW d \in Cmds, CommitModcase(d), c # d PROVE Earned(c)'
  <2>1. \A row : row.cmd = c => (row \in cases' <=> row \in cases)
    BY <1>5 DEF CommitModcase
  <2>2. Numbers(c)' = Numbers(c)
    BY <2>1 DEF Numbers
  <2> QED  BY <1>3, <2>1, <2>2
<1> QED  BY <1>2, <1>4, <1>5, TransactionSteps

\* No more numbers than callbacks, and only about the command's targets.
THEOREM NumbersAreEarned == Spec => []CasesAreEarned
<1>1. Init => TypeOK /\ NumbersInv /\ CallsInv /\ EarnedInv
  BY TypeInit, NumbersInit, CallsInit, EarnedInit
<1>2. TypeOK /\ CallsInv /\ EarnedInv /\ [Next]_vars => (CallsInv /\ EarnedInv)'
  BY CallsStep, EarnedStep
<1>3. TypeOK /\ EarnedInv => CasesAreEarned
  <2> SUFFICES ASSUME TypeOK, EarnedInv, NEW c \in Cmds
               PROVE  /\ Cardinality(Numbers(c)) <= Cardinality(Ran(c))
                      /\ \A row \in cases : row.cmd = c => row.target \in Targets(req[c])
    BY DEF CasesAreEarned, Numbers, Ran
  <2>1. Earned(c) /\ Cardinality(Ran(c)) \in Nat /\ Cardinality(Numbers(c)) \in Nat
    BY RanIsFinite, FS_CardinalityType DEF EarnedInv, Earned
  <2> QED  BY <2>1 DEF Earned
<1> QED  BY <1>1, <1>2, <1>3, Inductive, PTL DEF Spec

\* Once the calls are made, each of a person's targets has one.
AfterCalls == {"errors", "flag", "show", "decide", "collect", "modlog", "reply", "log",
               "done"}

CalledAll(c) == \A t \in Targets(req[c]) : call[c][t] # "none"

\* What is shown stands: it is a person's, and fitted one message.
Stands(c) ==
    Interactive(c) /\ reply[c].from = "final" /\ ~Paginates(Kind(c), reply[c].body)

Answered(c) ==
    /\ Interactive(c) /\ pc[c] \in AfterCalls => CalledAll(c)
    /\ pc[c] = "log" => Stands(c)
    /\ c \in cmdlog => pc[c] \in {"done", "dead"} /\ Stands(c) /\ CalledAll(c)
    /\ Interactive(c) /\ pc[c] = "cancelled" => reply[c].from = "gate" \/ SilentCancel(req[c])
    /\ Interactive(c) /\ pc[c] = "done" => reply[c].from = "final" /\ c \in cmdlog

AnsweredInv == \A c \in Cmds : Answered(c)

LEMMA CalledAllStays ==
    ASSUME TypeOK, CallsInv, [Next]_vars, NEW c \in Cmds, CalledAll(c)
    PROVE  CalledAll(c)'
<1>1. Targets(req[c]) \subseteq Users /\ req' = req
  BY RequestTypes, CallSteps DEF TypeOK
<1>2. \A t \in Targets(req[c]) : call'[c][t] # "none"
  BY <1>1, CallSteps DEF CalledAll, CallMoves
<1> QED  BY <1>1, <1>2 DEF CalledAll, Targets

\* A step of others: nothing shown, nothing logged, the thread where it was or
\* dead with its process.
Quiet(c) ==
    /\ reply'[c] = reply[c]
    /\ c \in cmdlog' <=> c \in cmdlog
    /\ pc'[c] = pc[c] \/ pc'[c] = "dead"

\* The thread's own bad end, or a step before all its calls are made.
Fails(c) ==
    /\ cmdlog' = cmdlog
    /\ pc[c] \notin {"done", "dead"}
    /\ pc'[c] \in {"raised", "segv", "dead", "idle", "gate", "calls"}

\* One of its steps between the calls and the answer.
Continues(c) ==
    /\ cmdlog' = cmdlog
    /\ pc[c] \in AfterCalls \ {"log", "done"} /\ pc'[c] \in AfterCalls \ {"log", "done"}

LEMMA PlainStepsAnswer ==
    ASSUME TypeOK, CallsInv, [Next]_vars, NEW c \in Cmds, Answered(c),
           Quiet(c) \/ Fails(c) \/ Continues(c)
    PROVE  Answered(c)'
<1>1. req' = req /\ (CalledAll(c) => CalledAll(c)')
  BY CallSteps, CalledAllStays
<1>2. Interactive(c)' = Interactive(c) /\ SilentCancel(req[c])' = SilentCancel(req[c])
  BY <1>1 DEF Interactive, SilentCancel, Targets
<1>3. CASE Quiet(c)
  <2>1. Stands(c)' <=> Stands(c)
    BY <1>1, <1>3 DEF Stands, Quiet, Interactive, Kind, Paginates, KickPaginates,
       UnbanPaginates, BanPaginates, HardbanPaginates, SoftbanPaginates, WarnPaginates
  <2> QED  BY <1>1, <1>2, <1>3, <2>1 DEF Answered, Quiet, AfterCalls
<1>4. CASE Fails(c) \/ Continues(c)
  <2>1. c \notin cmdlog'
    BY <1>4 DEF Answered, Fails, Continues, AfterCalls
  <2> QED  BY <1>1, <1>2, <1>4, <2>1 DEF Answered, Fails, Continues, AfterCalls
<1> QED  BY <1>3, <1>4

LEMMA EndsOfOthers ==
    ASSUME TypeOK, NEW c \in Cmds, NEW d \in Cmds, c # d,
           \/ Raise(d) \/ NullDereference(d) \/ RaiseInCallback \/ ProcessDies({})
           \/ UNCHANGED pc \/ \E where : Goto(d, where)
    PROVE  pc'[c] = pc[c] \/ pc'[c] = "dead"
BY DEF Raise, NullDereference, RaiseInCallback, ProcessDies, Goto, TypeOK

LEMMA OwnEnds ==
    ASSUME TypeOK, NEW c \in Cmds, pc[c] \notin {"done", "dead", "idle", "segv"},
           Raise(c) \/ NullDereference(c)
    PROVE  pc'[c] \in {"raised", "segv", "dead"}
BY DEF Raise, NullDereference, ProcessDies, Goto, TypeOK

\* What the others do.
LEMMA OthersAreQuiet ==
    ASSUME TypeOK, [Next]_vars, NEW c \in Cmds, ~(Invoke(c) \/ wrapper_function(c))
    PROVE  Quiet(c)
<1>1. ASSUME NEW d \in Cmds, d # c, Invoke(d) \/ wrapper_function(d) PROVE Quiet(c)
  <2>0. /\ \E body, from : Show(d, from, body) \/ UNCHANGED reply
        /\ cmdlog' = cmdlog \/ cmdlog' = cmdlog \cup {d}
        /\ Raise(d) \/ NullDereference(d) \/ UNCHANGED pc \/ \E where : Goto(d, where)
    <3>1. CASE process_calls(d)
      BY <3>1 DEF process_calls, process_kicks, process_bans, process_hardbans,
         process_softbans, process_unbans, process_warnings, SendCall
    <3>2. CASE check_permissions(d)
      <4>1. \/ UNCHANGED reply
            \/ \E body : Show(d, "gate", body)
        BY <3>2, CancelShape DEF check_permissions
      <4>2. Raise(d) \/ NullDereference(d) \/ \E where : Goto(d, where)
        BY <3>2, CancelShape DEF check_permissions
      <4> QED  BY <3>2, <4>1, <4>2 DEF check_permissions
    <3>3. CASE FlagErrors(d)
      <4>1. UNCHANGED reply \/ Show(d, "errors", Flagged(d))
        BY <3>3 DEF FlagErrors, FlagKick, FlagUnban, FlagBan, FlagHardban, FlagSoftban,
           FlagWarn, ShowErrorsIfAllFailed, ShowErrorsAlways, ErrorWebhook, Paginate
      <4>2. Raise(d) \/ NullDereference(d) \/ \E where : Goto(d, where)
        BY <3>3 DEF FlagErrors, FlagKick, FlagUnban, FlagBan, FlagHardban, FlagSoftban,
           FlagWarn, ShowErrorsIfAllFailed, ShowErrorsAlways, ErrorWebhook, Paginate
      <4> QED  BY <3>3, <4>1, <4>2 DEF FlagErrors
    <3>4. CASE Modlogs(d)
      BY <3>4, ModlogsShape
    <3>5. CASE Collect(d)
      BY <3>5, CollectShape DEF TypeOK
    <3>6. CASE Invoke(d) \/ SnapshotErrors(d) \/ ShowErrors(d) \/ Decide(d) \/ Answer(d)
                 \/ log_command_invoke(d)
      BY <3>6 DEF Invoke, SnapshotErrors, ShowErrors, Decide, Answer, Paginate,
         log_command_invoke
    <3> QED
      BY <1>1, <3>1, <3>2, <3>3, <3>4, <3>5, <3>6 DEF wrapper_function
  <2>1. reply'[c] = reply[c]
    BY <1>1, <2>0 DEF Show, TypeOK
  <2>2. pc'[c] = pc[c] \/ pc'[c] = "dead"
    BY <1>1, <2>0, EndsOfOthers
  <2> QED  BY <1>1, <2>0, <2>1, <2>2 DEF Quiet
<1>2. ASSUME UNCHANGED <<reply, cmdlog>>, UNCHANGED pc \/ ProcessDies({}) PROVE Quiet(c)
  <2>1. ASSUME ProcessDies({}), pc[c] \in {"idle", "segv"} PROVE pc'[c] = pc[c]
    BY <2>1 DEF ProcessDies
  <2>2. ASSUME ProcessDies({}), pc[c] \notin {"idle", "segv"} PROVE pc'[c] = "dead"
    BY <2>2 DEF ProcessDies
  <2> QED  BY <1>2, <2>1, <2>2 DEF Quiet
<1>3. ASSUME NEW d \in Cmds, Modcase(d) PROVE Quiet(c)
  BY <1>2, <1>3 DEF Modcase, CommitModcase, AbortModcase
<1>4. ASSUME NEW d \in Cmds, NEW t \in Users,
             Discord(d, t) \/ AnswerLost(d, t) \/ lambda_callback(d, t)
      PROVE  Quiet(c)
  BY <1>2, <1>4 DEF Discord, DiscordApplies, DiscordRefuses, AnswerLost, lambda_callback,
     CallbackSucceeds, CallbackFails, RecordFailure, LateCallback, OpenModcase,
     RaiseInCallback
<1>5. EditGuild \/ Kill \/ UNCHANGED vars => Quiet(c)
  BY <1>2 DEF EditGuild, Kill, vars
<1> QED  BY <1>1, <1>3, <1>4, <1>5 DEF Next

\* What the thread itself does before its response.
LEMMA GateAnswers ==
    ASSUME TypeOK, CallsInv, [Next]_vars, NEW c \in Cmds, Answered(c),
           Invoke(c) \/ check_permissions(c) \/ process_calls(c)
    PROVE  Answered(c)'
<1>1. Interactive(c)' = Interactive(c) /\ SilentCancel(req[c])' = SilentCancel(req[c])
  BY CallSteps DEF Interactive, SilentCancel, Targets
<1>2. CASE Invoke(c)
  <2>1. pc'[c] \in {"idle", "gate", "raised"}
    BY <1>2 DEF Invoke, Raise, ProcessDies, Goto, TypeOK
  <2> QED  BY <1>2, <2>1, PlainStepsAnswer DEF Invoke, Fails
<1>3. CASE check_permissions(c)
  <2>0. cmdlog' = cmdlog /\ pc[c] = "gate" /\ c \notin cmdlog
    BY <1>3 DEF check_permissions, Answered
  <2>1. CASE Raise(c) \/ NullDereference(c)
    BY <2>0, <2>1, OwnEnds, PlainStepsAnswer DEF Fails
  <2>2. CASE Cancel(c, GateErrors(guild, req[c])) /\ Goto(c, "cancelled")
    <3>1. pc'[c] = "cancelled"
      BY <2>2 DEF Goto, TypeOK
    <3>2. ASSUME Interactive(c) PROVE reply'[c].from = "gate" \/ SilentCancel(req[c])
      <4>1. SilentCancel(req[c]) \/ RefuseInteraction(c)
        BY <2>2, <3>2 DEF Cancel, CancelKick, CancelBan, CancelHardban, CancelSoftban,
           CancelUnban, CancelWarn, ErrorsToWebhook, ErrorsThrow
      <4>2. RefuseInteraction(c) => reply'[c].from = "gate"
        BY DEF RefuseInteraction, Show, TypeOK
      <4> QED  BY <4>1, <4>2
    <3> QED  BY <1>1, <2>0, <3>1, <3>2 DEF Answered, AfterCalls
  <2>3. CASE Goto(c, IF MakesCalls(c) THEN "calls" ELSE "errors")
    <3>1. CASE MakesCalls(c)
      <4>1. pc'[c] = "calls"
        BY <2>3, <3>1 DEF Goto, TypeOK
      <4> QED  BY <2>0, <4>1, PlainStepsAnswer DEF Fails
    <3>2. CASE ~MakesCalls(c)
      <4>1. pc'[c] = "errors"
        BY <2>3, <3>2 DEF Goto, TypeOK
      <4>2. Interactive(c) => CalledAll(c)
        BY <3>2 DEF MakesCalls, CalledAll
      <4>3. Interactive(c) => CalledAll(c)'
        BY <4>2, CalledAllStays
      <4> QED  BY <1>1, <2>0, <4>1, <4>3 DEF Answered
    <3> QED  BY <3>1, <3>2
  <2>4. Cancel(c, GateErrors(guild, req[c])) =>
          Raise(c) \/ NullDereference(c) \/ Goto(c, "cancelled")
    BY CancelShape
  <2> QED  BY <1>3, <2>1, <2>2, <2>3, <2>4 DEF check_permissions
<1>4. CASE process_calls(c)
  <2>1. PICK t \in Users : SendCall(c, t)
    BY <1>4 DEF process_calls, process_kicks, process_bans, process_hardbans,
       process_softbans, process_unbans, process_warnings
  <2>2. cmdlog' = cmdlog /\ pc[c] = "calls" /\ c \notin cmdlog
    BY <2>1 DEF SendCall, Answered
  <2>3. CASE pc'[c] = "calls"
    BY <2>2, <2>3, PlainStepsAnswer DEF Fails
  <2>4. CASE ~\E u \in Targets(req[c]) \ {t} : call[c][u] = "none"
    <3>1. pc'[c] = "errors"
      BY <2>1, <2>4 DEF SendCall, Goto, TypeOK
    <3>2. CalledAll(c)'
      <4>1. call'[c][t] # "none" /\ req' = req
        BY <2>1 DEF SendCall, TypeOK
      <4>2. \A u \in Targets(req[c]) \ {t} : call'[c][u] # "none"
        BY <2>1, <2>4, RequestTypes DEF SendCall, TypeOK
      <4> QED  BY <4>1, <4>2 DEF CalledAll, Targets
    <3> QED  BY <1>1, <2>2, <3>1, <3>2 DEF Answered
  <2> QED  BY <2>1, <2>2, <2>3, <2>4 DEF SendCall
<1> QED  BY <1>2, <1>3, <1>4

\* And in it.
LEMMA ResponseAnswers ==
    ASSUME TypeOK, CallsInv, [Next]_vars, NEW c \in Cmds, Answered(c),
           SnapshotErrors(c) \/ FlagErrors(c) \/ ShowErrors(c) \/ Decide(c)
             \/ Collect(c) \/ Modlogs(c)
    PROVE  Answered(c)'
<1>0. ASSUME NEW where \in AfterCalls \ {"log", "done"}, Goto(c, where), cmdlog' = cmdlog,
             pc[c] \in AfterCalls \ {"log", "done"}
      PROVE  Continues(c)
  BY <1>0 DEF Continues, Goto, TypeOK
<1>1. ASSUME Raise(c) \/ NullDereference(c), cmdlog' = cmdlog,
             pc[c] \in AfterCalls \ {"log", "done"}
      PROVE  Fails(c)
  BY <1>1, OwnEnds DEF Fails, AfterCalls
<1>2. CASE SnapshotErrors(c) \/ Decide(c)
  BY <1>0, <1>2, PlainStepsAnswer DEF SnapshotErrors, Decide, AfterCalls
<1>3. CASE Collect(c)
  BY <1>0, <1>3, CollectShape, PlainStepsAnswer DEF AfterCalls, TypeOK
<1>4. CASE Modlogs(c)
  BY <1>0, <1>1, <1>4, ModlogsShape, PlainStepsAnswer DEF AfterCalls
<1>5. CASE FlagErrors(c)
  <2>1. Goto(c, "show") \/ Goto(c, "decide") \/ Raise(c) \/ NullDereference(c)
    BY <1>5 DEF FlagErrors, FlagKick, FlagUnban, FlagBan, FlagHardban, FlagSoftban,
       FlagWarn, ShowErrorsIfAllFailed, ShowErrorsAlways, ErrorWebhook, Paginate
  <2> QED  BY <1>0, <1>1, <1>5, <2>1, PlainStepsAnswer DEF FlagErrors, AfterCalls
<1>6. CASE ShowErrors(c)
  <2>1. Goto(c, "decide") \/ NullDereference(c)
    BY <1>6 DEF ShowErrors, Paginate
  <2> QED  BY <1>0, <1>1, <1>6, <2>1, PlainStepsAnswer DEF ShowErrors, AfterCalls
<1> QED  BY <1>2, <1>3, <1>4, <1>5, <1>6

\* And when it comes to its answer.
LEMMA LastStepsAnswer ==
    ASSUME TypeOK, CallsInv, [Next]_vars, NEW c \in Cmds, Answered(c),
           Answer(c) \/ log_command_invoke(c)
    PROVE  Answered(c)'
<1>1. req' = req /\ (CalledAll(c) => CalledAll(c)')
  BY CallSteps, CalledAllStays
<1>2. /\ Interactive(c)' = Interactive(c) /\ Kind(c)' = Kind(c)
      /\ SilentCancel(req[c])' = SilentCancel(req[c])
  BY <1>1 DEF Interactive, Kind, SilentCancel, Targets
<1>s. Stands(c)' <=> /\ Interactive(c) /\ reply'[c].from = "final"
                     /\ ~Paginates(Kind(c), reply'[c].body)
  BY <1>2 DEF Stands, Paginates, KickPaginates, UnbanPaginates, BanPaginates,
     HardbanPaginates, SoftbanPaginates, WarnPaginates
<1>3. CASE Answer(c)
  <2>0. cmdlog' = cmdlog /\ pc[c] = "reply" /\ c \notin cmdlog
    BY <1>3 DEF Answer, Answered
  <2>1. CASE NullDereference(c)
    BY <2>0, <2>1, OwnEnds, PlainStepsAnswer DEF Fails
  <2>2. CASE /\ ~(Interactive(c) /\ Paginates(Kind(c), msg[c]))
             /\ Show(c, "final", msg[c])
             /\ Goto(c, IF Interactive(c) THEN "log" ELSE "done")
    <3>1. reply'[c] = [from |-> "final", body |-> msg[c]]
      BY <2>2 DEF Show, TypeOK
    <3>2. pc'[c] = IF Interactive(c) THEN "log" ELSE "done"
      BY <2>2 DEF Goto, TypeOK
    <3>3. Interactive(c) => Stands(c)'
      BY <1>s, <2>2, <3>1
    <3> QED  BY <1>1, <1>2, <2>0, <3>2, <3>3 DEF Answered, AfterCalls
  <2> QED  BY <1>3, <2>1, <2>2 DEF Answer, Paginate
<1>4. CASE log_command_invoke(c)
  <2>0. pc[c] = "log" /\ c \notin cmdlog /\ Stands(c)
    BY <1>4 DEF log_command_invoke, Answered
  <2>1. CASE Raise(c) /\ UNCHANGED cmdlog
    BY <2>0, <2>1, OwnEnds, PlainStepsAnswer DEF Fails
  <2>2. CASE Goto(c, "done") /\ cmdlog' = cmdlog \cup {c}
    <3>1. pc'[c] = "done" /\ c \in cmdlog'
      BY <2>2 DEF Goto, TypeOK
    <3>2. reply' = reply
      BY <1>4 DEF log_command_invoke
    <3>3. Stands(c)' /\ CalledAll(c)'
      BY <1>1, <1>s, <2>0, <3>2 DEF Stands, Answered, AfterCalls
    <3>4. reply'[c].from = "final"
      BY <3>3, <1>s
    <3> QED  BY <3>1, <3>3, <3>4 DEF Answered
  <2> QED  BY <1>4, <2>1, <2>2 DEF log_command_invoke
<1> QED  BY <1>3, <1>4

LEMMA AnsweredStep == TypeOK /\ CallsInv /\ AnsweredInv /\ [Next]_vars => AnsweredInv'
<1> SUFFICES ASSUME TypeOK, CallsInv, AnsweredInv, [Next]_vars, NEW c \in Cmds
             PROVE  Answered(c)'
  BY DEF AnsweredInv
<1>1. Answered(c)
  BY DEF AnsweredInv
<1>2. CASE ~(Invoke(c) \/ wrapper_function(c))
  BY <1>1, <1>2, OthersAreQuiet, PlainStepsAnswer
<1>3. CASE Invoke(c) \/ wrapper_function(c)
  BY <1>1, <1>3, GateAnswers, ResponseAnswers, LastStepsAnswer DEF wrapper_function
<1> QED  BY <1>2, <1>3

LEMMA AnsweredInductive == Spec => []AnsweredInv
<1>1. Init => AnsweredInv
  BY DEF Init, AnsweredInv, Answered, AfterCalls
<1>2. TypeOK /\ CallsInv /\ AnsweredInv /\ [Next]_vars => (CallsInv /\ AnsweredInv)'
  BY CallsStep, AnsweredStep
<1> QED  BY <1>1, <1>2, CallsInit, Inductive, PTL DEF Spec

\* The command log holds only commands whose answer stands.
THEOREM LogIsHonest == Spec => []LoggedMeansAnswered
<1>1. TypeOK /\ AnsweredInv => LoggedMeansAnswered
  BY DEF TypeOK, AnsweredInv, Answered, Stands, CalledAll, LoggedMeansAnswered
<1> QED  BY <1>1, AnsweredInductive, Inductive, PTL

\* A person whose command came to its end has been answered.
THEOREM EndsAreAnswered == Spec => []EndedMeansAnswered
<1>1. AnsweredInv => EndedMeansAnswered
  BY DEF AnsweredInv, Answered, EndedMeansAnswered
<1> QED  BY <1>1, AnsweredInductive, PTL


-----------------------------------------------------------------------------
(***************************************************************************)
(* Whom the gates keep safe, in every guild and for every request.         *)
(***************************************************************************)
\* An error that was not collected had no reason.
LEMMA NoErrorNoReason ==
    ASSUME NEW condition, NEW why, NEW who, ErrorIf(condition, why, who) = {}
    PROVE  ~condition
  BY DEF ErrorIf

\* What an empty set of errors says of each member, gate by gate.
Spared(r, m) == m # r.author /\ m # Owner /\ m # Bot

Outranked(g, r, m) ==
    /\ ~(TopPosition(g, m) > TopPosition(g, Bot))
    /\ r.kind # "hardban" => ~(TopPosition(g, m) > TopPosition(g, r.author))

\* The checks that kick, ban, softban and warn share.
LEMMA CommonChecks ==
    ASSUME NEW g, NEW r, NEW m,
           IsSelf(r, m) = {}, IsOwner(r, m) = {}, IsBot(m) = {},
           AboveBot(g, m) = {}, AboveAuthor(g, r, m) = {}
    PROVE  Spared(r, m) /\ Outranked(g, r, m)
<1>1. m # r.author
  BY NoErrorNoReason DEF IsSelf
<1>2. ~(m = Owner /\ r.author # Owner)
  BY NoErrorNoReason DEF IsOwner
<1>3. m # Bot
  BY NoErrorNoReason DEF IsBot
<1>4. Outranked(g, r, m)
  BY NoErrorNoReason DEF AboveBot, AboveAuthor, Outranked
<1> QED
  BY <1>1, <1>2, <1>3, <1>4 DEF Spared

LEMMA PassedMember ==
    ASSUME NEW g, NEW r, r.kind \in Punishes, GateErrors(g, r) = {},
           NEW m \in r.members
    PROVE  Spared(r, m) /\ Outranked(g, r, m)
<1>0. Targets(r) # {}
  BY DEF Targets
<1>1. CASE r.kind = "kick"
  <2>1. KickGate(g, r) = {}
    BY <1>1 DEF GateErrors
  <2>2. check_kick_possible(g, r) = {}
    BY <2>1 DEF KickGate
  <2> QED
    BY <2>2, CommonChecks DEF check_kick_possible
<1>2. CASE r.kind = "ban"
  <2>1. BanGate(g, r) = {}
    BY <1>2 DEF GateErrors
  <2>2. check_ban_possible(g, r) = {}
    BY <1>0, <2>1 DEF BanGate
  <2> QED
    BY <2>2, CommonChecks DEF check_ban_possible
<1>3. CASE r.kind = "softban"
  <2>1. SoftbanGate(g, r) = {}
    BY <1>3 DEF GateErrors
  <2>2. /\ IsSelf(r, m) = {} /\ IsOwner(r, m) = {} /\ IsBot(m) = {}
        /\ AboveBot(g, m) = {} /\ AboveAuthor(g, r, m) = {}
    BY <1>0, <2>1 DEF SoftbanGate
  <2> QED
    BY <2>2, CommonChecks
<1>4. CASE r.kind = "warn"
  <2>1. WarnGate(g, r) = {}
    BY <1>4 DEF GateErrors
  <2>2. /\ IsSelf(r, m) = {} /\ IsOwner(r, m) = {} /\ IsBot(m) = {}
        /\ AboveBot(g, m) = {} /\ AboveAuthor(g, r, m) = {}
    BY <2>1 DEF WarnGate
  <2> QED
    BY <2>2, CommonChecks
<1>5. CASE r.kind = "hardban"
  <2>1. HardbanGate(g, r) = {}
    BY <1>5 DEF GateErrors
  <2>2. r.author = Owner /\ check_hardban_possible(g, r) = {}
    BY <1>0, <2>1 DEF HardbanGate
  <2>3. /\ ErrorIf(m = Owner, "owner", m) = {} /\ IsBot(m) = {}
        /\ AboveBot(g, m) = {}
    BY <2>2 DEF check_hardban_possible
  <2>4. m # Owner /\ m # Bot /\ ~(TopPosition(g, m) > TopPosition(g, Bot))
    BY <2>3, NoErrorNoReason DEF IsBot, AboveBot
  <2> QED
    BY <1>5, <2>2, <2>4 DEF Spared, Outranked
<1> QED
  BY <1>1, <1>2, <1>3, <1>4, <1>5 DEF Punishes, Hybrid

\* A thread passes its gate only if that has found nothing.
LEMMA PassesAreGated ==
    ASSUME TypeOK, [Next]_vars, NEW c \in Cmds, Passes(c)
    PROVE  GateErrors(guild, req[c]) = {}
<1>1. Invoke(c) \/ wrapper_function(c)
  BY OthersAreQuiet DEF Quiet, Passes
<1>2. check_permissions(c)
  <2>1. pc[c] = "gate"
    BY DEF Passes
  <2>2. ~(Invoke(c) \/ process_calls(c) \/ FlagErrors(c) \/ Collect(c) \/ Modlogs(c))
    BY <2>1, CollectShape, ModlogsShape DEF Invoke, FlagErrors, TypeOK, process_calls,
       process_kicks, process_bans, process_hardbans, process_softbans, process_unbans,
       process_warnings, SendCall
  <2>3. ~(SnapshotErrors(c) \/ ShowErrors(c) \/ Decide(c) \/ Answer(c)
            \/ log_command_invoke(c))
    BY <2>1 DEF SnapshotErrors, ShowErrors, Decide, Answer, log_command_invoke
  <2> QED
    BY <1>1, <2>2, <2>3 DEF wrapper_function
<1>3. ~(Raise(c) \/ NullDereference(c) \/ Goto(c, "cancelled"))
  BY DEF Raise, NullDereference, ProcessDies, Goto, TypeOK, Passes
<1>4. ~Cancel(c, GateErrors(guild, req[c]))
  BY <1>3, CancelShape
<1> QED  BY <1>2, <1>3, <1>4 DEF check_permissions

\* A thread makes calls only after a gate that found nothing.
LEMMA CallsAreGated ==
    ASSUME TypeOK, [Next]_vars, NEW c \in Cmds, pc[c] # "calls", pc'[c] = "calls"
    PROVE  GateErrors(guild, req[c]) = {}
<1>0. ASSUME NEW where, Goto(c, where), where # "calls" PROVE FALSE
  BY <1>0 DEF Goto, TypeOK
<1>b. Raise(c) \/ NullDereference(c) => FALSE
  BY DEF Raise, NullDereference, ProcessDies, Goto, TypeOK
<1>1. Invoke(c) \/ wrapper_function(c)
  BY OthersAreQuiet DEF Quiet
<1>2. ~Invoke(c)
  BY <1>0, <1>b DEF Invoke
<1>3. ~process_calls(c)
  BY DEF process_calls, process_kicks, process_bans, process_hardbans,
     process_softbans, process_unbans, process_warnings, SendCall
<1>4. ~FlagErrors(c)
  <2>1. FlagErrors(c) =>
           Raise(c) \/ NullDereference(c) \/ Goto(c, "show") \/ Goto(c, "decide")
    BY DEF FlagErrors, FlagKick, FlagUnban, FlagBan, FlagHardban, FlagSoftban, FlagWarn,
       ShowErrorsIfAllFailed, ShowErrorsAlways, ErrorWebhook, Paginate
  <2> QED  BY <2>1, <1>0, <1>b
<1>5. ~(SnapshotErrors(c) \/ Decide(c) \/ Collect(c) \/ Modlogs(c))
  BY <1>0, <1>b, CollectShape, ModlogsShape DEF SnapshotErrors, Decide, TypeOK
<1>6. ~(ShowErrors(c) \/ Answer(c) \/ log_command_invoke(c))
  BY <1>0, <1>b DEF ShowErrors, Answer, Paginate, log_command_invoke
<1>7. check_permissions(c)
  BY <1>1, <1>2, <1>3, <1>4, <1>5, <1>6 DEF wrapper_function
<1>8. Passes(c)
  BY <1>7 DEF check_permissions, Passes
<1> QED  BY <1>8, PassesAreGated

\* A call begins in the loop that makes them.
LEMMA CallsBegin ==
    ASSUME TypeOK, [Next]_vars, NEW c \in Cmds, NEW t \in Users,
           call[c][t] = "none", call'[c][t] # "none"
    PROVE  pc[c] = "calls"
<1>1. ASSUME NEW d \in Cmds, NEW u \in Users, NEW s, call' = [call EXCEPT ![d][u] = s]
      PROVE  d = c /\ u = t
  BY <1>1 DEF TypeOK
<1>2. ASSUME NEW d \in Cmds, NEW u \in Users,
             Discord(d, u) \/ AnswerLost(d, u) \/ lambda_callback(d, u)
      PROVE  FALSE
  <2>1. call[d][u] # "none" /\ \E s : call' = [call EXCEPT ![d][u] = s]
    BY <1>2 DEF Discord, DiscordApplies, DiscordRefuses, AnswerLost, lambda_callback,
       CallbackSucceeds, CallbackFails, RecordFailure, LateCallback
  <2> QED  BY <1>1, <2>1
<1>3. ASSUME NEW d \in Cmds, process_calls(d) PROVE pc[c] = "calls"
  <2>1. PICK u \in Users : SendCall(d, u)
    BY <1>3 DEF process_calls, process_kicks, process_bans, process_hardbans,
       process_softbans, process_unbans, process_warnings
  <2> QED  BY <1>1, <2>1 DEF SendCall
<1>4. ASSUME NEW d \in Cmds, Invoke(d) \/ wrapper_function(d) \/ Modcase(d),
             ~process_calls(d)
      PROVE  UNCHANGED call
  BY <1>4 DEF Invoke, wrapper_function, Modcase, CommitModcase, AbortModcase,
     check_permissions, SnapshotErrors, FlagErrors, ShowErrors, Decide, Collect,
     Modlogs, Answer, log_command_invoke
<1>5. EditGuild \/ Kill \/ UNCHANGED vars => UNCHANGED call
  BY DEF EditGuild, Kill, vars
<1> QED  BY <1>2, <1>3, <1>4, <1>5 DEF Next

\* Whoever is about to be called, or has been, was spared by the gate's checks.
Aimed(c) == pc[c] = "calls" \/ \E t \in Users : call[c][t] # "none"

SparedInv ==
    \A c \in Cmds : Aimed(c) /\ Kind(c) \in Punishes =>
        \A m \in req[c].members : Spared(req[c], m)

LEMMA SparedStep == TypeOK /\ CallsInv /\ SparedInv /\ [Next]_vars => SparedInv'
<1> SUFFICES ASSUME TypeOK, CallsInv, SparedInv, [Next]_vars,
                    NEW c \in Cmds, Aimed(c)', Kind(c)' \in Punishes,
                    NEW m \in req'[c].members
             PROVE  Spared(req'[c], m)
  BY DEF SparedInv, Spared, Punishes, Hybrid
<1>1. req' = req
  BY CallSteps
<1>2. CASE Aimed(c)
  BY <1>1, <1>2 DEF SparedInv, Kind
<1>3. CASE ~Aimed(c)
  <2>1. GateErrors(guild, req[c]) = {}
    BY <1>3, CallsBegin, CallsAreGated DEF Aimed
  <2> QED  BY <1>1, <2>1, PassedMember DEF Kind
<1> QED  BY <1>2, <1>3

\* No punishment ever made a call against the guild's owner, the bot or the
\* author of the command as a member, whatever is edited meanwhile.
THEOREM OwnerBotAndAuthorAreSafe == Spec => []UntouchablesAreSafe
<1>1. Init => SparedInv
  BY DEF Init, SparedInv, Aimed
<1>2. SparedInv => UntouchablesAreSafe
  BY DEF SparedInv, UntouchablesAreSafe, Aimed, Spared
<1> QED
  BY <1>1, <1>2, CallsInit, CallsStep, SparedStep, TypeInit, TypeStep, NumbersInit,
     NumbersStep, PTL DEF Spec

\* With one role, the role of the highest address is the role.
LEMMA OnlyRoleIsTop ==
    ASSUME NEW g \in Guilds, NEW u \in Users, NEW r \in Roles, g.roles[u] = {r}
    PROVE  TopPosition(g, u) = Highest(g, u) /\ Highest(g, u) \in Nat
<1>1. g.position[r] \in Nat /\ g.address[r] \in Nat
  BY CommandAssumption DEF GuildRecord
<1>2. TopRole(g, u) = r
  <2>1. \A s \in {r} : g.address[s] <= g.address[r]
    BY <1>1
  <2> QED
    BY <2>1 DEF TopRole
<1>3. Highest(g, u) = g.position[r]
  <2>1. {g.position[s] : s \in {r}} = {g.position[r]}
    OBVIOUS
  <2>2. \A s \in {r} : g.position[s] <= g.position[r]
    BY <1>1
  <2> QED
    BY <2>1, <2>2 DEF Highest
<1> QED
  BY <1>1, <1>2, <1>3 DEF TopPosition

\* Where everybody has one role, the gates respect rank.
THEOREM RanksAreSafe == Spec => RankIsRespected
<1>1. ASSUME TypeOK, [Next]_vars, NEW c \in Cmds, Passes(c), OneRoleEach,
             Kind(c) \in Punishes, NEW m \in req[c].members
      PROVE  /\ Highest(guild, m) <= Highest(guild, Bot)
             /\ Kind(c) # "hardban" => Highest(guild, m) <= Highest(guild, req[c].author)
  <2>1. GateErrors(guild, req[c]) = {}
    BY <1>1, PassesAreGated
  <2>2. Outranked(guild, req[c], m)
    BY <1>1, <2>1, PassedMember DEF Kind
  <2>3. m \in Users /\ Bot \in Users /\ req[c].author \in Users
    BY <1>1, RequestTypes, GuildAssumption DEF TypeOK, Request
  <2>4. \A u \in Users :
           TopPosition(guild, u) = Highest(guild, u) /\ Highest(guild, u) \in Nat
    BY <1>1, OnlyRoleIsTop DEF TypeOK, OneRoleEach
  <2> QED
    BY <2>2, <2>3, <2>4 DEF Outranked, Kind
<1>2. TypeOK /\ [Next]_vars =>
        [\A c \in Cmds : Passes(c) /\ OneRoleEach /\ Kind(c) \in Punishes =>
            \A m \in req[c].members :
                /\ Highest(guild, m) <= Highest(guild, Bot)
                /\ Kind(c) # "hardban" =>
                       Highest(guild, m) <= Highest(guild, req[c].author)]_vars
  BY <1>1
<1> QED
  BY <1>2, TypeCorrect, PTL DEF Spec, RankIsRespected

=============================================================================
