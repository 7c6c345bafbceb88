--------------------------- MODULE ChannelsProofs ---------------------------
(***************************************************************************)
(* Proofs about Channels, for any batch of locks and lockdowns, any guild, *)
(* any lists and any cases recorded before.                                *)
(***************************************************************************)
EXTENDS Channels, FiniteSetTheorems, TLAPS

-----------------------------------------------------------------------------
(***************************************************************************)
(* Types, and the numbers of cases they rest on.                           *)
(***************************************************************************)
Subjects     == Channels \cup {NoChannel}
Transaction == [id : Nat, who : SUBSET Subjects]
Body        == MessageAbout(Channels \cup Deleted)
Answers     == [from : {"none", "gate", "errors", "final"}, body : Body]

\* Numbers without gaps: the highest exists, and is how many there are.
LEMMA LastOfContiguous ==
    ASSUME NEW rows, NEW k \in Nat, CaseIds(rows) = 1 .. k
    PROVE  LastCaseId(rows) = k
<1>1. CASE rows = {}
  <2>1. CaseIds(rows) = {}
    BY <1>1 DEF CaseIds
  <2>2. k = 0
    BY <2>1
  <2> QED  BY <1>1, <2>2 DEF LastCaseId
<1>2. CASE rows # {}
  <2>1. CaseIds(rows) # {}
    BY <1>2 DEF CaseIds
  <2>2. k \in 1 .. k
    BY <2>1
  <2>3. \A n \in 1 .. k : (\A m \in 1 .. k : m <= n) => n = k
    BY <2>2
  <2>4. \A m \in 1 .. k : m <= k
    OBVIOUS
  <2> QED  BY <1>2, <2>2, <2>3, <2>4 DEF LastCaseId
<1> QED  BY <1>1, <1>2

\* A row under a number up to one above the highest leaves no gap.
LEMMA ContiguousGrows ==
    ASSUME NEW k \in Nat, NEW n \in 1 .. (k + 1)
    PROVE  \E j \in Nat : j >= k /\ (1 .. k) \cup {n} = 1 .. j
<1>1. CASE n = k + 1
  <2>1. (1 .. k) \cup {n} = 1 .. (k + 1)
    BY <1>1
  <2> QED  BY <2>1
<1>2. CASE n # k + 1
  <2>1. (1 .. k) \cup {n} = 1 .. k
    BY <1>2
  <2> QED  BY <2>1
<1> QED  BY <1>1, <1>2

\* An open transaction's number was one above the highest when it was read, and
\* the highest only grows; it is above every number its own command recorded.
NumbersInv ==
    /\ \E k \in Nat : CaseIds(cases) = 1 .. k
    /\ \A c \in Cmds : tx[c] # NoTx =>
          /\ tx[c].id \in 1 .. (LastCaseId(cases) + 1)
          /\ \A row \in cases : row.cmd = c => row.id < tx[c].id

LEMMA LastCaseIdType ==
    ASSUME NumbersInv
    PROVE  LastCaseId(cases) \in Nat /\ CaseIds(cases) = 1 .. LastCaseId(cases)
BY LastOfContiguous DEF NumbersInv

LEMMA SomeTypes ==
    /\ NoTx \in Transaction
    /\ EmptyMessage \in Body
    /\ [EmptyMessage EXCEPT !.ephemeral = TRUE] \in Body
BY DEF NoTx, Transaction, EmptyMessage, Body, MessageAbout

LEMMA RequestTypes ==
    ASSUME req \in Batches, NEW c \in Cmds
    PROVE  /\ req[c] \in ChannelRequest
           /\ Named(c) \subseteq Channels /\ Named(c) # {}
           /\ Kind(c) \in {"lock", "unlock", "lockdown", "remove_lockdown"}
<1>1. req[c] \in ChannelRequest
  BY ChannelsAssumption
<1> QED  BY <1>1 DEF ChannelRequest, Named, Kind

LEMMA ChannelFacts ==
    /\ Channels \cap Deleted = {}
    /\ NoChannel \notin Channels
    /\ Lists \subseteq SUBSET (Channels \cup Deleted)
    /\ IsFiniteSet(Channels)
BY ChannelsAssumption

\* What a step may do to threads and transactions, short of opening or closing.
Typed == pc' \in [Cmds -> PCs] /\ tx' \in [Cmds -> Transaction]

LEMMA GotoType ==
    ASSUME TypeOK, NEW c \in Cmds, NEW where \in PCs, Goto(c, where)
    PROVE  pc' \in [Cmds -> PCs] /\ (UNCHANGED tx => Typed)
BY DEF Goto, TypeOK, Typed, Transaction, Subjects

LEMMA BadEndsAreTyped ==
    ASSUME TypeOK, NEW c \in Cmds
    PROVE  /\ NullDereference(c) => Typed
           /\ Raise(c) => Typed
           /\ RaiseInCallback => Typed
           /\ ProcessDies({}) => Typed
<1>1. pc \in [Cmds -> PCs] /\ tx \in [Cmds -> Transaction]
  BY DEF TypeOK, Transaction, Subjects
<1>2. ASSUME NEW S, ProcessDies(S) PROVE Typed
  BY <1>1, <1>2, SomeTypes DEF ProcessDies, Typed, PCs
<1>3. Goto(c, "raised") => pc' \in [Cmds -> PCs]
  BY <1>1 DEF Goto, PCs
<1> QED
  BY <1>1, <1>2, <1>3 DEF NullDereference, Raise, RaiseInCallback, Typed

LEMMA ShowType ==
    ASSUME TypeOK, NEW c \in Cmds, NEW body \in Body,
           NEW from \in {"none", "gate", "errors", "final"}, Show(c, from, body)
    PROVE  reply' \in [Cmds -> Answers]
BY DEF Show, TypeOK, Answers, Body

LEMMA CallType ==
    ASSUME TypeOK, NEW c \in Cmds, NEW ch \in Channels, NEW s \in CallStates,
           call' = [call EXCEPT ![c][ch] = s]
    PROVE  call' \in [Cmds -> [Channels -> CallStates]]
BY DEF TypeOK

LEMMA MessageType ==
    ASSUME TypeOK, NEW c \in Cmds, NEW body \in Body, msg' = [msg EXCEPT ![c] = body]
    PROVE  msg' \in [Cmds -> Body]
BY DEF TypeOK, Body

\* A transaction is closed, or opened under a number of its own.
LEMMA TxType ==
    ASSUME TypeOK, NEW c \in Cmds, NEW new \in Transaction, tx' = [tx EXCEPT ![c] = new]
    PROVE  tx' \in [Cmds -> Transaction]
BY DEF TypeOK, Transaction, Subjects

LEMMA TypeInit == Init => TypeOK
<1> SUFFICES ASSUME Init PROVE TypeOK
  OBVIOUS
<1>1. /\ tx \in [Cmds -> Transaction]
      /\ msg \in [Cmds -> Body]
      /\ reply \in [Cmds -> Answers]
  BY SomeTypes DEF Init, Answers
<1>2. pc \in [Cmds -> PCs] /\ call \in [Cmds -> [Channels -> CallStates]]
  BY DEF Init, PCs, CallStates
<1>3. overwrite \in [Channels -> Overwrite]
  BY DEF Init, Overwrite
<1> QED
  BY <1>1, <1>2, <1>3 DEF Init, TypeOK, Transaction, Subjects, Answers, Body

\* The gate, and the channels a command sets out with.
LEMMA TypeGate ==
    ASSUME TypeOK, NEW c \in Cmds,
           Invoke(c) \/ check_permissions(c) \/ process_channels(c)
    PROVE  TypeOK'
<1>1. CASE Invoke(c)
  <2>1. pc' \in [Cmds -> PCs]
    BY <1>1, GotoType DEF Invoke, PCs
  <2> QED  BY <1>1, <2>1 DEF Invoke, TypeOK
<1>2. CASE check_permissions(c)
  <2>1. /\ Goto(c, "cancelled") /\ UNCHANGED tx => Typed
        /\ Goto(c, "fetch") /\ UNCHANGED tx => Typed
    BY GotoType DEF PCs
  <2>2. UNCHANGED reply => reply' \in [Cmds -> Answers]
    BY DEF TypeOK, Answers, Body
  <2>3. CancelLockdown(c) => Typed /\ reply' \in [Cmds -> Answers]
    BY <2>1, SomeTypes, ShowType DEF CancelLockdown
  <2>4. CancelLock(c, GateErrorsOf(c)) => Typed /\ reply' \in [Cmds -> Answers]
    BY <2>1, <2>2, SomeTypes, ShowType, BadEndsAreTyped DEF CancelLock
  <2>5. Typed /\ reply' \in [Cmds -> Answers]
    BY <1>2, <2>1, <2>2, <2>3, <2>4, BadEndsAreTyped DEF check_permissions
  <2> QED
    BY <1>2, <2>5 DEF check_permissions, TypeOK, Typed, Transaction, Subjects, Answers, Body
<1>3. CASE process_channels(c)
  <2>1. CASE /\ found' = [found EXCEPT ![c] = Named(c)]
             /\ Goto(c, "calls") /\ UNCHANGED <<tx, msg>>
    <3>1. pc' \in [Cmds -> PCs]
      BY <2>1, GotoType DEF PCs, RunningAt
    <3>2. found' \in [Cmds -> SUBSET (Channels \cup {NoChannel})]
      BY <2>1, RequestTypes DEF TypeOK
    <3> QED  BY <1>3, <2>1, <3>1, <3>2 DEF process_channels, TypeOK
  <2>2. CASE FetchList(c)
    <3> DEFINE present == lockdown \cap Channels
               missing == lockdown \cap Deleted
    <3>1. CASE (Raise(c) \/ NullDereference(c)) /\ UNCHANGED <<found, msg>>
      <4>1. Typed
        BY <3>1, BadEndsAreTyped
      <4> QED
        BY <1>3, <3>1, <4>1 DEF process_channels, TypeOK, Typed, Transaction, Subjects
    <3>2. CASE /\ found' = [found EXCEPT ![c] = IF present = {} THEN {NoChannel} ELSE present]
               /\ msg' = [msg EXCEPT ![c].errs = missing]
               /\ Goto(c, IF present = {} THEN "errors" ELSE "calls")
               /\ UNCHANGED tx
      <4>1. found' \in [Cmds -> SUBSET (Channels \cup {NoChannel})]
        BY <3>2 DEF TypeOK
      <4>2. msg' \in [Cmds -> Body]
        <5>1. msg[c] \in Body
          BY DEF TypeOK, Body
        <5>2. [msg[c] EXCEPT !.errs = missing] \in Body
          BY <5>1 DEF Body, MessageAbout
        <5>3. msg' = [msg EXCEPT ![c] = [msg[c] EXCEPT !.errs = missing]]
          BY <3>2
        <5> QED  BY <5>2, <5>3, MessageType
      <4>3. pc' \in [Cmds -> PCs]
        BY <3>2, GotoType DEF PCs, RunningAt
      <4> QED  BY <1>3, <3>2, <4>1, <4>2, <4>3 DEF process_channels, TypeOK, Body
    <3> QED  BY <2>2, <3>1, <3>2 DEF FetchList
  <2> QED
    BY <1>3, <2>1, <2>2 DEF process_channels, process_locks, process_unlocks,
       process_lockdown, process_lockdown_removal
<1> QED  BY <1>1, <1>2, <1>3

\* The edits, and Discord's answers to them.
LEMMA TypeCalls ==
    ASSUME TypeOK, NEW c \in Cmds, NEW ch \in Channels,
           channel_edit_permissions(c, ch) \/ Discord(c, ch) \/ EditFails(c, ch)
             \/ LateCallback(c, ch)
    PROVE  TypeOK'
<1>1. call' \in [Cmds -> [Channels -> CallStates]]
  <2>1. \E s \in CallStates : call' = [call EXCEPT ![c][ch] = s]
    BY DEF channel_edit_permissions, Discord, DiscordApplies, DiscordRefuses, EditFails,
       LateCallback, CallStates
  <2> QED  BY <2>1, CallType
<1>2. CASE channel_edit_permissions(c, ch)
  <2>1. pc' \in [Cmds -> PCs]
    BY <1>2, GotoType DEF channel_edit_permissions, TypeOK, PCs, RunningAt
  <2> QED  BY <1>1, <1>2, <2>1 DEF channel_edit_permissions, TypeOK
<1>3. CASE DiscordApplies(c, ch)
  <2>1. Edited(c, ch) \in Overwrite
    BY DEF Edited, Overwrite
  <2>2. overwrite' \in [Channels -> Overwrite]
    BY <1>3, <2>1 DEF DiscordApplies, TypeOK
  <2> QED  BY <1>1, <1>3, <2>2 DEF DiscordApplies, TypeOK
<1>4. CASE DiscordRefuses(c, ch) \/ EditFails(c, ch)
  BY <1>1, <1>4 DEF DiscordRefuses, EditFails, TypeOK
<1>5. CASE LateCallback(c, ch)
  <2>1. Typed
    BY <1>5, BadEndsAreTyped DEF LateCallback
  <2> QED  BY <1>1, <1>5, <2>1 DEF LateCallback, TypeOK, Typed, Transaction, Subjects
<1> QED  BY <1>2, <1>3, <1>4, <1>5 DEF Discord

\* The cases.
LEMMA TypeCases ==
    ASSUME TypeOK, NumbersInv, NEW c \in Cmds,
           Modcase(c) \/ \E ch \in Channels : EditSucceeds(c, ch)
    PROVE  TypeOK'
<1>1. ASSUME NEW ch \in Channels, EditSucceeds(c, ch) PROVE TypeOK'
  <2>1. call' \in [Cmds -> [Channels -> CallStates]]
    BY <1>1, CallType DEF EditSucceeds, CallStates
  <2>2. CASE RaiseInCallback
    BY <1>1, <2>1, <2>2, BadEndsAreTyped
       DEF EditSucceeds, TypeOK, Typed, Transaction, Subjects
  <2>3. CASE UNCHANGED <<pc, tx>>
    BY <1>1, <2>1, <2>3 DEF EditSucceeds, TypeOK
  <2>4. CASE /\ tx' = [tx EXCEPT ![c] = [id |-> LastCaseId(cases) + 1, who |-> {ch}]]
             /\ UNCHANGED pc
    <3>1. [id |-> LastCaseId(cases) + 1, who |-> {ch}] \in Transaction
      BY LastCaseIdType DEF Transaction, Subjects
    <3>2. tx' \in [Cmds -> Transaction]
      BY <2>4, <3>1, TxType
    <3> QED  BY <1>1, <2>1, <2>4, <3>2 DEF EditSucceeds, TypeOK, Transaction, Subjects
  <2> QED  BY <1>1, <2>2, <2>3, <2>4 DEF EditSucceeds, OpenCase
<1>2. CASE CommitCase(c)
  <2>1. tx' \in [Cmds -> Transaction]
    BY <1>2, SomeTypes, TxType DEF CommitCase
  <2>2. pc' \in [Cmds -> PCs]
    BY <1>2, GotoType DEF CommitCase, TypeOK, PCs, RunningAt
  <2>3. Before \subseteq cases' /\ cases' \ Before \subseteq Row
    <3>1. tx[c].id \in Nat /\ tx[c].who \subseteq Channels \cup {NoChannel}
      BY DEF TypeOK
    <3>2. \A ch \in tx[c].who : [id |-> tx[c].id, cmd |-> c, target |-> ch] \in Row
      BY <3>1 DEF Row
    <3> QED  BY <1>2, <3>2 DEF CommitCase, TypeOK
  <2> QED  BY <1>2, <2>1, <2>2, <2>3 DEF CommitCase, TypeOK, Transaction, Subjects
<1>3. CASE AbortCase(c)
  <2>1. CASE /\ tx' = [tx EXCEPT ![c] = NoTx]
             /\ IF pc[c] = "case" THEN Goto(c, "raised") ELSE UNCHANGED pc
    <3>1. tx' \in [Cmds -> Transaction]
      BY <2>1, SomeTypes, TxType
    <3>2. pc' \in [Cmds -> PCs]
      BY <2>1, GotoType DEF TypeOK, PCs
    <3> QED  BY <1>3, <3>1, <3>2 DEF AbortCase, TypeOK, Transaction, Subjects
  <2>2. CASE ProcessDies({})
    BY <1>3, <2>2, BadEndsAreTyped DEF AbortCase, TypeOK, Typed, Transaction, Subjects
  <2> QED  BY <1>3, <2>1, <2>2 DEF AbortCase
<1> QED  BY <1>1, <1>2, <1>3 DEF Modcase

\* The errors and the successes of a message are channels.
LEMMA BodyTypes ==
    ASSUME TypeOK, NEW c \in Cmds
    PROVE  /\ msg[c] \in Body
           /\ \A f \in BOOLEAN : [msg[c] EXCEPT !.ephemeral = f] \in Body
           /\ [msg[c] EXCEPT !.success = TRUE] \in Body
           /\ [msg[c] EXCEPT !.errs = @ \cup reported(c)] \in Body
           /\ Kind(c) \in {"lock", "unlock"} /\ NoChannel \notin found[c] =>
                 [msg[c] EXCEPT !.success = TRUE,
                                !.claimed = found[c] \ channels_with_errors(c)] \in Body
<1>1. msg[c] \in Body /\ found[c] \subseteq Channels \cup {NoChannel}
  BY DEF TypeOK, Body
<1>2. reported(c) \subseteq Channels
  BY DEF reported
<1> QED  BY <1>1, <1>2 DEF Body, MessageAbout

\* The channels a command set out with: none before it did, some while it runs,
\* the null channel only alone and in a lockdown; and no edit of any other.
SetOut(c) ==
    /\ pc[c] \in {"idle", "gate", "fetch"} => found[c] = {}
    /\ Running(c) => found[c] # {}
    /\ NoChannel \in found[c] => Lockdown(c) /\ found[c] = {NoChannel}
    /\ \A ch \in Channels : call[c][ch] # "none" => ch \in found[c]

SetOutInv == \A c \in Cmds : SetOut(c)

\* The response.
LEMMA TypeResponse ==
    ASSUME TypeOK, NumbersInv, SetOutInv, NEW c \in Cmds,
           SnapshotErrors(c) \/ FlagErrors(c) \/ Decide(c) \/ Collect(c)
             \/ Modlogs(c) \/ Answer(c) \/ log_command_invoke(c)
    PROVE  TypeOK'
<1> USE DEF Body, Answers
<1>p. ASSUME NEW where \in RunningAt \cup {"done"}, Goto(c, where)
      PROVE  pc' \in [Cmds -> PCs]
  BY <1>p, GotoType DEF PCs
<1>1. CASE SnapshotErrors(c)
  <2>1. msg' \in [Cmds -> Body]
    <3>1. msg' = [msg EXCEPT ![c] = [msg[c] EXCEPT !.errs = @ \cup reported(c)]]
      BY <1>1 DEF SnapshotErrors
    <3> QED  BY <3>1, BodyTypes, MessageType
  <2>2. pc' \in [Cmds -> PCs]
    BY <1>1, <1>p DEF SnapshotErrors, RunningAt
  <2> QED  BY <1>1, <2>1, <2>2 DEF SnapshotErrors, TypeOK
<1>2. CASE FlagErrors(c)
  <2>1. CASE ShowErrors(c)
    <3> DEFINE shown == [msg[c] EXCEPT !.ephemeral = are_all_errors(c)]
    <3>1. shown \in Body
      BY BodyTypes DEF are_all_errors
    <3>2. msg' \in [Cmds -> Body]
      BY <2>1, <3>1, MessageType DEF ShowErrors
    <3>3. Show(c, "errors", shown) => reply' \in [Cmds -> Answers]
      BY <3>1, ShowType
    <3>4. Goto(c, "decide") /\ UNCHANGED tx => Typed
      BY <1>p DEF RunningAt, TypeOK, Typed, Transaction, Subjects
    <3>5. Typed /\ reply' \in [Cmds -> Answers]
      BY <2>1, <3>3, <3>4, BadEndsAreTyped DEF ShowErrors, Paginate
    <3> QED  BY <1>2, <3>2, <3>5 DEF FlagErrors, TypeOK, Typed, Transaction, Subjects
  <2>2. CASE ErrorWebhook(c) \/ ErrorLog(c)
    <3>1. Goto(c, "decide") /\ UNCHANGED tx => Typed
      BY <1>p DEF RunningAt, TypeOK, Typed, Transaction, Subjects
    <3>2. Typed
      BY <2>2, <3>1, BadEndsAreTyped DEF ErrorWebhook, ErrorLog
    <3>3. UNCHANGED <<msg, reply>>
      BY <2>2 DEF ErrorWebhook, ErrorLog
    <3> QED
      BY <1>2, <3>2, <3>3 DEF FlagErrors, TypeOK, Typed, Transaction, Subjects
  <2> QED  BY <1>2, <2>1, <2>2 DEF FlagErrors
<1>3. CASE Decide(c)
  <2>1. pc' \in [Cmds -> PCs]
    BY <1>3, <1>p DEF Decide, RunningAt
  <2> QED  BY <1>3, <2>1 DEF Decide, TypeOK
<1>4. CASE Collect(c)
  <2>1. CASE CollectLocked(c) \/ CollectUnlocked(c)
    <3> DEFINE new == [msg[c] EXCEPT !.success = TRUE,
                                     !.claimed = found[c] \ channels_with_errors(c)]
    <3>1. Kind(c) \in {"lock", "unlock"} /\ NoChannel \notin found[c]
      BY <2>1 DEF CollectLocked, CollectUnlocked, SetOutInv, SetOut, Lockdown
    <3>2. new \in Body
      BY <3>1, BodyTypes
    <3>3. msg' = [msg EXCEPT ![c] = new]
      BY <2>1 DEF CollectLocked, CollectUnlocked
    <3>4. msg' \in [Cmds -> Body]
      BY <3>2, <3>3, MessageType
    <3>5. pc' \in [Cmds -> PCs] /\ UNCHANGED tx
      BY <2>1, <1>p DEF CollectLocked, CollectUnlocked, RunningAt
    <3> QED  BY <1>4, <3>4, <3>5 DEF Collect, TypeOK
  <2>2. CASE CollectLockdown(c)
    <3>1. CASE Raise(c) /\ UNCHANGED msg
      <4>1. Typed
        BY <3>1, BadEndsAreTyped
      <4> QED  BY <1>4, <3>1, <4>1 DEF Collect, TypeOK, Typed, Transaction, Subjects
    <3>2. CASE
          /\ tx' = [tx EXCEPT ![c] = [id |-> LastCaseId(cases) + 1, who |-> {NoChannel}]]
          /\ msg' = [msg EXCEPT ![c].success = TRUE]
          /\ Goto(c, "case")
      <4>1. [id |-> LastCaseId(cases) + 1, who |-> {NoChannel}] \in Transaction
        BY LastCaseIdType DEF Transaction, Subjects
      <4>2. tx' \in [Cmds -> Transaction]
        BY <3>2, <4>1, TxType
      <4>3. msg' = [msg EXCEPT ![c] = [msg[c] EXCEPT !.success = TRUE]]
        BY <3>2
      <4>4. msg' \in [Cmds -> Body]
        BY <4>3, BodyTypes, MessageType
      <4>5. pc' \in [Cmds -> PCs]
        BY <3>2, <1>p DEF RunningAt
      <4> QED  BY <1>4, <4>2, <4>4, <4>5 DEF Collect, TypeOK, Transaction, Subjects
    <3> QED  BY <2>2, <3>1, <3>2 DEF CollectLockdown
  <2> QED  BY <1>4, <2>1, <2>2 DEF Collect
<1>5. CASE Modlogs(c)
  <2>1. Goto(c, "reply") /\ UNCHANGED tx => Typed
    BY <1>p DEF RunningAt, TypeOK, Typed, Transaction, Subjects
  <2>2. Typed
    BY <1>5, <2>1, BadEndsAreTyped DEF Modlogs, LogLock, LogLockdown
  <2> QED  BY <1>5, <2>2 DEF Modlogs, TypeOK, Typed, Transaction, Subjects
<1>6. CASE Answer(c)
  <2>1. Show(c, "final", msg[c]) => reply' \in [Cmds -> Answers]
    BY BodyTypes, ShowType
  <2>2. \A where \in {"log", "done"} : Goto(c, where) /\ UNCHANGED tx => Typed
    BY <1>p DEF RunningAt, TypeOK, Typed, Transaction, Subjects
  <2>3. Typed /\ reply' \in [Cmds -> Answers]
    BY <1>6, <2>1, <2>2, BadEndsAreTyped DEF Answer, Paginate
  <2> QED  BY <1>6, <2>3 DEF Answer, TypeOK, Typed, Transaction, Subjects
<1>7. CASE log_command_invoke(c)
  <2>1. Goto(c, "done") /\ UNCHANGED tx => Typed
    BY <1>p DEF TypeOK, Typed, Transaction, Subjects
  <2>2. Typed /\ cmdlog' \subseteq Cmds
    BY <1>7, <2>1, BadEndsAreTyped DEF log_command_invoke, TypeOK
  <2> QED
    BY <1>7, <2>2 DEF log_command_invoke, TypeOK, Typed, Transaction, Subjects
<1> QED  BY <1>1, <1>2, <1>3, <1>4, <1>5, <1>6, <1>7

LEMMA TypeStep == TypeOK /\ NumbersInv /\ SetOutInv /\ [Next]_vars => TypeOK'
<1> SUFFICES ASSUME TypeOK, NumbersInv, SetOutInv, [Next]_vars PROVE TypeOK'
  OBVIOUS
<1>1. ASSUME NEW c \in Cmds, Invoke(c) \/ wrapper_function(c) \/ Modcase(c)
      PROVE  TypeOK'
  BY <1>1, TypeGate, TypeCalls, TypeResponse, TypeCases DEF wrapper_function
<1>2. ASSUME NEW c \in Cmds, NEW ch \in Channels, Discord(c, ch) \/ lambda_callback(c, ch)
      PROVE  TypeOK'
  BY <1>2, TypeCalls, TypeCases DEF lambda_callback
<1>3. CASE EditGuild
  BY <1>3 DEF EditGuild, TypeOK
<1>4. CASE Kill
  <2>1. Typed
    BY <1>4, BadEndsAreTyped DEF Kill
  <2> QED  BY <1>4, <2>1 DEF Kill, TypeOK, Typed, Transaction, Subjects
<1>5. CASE UNCHANGED vars
  BY <1>5 DEF vars, TypeOK
<1> QED  BY <1>1, <1>2, <1>3, <1>4, <1>5 DEF Next

-----------------------------------------------------------------------------
(***************************************************************************)
(* The numbers of cases, and the ledger.                                   *)
(***************************************************************************)
\* A step keeps transactions, drops them, or opens one: in an edit's callback
\* for its channel, or in the response of a lockdown for no channel.
Opened(d) ==
    /\ tx'[d].id = LastCaseId(cases) + 1
    /\ \/ /\ Lockdown(d) /\ pc'[d] = "case" /\ tx'[d].who = {NoChannel}
       \/ /\ ~Lockdown(d) /\ tx[d] = NoTx
          /\ \E ch \in Channels : /\ tx'[d].who = {ch}
                                  /\ call[d][ch] = "applied" /\ call'[d][ch] = "ok"

KeptOrOpened ==
    /\ cases' = cases
    /\ \A d \in Cmds : tx'[d] = tx[d] \/ tx'[d] = NoTx \/ Opened(d)

LEMMA BadEndsKeep ==
    ASSUME TypeOK, NEW c \in Cmds,
           Raise(c) \/ RaiseInCallback \/ NullDereference(c)
             \/ ProcessDies({}) \/ UNCHANGED tx
    PROVE  \A d \in Cmds : tx'[d] = tx[d] \/ tx'[d] = NoTx
BY DEF Raise, RaiseInCallback, NullDereference, ProcessDies

LEMMA TransactionSteps ==
    ASSUME TypeOK, [Next]_vars
    PROVE  KeptOrOpened \/ \E c \in Cmds : CommitCase(c)
<1>0. ASSUME NEW c \in Cmds, cases' = cases,
             Raise(c) \/ RaiseInCallback \/ NullDereference(c) \/ ProcessDies({}) \/ UNCHANGED tx
      PROVE  KeptOrOpened
  BY <1>0, BadEndsKeep DEF KeptOrOpened
<1>1. ASSUME NEW c \in Cmds, Invoke(c) \/ wrapper_function(c) PROVE KeptOrOpened
  <2>1. CASE Collect(c)
    <3>1. CASE CollectLocked(c) \/ CollectUnlocked(c)
      BY <1>0, <2>1, <3>1 DEF Collect, CollectLocked, CollectUnlocked
    <3>2. CASE CollectLockdown(c)
      <4>1. CASE Raise(c)
        BY <1>0, <2>1, <4>1 DEF Collect
      <4>2. CASE
            /\ tx' = [tx EXCEPT ![c] = [id |-> LastCaseId(cases) + 1, who |-> {NoChannel}]]
            /\ Goto(c, "case")
        BY <2>1, <3>2, <4>2
           DEF Collect, CollectLockdown, KeptOrOpened, Opened, TypeOK, Goto
      <4> QED  BY <3>2, <4>1, <4>2 DEF CollectLockdown
    <3> QED  BY <2>1, <3>1, <3>2 DEF Collect
  <2>2. CASE ~Collect(c)
    <3>1. cases' = cases
      BY <1>1, <2>2 DEF Invoke, wrapper_function, check_permissions, process_channels,
         channel_edit_permissions, SnapshotErrors, FlagErrors, Decide, Modlogs, Answer,
         log_command_invoke
    <3>2. check_permissions(c) => Raise(c) \/ NullDereference(c) \/ UNCHANGED tx
      BY DEF check_permissions, CancelLockdown, CancelLock
    <3>3. process_channels(c) => Raise(c) \/ NullDereference(c) \/ UNCHANGED tx
      BY DEF process_channels, process_locks, process_unlocks, process_lockdown,
         process_lockdown_removal, FetchList
    <3>4. FlagErrors(c) => Raise(c) \/ NullDereference(c) \/ UNCHANGED tx
      BY DEF FlagErrors, ShowErrors, ErrorWebhook, ErrorLog, Paginate
    <3>5. Modlogs(c) \/ Answer(c) \/ log_command_invoke(c) =>
            Raise(c) \/ NullDereference(c) \/ UNCHANGED tx
      BY DEF Modlogs, LogLock, LogLockdown, Answer, Paginate, log_command_invoke
    <3>6. Raise(c) \/ NullDereference(c) \/ UNCHANGED tx
      BY <1>1, <2>2, <3>2, <3>3, <3>4, <3>5 DEF Invoke, wrapper_function,
         channel_edit_permissions, SnapshotErrors, Decide
    <3> QED  BY <1>0, <3>1, <3>6
  <2> QED  BY <2>1, <2>2
<1>2. ASSUME NEW c \in Cmds, Modcase(c) PROVE KeptOrOpened \/ CommitCase(c)
  <2>1. CASE AbortCase(c)
    BY <2>1 DEF AbortCase, ProcessDies, KeptOrOpened, TypeOK
  <2> QED  BY <1>2, <2>1 DEF Modcase
<1>3. ASSUME NEW c \in Cmds, NEW ch \in Channels,
             Discord(c, ch) \/ EditFails(c, ch) \/ LateCallback(c, ch)
      PROVE  KeptOrOpened
  BY <1>0, <1>3 DEF Discord, DiscordApplies, DiscordRefuses, EditFails, LateCallback
<1>4. ASSUME NEW c \in Cmds, NEW ch \in Channels, EditSucceeds(c, ch) PROVE KeptOrOpened
  <2>1. CASE RaiseInCallback \/ UNCHANGED tx
    BY <1>0, <1>4, <2>1 DEF EditSucceeds
  <2>2. CASE /\ ~Lockdown(c) /\ ~ConnectionBusy(c)
             /\ tx' = [tx EXCEPT ![c] = [id |-> LastCaseId(cases) + 1, who |-> {ch}]]
    <3>1. call[c][ch] = "applied" /\ call'[c][ch] = "ok" /\ cases' = cases
      BY <1>4 DEF EditSucceeds, TypeOK
    <3>2. Opened(c)
      BY <2>2, <3>1 DEF Opened, ConnectionBusy, TypeOK
    <3>3. \A d \in Cmds \ {c} : tx'[d] = tx[d]
      BY <2>2 DEF TypeOK
    <3> QED  BY <3>1, <3>2, <3>3 DEF KeptOrOpened
  <2> QED  BY <1>4, <2>1, <2>2 DEF EditSucceeds, OpenCase
<1>5. CASE EditGuild
  BY <1>5 DEF EditGuild, KeptOrOpened
<1>6. CASE Kill
  BY <1>6 DEF Kill, ProcessDies, KeptOrOpened
<1>7. CASE UNCHANGED vars
  BY <1>7 DEF vars, KeptOrOpened
<1> QED  BY <1>1, <1>2, <1>3, <1>4, <1>5, <1>6, <1>7 DEF Next, lambda_callback

\* The rows a commit adds carry one number.
LEMMA CommitAddsNumber ==
    ASSUME NEW c \in Cmds, CommitCase(c)
    PROVE  cases' = cases \/ CaseIds(cases') = CaseIds(cases) \cup {tx[c].id}
<1> DEFINE New == {[id |-> tx[c].id, cmd |-> c, target |-> ch] : ch \in tx[c].who}
<1>1. cases' = cases \cup New
  BY DEF CommitCase
<1>2. CASE tx[c].who = {}
  BY <1>1, <1>2
<1>3. CASE tx[c].who # {}
  <2>1. CaseIds(New) = {tx[c].id}
    <3>1. \A row \in New : row.id = tx[c].id
      OBVIOUS
    <3>2. PICK t \in tx[c].who : TRUE
      BY <1>3
    <3>3. [id |-> tx[c].id, cmd |-> c, target |-> t] \in New
      BY <3>2
    <3>4. New # {}
      BY <3>3
    <3> HIDE DEF New
    <3> QED  BY <3>1, <3>4 DEF CaseIds
  <2>2. CaseIds(cases') = CaseIds(cases) \cup CaseIds(New)
    BY <1>1 DEF CaseIds
  <2> QED  BY <2>1, <2>2
<1> QED  BY <1>2, <1>3

LEMMA NumbersInit == Init => NumbersInv
<1> SUFFICES ASSUME Init PROVE NumbersInv
  OBVIOUS
<1>1. LastCaseId(cases) \in Nat /\ CaseIds(cases) = 1 .. LastCaseId(cases)
  BY ChannelsAssumption DEF Init, Contiguous
<1>2. \A c \in Cmds : tx[c] = NoTx
  BY DEF Init
<1> QED  BY <1>1, <1>2 DEF NumbersInv

LEMMA NumbersStep == TypeOK /\ NumbersInv /\ [Next]_vars => NumbersInv'
<1> SUFFICES ASSUME TypeOK, NumbersInv, [Next]_vars PROVE NumbersInv'
  OBVIOUS
<1> DEFINE k == LastCaseId(cases)
<1>k. k \in Nat /\ CaseIds(cases) = 1 .. k
  BY LastCaseIdType
<1>b. \A row \in cases : row.id \in 1 .. k
  BY <1>k DEF CaseIds
<1>1. CASE KeptOrOpened
  <2>1. LastCaseId(cases') = k /\ CaseIds(cases') = 1 .. k
    BY <1>1, <1>k DEF KeptOrOpened
  <2>2. ASSUME NEW d \in Cmds, tx'[d] # NoTx
        PROVE  /\ tx'[d].id \in 1 .. (LastCaseId(cases') + 1)
               /\ \A row \in cases' : row.cmd = d => row.id < tx'[d].id
    <3>1. CASE tx'[d] = tx[d]
      BY <1>1, <2>1, <2>2, <3>1 DEF KeptOrOpened, NumbersInv
    <3>2. CASE tx'[d].id = k + 1
      <4> HIDE DEF k
      <4> QED  BY <1>1, <1>k, <1>b, <2>1, <3>2 DEF KeptOrOpened
    <3> QED  BY <1>1, <2>2, <3>1, <3>2 DEF KeptOrOpened, Opened
  <2> QED  BY <1>k, <2>1, <2>2 DEF NumbersInv
<1>2. ASSUME NEW c \in Cmds, CommitCase(c) PROVE NumbersInv'
  <2>1. tx[c].id \in 1 .. (k + 1)
    BY <1>2 DEF CommitCase, NumbersInv
  <2>2. PICK j \in Nat : j >= k /\ CaseIds(cases') = 1 .. j
    <3> HIDE DEF k
    <3>1. CASE cases' = cases
      BY <1>k, <3>1
    <3>2. CASE CaseIds(cases') = CaseIds(cases) \cup {tx[c].id}
      <4>1. PICK j \in Nat : j >= k /\ (1 .. k) \cup {tx[c].id} = 1 .. j
        BY <1>k, <2>1, ContiguousGrows
      <4> QED  BY <1>k, <3>2, <4>1
    <3> QED  BY <1>2, <3>1, <3>2, CommitAddsNumber
  <2>3. LastCaseId(cases') = j
    BY <2>2, LastOfContiguous
  <2>4. ASSUME NEW d \in Cmds, tx'[d] # NoTx
        PROVE  /\ tx'[d].id \in 1 .. (LastCaseId(cases') + 1)
               /\ \A row \in cases' : row.cmd = d => row.id < tx'[d].id
    <3>1. d # c /\ tx'[d] = tx[d]
      BY <1>2, <2>4 DEF CommitCase, TypeOK
    <3>2. /\ tx[d].id \in 1 .. (k + 1)
          /\ \A row \in cases : row.cmd = d => row.id < tx[d].id
      BY <2>4, <3>1 DEF NumbersInv
    <3>3. \A row \in cases' : row.cmd = d => row \in cases
      BY <1>2, <3>1 DEF CommitCase
    <3> HIDE DEF k
    <3> QED  BY <1>k, <2>2, <2>3, <3>1, <3>2, <3>3
  <2> QED  BY <2>2, <2>4 DEF NumbersInv
<1> QED  BY <1>1, <1>2, TransactionSteps

\* A commit is a Record of the ledger, or changes nothing; no other step
\* touches the table.
LEMMA LedgerStep == TypeOK /\ NumbersInv /\ [Next]_vars => [Ledger!Next]_cases
<1> SUFFICES ASSUME TypeOK, NumbersInv, [Next]_vars PROVE [Ledger!Next]_cases
  OBVIOUS
<1>1. CASE KeptOrOpened
  BY <1>1 DEF KeptOrOpened
<1>2. ASSUME NEW c \in Cmds, CommitCase(c) PROVE [Ledger!Next]_cases
  <2> DEFINE n == tx[c].id
  <2>1. n \in 1 .. (LastCaseId(cases) + 1) /\ Ledger!Fresh(c, n)
    BY <1>2 DEF CommitCase, NumbersInv, Ledger!Fresh
  <2>2. tx[c].who \subseteq Subjects
    BY DEF TypeOK, Subjects
  <2>3. cases' = cases \cup {[id |-> n, cmd |-> c, target |-> t] : t \in tx[c].who}
    BY <1>2 DEF CommitCase
  <2>4. CASE tx[c].who = {}
    BY <2>3, <2>4
  <2>5. CASE tx[c].who # {}
    <3>1. tx[c].who \in (SUBSET (Channels \cup {NoChannel})) \ {{}}
      BY <2>2, <2>5 DEF Subjects
    <3>2. Ledger!Record(c, n)
      BY <2>1, <2>3, <3>1 DEF Ledger!Record
    <3>3. Ledger!LastCaseId(cases) = LastCaseId(cases)
      BY DEF Ledger!LastCaseId, LastCaseId, Ledger!CaseIds, CaseIds
    <3> QED  BY <2>1, <3>2, <3>3 DEF Ledger!Next
  <2> QED  BY <2>4, <2>5
<1> QED  BY <1>1, <1>2, TransactionSteps

-----------------------------------------------------------------------------
(***************************************************************************)
(* How threads and edits move.                                             *)
(***************************************************************************)
BadEnds == {"raised", "segv", "dead"}

\* From one point of the program to the next.
Moves(d) ==
    \/ pc[d] = "idle" /\ pc'[d] = "gate"
    \/ pc[d] = "gate" /\ pc'[d] \in {"fetch", "cancelled"}
    \/ pc[d] = "fetch" /\ pc'[d] \in {"calls", "errors"}
    \/ pc[d] = "calls" /\ pc'[d] = "errors"
    \/ pc[d] = "errors" /\ pc'[d] \in {"flag", "decide"}
    \/ pc[d] = "flag" /\ pc'[d] = "decide"
    \/ pc[d] = "decide" /\ pc'[d] \in {"collect", "reply"}
    \/ pc[d] = "collect" /\ pc'[d] = IF Lockdown(d) THEN "case" ELSE "modlog"
    \/ pc[d] = "case" /\ pc'[d] = "modlog" /\ tx'[d] = NoTx
    \/ pc[d] = "modlog" /\ ~Lockdown(d) /\ pc'[d] = "reply"
    \/ pc[d] = "reply" /\ pc'[d] \in {"log", "done"}
    \/ pc[d] = "log" /\ pc'[d] = "done"

EndsBadly(d) == pc[d] # "idle" /\ pc'[d] \in BadEnds /\ (pc[d] = "case" => tx'[d] = NoTx)

Steps(d) == pc'[d] = pc[d] \/ EndsBadly(d) \/ Moves(d)

LEMMA GotoSteps ==
    ASSUME TypeOK, NEW c \in Cmds, NEW where, Goto(c, where)
    PROVE  pc'[c] = where /\ \A d \in Cmds \ {c} : pc'[d] = pc[d]
BY DEF Goto, TypeOK

LEMMA DeathSteps ==
    ASSUME TypeOK, NEW culprits, ProcessDies(culprits), \A c \in culprits : pc[c] # "idle"
    PROVE  \A d \in Cmds : Steps(d)
BY DEF ProcessDies, Steps, EndsBadly, BadEnds

LEMMA RaiseSteps ==
    ASSUME TypeOK, NEW c \in Cmds, pc[c] \notin {"idle", "case"},
           Raise(c) \/ NullDereference(c)
    PROVE  \A d \in Cmds : Steps(d)
<1>1. CASE Goto(c, "raised")
  BY <1>1, GotoSteps DEF Steps, EndsBadly, BadEnds
<1>2. CASE ProcessDies({}) \/ ProcessDies({c})
  BY <1>2, DeathSteps
<1> QED  BY <1>1, <1>2 DEF Raise, NullDereference

LEMMA ThreadSteps ==
    ASSUME TypeOK, [Next]_vars
    PROVE  \A d \in Cmds : Steps(d)
<1>0. ASSUME NEW c \in Cmds, NEW where, Goto(c, where),
             \/ pc[c] = "idle" /\ where = "gate"
             \/ pc[c] = "gate" /\ where \in {"fetch", "cancelled"}
             \/ pc[c] = "fetch" /\ where \in {"calls", "errors"}
             \/ pc[c] = "calls" /\ where = "errors"
             \/ pc[c] = "errors" /\ where \in {"flag", "decide"}
             \/ pc[c] = "flag" /\ where = "decide"
             \/ pc[c] = "decide" /\ where \in {"collect", "reply"}
             \/ pc[c] = "collect" /\ Lockdown(c) /\ where = "case"
             \/ pc[c] = "collect" /\ ~Lockdown(c) /\ where = "modlog"
             \/ pc[c] = "case" /\ where = "modlog" /\ tx'[c] = NoTx
             \/ pc[c] = "case" /\ where = "raised" /\ tx'[c] = NoTx
             \/ pc[c] = "modlog" /\ ~Lockdown(c) /\ where = "reply"
             \/ pc[c] = "reply" /\ where \in {"log", "done"}
             \/ pc[c] = "log" /\ where = "done"
      PROVE  \A d \in Cmds : Steps(d)
  <2>1. pc'[c] = where /\ \A d \in Cmds \ {c} : pc'[d] = pc[d]
    BY <1>0, GotoSteps
  <2>2. Moves(c) \/ EndsBadly(c)
    BY <1>0, <2>1 DEF Moves, EndsBadly, BadEnds
  <2> QED  BY <2>1, <2>2 DEF Steps
<1>s. UNCHANGED pc => \A d \in Cmds : Steps(d)
  BY DEF Steps
<1>1. ASSUME NEW c \in Cmds,
             Invoke(c) \/ check_permissions(c) \/ process_channels(c)
               \/ \E ch \in Channels : channel_edit_permissions(c, ch)
      PROVE  \A d \in Cmds : Steps(d)
  <2>1. CASE Invoke(c)
    BY <1>0, <2>1 DEF Invoke
  <2>2. CASE check_permissions(c)
    <3>1. CASE NullDereference(c)
      BY <2>2, <3>1, RaiseSteps DEF check_permissions
    <3>2. CASE Goto(c, "fetch") \/ Goto(c, "cancelled")
      BY <1>0, <2>2, <3>2 DEF check_permissions
    <3> QED  BY <2>2, <3>1, <3>2 DEF check_permissions, CancelLockdown, CancelLock
  <2>3. CASE process_channels(c)
    <3>1. CASE Raise(c) \/ NullDereference(c)
      BY <2>3, <3>1, RaiseSteps DEF process_channels
    <3>2. CASE Goto(c, "calls") \/ Goto(c, "errors")
      BY <1>0, <2>3, <3>2 DEF process_channels
    <3> QED
      BY <2>3, <3>1, <3>2 DEF process_channels, process_locks, process_unlocks,
         process_lockdown, process_lockdown_removal, FetchList
  <2>4. ASSUME NEW ch \in Channels, channel_edit_permissions(c, ch)
        PROVE  \A d \in Cmds : Steps(d)
    BY <1>0, <1>s, <2>4 DEF channel_edit_permissions
  <2> QED  BY <1>1, <2>1, <2>2, <2>3, <2>4
<1>2. ASSUME NEW c \in Cmds,
             SnapshotErrors(c) \/ FlagErrors(c) \/ Decide(c) \/ Collect(c)
               \/ Modlogs(c) \/ Answer(c) \/ log_command_invoke(c)
      PROVE  \A d \in Cmds : Steps(d)
  <2>1. CASE SnapshotErrors(c)
    BY <1>0, <2>1 DEF SnapshotErrors
  <2>2. CASE FlagErrors(c)
    <3>1. CASE Raise(c) \/ NullDereference(c)
      BY <2>2, <3>1, RaiseSteps DEF FlagErrors
    <3>2. CASE Goto(c, "decide")
      BY <1>0, <2>2, <3>2 DEF FlagErrors
    <3> QED
      BY <2>2, <3>1, <3>2 DEF FlagErrors, ShowErrors, ErrorWebhook, ErrorLog, Paginate
  <2>3. CASE Decide(c)
    BY <1>0, <2>3 DEF Decide
  <2>4. CASE Collect(c)
    <3>1. CASE Raise(c)
      BY <2>4, <3>1, RaiseSteps DEF Collect
    <3>2. CASE CollectLocked(c) \/ CollectUnlocked(c)
      <4>1. ~Lockdown(c) /\ Goto(c, "modlog") /\ pc[c] = "collect"
        BY <2>4, <3>2 DEF Collect, CollectLocked, CollectUnlocked, Lockdown
      <4> QED  BY <1>0, <4>1
    <3>3. CASE Lockdown(c) /\ Goto(c, "case")
      BY <1>0, <2>4, <3>3 DEF Collect
    <3> QED  BY <2>4, <3>1, <3>2, <3>3 DEF Collect, CollectLockdown
  <2>5. CASE Modlogs(c)
    <3>1. CASE Raise(c)
      BY <2>5, <3>1, RaiseSteps DEF Modlogs
    <3>2. CASE LogLock(c) /\ Goto(c, "reply")
      <4>1. ~Lockdown(c) /\ pc[c] = "modlog"
        BY <2>5, <3>2 DEF Modlogs, LogLock, Lockdown
      <4> QED  BY <1>0, <3>2, <4>1
    <3> QED  BY <2>5, <3>1, <3>2 DEF Modlogs, LogLock, LogLockdown
  <2>6. CASE Answer(c)
    <3>1. CASE NullDereference(c)
      BY <2>6, <3>1, RaiseSteps DEF Answer
    <3>2. CASE Goto(c, "log") \/ Goto(c, "done")
      BY <1>0, <2>6, <3>2 DEF Answer
    <3> QED  BY <2>6, <3>1, <3>2 DEF Answer, Paginate
  <2>7. CASE log_command_invoke(c)
    <3>1. CASE Raise(c)
      BY <2>7, <3>1, RaiseSteps DEF log_command_invoke
    <3>2. CASE Goto(c, "done")
      BY <1>0, <2>7, <3>2 DEF log_command_invoke
    <3> QED  BY <2>7, <3>1, <3>2 DEF log_command_invoke
  <2> QED  BY <1>2, <2>1, <2>2, <2>3, <2>4, <2>5, <2>6, <2>7
<1>3. ASSUME NEW c \in Cmds, Modcase(c) PROVE \A d \in Cmds : Steps(d)
  <2>1. CASE ProcessDies({})
    BY <2>1, DeathSteps
  <2>2. CASE tx' = [tx EXCEPT ![c] = NoTx] /\ pc[c] = "case"
             /\ (Goto(c, "modlog") \/ Goto(c, "raised"))
    <3>1. tx'[c] = NoTx
      BY <2>2 DEF TypeOK
    <3> QED  BY <1>0, <2>2, <3>1
  <2> QED  BY <1>3, <1>s, <2>1, <2>2 DEF Modcase, CommitCase, AbortCase
<1>4. ASSUME NEW c \in Cmds, NEW ch \in Channels, Discord(c, ch) \/ lambda_callback(c, ch)
      PROVE  \A d \in Cmds : Steps(d)
  <2>1. UNCHANGED pc \/ ProcessDies({})
    BY <1>4 DEF Discord, DiscordApplies, DiscordRefuses, lambda_callback, EditSucceeds,
       EditFails, LateCallback, OpenCase, RaiseInCallback
  <2> QED  BY <1>s, <2>1, DeathSteps
<1>5. EditGuild \/ Kill \/ UNCHANGED vars => \A d \in Cmds : Steps(d)
  BY <1>s, DeathSteps DEF EditGuild, Kill, vars
<1> QED  BY <1>1, <1>2, <1>3, <1>4, <1>5 DEF Next, wrapper_function

\* The channels of a command are set once, between its gate and its edits.
SetsOut(d) ==
    /\ pc[d] = "fetch" /\ pc'[d] # "fetch"
    /\ found'[d] # {}
    /\ NoChannel \in found'[d] => Lockdown(d) /\ found'[d] = {NoChannel}

LEMMA FoundSteps ==
    ASSUME TypeOK, [Next]_vars
    PROVE  /\ req' = req
           /\ \A d \in Cmds :
                \/ found'[d] = found[d] /\ ~(pc[d] = "fetch" /\ pc'[d] \in RunningAt)
                \/ SetsOut(d)
<1>1. ASSUME NEW c \in Cmds, process_channels(c)
      PROVE  \A d \in Cmds :
                \/ found'[d] = found[d] /\ ~(pc[d] = "fetch" /\ pc'[d] \in RunningAt)
                \/ SetsOut(d)
  <2>1. CASE found' = [found EXCEPT ![c] = Named(c)] /\ ~Lockdown(c)
             /\ Goto(c, "calls")
    <3>0. pc'[c] = "calls" /\ found'[c] = Named(c) /\ pc[c] = "fetch"
      BY <1>1, <2>1, GotoSteps DEF process_channels, TypeOK
    <3>1. SetsOut(c)
      BY <3>0, RequestTypes, ChannelFacts DEF SetsOut, TypeOK
    <3>2. \A d \in Cmds \ {c} : found'[d] = found[d] /\ pc'[d] = pc[d]
      BY <2>1, GotoSteps DEF TypeOK
    <3> QED  BY <3>1, <3>2 DEF RunningAt
  <2>2. CASE FetchList(c) /\ Lockdown(c)
    <3>1. CASE Raise(c) \/ NullDereference(c)
      <4>1. \A d \in Cmds : pc'[d] = "fetch" \/ pc'[d] \notin RunningAt \/ pc'[d] = pc[d]
        BY <3>1, GotoSteps DEF Raise, NullDereference, ProcessDies, RunningAt
      <4>2. found' = found
        BY <1>1, <2>2, <3>1 DEF FetchList, process_channels, Goto, Raise, NullDereference,
           ProcessDies, TypeOK
      <4> QED  BY <4>1, <4>2 DEF RunningAt
    <3>2. CASE \E where \in {"calls", "errors"} : Goto(c, where)
               /\ found' = [found EXCEPT ![c] = IF lockdown \cap Channels = {}
                                              THEN {NoChannel} ELSE lockdown \cap Channels]
      <4>1. \A d \in Cmds \ {c} : found'[d] = found[d] /\ pc'[d] = pc[d]
        BY <3>2, GotoSteps DEF TypeOK
      <4>2. pc'[c] \in {"calls", "errors"} /\ pc[c] = "fetch"
        BY <1>1, <3>2, GotoSteps DEF process_channels
      <4>3. found'[c] = IF lockdown \cap Channels = {}
                        THEN {NoChannel} ELSE lockdown \cap Channels
        BY <3>2 DEF TypeOK
      <4>4. SetsOut(c)
        BY <2>2, <4>2, <4>3, ChannelFacts DEF SetsOut
      <4> QED  BY <4>1, <4>4 DEF RunningAt
    <3> QED  BY <2>2, <3>1, <3>2 DEF FetchList
  <2> QED
    BY <1>1, <2>1, <2>2 DEF process_channels, process_locks, process_unlocks,
       process_lockdown, process_lockdown_removal, Lockdown
<1>2. ASSUME NEW c \in Cmds, process_channels(c) PROVE req' = req
  BY <1>2 DEF process_channels
<1>3. CASE \A c \in Cmds : ~process_channels(c)
  <2>1. UNCHANGED <<req, found>>
    <3>1. ASSUME NEW c \in Cmds, Invoke(c) \/ wrapper_function(c) \/ Modcase(c)
          PROVE  UNCHANGED <<req, found>>
      BY <1>3, <3>1 DEF Invoke, wrapper_function, check_permissions,
         channel_edit_permissions, SnapshotErrors, FlagErrors, Decide, Collect, Modlogs,
         Answer, log_command_invoke, Modcase, CommitCase, AbortCase
    <3>2. ASSUME NEW c \in Cmds, NEW ch \in Channels, Discord(c, ch) \/ lambda_callback(c, ch)
          PROVE  UNCHANGED <<req, found>>
      BY <3>2 DEF Discord, DiscordApplies, DiscordRefuses, lambda_callback, EditSucceeds,
         EditFails, LateCallback
    <3> QED  BY <3>1, <3>2 DEF Next, EditGuild, Kill, vars
  <2>2. \A d \in Cmds : pc[d] = "fetch" => pc'[d] \notin RunningAt
    <3>1. ASSUME NEW c \in Cmds, NEW where, Goto(c, where), pc[c] # "fetch"
          PROVE  \A d \in Cmds : pc[d] = "fetch" => pc'[d] \notin RunningAt
      BY <3>1, GotoSteps DEF RunningAt
    <3>2. ASSUME UNCHANGED pc
          PROVE  \A d \in Cmds : pc[d] = "fetch" => pc'[d] \notin RunningAt
      BY <3>2 DEF RunningAt
    <3>3. ASSUME NEW culprits, ProcessDies(culprits)
          PROVE  \A d \in Cmds : pc[d] = "fetch" => pc'[d] \notin RunningAt
      BY <3>3 DEF ProcessDies, RunningAt
    <3>4. ASSUME NEW c \in Cmds, pc[c] # "fetch", Raise(c) \/ NullDereference(c)
          PROVE  \A d \in Cmds : pc[d] = "fetch" => pc'[d] \notin RunningAt
      BY <3>1, <3>3, <3>4 DEF Raise, NullDereference
    <3>5. ASSUME NEW c \in Cmds, Invoke(c) \/ wrapper_function(c)
          PROVE  \/ UNCHANGED pc
                 \/ pc[c] # "fetch" /\ (Raise(c) \/ NullDereference(c) \/ \E where : Goto(c, where))
      <4>1. pc[c] # "fetch"
        BY <1>3, <3>5 DEF Invoke, wrapper_function, check_permissions,
           channel_edit_permissions, SnapshotErrors, FlagErrors, Decide, Collect, Modlogs,
           Answer, log_command_invoke
      <4>2. UNCHANGED pc \/ Raise(c) \/ NullDereference(c) \/ \E where : Goto(c, where)
        BY <1>3, <3>5 DEF Invoke, wrapper_function, check_permissions, CancelLockdown,
           CancelLock, channel_edit_permissions, SnapshotErrors, FlagErrors, ShowErrors,
           ErrorWebhook, ErrorLog, Decide, Collect, CollectLocked, CollectUnlocked,
           CollectLockdown, Modlogs, LogLock, LogLockdown, Answer, Paginate,
           log_command_invoke
      <4> QED  BY <4>1, <4>2
    <3>6. ASSUME NEW c \in Cmds, Modcase(c)
          PROVE  \A d \in Cmds : pc[d] = "fetch" => pc'[d] \notin RunningAt
      <4>1. \/ UNCHANGED pc \/ ProcessDies({})
            \/ pc[c] = "case" /\ \E where : Goto(c, where)
        BY <3>6 DEF Modcase, CommitCase, AbortCase
      <4> QED  BY <3>1, <3>2, <3>3, <4>1
    <3>7. ASSUME NEW c \in Cmds, NEW ch \in Channels, Discord(c, ch) \/ lambda_callback(c, ch)
          PROVE  UNCHANGED pc \/ ProcessDies({})
      BY <3>7 DEF Discord, DiscordApplies, DiscordRefuses, lambda_callback, EditSucceeds,
         EditFails, LateCallback, OpenCase, RaiseInCallback
    <3>8. EditGuild \/ Kill \/ UNCHANGED vars => UNCHANGED pc \/ ProcessDies({})
      BY DEF EditGuild, Kill, vars
    <3> QED  BY <3>1, <3>2, <3>3, <3>4, <3>5, <3>6, <3>7, <3>8 DEF Next
  <2> QED  BY <2>1, <2>2
<1> QED  BY <1>1, <1>2, <1>3

\* An edit is made of a channel the command set out with; its outcome is final.
CallMoves(d, ch) ==
    /\ call'[d][ch] # "none" /\ call[d][ch] \notin {"ok", "err", "late"}
    /\ ch \in found[d]
    /\ call[d][ch] \in {"none", "queued"} => call'[d][ch] # "ok"
    /\ call[d][ch] # "none" => call'[d][ch] # "queued"

LEMMA CallSteps ==
    ASSUME TypeOK, SetOutInv, [Next]_vars
    PROVE  \A d \in Cmds, ch \in Channels :
              call'[d][ch] = call[d][ch] \/ CallMoves(d, ch)
<1>0. ASSUME NEW c \in Cmds, NEW ch \in Channels, NEW s,
             call' = [call EXCEPT ![c][ch] = s], s # "none",
             call[c][ch] \notin {"ok", "err", "late"}, ch \in found[c],
             call[c][ch] \in {"none", "queued"} => s # "ok",
             call[c][ch] # "none" => s # "queued"
      PROVE  \A d \in Cmds, other \in Channels :
                call'[d][other] = call[d][other] \/ CallMoves(d, other)
  BY <1>0 DEF CallMoves, TypeOK
<1>1. ASSUME NEW c \in Cmds, NEW ch \in Channels,
             channel_edit_permissions(c, ch) \/ Discord(c, ch) \/ lambda_callback(c, ch)
      PROVE  \A d \in Cmds, other \in Channels :
                call'[d][other] = call[d][other] \/ CallMoves(d, other)
  <2>1. ch \in found[c]
    BY <1>1 DEF channel_edit_permissions, Discord, DiscordApplies, DiscordRefuses,
       lambda_callback, EditSucceeds, EditFails, LateCallback, SetOutInv, SetOut
  <2>2. \E s : /\ call' = [call EXCEPT ![c][ch] = s] /\ s # "none"
               /\ call[c][ch] \notin {"ok", "err", "late"}
               /\ call[c][ch] \in {"none", "queued"} => s # "ok"
               /\ call[c][ch] # "none" => s # "queued"
    BY <1>1 DEF channel_edit_permissions, Discord, DiscordApplies, DiscordRefuses,
       lambda_callback, EditSucceeds, EditFails, LateCallback
  <2> QED  BY <1>0, <2>1, <2>2
<1>2. ASSUME NEW c \in Cmds, Invoke(c) \/ wrapper_function(c) \/ Modcase(c),
             \A ch \in Channels : ~channel_edit_permissions(c, ch)
      PROVE  UNCHANGED call
  BY <1>2 DEF Invoke, wrapper_function, check_permissions, process_channels,
     SnapshotErrors, FlagErrors, Decide, Collect, Modlogs, Answer, log_command_invoke,
     Modcase, CommitCase, AbortCase
<1>3. EditGuild \/ Kill \/ UNCHANGED vars => UNCHANGED call
  BY DEF EditGuild, Kill, vars
<1> QED  BY <1>1, <1>2, <1>3 DEF Next

LEMMA SetOutInit == Init => SetOutInv
BY DEF Init, SetOutInv, SetOut, Running, RunningAt

LEMMA SetOutStep == TypeOK /\ SetOutInv /\ [Next]_vars => SetOutInv'
<1> SUFFICES ASSUME TypeOK, SetOutInv, [Next]_vars, NEW d \in Cmds PROVE SetOut(d)'
  BY DEF SetOutInv
<1>1. SetOut(d) /\ Steps(d)
  BY ThreadSteps DEF SetOutInv
<1>2. /\ pc'[d] \in {"idle", "gate", "fetch"} => pc[d] \in {"idle", "gate", "fetch"}
      /\ pc'[d] \in RunningAt => pc[d] \in RunningAt \cup {"fetch"}
  BY <1>1 DEF Steps, EndsBadly, BadEnds, Moves, RunningAt
<1>3. SetsOut(d) => pc'[d] \notin {"idle", "gate", "fetch"}
  BY <1>1 DEF SetsOut, Steps, EndsBadly, BadEnds, Moves
<1>4. req' = req
  BY FoundSteps
<1>5. CASE found'[d] = found[d] /\ ~(pc[d] = "fetch" /\ pc'[d] \in RunningAt)
  <2>1. pc'[d] \in {"idle", "gate", "fetch"} => found'[d] = {}
    BY <1>1, <1>2, <1>5 DEF SetOut
  <2>2. pc'[d] \in RunningAt => found'[d] # {}
    BY <1>1, <1>2, <1>5 DEF SetOut, Running
  <2>3. NoChannel \in found'[d] => Lockdown(d)' /\ found'[d] = {NoChannel}
    BY <1>1, <1>4, <1>5 DEF SetOut, Lockdown, Kind
  <2>4. \A ch \in Channels : call'[d][ch] # "none" => ch \in found'[d]
    BY <1>1, <1>5, CallSteps DEF SetOut, CallMoves
  <2> QED  BY <2>1, <2>2, <2>3, <2>4 DEF SetOut, Running
<1>6. CASE SetsOut(d)
  <2>1. found[d] = {}
    BY <1>1, <1>6 DEF SetOut, SetsOut
  <2>2. \A ch \in Channels : call'[d][ch] = "none"
    BY <1>1, <2>1, CallSteps DEF SetOut, CallMoves
  <2> QED
    BY <1>3, <1>4, <1>6, <2>2 DEF SetOut, SetsOut, Running, Lockdown, Kind
<1> QED  BY <1>5, <1>6, FoundSteps

Base == TypeOK /\ NumbersInv /\ SetOutInv

LEMMA BaseInductive == Spec => []Base
<1>1. Init => Base
  BY TypeInit, NumbersInit, SetOutInit DEF Base
<1>2. Base /\ [Next]_vars => Base'
  BY TypeStep, NumbersStep, SetOutStep DEF Base
<1> QED  BY <1>1, <1>2, PTL DEF Spec

\* Every variable keeps its type, for any number of commands and channels.
THEOREM TypeCorrect == Spec => []TypeOK
<1>1. Base => TypeOK
  BY DEF Base
<1> QED  BY <1>1, BaseInductive, PTL

\* The table that locks, unlocks and lockdowns write together is the append-only
\* ledger, whatever their transactions and callbacks do.
THEOREM ImplementsLedger == Spec => LedgerSpec
<1>1. Init => Ledger!Init
  BY DEF Init, Ledger!Init
<1>2. Base /\ [Next]_vars => [Ledger!Next]_cases
  BY LedgerStep DEF Base
<1> QED  BY <1>1, <1>2, BaseInductive, PTL DEF Spec, LedgerSpec, Ledger!Spec

-----------------------------------------------------------------------------
(***************************************************************************)
(* Hidden answers.                                                         *)
(***************************************************************************)
\* Every edit of the command has failed: nothing can change that.
Hopeless(c) == found[c] # {} /\ \A ch \in Channels \cap found[c] : call[c][ch] = "err"

\* Though the errors are counted against the channels, and unlock counts none of
\* them: the counts agree only when all have failed.
LEMMA AllErrorsIsHopeless ==
    ASSUME Base, NEW c \in Cmds, Running(c), are_all_errors(c)
    PROVE  Hopeless(c)
<1> USE DEF Base
<1>1. SetOut(c) /\ found[c] # {}
  BY DEF SetOutInv, SetOut
<1>2. found[c] \subseteq Channels \cup {NoChannel}
  BY DEF TypeOK
<1>3. IsFiniteSet(found[c])
  <2>1. IsFiniteSet(Channels \cup {NoChannel})
    BY ChannelFacts, FS_AddElement
  <2> QED  BY <1>2, <2>1, FS_Subset
<1>4. CASE Kind(c) = "unlock"
  <2>0. channels_with_errors(c) = {}
    BY <1>1, <1>4 DEF channels_with_errors, SetOut, Lockdown
  <2>1. Cardinality(found[c]) = 0
    BY <2>0, FS_EmptySet DEF are_all_errors
  <2> QED  BY <1>1, <1>3, <2>1, FS_EmptySet
<1>5. CASE found[c] = {NoChannel}
  BY <1>1, <1>5, ChannelFacts DEF Hopeless
<1>6. CASE Kind(c) # "unlock" /\ found[c] # {NoChannel}
  <2> DEFINE E == {ch \in Channels : call[c][ch] = "err"}
  <2>1. E \subseteq found[c]
    BY <1>1 DEF SetOut
  <2>2. Cardinality(E) = Cardinality(found[c])
    BY <1>6 DEF are_all_errors, channels_with_errors
  <2>3. E = found[c]
    BY <1>3, <2>1, <2>2, FS_Subset
  <2> QED  BY <1>1, <2>3 DEF Hopeless
<1> QED  BY <1>4, <1>5, <1>6

LEMMA HopelessStays ==
    ASSUME Base, [Next]_vars, NEW c \in Cmds, Hopeless(c)
    PROVE  Hopeless(c)'
<1>1. found'[c] = found[c]
  BY FoundSteps DEF Base, SetOutInv, SetOut, SetsOut, Hopeless
<1>2. \A ch \in Channels \cap found[c] : call'[c][ch] = "err"
  BY CallSteps DEF Base, CallMoves, Hopeless
<1> QED  BY <1>1, <1>2 DEF Hopeless

ResponseInv ==
    \A c \in Cmds :
        /\ msg[c].ephemeral => Hopeless(c)
        /\ reply[c].from \in {"errors", "final"} /\ reply[c].body.ephemeral => Hopeless(c)

LEMMA ResponseStep == Base /\ ResponseInv /\ [Next]_vars => ResponseInv'
<1> SUFFICES ASSUME Base, ResponseInv, [Next]_vars PROVE ResponseInv'
  OBVIOUS
<1>t. TypeOK
  BY DEF Base
<1>1. ASSUME /\ \A c \in Cmds : msg'[c].ephemeral => msg[c].ephemeral \/ Hopeless(c)
             /\ \A c \in Cmds :
                  reply'[c].from \in {"errors", "final"} /\ reply'[c].body.ephemeral =>
                     \/ Hopeless(c)
                     \/ reply[c].from \in {"errors", "final"} /\ reply[c].body.ephemeral
      PROVE  ResponseInv'
  BY <1>1, HopelessStays DEF ResponseInv
<1>2. UNCHANGED <<msg, reply>> => ResponseInv'
  BY <1>1
<1>3. ASSUME NEW c \in Cmds, check_permissions(c) PROVE ResponseInv'
  <2>1. UNCHANGED reply \/ \E body : Show(c, "gate", body)
    BY <1>3 DEF check_permissions, CancelLock, CancelLockdown
  <2>2. \A d \in Cmds : reply'[d] = reply[d] \/ reply'[d].from = "gate"
    BY <1>t, <2>1 DEF Show, TypeOK
  <2> QED  BY <1>1, <1>3, <2>2 DEF check_permissions
<1>4. ASSUME NEW c \in Cmds, process_channels(c) \/ SnapshotErrors(c) \/ Collect(c)
      PROVE  ResponseInv'
  <2>1. \A d \in Cmds : msg'[d].ephemeral = msg[d].ephemeral
    <3>1. \/ UNCHANGED msg
          \/ \E body : /\ msg' = [msg EXCEPT ![c] = body]
                        /\ body.ephemeral = msg[c].ephemeral
      <4>1. msg[c] \in Body
        BY <1>t, BodyTypes
      <4>2. /\ \A s : [msg[c] EXCEPT !.errs = s].ephemeral = msg[c].ephemeral
            /\ \A s : [msg[c] EXCEPT !.success = TRUE, !.claimed = s].ephemeral
                       = msg[c].ephemeral
            /\ [msg[c] EXCEPT !.success = TRUE].ephemeral = msg[c].ephemeral
        BY <4>1 DEF Body, MessageAbout
      <4>3. \/ UNCHANGED msg
            \/ \E s : msg' = [msg EXCEPT ![c] = [msg[c] EXCEPT !.errs = s]]
            \/ \E s : msg' = [msg EXCEPT ![c] = [msg[c] EXCEPT !.success = TRUE,
                                                              !.claimed = s]]
            \/ msg' = [msg EXCEPT ![c] = [msg[c] EXCEPT !.success = TRUE]]
        <5>1. process_channels(c) =>
                 UNCHANGED msg
                   \/ \E s : msg' = [msg EXCEPT ![c] = [msg[c] EXCEPT !.errs = s]]
          BY DEF process_channels, process_locks, process_unlocks, process_lockdown,
             process_lockdown_removal, FetchList
        <5>2. SnapshotErrors(c) =>
                 \E s : msg' = [msg EXCEPT ![c] = [msg[c] EXCEPT !.errs = s]]
          BY DEF SnapshotErrors
        <5>3. Collect(c) =>
                 \/ UNCHANGED msg
                 \/ \E s : msg' = [msg EXCEPT ![c] = [msg[c] EXCEPT !.success = TRUE,
                                                                   !.claimed = s]]
                 \/ msg' = [msg EXCEPT ![c] = [msg[c] EXCEPT !.success = TRUE]]
          BY DEF Collect, CollectLocked, CollectUnlocked, CollectLockdown
        <5> QED  BY <1>4, <5>1, <5>2, <5>3
      <4> QED  BY <4>2, <4>3
    <3> QED  BY <1>t, <3>1 DEF TypeOK
  <2>2. UNCHANGED reply
    BY <1>4 DEF process_channels, SnapshotErrors, Collect
  <2> QED  BY <1>1, <2>1, <2>2
<1>5. ASSUME NEW c \in Cmds, FlagErrors(c) PROVE ResponseInv'
  <2>1. CASE ShowErrors(c)
    <3> DEFINE shown == [msg[c] EXCEPT !.ephemeral = are_all_errors(c)]
    <3>1. msg' = [msg EXCEPT ![c] = shown] /\ Show(c, "errors", shown)
      BY <2>1 DEF ShowErrors, Paginate
    <3>2. shown.ephemeral = are_all_errors(c)
      BY <1>t, BodyTypes DEF Body, MessageAbout
    <3>3. are_all_errors(c) => Hopeless(c)
      BY <1>5, AllErrorsIsHopeless DEF FlagErrors, Running, RunningAt
    <3>4. /\ msg'[c] = shown /\ reply'[c].body = shown
          /\ \A d \in Cmds \ {c} : msg'[d] = msg[d] /\ reply'[d] = reply[d]
      BY <1>t, <3>1 DEF Show, TypeOK
    <3> HIDE DEF shown
    <3> QED  BY <1>1, <3>2, <3>3, <3>4
  <2>2. CASE ErrorWebhook(c) \/ ErrorLog(c)
    BY <1>2, <2>2 DEF ErrorWebhook, ErrorLog
  <2> QED  BY <1>5, <2>1, <2>2 DEF FlagErrors
<1>6. ASSUME NEW c \in Cmds, Answer(c) PROVE ResponseInv'
  <2>1. Show(c, "final", msg[c]) /\ UNCHANGED msg
    BY <1>6 DEF Answer, Paginate
  <2>2. /\ reply'[c].body = msg[c]
        /\ \A d \in Cmds \ {c} : reply'[d] = reply[d]
    BY <1>t, <2>1 DEF Show, TypeOK
  <2> QED  BY <1>1, <2>1, <2>2 DEF ResponseInv
<1>7. ASSUME NEW c \in Cmds,
             \/ Invoke(c) \/ Decide(c) \/ Modlogs(c) \/ log_command_invoke(c) \/ Modcase(c)
             \/ \E ch \in Channels : \/ channel_edit_permissions(c, ch) \/ Discord(c, ch)
                                     \/ lambda_callback(c, ch)
      PROVE  ResponseInv'
  BY <1>2, <1>7 DEF Invoke, Decide, Modlogs, log_command_invoke, Modcase, CommitCase,
     AbortCase, channel_edit_permissions, Discord, DiscordApplies, DiscordRefuses,
     lambda_callback, EditSucceeds, EditFails, LateCallback
<1>8. EditGuild \/ Kill \/ UNCHANGED vars => ResponseInv'
  BY <1>2 DEF EditGuild, Kill, vars
<1> QED
  BY <1>3, <1>4, <1>5, <1>6, <1>7, <1>8 DEF Next, wrapper_function

\* An answer that hides itself because all edits failed is right for good.
THEOREM HiddenAnswersAreFinal == Spec => []EphemeralMeansNobodySucceeds
<1>1. Init => ResponseInv
  BY DEF Init, ResponseInv, EmptyMessage
<1>2. Base /\ ResponseInv => EphemeralMeansNobodySucceeds
  BY DEF Base, SetOutInv, SetOut, ResponseInv, Hopeless, Succeeded,
     EphemeralMeansNobodySucceeds
<1> QED  BY <1>1, <1>2, ResponseStep, BaseInductive, PTL DEF Spec

-----------------------------------------------------------------------------
(***************************************************************************)
(* The cases of locks and lockdowns.                                       *)
(***************************************************************************)
RowsOf(c) == {row \in cases \ Before : row.cmd = c}

\* What an open transaction will record, and for whom nothing is recorded yet; a
\* lockdown opens its own only in its response, which its case then brings to
\* the modlog and no further.
CaseInv(c) ==
    /\ tx[c] # NoTx /\ Lockdown(c) => pc[c] = "case" /\ tx[c].who = {NoChannel}
    /\ tx[c] # NoTx /\ ~Lockdown(c) =>
          \E ch \in Channels : /\ tx[c].who = {ch} /\ call[c][ch] = "ok"
                               /\ \A row \in RowsOf(c) : row.target # ch
    /\ Lockdown(c) /\ RowsOf(c) # {} => pc[c] \in {"modlog"} \cup BadEnds

CasesInv == CasesAreEarned /\ \A c \in Cmds : CaseInv(c)

LEMMA SuccessIsFinal ==
    ASSUME Base, [Next]_vars, NEW c \in Cmds
    PROVE  Succeeded(c) \subseteq Succeeded(c)'
BY CallSteps DEF Base, CallMoves, Succeeded

LEMMA KindsStay ==
    ASSUME Base, [Next]_vars, NEW c \in Cmds
    PROVE  (Lockdown(c)' <=> Lockdown(c)) /\ (Locks(c)' <=> Locks(c))
BY FoundSteps DEF Base, Lockdown, Locks, Kind

LEMMA KeptCases ==
    ASSUME Base, CasesInv, [Next]_vars, KeptOrOpened
    PROVE  CasesInv'
<1> USE DEF Base
<1>1. cases' = cases
  BY DEF KeptOrOpened
<1>2. CasesAreEarned'
  <2>1. \A row \in cases \ Before : row.cmd \in Cmds
    BY DEF TypeOK, Row
  <2> QED
    BY <1>1, <2>1, SuccessIsFinal, KindsStay DEF CasesInv, CasesAreEarned
<1>3. ASSUME NEW d \in Cmds PROVE CaseInv(d)'
  <2>1. /\ RowsOf(d)' = RowsOf(d)
        /\ Lockdown(d)' <=> Lockdown(d)
        /\ CaseInv(d) /\ Steps(d)
    BY <1>1, KindsStay, ThreadSteps DEF RowsOf, CasesInv
  <2>2. Lockdown(d) /\ RowsOf(d) # {} => pc'[d] \in {"modlog"} \cup BadEnds
    BY <2>1 DEF CaseInv, Steps, EndsBadly, Moves, BadEnds
  <2>3. ASSUME tx'[d] # NoTx, Lockdown(d)
        PROVE  pc'[d] = "case" /\ tx'[d].who = {NoChannel}
    <3>1. CASE tx'[d] = tx[d]
      BY <2>1, <2>3, <3>1 DEF CaseInv, Steps, EndsBadly, Moves
    <3>2. CASE Opened(d)
      BY <2>3, <3>2 DEF Opened
    <3> QED  BY <2>3, <3>1, <3>2 DEF KeptOrOpened
  <2>4. ASSUME tx'[d] # NoTx, ~Lockdown(d)
        PROVE  \E ch \in Channels : /\ tx'[d].who = {ch} /\ call'[d][ch] = "ok"
                                    /\ \A row \in RowsOf(d) : row.target # ch
    <3>1. CASE tx'[d] = tx[d]
      BY <2>1, <2>4, <3>1, SuccessIsFinal DEF CaseInv, Succeeded
    <3>2. CASE Opened(d)
      <4>1. PICK ch \in Channels : /\ tx'[d].who = {ch}
                                   /\ call[d][ch] = "applied" /\ call'[d][ch] = "ok"
        BY <2>4, <3>2 DEF Opened
      <4>2. \A row \in RowsOf(d) : row.target # ch
        BY <2>4, <4>1 DEF RowsOf, CasesInv, CasesAreEarned, Succeeded
      <4> QED  BY <4>1, <4>2
    <3> QED  BY <2>4, <3>1, <3>2 DEF KeptOrOpened
  <2> QED  BY <2>1, <2>2, <2>3, <2>4 DEF CaseInv
<1> QED  BY <1>2, <1>3 DEF CasesInv

LEMMA CommittedCases ==
    ASSUME Base, CasesInv, [Next]_vars, NEW c \in Cmds, CommitCase(c)
    PROVE  CasesInv'
<1> USE DEF Base
<1> DEFINE New == {[id |-> tx[c].id, cmd |-> c, target |-> ch] : ch \in tx[c].who}
<1>1. /\ tx[c] # NoTx /\ cases' = cases \cup New
      /\ call' = call
      /\ tx'[c] = NoTx /\ \A d \in Cmds \ {c} : tx'[d] = tx[d]
  BY DEF CommitCase, TypeOK
<1>2. \A row \in cases \ Before : row.cmd \in Cmds
  BY DEF TypeOK, Row
<1>3. PICK t : /\ tx[c].who = {t}
               /\ IF Lockdown(c) THEN t = NoChannel ELSE t \in Succeeded(c)
               /\ \A row \in RowsOf(c) : row.target # t
  <2>1. CASE Lockdown(c)
    <3>1. pc[c] = "case" /\ tx[c].who = {NoChannel}
      BY <1>1, <2>1 DEF CasesInv, CaseInv
    <3>2. RowsOf(c) = {}
      BY <2>1, <3>1 DEF CasesInv, CaseInv, BadEnds
    <3> QED  BY <2>1, <3>1, <3>2
  <2>2. CASE ~Lockdown(c)
    BY <1>1, <2>2 DEF CasesInv, CaseInv, Succeeded
  <2> QED  BY <2>1, <2>2
<1>4. New = {[id |-> tx[c].id, cmd |-> c, target |-> t]}
  BY <1>3
<1>5. CasesAreEarned'
  <2>1. \A d \in Cmds : Succeeded(d)' = Succeeded(d)
    BY <1>1 DEF Succeeded
  <2>2. ASSUME NEW row \in cases' \ Before
        PROVE  IF Lockdown(row.cmd)' THEN row.target = NoChannel
               ELSE row.target \in Succeeded(row.cmd)'
    <3>1. CASE row \in cases
      BY <1>2, <2>1, <2>2, <3>1, KindsStay DEF CasesInv, CasesAreEarned
    <3>2. CASE row \in New
      BY <1>3, <1>4, <2>1, <3>2, KindsStay
    <3> QED  BY <1>1, <2>2, <3>1, <3>2
  <2>3. ASSUME NEW row \in cases' \ Before, NEW other \in cases' \ Before,
               other.cmd = row.cmd, other.target = row.target
        PROVE  other = row
    <3>1. CASE row \in cases /\ other \in cases
      BY <2>3, <3>1 DEF CasesInv, CasesAreEarned
    <3>2. CASE row \in New /\ other \in New
      BY <1>4, <3>2
    <3>3. CASE row \in New /\ other \in cases
      BY <1>3, <1>4, <2>3, <3>3 DEF RowsOf
    <3>4. CASE row \in cases /\ other \in New
      BY <1>3, <1>4, <2>3, <3>4 DEF RowsOf
    <3> QED  BY <1>1, <2>3, <3>1, <3>2, <3>3, <3>4
  <2> QED  BY <2>2, <2>3 DEF CasesAreEarned
<1>6. ASSUME NEW d \in Cmds PROVE CaseInv(d)'
  <2>1. CaseInv(d) /\ Steps(d) /\ (Lockdown(d)' <=> Lockdown(d))
    BY ThreadSteps, KindsStay DEF CasesInv
  <2>2. CASE d = c
    <3>1. Lockdown(c) => pc'[c] = "modlog"
      <4>1. Lockdown(c) => pc[c] = "case"
        BY <1>1, <2>1, <2>2 DEF CaseInv
      <4> QED  BY <4>1, GotoSteps DEF CommitCase
    <3> QED  BY <1>1, <2>1, <2>2, <3>1 DEF CaseInv
  <2>3. CASE d # c
    <3>1. RowsOf(d)' = RowsOf(d) /\ tx'[d] = tx[d]
      <4>1. \A row \in New : row.cmd # d
        BY <2>3, <1>4
      <4> HIDE DEF New
      <4> QED  BY <1>1, <2>3, <4>1 DEF RowsOf
    <3>2. pc'[d] = pc[d]
      BY <2>3, GotoSteps DEF CommitCase
    <3> QED  BY <1>1, <2>1, <3>1, <3>2 DEF CaseInv
  <2> QED  BY <2>2, <2>3
<1> QED  BY <1>5, <1>6 DEF CasesInv

LEMMA CasesInit == Init => CasesInv
BY DEF Init, CasesInv, CaseInv, CasesAreEarned, RowsOf

LEMMA CasesStep == Base /\ CasesInv /\ [Next]_vars => CasesInv'
BY TransactionSteps, KeptCases, CommittedCases DEF Base

LEMMA CasesInductive == Spec => [](Base /\ CasesInv)
BY BaseInductive, CasesInit, CasesStep, PTL DEF Spec

\* At most one case per channel and command, and only for edits that succeeded.
THEOREM CasesEarned == Spec => []CasesAreEarned
<1>1. CasesInv => CasesAreEarned
  BY DEF CasesInv
<1> QED  BY <1>1, CasesInductive, PTL

-----------------------------------------------------------------------------
(***************************************************************************)
(* Nobody's success is left out.                                           *)
(***************************************************************************)
\* An embed that names every channel whose edit has not failed yet.
Covers(c, body) ==
    \A ch \in Channels \cap found[c] : call[c][ch] # "err" => ch \in body.claimed

\* From the collection of the channels to the answer, the message covers them;
\* so does a final answer, for good.  Only a lockdown records in its response.
NamedInv ==
    \A c \in Cmds :
        /\ pc[c] = "case" => Lockdown(c)
        /\ pc[c] = "modlog" /\ ~Lockdown(c) => Covers(c, msg[c])
        /\ pc[c] = "reply" => Covers(c, msg[c])
        /\ reply[c].from = "final" => found[c] # {} /\ Covers(c, reply[c].body)

LEMMA CoversStays ==
    ASSUME Base, [Next]_vars, NEW c \in Cmds, found[c] # {}, NEW body, Covers(c, body)
    PROVE  found'[c] = found[c] /\ Covers(c, body)'
<1>1. found'[c] = found[c]
  BY FoundSteps DEF Base, SetOutInv, SetOut, SetsOut
<1>2. \A ch \in Channels \cap found[c] : call'[c][ch] # "err" => call[c][ch] # "err"
  BY CallSteps DEF Base, CallMoves
<1> QED  BY <1>1, <1>2 DEF Covers

\* How a step of the response, whoever makes it, touches a message or an answer.
Responds(d) ==
    /\ msg'[d] = msg[d] \/ pc[d] \in {"fetch", "errors", "flag", "collect"}
    /\ pc[d] = "decide" /\ pc'[d] = "reply" => are_all_errors(d)
    /\ pc[d] = "collect" /\ pc'[d] = "modlog" => Covers(d, msg'[d])
    /\ \/ reply'[d] = reply[d]
       \/ reply'[d].from \in {"gate", "errors"}
       \/ pc[d] = "reply" /\ reply'[d].body = msg[d]

LEMMA ResponseSteps ==
    ASSUME Base, [Next]_vars
    PROVE  \A d \in Cmds : Responds(d)
<1>t. TypeOK
  BY DEF Base
<1>0. ASSUME NEW c \in Cmds, UNCHANGED <<msg, reply>>,
             pc[c] \notin {"decide", "collect"}, \A d \in Cmds \ {c} : pc'[d] = pc[d] \/ pc'[d] \in BadEnds
      PROVE  \A d \in Cmds : Responds(d)
  BY <1>0 DEF Responds, BadEnds
<1>p. ASSUME NEW c \in Cmds,
             \/ UNCHANGED pc \/ Raise(c) \/ RaiseInCallback \/ NullDereference(c) \/ ProcessDies({})
             \/ \E where : Goto(c, where)
      PROVE  \A d \in Cmds \ {c} : pc'[d] = pc[d] \/ pc'[d] \in BadEnds
  BY <1>t, <1>p, GotoSteps
     DEF Raise, RaiseInCallback, NullDereference, ProcessDies, BadEnds
<1>1. ASSUME NEW c \in Cmds, Invoke(c) \/ Modlogs(c) \/ log_command_invoke(c)
      PROVE  \A d \in Cmds : Responds(d)
  <2>1. UNCHANGED <<msg, reply>> /\ pc[c] \notin {"decide", "collect"}
    BY <1>1 DEF Invoke, Modlogs, log_command_invoke
  <2>2. Raise(c) \/ \E where : Goto(c, where)
    BY <1>1 DEF Invoke, Modlogs, LogLock, LogLockdown, log_command_invoke
  <2> QED  BY <1>0, <1>p, <2>1, <2>2
<1>2. ASSUME NEW c \in Cmds, check_permissions(c) PROVE \A d \in Cmds : Responds(d)
  <2>1. UNCHANGED msg /\ pc[c] = "gate"
    BY <1>2 DEF check_permissions
  <2>2. UNCHANGED reply \/ \E body : Show(c, "gate", body)
    BY <1>2 DEF check_permissions, CancelLock, CancelLockdown
  <2>3. \A d \in Cmds : reply'[d] = reply[d] \/ reply'[d].from = "gate"
    BY <1>t, <2>2 DEF Show, TypeOK
  <2>4. NullDereference(c) \/ \E where : Goto(c, where)
    BY <1>2 DEF check_permissions, CancelLock, CancelLockdown
  <2>5. \A d \in Cmds \ {c} : pc'[d] = pc[d] \/ pc'[d] \in BadEnds
    BY <1>p, <2>4
  <2> QED  BY <2>1, <2>3, <2>5 DEF Responds, BadEnds
<1>3. ASSUME NEW c \in Cmds, process_channels(c) \/ SnapshotErrors(c)
      PROVE  \A d \in Cmds : Responds(d)
  <2>1. UNCHANGED reply /\ pc[c] \in {"fetch", "errors"}
    BY <1>3 DEF process_channels, SnapshotErrors
  <2>2. UNCHANGED msg \/ \E body : msg' = [msg EXCEPT ![c] = body]
    BY <1>3 DEF process_channels, process_locks, process_unlocks, process_lockdown,
       process_lockdown_removal, FetchList, SnapshotErrors
  <2>3. \A d \in Cmds \ {c} : msg'[d] = msg[d]
    BY <1>t, <2>2 DEF TypeOK
  <2>4. Raise(c) \/ NullDereference(c) \/ \E where : Goto(c, where)
    BY <1>3 DEF process_channels, process_locks, process_unlocks, process_lockdown,
       process_lockdown_removal, FetchList, SnapshotErrors
  <2>5. \A d \in Cmds \ {c} : pc'[d] = pc[d] \/ pc'[d] \in BadEnds
    BY <1>p, <2>4
  <2> QED  BY <2>1, <2>3, <2>5 DEF Responds, BadEnds
<1>4. ASSUME NEW c \in Cmds, FlagErrors(c) PROVE \A d \in Cmds : Responds(d)
  <2>1. UNCHANGED reply \/ \E body : Show(c, "errors", body)
    BY <1>4 DEF FlagErrors, ShowErrors, ErrorWebhook, ErrorLog, Paginate
  <2>2. UNCHANGED msg \/ \E body : msg' = [msg EXCEPT ![c] = body]
    BY <1>4 DEF FlagErrors, ShowErrors, ErrorWebhook, ErrorLog
  <2>3. Raise(c) \/ NullDereference(c) \/ \E where : Goto(c, where)
    BY <1>4 DEF FlagErrors, ShowErrors, ErrorWebhook, ErrorLog, Paginate
  <2>4. \A d \in Cmds \ {c} : msg'[d] = msg[d]
    BY <1>t, <2>2 DEF TypeOK
  <2>5. \A d \in Cmds : reply'[d] = reply[d] \/ reply'[d].from = "errors"
    BY <1>t, <2>1 DEF Show, TypeOK
  <2>6. pc[c] = "flag" /\ \A d \in Cmds \ {c} : pc'[d] = pc[d] \/ pc'[d] \in BadEnds
    BY <1>4, <1>p, <2>3 DEF FlagErrors
  <2> QED  BY <2>4, <2>5, <2>6 DEF Responds, BadEnds
<1>5. ASSUME NEW c \in Cmds, Decide(c) PROVE \A d \in Cmds : Responds(d)
  <2>1. UNCHANGED <<msg, reply>> /\ \A d \in Cmds \ {c} : pc'[d] = pc[d]
    BY <1>t, <1>5, GotoSteps DEF Decide
  <2>2. pc[c] = "decide" /\ (pc'[c] = "reply" => are_all_errors(c))
    BY <1>t, <1>5, GotoSteps DEF Decide
  <2> QED  BY <2>1, <2>2 DEF Responds
<1>6. ASSUME NEW c \in Cmds, Collect(c) PROVE \A d \in Cmds : Responds(d)
  <2>0. UNCHANGED reply /\ pc[c] = "collect"
    BY <1>6 DEF Collect
  <2>1. CASE CollectLocked(c) \/ CollectUnlocked(c)
    <3>1. /\ msg'[c].claimed = found[c] \ channels_with_errors(c)
          /\ \A d \in Cmds \ {c} : msg'[d] = msg[d]
      <4>1. PICK named : named = found[c] \ channels_with_errors(c)
        OBVIOUS
      <4>2. msg' = [msg EXCEPT ![c] = [msg[c] EXCEPT !.success = TRUE, !.claimed = named]]
        BY <2>1, <4>1 DEF CollectLocked, CollectUnlocked
      <4>3. [msg[c] EXCEPT !.success = TRUE, !.claimed = named].claimed = named
        BY <1>t, BodyTypes DEF Body, MessageAbout
      <4> QED  BY <1>t, <4>1, <4>2, <4>3 DEF TypeOK
    <3>2. \A ch \in Channels : ch \in channels_with_errors(c) => call[c][ch] = "err"
      BY ChannelFacts DEF channels_with_errors
    <3>3. Covers(c, msg'[c])
      BY <3>1, <3>2 DEF Covers
    <3>4. \A d \in Cmds \ {c} : pc'[d] = pc[d]
      BY <1>t, <2>1, GotoSteps DEF CollectLocked, CollectUnlocked
    <3> QED  BY <2>0, <3>1, <3>3, <3>4 DEF Responds
  <2>2. CASE CollectLockdown(c)
    <3>1. \A d \in Cmds \ {c} : msg'[d] = msg[d] /\ (pc'[d] = pc[d] \/ pc'[d] \in BadEnds)
      <4>1. Raise(c) \/ \E where : Goto(c, where)
        BY <2>2 DEF CollectLockdown
      <4> QED  BY <1>t, <1>p, <2>2, <4>1 DEF CollectLockdown, TypeOK
    <3>2. pc'[c] # "modlog"
      <4>1. Raise(c) \/ Goto(c, "case")
        BY <2>2 DEF CollectLockdown
      <4> QED  BY <1>t, <2>0, <4>1, GotoSteps DEF Raise, ProcessDies
    <3> QED  BY <2>0, <3>1, <3>2 DEF Responds, BadEnds
  <2> QED  BY <1>6, <2>1, <2>2 DEF Collect
<1>7. ASSUME NEW c \in Cmds, Answer(c) PROVE \A d \in Cmds : Responds(d)
  <2>1. Show(c, "final", msg[c]) /\ UNCHANGED msg /\ pc[c] = "reply"
    BY <1>7 DEF Answer, Paginate
  <2>2. reply'[c].body = msg[c] /\ \A d \in Cmds \ {c} : reply'[d] = reply[d]
    BY <1>t, <2>1 DEF Show, TypeOK
  <2>3. NullDereference(c) \/ \E where : Goto(c, where)
    BY <1>7 DEF Answer, Paginate
  <2>4. \A d \in Cmds \ {c} : pc'[d] = pc[d] \/ pc'[d] \in BadEnds
    BY <1>p, <2>3
  <2> QED  BY <2>1, <2>2, <2>4 DEF Responds, BadEnds
<1>8. ASSUME NEW c \in Cmds,
             \/ Modcase(c)
             \/ \E ch \in Channels : \/ channel_edit_permissions(c, ch)
                                     \/ Discord(c, ch) \/ lambda_callback(c, ch)
      PROVE  \A d \in Cmds : Responds(d)
  <2>1. UNCHANGED <<msg, reply>>
    BY <1>8 DEF Modcase, CommitCase, AbortCase, channel_edit_permissions, Discord,
       DiscordApplies, DiscordRefuses, lambda_callback, EditSucceeds, EditFails, LateCallback
  <2>2. \/ UNCHANGED pc \/ RaiseInCallback \/ ProcessDies({})
        \/ pc[c] \in {"case", "calls"} /\ \E where : Goto(c, where)
    BY <1>8 DEF Modcase, CommitCase, AbortCase, channel_edit_permissions, Discord,
       DiscordApplies, DiscordRefuses, lambda_callback, EditSucceeds, EditFails,
       LateCallback, OpenCase
  <2>3. \A d \in Cmds \ {c} : pc'[d] = pc[d] \/ pc'[d] \in BadEnds
    BY <1>p, <2>2
  <2>4. pc[c] \in {"decide", "collect"} => pc'[c] = pc[c] \/ pc'[c] \in BadEnds
    BY <2>2 DEF RaiseInCallback, ProcessDies, BadEnds
  <2> QED  BY <2>1, <2>3, <2>4 DEF Responds, BadEnds
<1>9. EditGuild \/ Kill \/ UNCHANGED vars => \A d \in Cmds : Responds(d)
  BY DEF EditGuild, Kill, ProcessDies, vars, Responds
<1> QED
  BY <1>1, <1>2, <1>3, <1>4, <1>5, <1>6, <1>7, <1>8, <1>9 DEF Next, wrapper_function

LEMMA NamedStep == Base /\ NamedInv /\ [Next]_vars => NamedInv'
<1> SUFFICES ASSUME Base, NamedInv, [Next]_vars, NEW d \in Cmds
             PROVE  /\ pc'[d] = "case" => Lockdown(d)'
                    /\ pc'[d] = "modlog" /\ ~Lockdown(d)' => Covers(d, msg[d])'
                    /\ pc'[d] = "reply" => Covers(d, msg[d])'
                    /\ reply'[d].from = "final" => found'[d] # {} /\ Covers(d, reply[d].body)'
  BY DEF NamedInv
<1>1. Steps(d) /\ Responds(d) /\ (Lockdown(d)' <=> Lockdown(d))
  BY ThreadSteps, ResponseSteps, KindsStay DEF Base
<1>2. ASSUME pc[d] \in {"decide", "collect", "modlog", "reply"} PROVE found[d] # {}
  BY <1>2 DEF Base, SetOutInv, SetOut, Running, RunningAt
<1>3. ASSUME found[d] # {}, NEW body, Covers(d, body)
      PROVE  found'[d] = found[d] /\ Covers(d, body)'
  BY <1>3, CoversStays
<1>4. pc'[d] = "case" => Lockdown(d)'
  BY <1>1 DEF Steps, EndsBadly, BadEnds, Moves, NamedInv
<1>5. ASSUME Covers(d, msg'[d]), found[d] # {} PROVE Covers(d, msg[d])'
  <2>1. PICK body : body = msg'[d]
    OBVIOUS
  <2>2. Covers(d, body)'
    BY <1>3, <1>5, <2>1
  <2> QED  BY <2>1, <2>2 DEF Covers
<1>6. ASSUME pc'[d] = "modlog", ~Lockdown(d)' PROVE Covers(d, msg[d])'
  <2>1. CASE pc[d] = "modlog"
    BY <1>1, <1>2, <1>5, <1>6, <2>1 DEF NamedInv, Responds
  <2>2. CASE pc[d] = "collect"
    BY <1>1, <1>2, <1>5, <1>6, <2>2 DEF Responds
  <2> QED  BY <1>1, <1>6, <2>1, <2>2 DEF Steps, EndsBadly, BadEnds, Moves, NamedInv
<1>7. ASSUME pc'[d] = "reply" PROVE Covers(d, msg[d])'
  <2>1. CASE pc[d] = "reply" \/ (pc[d] = "modlog" /\ ~Lockdown(d))
    BY <1>1, <1>2, <1>5, <2>1 DEF NamedInv, Responds
  <2>2. CASE pc[d] = "decide"
    <3>1. Hopeless(d)
      BY <1>1, <1>7, <2>2, AllErrorsIsHopeless DEF Responds, Running, RunningAt
    <3>2. Hopeless(d)'
      BY <3>1, HopelessStays
    <3> QED  BY <3>2 DEF Hopeless, Covers
  <2> QED  BY <1>1, <1>7, <2>1, <2>2 DEF Steps, EndsBadly, BadEnds, Moves
<1>8. ASSUME reply'[d].from = "final" PROVE found'[d] # {} /\ Covers(d, reply[d].body)'
  <2>1. found[d] # {} /\ Covers(d, reply'[d].body)
    BY <1>1, <1>2, <1>8 DEF Responds, NamedInv
  <2>2. PICK body : body = reply'[d].body
    OBVIOUS
  <2>3. found'[d] = found[d] /\ Covers(d, body)'
    BY <1>3, <2>1, <2>2
  <2> QED  BY <2>1, <2>2, <2>3 DEF Covers
<1> QED  BY <1>4, <1>6, <1>7, <1>8

\* A final answer of a lock or an unlock names every channel whose edit
\* succeeds, whenever it does; no other command's answer leaves one out either.
THEOREM NoSuccessIsHidden == Spec => []SuccessNeverHidden
<1>1. Init => NamedInv
  BY DEF Init, NamedInv
<1>2. Base /\ NamedInv => SuccessNeverHidden
  BY DEF Base, SetOutInv, SetOut, NamedInv, Covers, Succeeded, SuccessNeverHidden
<1> QED  BY <1>1, <1>2, NamedStep, BaseInductive, PTL DEF Spec

-----------------------------------------------------------------------------
(***************************************************************************)
(* Who is accountable for an overwrite.                                    *)
(***************************************************************************)
LEMMA AccountStep == Base /\ OverwriteIsAccountable /\ [Next]_vars => OverwriteIsAccountable'
<1> SUFFICES ASSUME Base, OverwriteIsAccountable, [Next]_vars, NEW ch \in Channels,
                    overwrite'[ch].send # "unset"
             PROVE  \E c \in Cmds : /\ Locks(c)' = (overwrite'[ch].send = "deny")
                                   /\ ch \in found'[c]
                                   /\ call'[c][ch] \notin {"none", "queued"}
  BY DEF OverwriteIsAccountable
<1> USE DEF Base
<1>1. ASSUME NEW c \in Cmds, ch \in found[c] PROVE ch \in found'[c]
  BY <1>1, FoundSteps DEF SetOutInv, SetOut, SetsOut
<1>2. CASE overwrite'[ch] = overwrite[ch]
  <2>1. PICK c \in Cmds : /\ Locks(c) = (overwrite[ch].send = "deny")
                         /\ ch \in found[c]
                         /\ call[c][ch] \notin {"none", "queued"}
    BY <1>2 DEF OverwriteIsAccountable
  <2>2. call'[c][ch] \notin {"none", "queued"}
    BY <2>1, CallSteps DEF CallMoves
  <2>3. Locks(c)' = Locks(c)
    BY KindsStay DEF Locks
  <2> QED  BY <1>1, <1>2, <2>1, <2>2, <2>3 DEF OverwriteIsAccountable
<1>3. ASSUME NEW c \in Cmds, DiscordApplies(c, ch) PROVE
             /\ Locks(c)' = (overwrite'[ch].send = "deny")
             /\ ch \in found'[c] /\ call'[c][ch] = "applied"
  <2>1. overwrite'[ch] = Edited(c, ch) /\ call'[c][ch] = "applied"
    BY <1>3 DEF DiscordApplies, TypeOK
  <2>2. ch \in found[c]
    BY <1>3 DEF DiscordApplies, SetOutInv, SetOut
  <2>3. Locks(c)' = Locks(c)
    BY KindsStay DEF Locks
  <2>4. Locks(c) = (Edited(c, ch).send = "deny")
    BY DEF Edited, Locks
  <2> QED  BY <1>1, <2>1, <2>2, <2>3, <2>4
<1>4. overwrite'[ch] = overwrite[ch] \/ \E c \in Cmds : DiscordApplies(c, ch)
  <2>1. ASSUME NEW c \in Cmds, NEW other \in Channels,
               Discord(c, other) \/ lambda_callback(c, other)
        PROVE  overwrite'[ch] = overwrite[ch] \/ DiscordApplies(c, ch)
    BY <2>1 DEF Discord, DiscordApplies, DiscordRefuses, lambda_callback, EditSucceeds,
       EditFails, LateCallback, TypeOK
  <2>2. ASSUME NEW c \in Cmds, Invoke(c) \/ wrapper_function(c) \/ Modcase(c)
        PROVE  overwrite' = overwrite
    BY <2>2 DEF Invoke, wrapper_function, check_permissions, process_channels,
       SnapshotErrors, FlagErrors, Decide, Collect, Modlogs, Answer, log_command_invoke,
       Modcase, CommitCase, AbortCase, channel_edit_permissions
  <2>3. EditGuild \/ Kill \/ UNCHANGED vars => overwrite' = overwrite
    BY DEF EditGuild, Kill, vars
  <2> QED  BY <2>1, <2>2, <2>3 DEF Next
<1> QED  BY <1>2, <1>3, <1>4

\* Every lock and unlock on Discord is the doing of a command that set out to
\* make it.
THEOREM OverwritesAreAccountable == Spec => []OverwriteIsAccountable
<1>1. Init => OverwriteIsAccountable
  BY DEF Init, OverwriteIsAccountable
<1> QED  BY <1>1, AccountStep, BaseInductive, PTL DEF Spec

=============================================================================
