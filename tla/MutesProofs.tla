---------------------------- MODULE MutesProofs ----------------------------
(***************************************************************************)
(* Proofs about Mutes, for any batch of mutes and unmutes, any guild and   *)
(* any configuration.                                                      *)
(***************************************************************************)
EXTENDS Mutes, FiniteSetTheorems, TLAPS

-----------------------------------------------------------------------------
(***************************************************************************)
(* Types.  The numbers of timeouts are typed only because they stay 1: the *)
(* last of a table's numbers is a choice among them.                       *)
(***************************************************************************)
Numbers ==
    /\ \A row \in timeouts : row.id = 1
    /\ \A c \in Cmds : tx[c] = NoTx \/ tx[c].id = 1

TInv == TypeOK /\ Numbers

TxType == [Cmds -> [id : Nat, who : SUBSET Users]]

LEMMA NoTxIsTx == NoTx \in [id : Nat, who : SUBSET Users]
BY DEF NoTx

LEMMA EmptyIsBody ==
    /\ EmptyMessage \in MessageBody
    /\ [EmptyMessage EXCEPT !.ephemeral = TRUE] \in MessageBody
BY DEF EmptyMessage, MessageBody

LEMMA RequestTypes ==
    ASSUME req \in Batches, NEW c \in Cmds
    PROVE  req[c] \in MuteRequest /\ Kind(c) \in {"mute", "unmute"}
BY MutesAssumption DEF MutesAssumption, MuteRequest, Kind

LEMMA FirstNumber == ASSUME Numbers PROVE TimeoutId = 1
<1>1. CASE timeouts = {}
  BY <1>1 DEF TimeoutId
<1>2. CASE timeouts # {}
  <2>1. {row.id : row \in timeouts} = {1}
    BY <1>2 DEF Numbers
  <2>2. \A row \in timeouts : row.id <= 1
    BY DEF Numbers
  <2>3. LastTimeout \in {row.id : row \in timeouts}
    BY <2>1, <2>2 DEF LastTimeout
  <2> QED  BY <1>2, <2>1, <2>3 DEF TimeoutId
<1> QED  BY <1>1, <1>2

\* How threads and transactions end badly.
Typed == pc' \in [Cmds -> PCs] /\ tx' \in TxType

OneOrNone == \A c \in Cmds : tx'[c] = NoTx \/ tx'[c].id = 1

LEMMA BadEndsAreTyped ==
    ASSUME TInv, NEW c \in Cmds
    PROVE  /\ NullDereference(c) => Typed /\ OneOrNone
           /\ Raise(c) => Typed /\ OneOrNone
           /\ RaiseInCallback => Typed /\ OneOrNone
           /\ ProcessDies({}) => Typed /\ OneOrNone
<1>1. pc \in [Cmds -> PCs] /\ tx \in TxType
  BY DEF TInv, TypeOK, TxType
<1>2. ASSUME NEW S, ProcessDies(S) PROVE Typed /\ OneOrNone
  BY <1>1, <1>2, NoTxIsTx DEF ProcessDies, Typed, OneOrNone, TxType, PCs, Ended
<1>3. UNCHANGED tx => OneOrNone /\ tx' \in TxType
  BY <1>1 DEF TInv, Numbers, OneOrNone
<1>4. ASSUME Goto(c, "raised") PROVE pc' \in [Cmds -> PCs]
  BY <1>1, <1>4 DEF Goto, PCs, Ended
<1> QED
  BY <1>1, <1>2, <1>3, <1>4 DEF NullDereference, Raise, RaiseInCallback, Typed

LEMMA GotoIsTyped ==
    ASSUME TInv, NEW c \in Cmds, NEW where \in PCs, Goto(c, where)
    PROVE  /\ pc' \in [Cmds -> PCs]
           /\ UNCHANGED tx => Typed /\ OneOrNone
BY DEF Goto, TInv, TypeOK, Typed, OneOrNone, TxType, Numbers

\* A transaction is closed, or opened under the only number there is.
LEMMA TxIsTyped ==
    ASSUME TInv, NEW c \in Cmds, NEW new \in {NoTx, Reading} \cup [id : {1}, who : SUBSET Users],
           tx' = [tx EXCEPT ![c] = new]
    PROVE  tx' \in TxType /\ OneOrNone
<1>1. new \in [id : Nat, who : SUBSET Users]
  BY NoTxIsTx DEF Reading
<1>2. new = NoTx \/ new.id = 1
  BY DEF Reading
<1> QED  BY <1>1, <1>2 DEF TInv, TypeOK, Numbers, TxType, OneOrNone

LEMMA OpenIsTyped ==
    ASSUME TInv, NEW c \in Cmds, NEW t \in Users, OpenTimeout(c, t)
    PROVE  Typed /\ OneOrNone
<1>1. CASE RaiseInCallback
  BY <1>1, BadEndsAreTyped
<1>2. CASE /\ tx' = [tx EXCEPT ![c] = IF "timeout" \in apis[c]
                                     THEN [id |-> TimeoutId, who |-> {t}] ELSE Reading]
           /\ UNCHANGED pc
  <2>1. [id |-> TimeoutId, who |-> {t}] \in [id : {1}, who : SUBSET Users]
    BY FirstNumber DEF TInv
  <2> QED  BY <1>2, <2>1, TxIsTyped DEF TInv, TypeOK, Typed
<1> QED  BY <1>1, <1>2 DEF OpenTimeout

\* A call is given another state.
LEMMA CallIsTyped ==
    ASSUME TypeOK, NEW c \in Cmds, NEW a \in Apis, NEW t \in Users, NEW s \in CallStates,
           call' = [call EXCEPT ![c][a][t] = s]
    PROVE  call' \in [Cmds -> [Apis -> [Users -> CallStates]]]
BY DEF TypeOK

LEMMA SetOutIsTyped ==
    ASSUME TInv, NEW c \in Cmds, NEW with \in SUBSET Apis, SetOut(c, with)
    PROVE  apis' \in [Cmds -> SUBSET Apis] /\ Typed /\ OneOrNone
<1>1. apis' \in [Cmds -> SUBSET Apis]
  BY DEF SetOut, TInv, TypeOK
<1>2. CASE Goto(c, "errors") /\ UNCHANGED tx
  BY <1>1, <1>2, GotoIsTyped DEF PCs, RunningAt
<1>3. CASE /\ Goto(c, "calls")
           /\ tx' = [tx EXCEPT ![c] = IF Kind(c) = "mute" THEN Reading ELSE NoTx]
  <2>1. pc' \in [Cmds -> PCs]
    BY <1>3, GotoIsTyped DEF PCs, RunningAt
  <2> QED  BY <1>1, <1>3, <2>1, TxIsTyped DEF Typed
<1> QED  BY <1>2, <1>3 DEF SetOut

LEMMA TypeStep == TInv /\ [Next]_vars => TInv'
<1> SUFFICES ASSUME TInv, [Next]_vars PROVE TInv'
  OBVIOUS
<1> USE DEF TInv
<1>0. ASSUME Typed, OneOrNone PROVE (\A c \in Cmds : tx[c] = NoTx \/ tx[c].id = 1)'
  BY <1>0 DEF OneOrNone, NoTx
<1>1. CASE UNCHANGED vars
  BY <1>1 DEF vars, TypeOK, Numbers, NoTx
<1>2. ASSUME NEW c \in Cmds, Invoke(c) PROVE TInv'
  <2>1. Typed /\ OneOrNone
    BY <1>2, GotoIsTyped DEF Invoke, PCs
  <2> QED  BY <1>0, <1>2, <2>1 DEF Invoke, Typed, TxType, TypeOK, Numbers
<1>3. ASSUME NEW c \in Cmds, check_permissions(c) PROVE TInv'
  <2>1. ASSUME NEW body \in MessageBody, Show(c, "gate", body)
        PROVE  reply' \in [Cmds -> [from : {"none", "gate", "final"}, body : MessageBody]]
    BY <2>1 DEF Show, TypeOK
  <2>2. Goto(c, "cancelled") /\ UNCHANGED tx => Typed /\ OneOrNone
    BY GotoIsTyped DEF PCs, Ended
  <2>3. Goto(c, "fetch") /\ UNCHANGED tx => Typed /\ OneOrNone
    BY GotoIsTyped DEF PCs
  <2>4. RefuseInteraction(c) =>
          /\ Typed /\ OneOrNone
          /\ reply' \in [Cmds -> [from : {"none", "gate", "final"}, body : MessageBody]]
    BY <2>1, <2>2, EmptyIsBody DEF RefuseInteraction
  <2>5. reply \in [Cmds -> [from : {"none", "gate", "final"}, body : MessageBody]]
    BY DEF TypeOK
  <2>6. /\ Typed /\ OneOrNone
        /\ reply' \in [Cmds -> [from : {"none", "gate", "final"}, body : MessageBody]]
    <3>1. \/ RefuseInteraction(c)
          \/ (NullDereference(c) \/ Raise(c)) /\ UNCHANGED reply
          \/ (Goto(c, "cancelled") \/ Goto(c, "fetch")) /\ UNCHANGED tx /\ UNCHANGED reply
      BY <1>3 DEF check_permissions, CancelMute, CancelUnmute
    <3> QED  BY <2>2, <2>3, <2>4, <2>5, <3>1, BadEndsAreTyped
  <2> QED  BY <1>0, <1>3, <2>6 DEF check_permissions, Typed, TxType, TypeOK, Numbers
<1>4. ASSUME NEW c \in Cmds, process_calls(c) PROVE TInv'
  <2>1. apis' \in [Cmds -> SUBSET Apis] /\ Typed /\ OneOrNone
    <3>1. apis \in [Cmds -> SUBSET Apis]
      BY DEF TypeOK
    <3>2. {} \in SUBSET Apis /\ {"role"} \in SUBSET Apis /\ {"timeout"} \in SUBSET Apis
      BY DEF Apis
    <3>3. \/ \E with \in SUBSET Apis : SetOut(c, with)
          \/ (NullDereference(c) \/ Raise(c)) /\ UNCHANGED apis
      BY <1>4, <3>2 DEF process_calls, process_mutes, process_unmutes, MuteByRole
    <3> QED  BY <3>1, <3>3, SetOutIsTyped, BadEndsAreTyped
  <2> QED  BY <1>0, <1>4, <2>1 DEF process_calls, Typed, TxType, TypeOK, Numbers
<1>5. ASSUME NEW c \in Cmds, NEW a \in Apis, NEW t \in Users, SendCall(c, a, t) PROVE TInv'
  <2>1. Typed /\ OneOrNone
    <3>1. CASE Goto(c, "errors") /\ tx' = [tx EXCEPT ![c] = NoTx]
      BY <3>1, GotoIsTyped, TxIsTyped DEF PCs, RunningAt, Typed
    <3>2. CASE UNCHANGED <<pc, tx>>
      BY <3>2 DEF TypeOK, Typed, TxType, Numbers, OneOrNone
    <3> QED  BY <1>5, <3>1, <3>2 DEF SendCall
  <2>2. call' \in [Cmds -> [Apis -> [Users -> CallStates]]]
    BY <1>5, CallIsTyped DEF SendCall, CallStates
  <2> QED  BY <1>0, <1>5, <2>1, <2>2 DEF SendCall, Typed, TxType, TypeOK, Numbers
<1>6. ASSUME NEW c \in Cmds, CommitTimeout(c) PROVE TInv'
  <2>1. tx' \in TxType /\ OneOrNone
    BY <1>6, TxIsTyped DEF CommitTimeout
  <2>2. tx[c].id = 1 /\ tx[c].who \subseteq Users
    BY <1>6 DEF CommitTimeout, Numbers, TypeOK
  <2>3. /\ timeouts' \subseteq [id : Nat \ {0}, user : Users]
        /\ \A row \in timeouts' : row.id = 1
    <3>1. /\ timeouts \subseteq [id : Nat \ {0}, user : Users]
          /\ \A row \in timeouts : row.id = 1
      BY DEF TypeOK, Numbers
    <3>2. \A row \in {[id |-> tx[c].id, user |-> t] : t \in tx[c].who} :
             row \in [id : Nat \ {0}, user : Users] /\ row.id = 1
      BY <2>2
    <3>3. timeouts' \subseteq timeouts \cup {[id |-> tx[c].id, user |-> t] : t \in tx[c].who}
      BY <1>6 DEF CommitTimeout
    <3> QED  BY <3>1, <3>2, <3>3
  <2>4. Typed
    BY <1>6, <2>1 DEF CommitTimeout, Typed, TypeOK
  <2> QED  BY <1>0, <1>6, <2>1, <2>3, <2>4 DEF CommitTimeout, Typed, TxType, TypeOK, Numbers
<1>7. ASSUME NEW c \in Cmds, AbortTimeout(c) PROVE TInv'
  <2>1. Typed /\ OneOrNone
    BY <1>7, TxIsTyped, BadEndsAreTyped DEF AbortTimeout, Typed, TypeOK
  <2> QED  BY <1>0, <1>7, <2>1 DEF AbortTimeout, Typed, TxType, TypeOK, Numbers
<1>8. ASSUME NEW c \in Cmds, NEW a \in Apis, NEW t \in Users, Discord(c, a, t) PROVE TInv'
  <2>1. call' \in [Cmds -> [Apis -> [Users -> CallStates]]]
    BY <1>8, CallIsTyped DEF Discord, DiscordApplies, DiscordRefuses, CallStates
  <2>2. timedout' \subseteq Users /\ rolemuted' \subseteq Users
    BY <1>8 DEF Discord, DiscordApplies, DiscordRefuses, Effect, TypeOK
  <2>3. /\ UNCHANGED <<guild, config, timeouts, req, apis, pc, tx, msg, reply, cmdlog>>
        /\ Typed /\ OneOrNone
    BY <1>8 DEF Discord, DiscordApplies, DiscordRefuses, TypeOK, Typed, TxType,
       Numbers, OneOrNone
  <2> QED  BY <1>0, <2>1, <2>2, <2>3 DEF TypeOK, Typed, TxType, Numbers
<1>9. ASSUME NEW c \in Cmds, NEW a \in Apis, NEW t \in Users, lambda_callback(c, a, t)
      PROVE  TInv'
  <2>1. call' \in [Cmds -> [Apis -> [Users -> CallStates]]]
    BY <1>9, CallIsTyped DEF lambda_callback, CallSucceeds, CallFails, LateCallback, CallStates
  <2>2. UNCHANGED <<pc, tx>> => Typed /\ OneOrNone
    BY DEF TypeOK, Typed, TxType, Numbers, OneOrNone
  <2>3. Typed /\ OneOrNone
    BY <1>9, <2>2, OpenIsTyped, BadEndsAreTyped
    DEF lambda_callback, CallSucceeds, CallFails, LateCallback
  <2>4. UNCHANGED <<guild, config, timedout, rolemuted, timeouts, req, apis, msg, reply,
                    cmdlog>>
    BY <1>9 DEF lambda_callback, CallSucceeds, CallFails, LateCallback
  <2> QED  BY <1>0, <2>1, <2>3, <2>4 DEF TypeOK, Typed, TxType, Numbers
<1>10. ASSUME NEW c \in Cmds, SnapshotErrors(c) PROVE TInv'
  <2>1. reported(c) \in SUBSET (Errors \cup {NoRole})
    BY DEF reported
  <2>2. msg' \in [Cmds -> MessageBody]
    BY <1>10, <2>1 DEF SnapshotErrors, TypeOK, MessageBody
  <2>3. Typed /\ OneOrNone
    BY <1>10, GotoIsTyped DEF SnapshotErrors, PCs, RunningAt
  <2> QED  BY <1>0, <1>10, <2>2, <2>3 DEF SnapshotErrors, Typed, TxType, TypeOK, Numbers
<1>11. ASSUME NEW c \in Cmds, FlagErrors(c) PROVE TInv'
  <2>1. msg' \in [Cmds -> MessageBody]
    <3>1. msg[c] \in MessageBody /\ msg \in [Cmds -> MessageBody]
      BY DEF TypeOK
    <3>2. ASSUME NEW b \in BOOLEAN, msg' = [msg EXCEPT ![c].ephemeral = b]
          PROVE  msg' \in [Cmds -> MessageBody]
      BY <3>1, <3>2 DEF MessageBody
    <3>3. ASSUME msg' = [msg EXCEPT ![c].errs = {}] PROVE msg' \in [Cmds -> MessageBody]
      BY <3>1, <3>3 DEF MessageBody
    <3>4. are_all_errors(c) \in BOOLEAN
      BY DEF are_all_errors
    <3> QED
      BY <1>11, <3>1, <3>2, <3>3, <3>4 DEF FlagErrors, FlagAnswer, FlagMute, FlagUnmute
  <2>2. Typed /\ OneOrNone
    BY <1>11, GotoIsTyped, BadEndsAreTyped
    DEF FlagErrors, FlagAnswer, FlagMute, FlagUnmute, PCs, RunningAt
  <2> QED  BY <1>0, <1>11, <2>1, <2>2 DEF FlagErrors, Typed, TxType, TypeOK, Numbers
<1>12. ASSUME NEW c \in Cmds, Decide(c) PROVE TInv'
  <2>1. Typed /\ OneOrNone
    BY <1>12, GotoIsTyped DEF Decide, PCs, RunningAt
  <2> QED  BY <1>0, <1>12, <2>1 DEF Decide, Typed, TxType, TypeOK, Numbers
<1>13. ASSUME NEW c \in Cmds, Collect(c) PROVE TInv'
  <2>1. req[c].members \ members_with_errors(c) \in SUBSET Users
    BY RequestTypes DEF TypeOK, MuteRequest
  <2>2. msg' \in [Cmds -> MessageBody]
    <3>1. msg[c] \in MessageBody /\ msg \in [Cmds -> MessageBody]
      BY DEF TypeOK
    <3>2. [msg[c] EXCEPT !.success = TRUE,
                         !.claimed = req[c].members \ members_with_errors(c)] \in MessageBody
      BY <2>1, <3>1 DEF MessageBody
    <3>3. msg' = [msg EXCEPT ![c] = [@ EXCEPT !.success = TRUE,
                                    !.claimed = req[c].members \ members_with_errors(c)]]
      BY <1>13 DEF Collect, CollectMuted, CollectUnmuted, Claim
    <3> QED  BY <3>1, <3>2, <3>3
  <2>3. Typed /\ OneOrNone
    BY <1>13, GotoIsTyped DEF Collect, PCs, RunningAt
  <2> QED  BY <1>0, <1>13, <2>2, <2>3 DEF Collect, Typed, TxType, TypeOK, Numbers
<1>14. ASSUME NEW c \in Cmds, Modlogs(c) PROVE TInv'
  <2>1. Typed /\ OneOrNone
    BY <1>14, GotoIsTyped, BadEndsAreTyped
    DEF Modlogs, LogMutes, LogUnmutes, PostLogs, PCs, RunningAt
  <2> QED  BY <1>0, <1>14, <2>1 DEF Modlogs, Typed, TxType, TypeOK, Numbers
<1>15. ASSUME NEW c \in Cmds, Answer(c) PROVE TInv'
  <2>1. reply' \in [Cmds -> [from : {"none", "gate", "final"}, body : MessageBody]]
    <3>1. Show(c, "final", msg[c])
      BY <1>15 DEF Answer, Paginate
    <3> QED  BY <3>1 DEF Show, TypeOK
  <2>2. Typed /\ OneOrNone
    BY <1>15, GotoIsTyped, BadEndsAreTyped DEF Answer, Paginate, PCs, RunningAt, Ended
  <2> QED  BY <1>0, <1>15, <2>1, <2>2 DEF Answer, Typed, TxType, TypeOK, Numbers
<1>16. ASSUME NEW c \in Cmds, log_command_invoke(c) PROVE TInv'
  <2>1. Typed /\ OneOrNone /\ cmdlog' \subseteq Cmds
    BY <1>16, GotoIsTyped, BadEndsAreTyped DEF log_command_invoke, PCs, Ended, TypeOK
  <2> QED  BY <1>0, <1>16, <2>1 DEF log_command_invoke, Typed, TxType, TypeOK, Numbers
<1>17. CASE EditConfig
  BY <1>17 DEF EditConfig, TypeOK, Numbers, NoTx
<1>18. CASE Kill
  <2>1. Typed /\ OneOrNone
    <3>1. PICK c \in Cmds : TRUE
      BY <1>18 DEF Kill
    <3> QED  BY <1>18, <3>1, BadEndsAreTyped DEF Kill
  <2> QED  BY <1>0, <1>18, <2>1 DEF Kill, Typed, TxType, TypeOK, Numbers
<1> QED
  BY <1>1, <1>2, <1>3, <1>4, <1>5, <1>6, <1>7, <1>8, <1>9, <1>10, <1>11, <1>12,
     <1>13, <1>14, <1>15, <1>16, <1>17, <1>18 DEF Next, wrapper_function

LEMMA TypeInit == Init => TInv
BY EmptyIsBody, NoTxIsTx, MutesAssumption
DEF Init, TInv, TypeOK, Numbers, PCs, CallStates, EmptyMessage, MessageBody, MutesAssumption

LEMMA TypesHold == Spec => []TInv
<1> QED  BY TypeInit, TypeStep, PTL DEF Spec

\* The types of every reachable state.
THEOREM TypeCorrect == Spec => []TypeOK
<1>1. TInv => TypeOK
  BY DEF TInv
<1> QED  BY <1>1, TypesHold, PTL

-----------------------------------------------------------------------------
(***************************************************************************)
(* Calls only go forward, and what one came to stays.                      *)
(***************************************************************************)
Failed == {"marked", "err", "late"}

Forward ==
    /\ req' = req
    /\ \A c \in Cmds, a \in Apis, t \in Users :
          /\ call[c][a][t] = "ok" => call'[c][a][t] = "ok"
          /\ call[c][a][t] \in Failed => call'[c][a][t] \in Failed
          /\ call[c][a][t] \notin {"none", "queued"} => call'[c][a][t] \notin {"none", "queued"}

\* Only these steps change a call, and only the one they are about.
OneCall(c, a, t) ==
    \/ SendCall(c, a, t)
    \/ Discord(c, a, t)
    \/ lambda_callback(c, a, t)

LEMMA OneCallMoves ==
    ASSUME TypeOK, NEW c \in Cmds, NEW a \in Apis, NEW t \in Users, OneCall(c, a, t)
    PROVE  /\ req' = req /\ apis' = apis /\ msg' = msg /\ reply' = reply
           /\ \A d \in Cmds, b \in Apis, u \in Users :
                 <<d, b, u>> # <<c, a, t>> => call'[d][b][u] = call[d][b][u]
           /\ call'[c][a][t] \in CallStates \ {"none"}
           /\ call[c][a][t] # "ok"
           /\ call[c][a][t] \in Failed => call'[c][a][t] \in Failed
           /\ call[c][a][t] \notin {"none", "queued"} => call'[c][a][t] # "queued"
           /\ call[c][a][t] = "none" =>
                 /\ a \in apis[c] /\ t \in req[c].members /\ pc[c] = "calls"
           /\ call'[c][a][t] = "late" => pc[c] \in {"done", "raised"}
<1>1. /\ req' = req /\ apis' = apis /\ msg' = msg /\ reply' = reply
      /\ call[c][a][t] = "none" =>
                 /\ a \in apis[c] /\ t \in req[c].members /\ pc[c] = "calls"
      /\ \E s \in CallStates \ {"none"} :
            /\ call' = [call EXCEPT ![c][a][t] = s]
            /\ call[c][a][t] # "ok"
            /\ call[c][a][t] \in Failed => s \in Failed
            /\ call[c][a][t] \notin {"none", "queued"} => s # "queued"
            /\ s = "late" => pc[c] \in {"done", "raised"}
  <2>1. CASE SendCall(c, a, t)
    <3>1. call[c][a][t] = "none" /\ a \in apis[c] /\ t \in req[c].members /\ pc[c] = "calls"
      BY <2>1 DEF SendCall, Sent
    <3>2. call' = [call EXCEPT ![c][a][t] = "queued"]
      BY <2>1 DEF SendCall
    <3>3. req' = req /\ apis' = apis /\ msg' = msg /\ reply' = reply
      BY <2>1 DEF SendCall
    <3>4. "queued" \in CallStates \ {"none"}
      BY DEF CallStates
    <3> QED  BY <3>1, <3>2, <3>3, <3>4 DEF Failed
  <2>2. CASE Discord(c, a, t)
    BY <2>2 DEF Discord, DiscordApplies, DiscordRefuses, CallStates, Failed
  <2>3. CASE lambda_callback(c, a, t)
    BY <2>3 DEF lambda_callback, CallSucceeds, CallFails, LateCallback, CallStates, Failed
  <2> QED  BY <2>1, <2>2, <2>3 DEF OneCall
<1> QED  BY <1>1 DEF TypeOK

\* All the others leave the calls alone.
NoCall == UNCHANGED <<req, call>>

LEMMA CallsMove ==
    ASSUME TypeOK, [Next]_vars
    PROVE  NoCall \/ \E c \in Cmds, a \in Apis, t \in Users : OneCall(c, a, t)
<1>1. ASSUME NEW c \in Cmds,
             Invoke(c) \/ wrapper_function(c) \/ CommitTimeout(c) \/ AbortTimeout(c)
      PROVE  NoCall \/ \E a \in Apis, t \in Users : SendCall(c, a, t)
  BY <1>1 DEF wrapper_function, Invoke, check_permissions, process_calls, SnapshotErrors,
     FlagErrors, Decide, Collect, Modlogs, Answer, log_command_invoke, CommitTimeout,
     AbortTimeout, NoCall
<1>2. EditConfig \/ Kill \/ UNCHANGED vars => NoCall
  BY DEF EditConfig, Kill, vars, NoCall
<1> QED  BY <1>1, <1>2 DEF Next, OneCall

LEMMA CallsGoForward ==
    ASSUME TypeOK, [Next]_vars
    PROVE  Forward
<1>1. NoCall => Forward
  BY DEF NoCall, Forward
<1>2. ASSUME NEW c \in Cmds, NEW a \in Apis, NEW t \in Users, OneCall(c, a, t)
      PROVE  Forward
  <2>1. ASSUME NEW d \in Cmds, NEW b \in Apis, NEW u \in Users
        PROVE  /\ call[d][b][u] = "ok" => call'[d][b][u] = "ok"
               /\ call[d][b][u] \in Failed => call'[d][b][u] \in Failed
               /\ call[d][b][u] \notin {"none", "queued"}
                    => call'[d][b][u] \notin {"none", "queued"}
    BY <1>2, OneCallMoves
  <2> QED  BY <1>2, <2>1, OneCallMoves DEF Forward
<1> QED  BY <1>1, <1>2, CallsMove

-----------------------------------------------------------------------------
(***************************************************************************)
(* Threads only go forward: a command comes to its calls by way of         *)
(* process_calls alone.                                                    *)
(***************************************************************************)
Before == {"idle", "gate", "fetch"}

Onward(c) ==
    \/ pc'[c] = pc[c]
    \/ pc'[c] \in Ended
    \/ pc[c] \in Before /\ pc'[c] \in Before
    \/ pc[c] \in RunningAt /\ pc'[c] \in RunningAt

Fetched(c) ==
    /\ pc[c] = "fetch" /\ pc'[c] \in RunningAt \cup Ended
    /\ apis'[c] = apis[c] \/ (Kind(c) = "mute" => apis'[c] # Apis)

\* What process_calls leaves of the other commands.
LEMMA BadEndsGoOn ==
    ASSUME TypeOK, NEW c \in Cmds, NEW d \in Cmds,
           Raise(c) \/ RaiseInCallback \/ NullDereference(c) \/ ProcessDies({}) \/ UNCHANGED pc
    PROVE  Onward(d)
BY DEF Raise, RaiseInCallback, NullDereference, ProcessDies, Goto, Onward, TypeOK, Ended

LEMMA GotoGoesOn ==
    ASSUME TypeOK, NEW c \in Cmds, NEW d \in Cmds, NEW where, Goto(c, where),
           \/ c # d
           \/ where \in Ended
           \/ pc[c] \in Before /\ where \in Before
           \/ pc[c] \in RunningAt /\ where \in RunningAt
    PROVE  Onward(d)
BY DEF Goto, Onward, TypeOK

LEMMA ThreadsGoOn ==
    ASSUME TypeOK, [Next]_vars
    PROVE  /\ UNCHANGED apis /\ \A d \in Cmds : Onward(d)
           \/ \E c \in Cmds : /\ process_calls(c) /\ Fetched(c)
                              /\ \A d \in Cmds \ {c} : apis'[d] = apis[d] /\ Onward(d)
<1> DEFINE Goal == UNCHANGED apis /\ \A d \in Cmds : Onward(d)
<1>1. ASSUME NEW c \in Cmds, process_calls(c)
      PROVE  /\ Fetched(c)
             /\ \A d \in Cmds \ {c} : apis'[d] = apis[d] /\ Onward(d)
  <2>1. ASSUME NEW with, SetOut(c, with), Kind(c) = "mute" => with # Apis,
               with \in SUBSET Apis
        PROVE  /\ Fetched(c)
               /\ \A d \in Cmds \ {c} : apis'[d] = apis[d] /\ Onward(d)
    <3>1. apis'[c] = with /\ \A d \in Cmds \ {c} : apis'[d] = apis[d]
      BY <2>1 DEF SetOut, TypeOK
    <3>2. Goto(c, "errors") \/ Goto(c, "calls")
      BY <2>1 DEF SetOut
    <3>3. pc'[c] \in RunningAt /\ \A d \in Cmds \ {c} : pc'[d] = pc[d]
      BY <3>2 DEF Goto, TypeOK, RunningAt
    <3> QED  BY <1>1, <2>1, <3>1, <3>3 DEF Fetched, Onward, process_calls
  <2>2. ASSUME NullDereference(c) \/ Raise(c), UNCHANGED apis
        PROVE  /\ Fetched(c)
               /\ \A d \in Cmds \ {c} : apis'[d] = apis[d] /\ Onward(d)
    <3>1. pc'[c] \in Ended
      BY <1>1, <2>2 DEF NullDereference, Raise, ProcessDies, Goto, TypeOK, process_calls, Ended
    <3> QED  BY <1>1, <2>2, <3>1, BadEndsGoOn DEF Fetched, process_calls
  <2>3. /\ {} \in SUBSET Apis /\ {} # Apis
        /\ {"role"} \in SUBSET Apis /\ {"role"} # Apis
        /\ {"timeout"} \in SUBSET Apis /\ {"timeout"} # Apis
        /\ Apis \in SUBSET Apis
    BY DEF Apis
  <2>4. \/ \E with \in SUBSET Apis : SetOut(c, with) /\ (Kind(c) = "mute" => with # Apis)
        \/ (NullDereference(c) \/ Raise(c)) /\ UNCHANGED apis
    BY <1>1, <2>3 DEF process_calls, process_mutes, process_unmutes, MuteByRole
  <2> QED  BY <2>1, <2>2, <2>4
<1>2. ASSUME NEW c \in Cmds, Invoke(c) PROVE Goal
  BY <1>2, GotoGoesOn DEF Invoke, Before
<1>3. ASSUME NEW c \in Cmds, check_permissions(c) PROVE Goal
  <2>1. \/ Goto(c, "cancelled") \/ Goto(c, "fetch")
        \/ NullDereference(c) \/ Raise(c)
    BY <1>3 DEF check_permissions, CancelMute, CancelUnmute, RefuseInteraction
  <2>2. UNCHANGED apis /\ pc[c] = "gate"
    BY <1>3 DEF check_permissions
  <2> QED  BY <2>1, <2>2, GotoGoesOn, BadEndsGoOn DEF Before, Ended
<1>4. ASSUME NEW c \in Cmds, NEW a \in Apis, NEW t \in Users, OneCall(c, a, t) PROVE Goal
  <2>1. UNCHANGED apis
    BY <1>4, OneCallMoves
  <2>2. CASE SendCall(c, a, t)
    BY <2>1, <2>2, GotoGoesOn, BadEndsGoOn DEF SendCall, RunningAt
  <2>3. CASE Discord(c, a, t) \/ lambda_callback(c, a, t)
    <3>1. RaiseInCallback \/ UNCHANGED pc
      BY <2>3 DEF Discord, DiscordApplies, DiscordRefuses, lambda_callback,
         CallSucceeds, CallFails, LateCallback, OpenTimeout
    <3> QED  BY <2>1, <3>1, BadEndsGoOn
  <2> QED  BY <1>4, <2>2, <2>3 DEF OneCall
<1>5. ASSUME NEW c \in Cmds,
             \/ SnapshotErrors(c) \/ FlagErrors(c) \/ Decide(c) \/ Collect(c)
             \/ Modlogs(c) \/ Answer(c) \/ log_command_invoke(c)
             \/ CommitTimeout(c) \/ AbortTimeout(c)
      PROVE Goal
  <2>1. UNCHANGED apis
    BY <1>5 DEF SnapshotErrors, FlagErrors, Decide, Collect, Modlogs, Answer,
       log_command_invoke, CommitTimeout, AbortTimeout
  <2>2. \/ Raise(c) \/ NullDereference(c) \/ ProcessDies({}) \/ UNCHANGED pc
        \/ \E where \in RunningAt \cup {"done"} : pc[c] \in RunningAt /\ Goto(c, where)
    BY <1>5 DEF SnapshotErrors, FlagErrors, FlagAnswer, FlagMute, FlagUnmute, Decide,
       Collect, Modlogs, LogMutes, LogUnmutes, PostLogs, Answer, Paginate,
       log_command_invoke, CommitTimeout, AbortTimeout, RunningAt
  <2> QED  BY <2>1, <2>2, GotoGoesOn, BadEndsGoOn DEF Ended
<1>6. CASE EditConfig \/ Kill \/ UNCHANGED vars
  <2>1. UNCHANGED apis /\ (ProcessDies({}) \/ UNCHANGED pc)
    BY <1>6 DEF EditConfig, Kill, vars
  <2> QED  BY <2>1, BadEndsGoOn
<1> QED
  BY <1>1, <1>2, <1>3, <1>4, <1>5, <1>6 DEF Next, wrapper_function, OneCall

-----------------------------------------------------------------------------
(***************************************************************************)
(* Which calls there are.  A call was asked for, before its command's      *)
(* calls there are none, none is cut short while its command runs, and a   *)
(* mute makes one kind of call only.                                       *)
(***************************************************************************)
Asked(c) ==
    \A a \in Apis, t \in Users :
        call[c][a][t] # "none" => a \in apis[c] /\ t \in req[c].members

Fresh(c) == pc[c] \in Before => \A a \in Apis, t \in Users : call[c][a][t] = "none"

NotLate(c) == pc[c] \in RunningAt => \A a \in Apis, t \in Users : call[c][a][t] # "late"

Single(c) == Kind(c) = "mute" => apis[c] # Apis

CallsInv == \A c \in Cmds : Asked(c) /\ Fresh(c) /\ NotLate(c) /\ Single(c)

LEMMA CallsInit == Init => CallsInv
BY DEF Init, CallsInv, Asked, Fresh, NotLate, Single, Apis

LEMMA CallsStep ==
    ASSUME TypeOK, CallsInv, [Next]_vars
    PROVE  CallsInv'
<1> USE DEF CallsInv, Asked, Fresh, NotLate, Single, Kind
<1>0. Before \cap (RunningAt \cup Ended) = {} /\ RunningAt \cap Ended = {}
  BY DEF Before, RunningAt, Ended
<1>1. ASSUME NEW c \in Cmds, process_calls(c), Fetched(c),
             \A d \in Cmds \ {c} : apis'[d] = apis[d] /\ Onward(d)
      PROVE  CallsInv'
  <2>1. UNCHANGED <<req, call>>
    BY <1>1 DEF process_calls
  <2>2. (Asked(c) /\ Fresh(c) /\ NotLate(c) /\ Single(c))'
    <3>1. \A a \in Apis, t \in Users : call'[c][a][t] = "none"
      BY <1>1, <2>1 DEF process_calls, Before
    <3> QED  BY <1>0, <1>1, <2>1, <3>1 DEF Fetched
  <2>3. ASSUME NEW d \in Cmds \ {c} PROVE (Asked(d) /\ Fresh(d) /\ NotLate(d) /\ Single(d))'
    BY <1>0, <1>1, <2>1 DEF Onward
  <2> QED  BY <2>2, <2>3
<1>2. ASSUME UNCHANGED apis, \A d \in Cmds : Onward(d) PROVE CallsInv'
  <2>1. CASE NoCall
    BY <1>0, <1>2, <2>1 DEF NoCall, Onward
  <2>2. ASSUME NEW c \in Cmds, NEW a \in Apis, NEW t \in Users, OneCall(c, a, t),
               NEW d \in Cmds
        PROVE  (Asked(d) /\ Fresh(d) /\ NotLate(d) /\ Single(d))'
    <3>1. Asked(d)' /\ Single(d)'
      BY <1>2, <2>2, OneCallMoves
    <3>2. Fresh(d)'
      <4>1. SUFFICES ASSUME pc'[d] \in Before, NEW b \in Apis, NEW u \in Users
                     PROVE  call'[d][b][u] = "none"
        OBVIOUS
      <4>2. pc[d] \in Before /\ call[d][b][u] = "none"
        BY <1>0, <1>2, <4>1 DEF Onward
      <4>3. <<d, b, u>> # <<c, a, t>>
        BY <2>2, <4>2, OneCallMoves DEF Before
      <4> QED  BY <2>2, <4>2, <4>3, OneCallMoves
    <3>3. NotLate(d)'
      <4>1. SUFFICES ASSUME pc'[d] \in RunningAt, NEW b \in Apis, NEW u \in Users
                     PROVE  call'[d][b][u] # "late"
        OBVIOUS
      <4>2. pc[d] \in RunningAt /\ call[d][b][u] # "late"
        BY <1>0, <1>2, <4>1 DEF Onward
      <4> QED  BY <2>2, <4>2, OneCallMoves DEF RunningAt
    <3> QED  BY <3>1, <3>2, <3>3
  <2> QED  BY <2>1, <2>2, CallsMove
<1> QED  BY <1>1, <1>2, ThreadsGoOn

\* A member for whom a call has failed stays one.
LEMMA FailingStays ==
    ASSUME TypeOK, Forward, CallsInv', NEW c \in Cmds, NEW t \in Users, Failing(c, t)
    PROVE  Failing(c, t)'
<1>1. PICK a \in apis[c] : call[c][a][t] \in Failed
  BY DEF Failing, Failed
<1>2. a \in Apis
  BY DEF TypeOK
<1>3. call'[c][a][t] \in Failed
  BY <1>1, <1>2 DEF Forward
<1>4. a \in apis'[c]
  BY <1>2, <1>3 DEF CallsInv, Asked, Failed
<1> QED  BY <1>3, <1>4 DEF Failing, Failed

-----------------------------------------------------------------------------
(***************************************************************************)
(* The errors a response counts.                                           *)
(***************************************************************************)
LEMMA CountedHaveFailed ==
    ASSUME TypeOK, CallsInv, NEW c \in Cmds
    PROVE  /\ members_with_errors(c) \subseteq req[c].members
           /\ \A t \in members_with_errors(c) : Failing(c, t)
BY DEF CallsInv, Asked, members_with_errors, Failing

\* Counting errors against members, as the code does: everybody has failed.
LEMMA AllErrorsMeansEverybody ==
    ASSUME TypeOK, CallsInv, NEW c \in Cmds, are_all_errors(c)
    PROVE  \A t \in req[c].members : Failing(c, t)
<1>1. req[c].members \subseteq Users
  BY RequestTypes DEF TypeOK, MuteRequest
<1>2. IsFiniteSet(req[c].members)
  BY <1>1, GuildAssumption, FS_Subset DEF GuildAssumption
<1>3. members_with_errors(c) \subseteq req[c].members
  BY CountedHaveFailed
<1>4. members_with_errors(c) = req[c].members
  BY <1>2, <1>3, FS_Subset DEF are_all_errors
<1> QED  BY <1>4, CountedHaveFailed

\* While a command runs, everybody who has failed is counted.
LEMMA EverybodyMeansAllErrors ==
    ASSUME TypeOK, CallsInv, NEW c \in Cmds, pc[c] \in RunningAt,
           \A t \in req[c].members : Failing(c, t)
    PROVE  are_all_errors(c)
<1>1. req[c].members \subseteq Users
  BY RequestTypes DEF TypeOK, MuteRequest
<1>2. req[c].members \subseteq members_with_errors(c)
  BY <1>1 DEF members_with_errors, Failing, CallsInv, NotLate, TypeOK
<1>3. members_with_errors(c) = req[c].members
  BY <1>2, CountedHaveFailed
<1> QED  BY <1>3 DEF are_all_errors

-----------------------------------------------------------------------------
(***************************************************************************)
(* The response.  Its success embed names everybody who has not failed,    *)
(* and it is hidden only when everybody has.                               *)
(***************************************************************************)
BadEnds   == {"raised", "segv", "dead"}
Succeeded == {"modlog", "reply", "log", "done"} \cup BadEnds
Flagged   == {"decide", "reply", "log", "done"} \cup BadEnds

AllFailing(c) == \A t \in req[c].members : Failing(c, t)

Response(c) ==
    /\ msg[c].success =>
          /\ pc[c] \in Succeeded
          /\ \A t \in req[c].members \ msg[c].claimed : Failing(c, t)
    /\ msg[c].ephemeral =>
          pc[c] \in Flagged /\ ~msg[c].success /\ AllFailing(c)
    /\ reply[c].from = "final" /\ reply[c].body.ephemeral =>
          ~reply[c].body.success /\ AllFailing(c)

ResponseInv == \A c \in Cmds : Response(c)

\* The steps that neither assemble nor show a message of command c.
Moves(c) ==
    \/ pc'[c] = pc[c]
    \/ pc'[c] \in BadEnds \cup {"done"}
    \/ pc[c] \notin Succeeded \cup Flagged
    \/ pc[c] = "modlog" /\ pc'[c] = "reply"

Aside(c) ==
    /\ Moves(c)
    /\ msg'[c] = msg[c]
    /\ reply'[c] = reply[c] \/ reply'[c].from = "gate"

LEMMA AsideKeeps ==
    ASSUME TypeOK, Forward, CallsInv', NEW c \in Cmds, Response(c), Aside(c)
    PROVE  Response(c)'
<1>1. req' = req /\ req[c].members \subseteq Users
  BY RequestTypes DEF Forward, TypeOK, MuteRequest
<1>2. AllFailing(c) => AllFailing(c)'
  BY <1>1, FailingStays DEF AllFailing
<1>3. (\A t \in req[c].members \ msg[c].claimed : Failing(c, t))
        => (\A t \in req[c].members \ msg[c].claimed : Failing(c, t))'
  BY <1>1, FailingStays DEF Aside
<1>4. /\ msg[c].success => pc'[c] \in Succeeded
      /\ msg[c].ephemeral => pc'[c] \in Flagged
  BY DEF Aside, Moves, Response, Succeeded, Flagged, BadEnds
<1> QED  BY <1>2, <1>3, <1>4 DEF Aside, Response

LEMMA BadEndsMove ==
    ASSUME TypeOK, NEW c \in Cmds, NEW d \in Cmds,
           Raise(c) \/ RaiseInCallback \/ NullDereference(c) \/ ProcessDies({}) \/ UNCHANGED pc
    PROVE  Moves(d)
BY DEF Raise, RaiseInCallback, NullDereference, ProcessDies, Goto, Moves, TypeOK, BadEnds

LEMMA GotoMoves ==
    ASSUME TypeOK, NEW c \in Cmds, NEW d \in Cmds, NEW where, Goto(c, where),
           \/ c # d
           \/ pc[c] \notin Succeeded \cup Flagged
           \/ where = "done"
           \/ pc[c] = "modlog" /\ where = "reply"
    PROVE  Moves(d)
BY DEF Goto, Moves, TypeOK

Responds(c) ==
    SnapshotErrors(c) \/ FlagErrors(c) \/ Decide(c) \/ Collect(c) \/ Answer(c)

\* The steps that leave the messages alone.
LEMMA PlainStepsAreAside ==
    ASSUME TypeOK, [Next]_vars, NEW d \in Cmds
    PROVE  Aside(d) \/ \E c \in Cmds : Responds(c)
<1>1. ASSUME NEW c \in Cmds, Invoke(c) PROVE Aside(d)
  BY <1>1, GotoMoves DEF Invoke, Aside, Succeeded, Flagged, BadEnds
<1>2. ASSUME NEW c \in Cmds, check_permissions(c) PROVE Aside(d)
  <2>1. \/ Goto(c, "cancelled") \/ Goto(c, "fetch")
        \/ NullDereference(c) \/ Raise(c)
    BY <1>2 DEF check_permissions, CancelMute, CancelUnmute, RefuseInteraction
  <2>2. UNCHANGED msg /\ pc[c] = "gate"
    BY <1>2 DEF check_permissions
  <2>3. reply' = reply \/ \E body : Show(c, "gate", body)
    BY <1>2 DEF check_permissions, CancelMute, CancelUnmute, RefuseInteraction
  <2>4. reply'[d] = reply[d] \/ reply'[d].from = "gate"
    BY <2>3 DEF Show, TypeOK
  <2> QED
    BY <2>1, <2>2, <2>4, GotoMoves, BadEndsMove DEF Aside, Succeeded, Flagged, BadEnds
<1>3. ASSUME NEW c \in Cmds, process_calls(c) PROVE Aside(d)
  <2>1. \/ Goto(c, "calls") \/ Goto(c, "errors")
        \/ NullDereference(c) \/ Raise(c)
    BY <1>3 DEF process_calls, process_mutes, process_unmutes, MuteByRole, SetOut
  <2> QED
    BY <1>3, <2>1, GotoMoves, BadEndsMove
    DEF process_calls, Aside, Succeeded, Flagged, BadEnds
<1>4. ASSUME NEW c \in Cmds, NEW a \in Apis, NEW t \in Users, OneCall(c, a, t)
      PROVE  Aside(d)
  <2>1. msg' = msg /\ reply' = reply
    BY <1>4, OneCallMoves
  <2>2. CASE SendCall(c, a, t)
    BY <2>1, <2>2, GotoMoves, BadEndsMove DEF SendCall, Aside, Succeeded, Flagged, BadEnds
  <2>3. CASE Discord(c, a, t) \/ lambda_callback(c, a, t)
    <3>1. RaiseInCallback \/ UNCHANGED pc
      BY <2>3 DEF Discord, DiscordApplies, DiscordRefuses, lambda_callback,
         CallSucceeds, CallFails, LateCallback, OpenTimeout
    <3> QED  BY <2>1, <3>1, BadEndsMove DEF Aside
  <2> QED  BY <1>4, <2>2, <2>3 DEF OneCall
<1>5. ASSUME NEW c \in Cmds,
             Modlogs(c) \/ log_command_invoke(c) \/ CommitTimeout(c) \/ AbortTimeout(c)
      PROVE  Aside(d)
  <2>1. UNCHANGED <<msg, reply>>
    BY <1>5 DEF Modlogs, log_command_invoke, CommitTimeout, AbortTimeout
  <2>2. \/ Raise(c) \/ ProcessDies({}) \/ UNCHANGED pc
        \/ pc[c] = "modlog" /\ Goto(c, "reply")
        \/ Goto(c, "done")
    BY <1>5 DEF Modlogs, LogMutes, LogUnmutes, PostLogs, log_command_invoke,
       CommitTimeout, AbortTimeout
  <2> QED  BY <2>1, <2>2, GotoMoves, BadEndsMove DEF Aside
<1>6. CASE EditConfig \/ Kill \/ UNCHANGED vars
  <2>1. UNCHANGED <<msg, reply>> /\ (ProcessDies({}) \/ UNCHANGED pc)
    BY <1>6 DEF EditConfig, Kill, vars
  <2> QED  BY <2>1, BadEndsMove DEF Aside
<1> QED
  BY <1>1, <1>2, <1>3, <1>4, <1>5, <1>6 DEF Next, wrapper_function, OneCall, Responds

LEMMA ResponseStep ==
    ASSUME TypeOK, CallsInv, CallsInv', ResponseInv, [Next]_vars
    PROVE  ResponseInv'
<1>1. Forward
  BY CallsGoForward
<1>2. ASSUME NEW c \in Cmds, Responds(c) PROVE ResponseInv'
  <2>1. /\ UNCHANGED <<req, call, apis>>
        /\ pc[c] \in RunningAt
        /\ Response(c)
    BY <1>2 DEF Responds, SnapshotErrors, FlagErrors, Decide, Collect, Answer,
       RunningAt, ResponseInv
  <2>2. \A t \in Users : Failing(c, t) <=> Failing(c, t)'
    BY <2>1 DEF Failing
  <2>3. AllFailing(c) <=> AllFailing(c)'
    BY <2>1 DEF AllFailing, Failing
  <2>4. CASE SnapshotErrors(c)
    <3>1. ~msg[c].success /\ ~msg[c].ephemeral
      BY <2>1, <2>4 DEF SnapshotErrors, Response, Succeeded, Flagged, BadEnds
    <3>2. ~msg'[c].success /\ ~msg'[c].ephemeral /\ UNCHANGED reply
      BY <2>4, <3>1 DEF SnapshotErrors, TypeOK, MessageBody
    <3>3. Response(c)'
      BY <2>1, <2>3, <3>2 DEF Response
    <3>4. ASSUME NEW d \in Cmds \ {c} PROVE Aside(d)
      BY <2>4, GotoMoves DEF SnapshotErrors, Aside, TypeOK
    <3> QED  BY <1>1, <3>3, <3>4, AsideKeeps DEF ResponseInv
  <2>5. CASE FlagErrors(c)
    <3>1. ~msg[c].success /\ ~msg[c].ephemeral
      BY <2>1, <2>5 DEF FlagErrors, Response, Succeeded, Flagged, BadEnds
    <3>2. /\ ~msg'[c].success /\ UNCHANGED reply
          /\ msg'[c].ephemeral => are_all_errors(c) /\ pc'[c] = "decide"
      <4>1. /\ are_all_errors(c) \in BOOLEAN
            /\ msg \in [Cmds -> MessageBody] /\ pc \in [Cmds -> PCs]
        BY DEF are_all_errors, TypeOK
      <4>2. CASE FlagAnswer(c)
        BY <2>5, <3>1, <4>1, <4>2 DEF FlagErrors, FlagAnswer, Goto, MessageBody
      <4>3. CASE FlagMute(c) \/ FlagUnmute(c)
        BY <2>5, <3>1, <4>1, <4>3 DEF FlagErrors, FlagMute, FlagUnmute, MessageBody
      <4> QED  BY <2>5, <4>2, <4>3 DEF FlagErrors
    <3>3. are_all_errors(c) => AllFailing(c)
      BY AllErrorsMeansEverybody DEF AllFailing
    <3>4. Response(c)'
      BY <2>1, <2>3, <3>2, <3>3 DEF Response, Flagged
    <3>5. ASSUME NEW d \in Cmds \ {c} PROVE Aside(d)
      <4>1. msg'[d] = msg[d] /\ reply'[d] = reply[d]
        BY <2>5 DEF FlagErrors, FlagAnswer, FlagMute, FlagUnmute, TypeOK
      <4>2. Goto(c, "decide") \/ Raise(c) \/ NullDereference(c)
        BY <2>5 DEF FlagErrors, FlagAnswer, FlagMute, FlagUnmute
      <4> QED  BY <4>1, <4>2, GotoMoves, BadEndsMove DEF Aside
    <3> QED  BY <1>1, <3>4, <3>5, AsideKeeps DEF ResponseInv
  <2>6. CASE Decide(c)
    <3>1. ~msg[c].success /\ UNCHANGED <<msg, reply>>
      BY <2>1, <2>6 DEF Decide, Response, Succeeded, BadEnds
    <3>2. msg[c].ephemeral => pc'[c] = "reply"
      <4>1. AllFailing(c) => are_all_errors(c)
        BY <2>1, EverybodyMeansAllErrors DEF AllFailing
      <4> QED  BY <2>1, <2>6, <4>1 DEF Decide, Goto, TypeOK, Response
    <3>3. Response(c)'
      BY <2>1, <2>3, <3>1, <3>2 DEF Response, Flagged
    <3>4. ASSUME NEW d \in Cmds \ {c} PROVE Aside(d)
      BY <2>6, GotoMoves DEF Decide, Aside
    <3> QED  BY <1>1, <3>3, <3>4, AsideKeeps DEF ResponseInv
  <2>7. CASE Collect(c)
    <3>1. ~msg[c].ephemeral /\ UNCHANGED reply /\ pc'[c] = "modlog"
      BY <2>1, <2>7 DEF Collect, Goto, TypeOK, Response, Flagged, BadEnds
    <3>2. Claim(c)
      BY <2>7 DEF Collect, CollectMuted, CollectUnmuted
    <3>3. /\ ~msg'[c].ephemeral
          /\ msg'[c].claimed = req[c].members \ members_with_errors(c)
      BY <3>1, <3>2 DEF Claim, TypeOK, MessageBody
    <3>4. \A t \in req[c].members \ msg'[c].claimed : Failing(c, t)
      BY <3>3, CountedHaveFailed
    <3>5. req[c].members \subseteq Users
      BY RequestTypes DEF TypeOK, MuteRequest
    <3>6. Response(c)'
      BY <2>1, <2>2, <2>3, <3>1, <3>3, <3>4, <3>5 DEF Response, Succeeded
    <3>7. ASSUME NEW d \in Cmds \ {c} PROVE Aside(d)
      BY <2>7, <3>2, GotoMoves DEF Collect, Claim, Aside, TypeOK
    <3> QED  BY <1>1, <3>6, <3>7, AsideKeeps DEF ResponseInv
  <2>8. CASE Answer(c)
    <3>1. UNCHANGED msg /\ Show(c, "final", msg[c]) /\ pc[c] = "reply"
      BY <2>8 DEF Answer, Paginate
    <3>2. NullDereference(c) \/ Goto(c, "log") \/ Goto(c, "done")
      BY <2>8 DEF Answer, Paginate
    <3>3. pc'[c] \in {"log", "done"} \cup BadEnds
      BY <3>1, <3>2 DEF NullDereference, ProcessDies, Goto, TypeOK, BadEnds
    <3>4. reply'[c].body = msg[c]
      BY <3>1 DEF Show, TypeOK
    <3>5. Response(c)'
      BY <2>1, <2>2, <2>3, <3>1, <3>3, <3>4, RequestTypes
      DEF Response, Succeeded, Flagged, TypeOK, MuteRequest
    <3>6. ASSUME NEW d \in Cmds \ {c} PROVE Aside(d)
      BY <3>1, <3>2, GotoMoves, BadEndsMove DEF Show, Aside, TypeOK
    <3> QED  BY <1>1, <3>5, <3>6, AsideKeeps DEF ResponseInv
  <2> QED  BY <1>2, <2>4, <2>5, <2>6, <2>7, <2>8 DEF Responds
<1> QED  BY <1>1, <1>2, PlainStepsAreAside, AsideKeeps DEF ResponseInv

LEMMA ResponseInit == Init => ResponseInv
BY DEF Init, ResponseInv, Response, EmptyMessage

LEMMA ResponsesHold == Spec => [](TInv /\ CallsInv /\ ResponseInv)
<1>1. Init => TInv /\ CallsInv /\ ResponseInv
  BY TypeInit, CallsInit, ResponseInit
<1>2. TInv /\ CallsInv /\ ResponseInv /\ [Next]_vars => (TInv /\ CallsInv /\ ResponseInv)'
  BY TypeStep, CallsStep, ResponseStep DEF TInv
<1> QED  BY <1>1, <1>2, PTL DEF Spec

\* An answer hidden as a failure for everybody hides no success, then or later.
THEOREM HiddenIsFailure == Spec => []HiddenMeansAllFailed
<1>1. ResponseInv => HiddenMeansAllFailed
  BY DEF ResponseInv, Response, AllFailing, HiddenMeansAllFailed
<1> QED  BY <1>1, ResponsesHold, PTL

\* Whoever is muted or unmuted without an error is named in the answer.
THEOREM SuccessesAreNamed == Spec => []SuccessNeverHidden
<1>1. TInv /\ ResponseInv => SuccessNeverHidden
  <2>1. ASSUME TInv, ResponseInv, NEW c \in Cmds, msg[c].success,
               NEW t \in req[c].members, AllWell(c, t), t \notin msg[c].claimed
        PROVE  FALSE
    BY <2>1 DEF ResponseInv, Response, Failing, AllWell
  <2> QED  BY <2>1 DEF SuccessNeverHidden
<1> QED  BY <1>1, ResponsesHold, PTL

-----------------------------------------------------------------------------
(***************************************************************************)
(* The table of timeouts.  A callback opens a transaction for the member   *)
(* whose timeout it was told of; its number is always the first, so where  *)
(* numbers are the key the table is full with one row.                     *)
(***************************************************************************)
Owed(c, t) == Kind(c) = "mute" /\ call[c]["timeout"][t] = "ok"

Open(c) == \A t \in tx[c].who : Owed(c, t) /\ tx[c].who = {t}

OneRow == KeyIsNumber => \A row, other \in timeouts : row = other

TableInv == (\A c \in Cmds : Open(c)) /\ RecordedMeansApplied /\ OneRow

LEMMA OwedStays ==
    ASSUME Forward, NEW c \in Cmds, NEW t \in Users, Owed(c, t)
    PROVE  Owed(c, t)'
BY DEF Owed, Forward, Kind, Apis

\* What a step makes of the transactions.
Kept(c) ==
    \/ tx'[c] = tx[c] \/ tx'[c].who = {}
    \/ \E t \in Users : tx'[c].who = {t} /\ Owed(c, t)'

LEMMA BadEndsKeep ==
    ASSUME TypeOK, NEW c \in Cmds, NEW d \in Cmds,
           \/ Raise(c) \/ RaiseInCallback \/ NullDereference(c) \/ ProcessDies({})
           \/ UNCHANGED tx
           \/ \E new \in {NoTx, Reading} : tx' = [tx EXCEPT ![c] = new]
    PROVE  Kept(d)
BY DEF Raise, RaiseInCallback, NullDereference, ProcessDies, Kept, TypeOK, NoTx, Reading

LEMMA TransactionsAreKept ==
    ASSUME TypeOK, CallsInv, [Next]_vars, NEW d \in Cmds
    PROVE  Kept(d)
<1>1. ASSUME NEW c \in Cmds,
             \/ Invoke(c) \/ check_permissions(c) \/ process_calls(c) \/ SnapshotErrors(c)
             \/ FlagErrors(c) \/ Decide(c) \/ Collect(c) \/ Modlogs(c) \/ Answer(c)
             \/ log_command_invoke(c) \/ CommitTimeout(c) \/ AbortTimeout(c)
      PROVE  Kept(d)
  <2>1. \/ Raise(c) \/ NullDereference(c) \/ ProcessDies({}) \/ UNCHANGED tx
        \/ \E new \in {NoTx, Reading} : tx' = [tx EXCEPT ![c] = new]
    BY <1>1 DEF Invoke, check_permissions, CancelMute, CancelUnmute, RefuseInteraction,
       process_calls, process_mutes, process_unmutes, MuteByRole, SetOut,
       SnapshotErrors, FlagErrors, FlagAnswer, FlagMute, FlagUnmute, Decide, Collect,
       Modlogs, LogMutes, LogUnmutes, PostLogs, Answer, Paginate, log_command_invoke,
       CommitTimeout, AbortTimeout
  <2> QED  BY <2>1, BadEndsKeep
<1>2. ASSUME NEW c \in Cmds, NEW a \in Apis, NEW t \in Users, OneCall(c, a, t)
      PROVE  Kept(d)
  <2>1. CASE SendCall(c, a, t)
    BY <2>1, BadEndsKeep DEF SendCall
  <2>2. CASE Discord(c, a, t)
    BY <2>2, BadEndsKeep DEF Discord, DiscordApplies, DiscordRefuses
  <2>3. CASE CallFails(c, a, t) \/ LateCallback(c, a, t)
    BY <2>3, BadEndsKeep DEF CallFails, LateCallback
  <2>4. CASE CallSucceeds(c, a, t)
    <3>1. CASE Kind(c) # "mute"
      BY <2>4, <3>1, BadEndsKeep DEF CallSucceeds
    <3>2. CASE Kind(c) = "mute" /\ "timeout" \in apis[c]
      <4>1. a \in apis[c] /\ apis[c] # Apis
        BY <2>4, <3>2 DEF CallsInv, Asked, Single, CallSucceeds
      <4>2. a = "timeout"
        BY <3>2, <4>1 DEF Apis, TypeOK
      <4>3. Owed(c, t)'
        BY <2>4, <3>2, <4>2 DEF CallSucceeds, Owed, Kind, TypeOK
      <4>4. \/ RaiseInCallback
            \/ tx' = [tx EXCEPT ![c] = [id |-> TimeoutId, who |-> {t}]]
        BY <2>4, <3>2 DEF CallSucceeds, OpenTimeout
      <4>5. CASE tx' = [tx EXCEPT ![c] = [id |-> TimeoutId, who |-> {t}]]
        <5>1. CASE d = c
          <6>1. tx'[c] = [id |-> TimeoutId, who |-> {t}]
            BY <4>5 DEF TypeOK
          <6>2. tx'[c].who = {t}
            BY <6>1
          <6> QED  BY <4>3, <5>1, <6>2 DEF Kept
        <5>2. CASE d # c
          BY <4>5, <5>2 DEF Kept, TypeOK
        <5> QED  BY <5>1, <5>2
      <4> QED  BY <4>4, <4>5, BadEndsKeep
    <3>3. CASE Kind(c) = "mute" /\ "timeout" \notin apis[c]
      <4>1. RaiseInCallback \/ tx' = [tx EXCEPT ![c] = Reading]
        BY <2>4, <3>3 DEF CallSucceeds, OpenTimeout
      <4> QED  BY <4>1, BadEndsKeep
    <3> QED  BY <3>1, <3>2, <3>3
  <2> QED  BY <1>2, <2>1, <2>2, <2>3, <2>4 DEF OneCall, lambda_callback
<1>3. CASE EditConfig \/ Kill \/ UNCHANGED vars
  <2>1. ProcessDies({}) \/ UNCHANGED tx
    BY <1>3 DEF EditConfig, Kill, vars
  <2> QED  BY <2>1, BadEndsKeep
<1> QED  BY <1>1, <1>2, <1>3 DEF Next, wrapper_function, OneCall

\* Only a commit writes rows.
LEMMA RowsAreCommitted ==
    ASSUME [Next]_vars
    PROVE  UNCHANGED timeouts \/ \E c \in Cmds : CommitTimeout(c)
BY DEF Next, vars, Invoke, wrapper_function, check_permissions, process_calls, SendCall,
   SnapshotErrors, FlagErrors, Decide, Collect, Modlogs, Answer, log_command_invoke,
   AbortTimeout, Discord, DiscordApplies, DiscordRefuses, lambda_callback, CallSucceeds,
   CallFails, LateCallback, EditConfig, Kill

LEMMA TableStep ==
    ASSUME TInv, CallsInv, TableInv, [Next]_vars
    PROVE  TableInv'
<1>1. Forward /\ TypeOK
  BY CallsGoForward DEF TInv
<1>2. ASSUME NEW c \in Cmds PROVE Open(c)'
  <2>1. tx[c].who \subseteq Users
    BY <1>1 DEF TypeOK
  <2>2. Kept(c)
    BY <1>1, TransactionsAreKept
  <2>3. CASE tx'[c] = tx[c]
    BY <1>1, <2>1, <2>3, OwedStays DEF TableInv, Open
  <2>4. CASE tx'[c].who = {}
    BY <2>4 DEF Open
  <2>5. CASE \E t \in Users : tx'[c].who = {t} /\ Owed(c, t)'
    BY <2>5 DEF Open
  <2> QED  BY <2>2, <2>3, <2>4, <2>5 DEF Kept
<1>3. \A row \in timeouts : \E c \in Cmds : Owed(c, row.user) /\ row.user \in Users
  BY <1>1 DEF TableInv, RecordedMeansApplied, Owed, TypeOK
<1>4. CASE UNCHANGED timeouts
  <2>1. RecordedMeansApplied'
    BY <1>1, <1>3, <1>4, OwedStays DEF RecordedMeansApplied, Owed
  <2> QED  BY <1>2, <1>4, <2>1 DEF TableInv, OneRow
<1>5. ASSUME NEW c \in Cmds, CommitTimeout(c) PROVE TableInv'
  <2>1. tx[c].id = 1 /\ tx[c].who \subseteq Users
    BY <1>1, <1>5 DEF TInv, Numbers, CommitTimeout, TypeOK
  <2>2. \A t \in tx[c].who : Owed(c, t) /\ tx[c].who = {t}
    BY DEF TableInv, Open
  <2>3. CASE timeouts' = timeouts
    <3>1. RecordedMeansApplied'
      BY <1>1, <1>3, <2>3, OwedStays DEF RecordedMeansApplied, Owed
    <3> QED  BY <1>2, <2>3, <3>1 DEF TableInv, OneRow
  <2>4. CASE /\ Taken(c) = {}
             /\ timeouts' = timeouts \cup {[id |-> tx[c].id, user |-> t] : t \in tx[c].who}
    <3>1. ASSUME NEW row \in timeouts' PROVE \E d \in Cmds : Owed(d, row.user)'
      <4>1. CASE row \in timeouts
        BY <1>1, <1>3, <4>1, OwedStays
      <4>2. CASE row \in {[id |-> tx[c].id, user |-> t] : t \in tx[c].who}
        BY <1>1, <2>1, <2>2, <4>2, OwedStays
      <4> QED  BY <2>4, <4>1, <4>2
    <3>2. OneRow'
      <4>1. SUFFICES ASSUME KeyIsNumber, NEW row \in timeouts', NEW other \in timeouts'
                     PROVE  row = other
        BY DEF OneRow
      <4>2. timeouts = {}
        BY <2>1, <2>4, <4>1 DEF Taken, TInv, Numbers
      <4> QED  BY <2>2, <2>4, <4>2
    <3> QED  BY <1>2, <3>1, <3>2 DEF TableInv, RecordedMeansApplied, Owed
  <2> QED  BY <1>5, <2>3, <2>4 DEF CommitTimeout
<1> QED  BY <1>4, <1>5, RowsAreCommitted

LEMMA TableInit == Init => TableInv
BY DEF Init, TableInv, Open, NoTx, RecordedMeansApplied, OneRow

LEMMA TableHolds == Spec => [](TInv /\ CallsInv /\ TableInv)
<1>1. Init => TInv /\ CallsInv /\ TableInv
  BY TypeInit, CallsInit, TableInit
<1>2. TInv /\ CallsInv /\ TableInv /\ [Next]_vars => (TInv /\ CallsInv /\ TableInv)'
  BY TypeStep, CallsStep, TableStep DEF TInv
<1> QED  BY <1>1, <1>2, PTL DEF Spec

\* Whoever is in the table of timeouts is there for a timeout that succeeded.
THEOREM RecordsAreEarned == Spec => []RecordedMeansApplied
<1>1. TableInv => RecordedMeansApplied
  BY DEF TableInv
<1> QED  BY <1>1, TableHolds, PTL

\* Every timeout has number 1, and where numbers are the key there is one row.
THEOREM NumbersStandStill == Spec => []TimeoutNumbersStandStill
<1>1. TInv /\ TableInv => TimeoutNumbersStandStill
  <2>1. ASSUME \A row, other \in timeouts : row = other PROVE Cardinality(timeouts) <= 1
    <3>1. CASE timeouts = {}
      BY <3>1, FS_EmptySet
    <3>2. ASSUME NEW row \in timeouts PROVE Cardinality(timeouts) <= 1
      <4>1. timeouts = {row}
        BY <2>1, <3>2
      <4> QED  BY <4>1, FS_Singleton
    <3> QED  BY <3>1, <3>2
  <2> QED  BY <2>1 DEF TInv, Numbers, TableInv, OneRow, TimeoutNumbersStandStill
<1> QED  BY <1>1, TableHolds, PTL

=============================================================================
