--------------------------- MODULE RecordsProofs ---------------------------
(***************************************************************************)
(* Proofs about Records, for any commands, warnings and cases.             *)
(***************************************************************************)
EXTENDS Records, FiniteSetTheorems, TLAPS

-----------------------------------------------------------------------------
(***************************************************************************)
(* The invariant.  A transaction is open while its command is at its       *)
(* commit; it holds the one row it is about, which nobody else holds, so   *)
(* that a warning is there to be removed when the commit comes.            *)
(***************************************************************************)
Early == {"idle", "gate", "work", "commit", "answer", "log"}

WarningRows == {<<"warning", w.id>> : w \in warnings}

OpenAtCommit == \A c \in Cmds : pc[c] # "commit" => tx[c] = NoTx

Holding(c) ==
    /\ Kind(c) \in Deleters \cup Changers
    /\ Kind(c) \in Deleters =>
          /\ Matching(c) \subseteq tx[c].who
          /\ tx[c].who \subseteq WarningRows
          /\ \A r, s \in tx[c].who : r = s
          /\ msg[c].says = "done" => tx[c].who # {}
    /\ Kind(c) \in Changers => tx[c].who = {}

HeldRows == \A c \in Cmds : pc[c] = "commit" => Holding(c)

HeldApart == \A c, d \in Cmds : c # d => tx[c].who \cap tx[d].who = {}

\* An edit has found nothing, which it says to the log only.
EditsSayNone ==
    \A c \in Cmds :
        Kind(c) \in Changers /\ pc[c] \in {"commit", "answer"} => msg[c].says = "none"

FinalIsLate == \A c \in Cmds : reply[c].from = "final" => pc[c] \notin Early

Absent(c) ==
    Kind(c) \in Deleters \cup WarnViews /\ (msg[c].says = "none" \/ Told(c, "none"))
        => Matching(c) = {}

AbsentRows == \A c \in Cmds : Absent(c)

\* The commands that have removed a warning, and say so or are about to.
Removers ==
    {c \in Cmds : /\ Kind(c) \in Deleters
                  /\ Told(c, "done") \/ (pc[c] = "answer" /\ msg[c].says = "done")}

Earned ==
    /\ IsFiniteSet(Removers)
    /\ Cardinality(Removers) <= Cardinality(Warnings) - Cardinality(warnings)
    /\ \A c \in Removers : Matching(c) = {}

RInv ==
    /\ TypeOK
    /\ OpenAtCommit /\ HeldRows /\ HeldApart
    /\ FinalIsLate /\ AbsentRows /\ Earned
    /\ EditsSayNone /\ EditsGoUnanswered

-----------------------------------------------------------------------------
(***************************************************************************)
(* Lemmas about the parts of a step.                                       *)
(***************************************************************************)
\* The table only shrinks, so a statement that matches nothing never will.
LEMMA MatchingShrinks ==
    ASSUME warnings' \subseteq warnings, req' = req, NEW c \in Cmds,
           Kind(c) \in Deleters \cup WarnViews
    PROVE  Matching(c)' \subseteq Matching(c)
<1>1. Kind(c)' = Kind(c)
  BY DEF Kind
<1>2. CASE Kind(c) = "delete_warning"
  BY <1>1, <1>2 DEF Matching, Deleters, WarnViews
<1>3. CASE Kind(c) \in {"clear_warnings", "view_warnings"}
  BY <1>1, <1>3 DEF Matching, Deleters, WarnViews
<1>4. CASE Kind(c) \in {"clear_guild_warnings", "view_guild_warnings"}
  BY <1>1, <1>4 DEF Matching, Deleters, WarnViews
<1> QED  BY <1>2, <1>3, <1>4 DEF Deleters, WarnViews

\* A statement matches rows that are there to be held.
LEMMA MatchingIsLocks ==
    ASSUME TypeOK, NEW c \in Cmds
    PROVE  /\ Matching(c) \subseteq Shown
           /\ Kind(c) \in Deleters \cup WarnViews =>
                 Matching(c) \subseteq WarningRows /\ Matching(c) \subseteq Locks
           /\ Kind(c) \in Changers => Matching(c) = {}
<1>1. warnings \subseteq Warnings
  BY DEF TypeOK
<1>2. WarningRows \subseteq Locks /\ Locks \subseteq Shown
  BY <1>1 DEF WarningRows, Locks, Shown
<1>3. CASE Kind(c) = "delete_warning"
  <2>1. Matching(c) = {<<"warning", w.id>> : w \in {v \in warnings : v.id = req[c].number}}
    BY <1>3 DEF Matching, Changers
  <2>2. Matching(c) \subseteq WarningRows
    BY <2>1 DEF WarningRows
  <2> QED  BY <1>2, <1>3, <2>2 DEF Changers
<1>4. CASE Kind(c) \in {"clear_warnings", "view_warnings"}
  <2>1. Matching(c) = {<<"warning", w.id>> : w \in {v \in warnings : v.user = req[c].member}}
    BY <1>4 DEF Matching, Changers
  <2>2. Matching(c) \subseteq WarningRows
    BY <2>1 DEF WarningRows
  <2> QED  BY <1>2, <1>4, <2>2 DEF Changers
<1>5. CASE Kind(c) \in {"clear_guild_warnings", "view_guild_warnings"}
  <2>1. Matching(c) = WarningRows
    BY <1>5 DEF Matching, WarningRows, Changers
  <2> QED  BY <1>2, <1>5, <2>1 DEF Changers
<1>6. CASE Kind(c) = "view_modcase"
  <2>1. Matching(c) = {<<"case", n>> : n \in CaseNumbers \cap {req[c].number}}
    BY <1>6 DEF Matching, Changers
  <2> QED  BY <1>6, <2>1 DEF Shown, Changers, Deleters, WarnViews
<1>7. CASE Kind(c) \in {"view_user_modcases", "view_mod_modcases"}
  <2>1. Matching(c) = {<<"case", n>> : n \in {m \in CaseNumbers : Punished[m] = req[c].member}}
    BY <1>7 DEF Matching, Changers
  <2> QED  BY <1>7, <2>1 DEF Shown, Changers, Deleters, WarnViews
<1>8. CASE Kind(c) = "view_guild_modcases"
  <2>1. Matching(c) = {<<"case", n>> : n \in CaseNumbers}
    BY <1>8 DEF Matching, Changers
  <2> QED  BY <1>8, <2>1 DEF Shown, Changers, Deleters, WarnViews
<1>9. CASE Kind(c) \in Changers \cup {"view_muted_members"}
  <2>1. Matching(c) = {}
    BY <1>9 DEF Matching, Changers
  <2> QED  BY <1>9, <2>1 DEF Changers, Deleters, WarnViews
<1>10. Kind(c) \in Deleters \cup Changers \cup Views
  <2>1. req \in [Cmds -> RecordRequest]
    BY RecordsAssumption DEF RecordsAssumption, TypeOK
  <2> QED  BY <2>1 DEF Kind, RecordRequest
<1> QED
  BY <1>3, <1>4, <1>5, <1>6, <1>7, <1>8, <1>9, <1>10
  DEF Deleters, Changers, Views, WarnViews, CaseViews

\* exec_prepared1 is content with at most one row.
LEMMA OneRowIsOne ==
    ASSUME TypeOK, NEW c \in Cmds, Kind(c) \in Deleters, OneRow(Matching(c))
    PROVE  \A r, s \in Matching(c) : r = s
<1>1. CASE Cardinality(Matching(c)) = 1
  <2>1. IsFiniteSet(WarningRows)
    <3>1. IsFiniteSet(warnings)
      BY RecordsAssumption, FS_Subset DEF RecordsAssumption, TypeOK
    <3> DEFINE f == [w \in warnings |-> <<"warning", w.id>>]
    <3>2. f \in Surjection(warnings, WarningRows)
      BY DEF Surjection, WarningRows
    <3> QED  BY <3>1, <3>2, FS_Surjection
  <2>2. IsFiniteSet(Matching(c))
    BY <2>1, MatchingIsLocks, FS_Subset
  <2>3. \E row : Matching(c) = {row}
    BY <1>1, <2>2, FS_Singleton
  <2> QED  BY <2>3
<1>2. CASE Matching(c) = {}
  BY <1>2
<1> QED  BY <1>1, <1>2 DEF OneRow

-----------------------------------------------------------------------------
(***************************************************************************)
(* Types.                                                                  *)
(***************************************************************************)
TxType == [Cmds -> [id : {0, 1}, who : SUBSET Locks]]

LEMMA NoTxIsTx == NoTx \in [id : {0, 1}, who : SUBSET Locks]
BY DEF NoTx

\* The ways a step may end badly keep the types.
LEMMA BadEndsAreTyped ==
    ASSUME TypeOK, NEW c \in Cmds
    PROVE  /\ NullDereference(c) => pc' \in [Cmds -> PCs] /\ tx' \in TxType
           /\ Raise(c) => pc' \in [Cmds -> PCs] /\ tx' \in TxType
           /\ RollBack(c) => pc' \in [Cmds -> PCs] /\ tx' \in TxType
           /\ RaiseInCallback => pc' \in [Cmds -> PCs] /\ tx' \in TxType
           /\ ProcessDies({}) => pc' \in [Cmds -> PCs] /\ tx' \in TxType
<1>1. pc \in [Cmds -> PCs] /\ tx \in TxType
  BY DEF TypeOK, TxType
<1>2. ASSUME NEW S, ProcessDies(S) PROVE pc' \in [Cmds -> PCs] /\ tx' \in TxType
  BY <1>1, <1>2, NoTxIsTx DEF ProcessDies, TxType, PCs, Ended
<1>3. ASSUME Goto(c, "raised") PROVE pc' \in [Cmds -> PCs]
  BY <1>1, <1>3 DEF Goto, PCs, Ended
<1>4. ASSUME tx' = [tx EXCEPT ![c] = NoTx] PROVE tx' \in TxType
  BY <1>1, <1>4, NoTxIsTx DEF TxType
<1> QED
  BY <1>1, <1>2, <1>3, <1>4 DEF NullDereference, Raise, RollBack, RaiseInCallback

\* The kinds of step of a response.
LEMMA ResponseTypes ==
    ASSUME TypeOK, NEW c \in Cmds, process_response(c)
    PROVE  /\ pc' \in [Cmds -> PCs] /\ tx' \in TxType
           /\ msg' \in [Cmds -> Body]
           /\ fetching' \subseteq Cmds
<1>1. /\ pc \in [Cmds -> PCs] /\ tx \in TxType /\ msg \in [Cmds -> Body]
      /\ fetching \subseteq Cmds
  BY DEF TypeOK, TxType
<1>2. ASSUME NEW found \in BOOLEAN, Begin(c, found), Kind(c) \in Deleters \cup Changers
      PROVE  pc' \in [Cmds -> PCs] /\ tx' \in TxType /\ msg' \in [Cmds -> Body]
  <2>1. pc' \in [Cmds -> PCs]
    BY <1>1, <1>2 DEF Begin, Goto, PCs
  <2>2. tx' \in TxType
    <3>1. [id |-> 1, who |-> Matching(c)] \in [id : {0, 1}, who : SUBSET Locks]
      BY <1>2, MatchingIsLocks
    <3> QED  BY <1>1, <1>2, <3>1 DEF Begin, TxType
  <2>3. msg' \in [Cmds -> Body]
    <3>1. msg' = [msg EXCEPT ![c].says = IF found THEN "done" ELSE "none"]
      BY <1>2 DEF Begin
    <3> QED  BY <1>1, <3>1 DEF Body
  <2> QED  BY <2>1, <2>2, <2>3
<1>3. ASSUME NEW rows \in SUBSET Shown, View(c, rows)
      PROVE  pc' \in [Cmds -> PCs] /\ tx' \in TxType /\ msg' \in [Cmds -> Body]
  BY <1>1, <1>3 DEF View, Goto, PCs, Body
<1>4. Matching(c) \subseteq Shown
  BY MatchingIsLocks
<1>5. CASE delete_rows(c)
  <2>1. (Matching(c) # {}) \in BOOLEAN
    OBVIOUS
  <2> QED  BY <1>1, <1>2, <1>5, <2>1, BadEndsAreTyped DEF delete_rows
<1>6. CASE update_case(c)
  BY <1>1, <1>2, <1>6, BadEndsAreTyped DEF update_case
<1>7. CASE view_warning_rows(c)
  BY <1>1, <1>3, <1>4, <1>7, BadEndsAreTyped DEF view_warning_rows
<1>8. CASE view_case_rows(c)
  <2>1. ASSUME CasesFound(c)
        PROVE  /\ pc' \in [Cmds -> PCs] /\ tx' \in TxType
               /\ msg' \in [Cmds -> Body] /\ fetching' \subseteq Cmds
    <3>1. CASE Raise(c) /\ UNCHANGED <<msg, fetching>>
      BY <1>1, <3>1, BadEndsAreTyped
    <3>2. CASE /\ fetching' = fetching \cup {c}
               /\ msg' = [msg EXCEPT ![c].says = "view"]
               /\ Goto(c, "answer") /\ UNCHANGED tx
      BY <1>1, <3>2 DEF Goto, PCs, Body
    <3> QED  BY <2>1, <3>1, <3>2 DEF CasesFound
  <2>2. {} \in SUBSET Shown
    OBVIOUS
  <2>3. CASE Raise(c) /\ UNCHANGED <<msg, fetching>>
    BY <1>1, <2>3, BadEndsAreTyped
  <2>4. CASE View(c, {}) /\ UNCHANGED fetching
    BY <1>1, <1>3, <2>2, <2>4
  <2>5. \/ Raise(c) /\ UNCHANGED <<msg, fetching>>
        \/ View(c, {}) /\ UNCHANGED fetching
        \/ CasesFound(c)
    BY <1>8 DEF view_case_rows
  <2> QED  BY <2>1, <2>3, <2>4, <2>5
<1>9. CASE view_muted_rows(c)
  <2>1. ASSUME NEW seen \in SUBSET TimedOut,
               msg' = [msg EXCEPT ![c] = [says |-> "view",
                                          rows |-> {<<"timeout", u>> : u \in seen}]]
        PROVE  msg' \in [Cmds -> Body]
    <3>1. {<<"timeout", u>> : u \in seen} \subseteq Shown
      BY RecordsAssumption DEF RecordsAssumption, Shown
    <3> QED  BY <1>1, <2>1, <3>1 DEF Body
  <2>2. ASSUME ViewTimeouts(c)
        PROVE  pc' \in [Cmds -> PCs] /\ tx' \in TxType /\ msg' \in [Cmds -> Body]
    BY <1>1, <2>1, <2>2, BadEndsAreTyped DEF ViewTimeouts, Goto, PCs
  <2> QED  BY <1>1, <1>9, <2>2, BadEndsAreTyped DEF view_muted_rows
<1> QED  BY <1>5, <1>6, <1>7, <1>8, <1>9 DEF process_response

LEMMA TypeStep == TypeOK /\ [Next]_vars => TypeOK'
<1> SUFFICES ASSUME TypeOK, [Next]_vars PROVE TypeOK'
  OBVIOUS
<1>1. CASE UNCHANGED vars
  BY <1>1 DEF vars, TypeOK
<1>2. ASSUME NEW c \in Cmds, Invoke(c) PROVE TypeOK'
  BY <1>2 DEF Invoke, Goto, TypeOK, PCs
<1>3. ASSUME NEW c \in Cmds, check_permissions(c) PROVE TypeOK'
  <2>1. pc' \in [Cmds -> PCs] /\ tx' \in TxType
    <3>1. \/ NullDereference(c) \/ Raise(c)
          \/ (Goto(c, "cancelled") \/ Goto(c, "work")) /\ UNCHANGED tx
      BY <1>3 DEF check_permissions
    <3>2. Goto(c, "cancelled") \/ Goto(c, "work") => pc' \in [Cmds -> PCs]
      BY DEF Goto, TypeOK, PCs, Ended
    <3> QED  BY <3>1, <3>2, BadEndsAreTyped DEF TypeOK, TxType
  <2> QED  BY <1>3, <2>1 DEF check_permissions, TypeOK, TxType
<1>4. ASSUME NEW c \in Cmds, process_response(c) PROVE TypeOK'
  BY <1>4, ResponseTypes DEF process_response, TypeOK, TxType
<1>5. ASSUME NEW c \in Cmds, Commit(c) PROVE TypeOK'
  <2>1. pc' \in [Cmds -> PCs] /\ tx' \in TxType
    <3>1. ASSUME Goto(c, "answer"), tx' = [tx EXCEPT ![c] = NoTx]
          PROVE  pc' \in [Cmds -> PCs] /\ tx' \in TxType
      BY <3>1, NoTxIsTx DEF Goto, TypeOK, PCs, TxType
    <3> QED  BY <1>5, <3>1, BadEndsAreTyped DEF Commit
  <2>2. warnings' \subseteq Warnings
    BY <1>5 DEF Commit, Applied, TypeOK
  <2> QED  BY <1>5, <2>1, <2>2 DEF Commit, TypeOK, TxType
<1>6. ASSUME NEW c \in Cmds, Answer(c) PROVE TypeOK'
  <2>1. pc' \in [Cmds -> PCs]
    BY <1>6 DEF Answer, Goto, TypeOK, PCs, Ended
  <2>2. reply' \in [Cmds -> [from : {"none", "final"}, body : Body]]
    BY <1>6 DEF Answer, Show, TypeOK
  <2> QED  BY <1>6, <2>1, <2>2 DEF Answer, TypeOK
<1>7. ASSUME NEW c \in Cmds, LogChange(c) PROVE TypeOK'
  BY <1>7, BadEndsAreTyped DEF LogChange, TypeOK, TxType
<1>8. ASSUME NEW c \in Cmds, FetchedLate(c) PROVE TypeOK'
  BY <1>8, BadEndsAreTyped DEF FetchedLate, TypeOK, TxType
<1>9. CASE Kill
  BY <1>9, BadEndsAreTyped DEF Kill, TypeOK, TxType
<1> QED
  BY <1>1, <1>2, <1>3, <1>4, <1>5, <1>6, <1>7, <1>8, <1>9 DEF Next, wrapper_function

-----------------------------------------------------------------------------
(***************************************************************************)
(* The steps that write nothing: a command goes on, or ends, and whatever  *)
(* transaction it had open is gone.                                        *)
(***************************************************************************)
MovesOn(d) ==
    \/ pc'[d] = pc[d] /\ tx'[d] = tx[d]
    \/ /\ tx'[d] = NoTx
       /\ pc'[d] \notin {"commit", "answer"}
       /\ pc'[d] \in Early => pc[d] \in Early

\* The ways a step may end badly.
LEMMA BadEndsMoveOn ==
    ASSUME TypeOK, OpenAtCommit, NEW c \in Cmds
    PROVE  /\ NullDereference(c) => \A d \in Cmds : MovesOn(d)
           /\ Raise(c) => \A d \in Cmds \ {c} : MovesOn(d)
           /\ Raise(c) /\ pc[c] # "commit" => MovesOn(c)
           /\ RollBack(c) => \A d \in Cmds : MovesOn(d)
           /\ RaiseInCallback => \A d \in Cmds : MovesOn(d)
           /\ ProcessDies({}) => \A d \in Cmds : MovesOn(d)
<1>1. pc \in [Cmds -> PCs] /\ tx \in TxType
  BY DEF TypeOK, TxType
<1>2. ASSUME NEW S, ProcessDies(S), NEW d \in Cmds PROVE MovesOn(d)
  BY <1>1, <1>2 DEF ProcessDies, MovesOn, OpenAtCommit, Early
<1>3. ASSUME Goto(c, "raised"), UNCHANGED tx, NEW d \in Cmds \ {c} PROVE MovesOn(d)
  BY <1>1, <1>3 DEF Goto, MovesOn
<1>4. ASSUME Goto(c, "raised"), UNCHANGED tx, pc[c] # "commit" PROVE MovesOn(c)
  BY <1>1, <1>4 DEF Goto, MovesOn, OpenAtCommit, Early
<1>5. ASSUME Goto(c, "raised"), tx' = [tx EXCEPT ![c] = NoTx], NEW d \in Cmds
      PROVE  MovesOn(d)
  BY <1>1, <1>5 DEF Goto, MovesOn, TxType, Early
<1>6. ASSUME UNCHANGED <<pc, tx>>, NEW d \in Cmds PROVE MovesOn(d)
  BY <1>6 DEF MovesOn
<1>7. NullDereference(c) => \A d \in Cmds : MovesOn(d)
  BY <1>2 DEF NullDereference
<1>8. Raise(c) => \A d \in Cmds \ {c} : MovesOn(d)
  BY <1>2, <1>3 DEF Raise
<1>9. Raise(c) /\ pc[c] # "commit" => MovesOn(c)
  BY <1>2, <1>4 DEF Raise
<1>10. RollBack(c) => \A d \in Cmds : MovesOn(d)
  BY <1>2, <1>5 DEF RollBack
<1>11. RaiseInCallback => \A d \in Cmds : MovesOn(d)
  BY <1>2, <1>6 DEF RaiseInCallback
<1> QED  BY <1>2, <1>7, <1>8, <1>9, <1>10, <1>11

\* The gate: a command goes on to its response or ends, whatever it looked up.
LEMMA GateMovesOn ==
    ASSUME TypeOK, OpenAtCommit, NEW c \in Cmds, Invoke(c) \/ check_permissions(c)
    PROVE  \A d \in Cmds : MovesOn(d)
<1>1. pc \in [Cmds -> PCs] /\ tx \in TxType
  BY DEF TypeOK, TxType
<1>2. pc[c] \in {"idle", "gate"}
  BY DEF Invoke, check_permissions
<1>3. ASSUME NEW where \in {"gate", "work", "cancelled"}, Goto(c, where), UNCHANGED tx
      PROVE  \A d \in Cmds : MovesOn(d)
  BY <1>1, <1>2, <1>3 DEF Goto, MovesOn, OpenAtCommit, Early
<1>4. CASE Invoke(c)
  BY <1>3, <1>4 DEF Invoke
<1>5. CASE check_permissions(c)
  <2>1. \/ NullDereference(c) \/ Raise(c)
        \/ (Goto(c, "cancelled") \/ Goto(c, "work")) /\ UNCHANGED tx
    BY <1>5 DEF check_permissions
  <2> QED  BY <1>2, <1>3, <2>1, BadEndsMoveOn
<1> QED  BY <1>4, <1>5

\* Nothing RInv says is disturbed by them.
LEMMA QuietStep ==
    ASSUME RInv, TypeOK', UNCHANGED <<warnings, req, msg, reply, cmdlog>>,
           \A d \in Cmds : MovesOn(d)
    PROVE  RInv'
<1> USE DEF RInv
<1>1. OpenAtCommit' /\ FinalIsLate'
  BY DEF OpenAtCommit, FinalIsLate, MovesOn, Early
<1>2. \A c \in Cmds : /\ Kind(c)' = Kind(c) /\ Matching(c)' = Matching(c)
                      /\ \A what : Told(c, what)' <=> Told(c, what)
  BY DEF Kind, Matching, Told
<1>3. HeldRows'
  <2>1. ASSUME NEW c \in Cmds, pc'[c] = "commit" PROVE Holding(c)'
    <3>1. pc[c] = "commit" /\ tx'[c] = tx[c]
      BY <2>1 DEF MovesOn
    <3>2. Holding(c)
      BY <3>1 DEF HeldRows
    <3>3. WarningRows' = WarningRows
      BY DEF WarningRows
    <3> QED  BY <1>2, <3>1, <3>2, <3>3 DEF Holding
  <2> QED  BY <2>1 DEF HeldRows
<1>4. HeldApart'
  <2>1. \A d \in Cmds : tx'[d].who \subseteq tx[d].who
    BY DEF MovesOn, NoTx
  <2> QED  BY <2>1 DEF HeldApart
<1>5. AbsentRows'
  BY <1>2 DEF AbsentRows, Absent
<1>6. Earned'
  <2>1. Removers' \subseteq Removers
    BY <1>2 DEF Removers, MovesOn
  <2>2. IsFiniteSet(Removers') /\ Cardinality(Removers') <= Cardinality(Removers)
    BY <2>1, FS_Subset DEF Earned
  <2>3. Cardinality(Removers) \in Nat /\ Cardinality(Removers') \in Nat
    BY <2>2, FS_CardinalityType DEF Earned
  <2>4. Cardinality(warnings) \in Nat /\ Cardinality(Warnings) \in Nat
    BY RecordsAssumption, FS_Subset, FS_CardinalityType DEF RecordsAssumption, TypeOK
  <2>5. Cardinality(Removers') <= Cardinality(Warnings) - Cardinality(warnings')
    BY <2>2, <2>3, <2>4 DEF Earned
  <2>6. \A c \in Removers' : Matching(c)' = {}
    BY <1>2, <2>1 DEF Earned, Removers
  <2> QED  BY <2>2, <2>5, <2>6 DEF Earned
<1>7. EditsSayNone'
  BY <1>2 DEF EditsSayNone, MovesOn
<1>8. EditsGoUnanswered'
  BY <1>2 DEF EditsGoUnanswered
<1> QED  BY <1>1, <1>3, <1>4, <1>5, <1>6, <1>7, <1>8

-----------------------------------------------------------------------------
(***************************************************************************)
(* The response.                                                           *)
(***************************************************************************)
\* A statement is sent: the rows it returns are held until the commit.
LEMMA BeginStep ==
    ASSUME RInv, TypeOK', NEW c \in Cmds, NEW found \in BOOLEAN,
           pc[c] = "work", Unlocked(c), Begin(c, found),
           Kind(c) \in Deleters \cup Changers,
           Kind(c) \in Deleters => OneRow(Matching(c)), found = (Matching(c) # {}),
           UNCHANGED <<warnings, req, reply, cmdlog>>
    PROVE  RInv'
<1> USE DEF RInv
<1>1. /\ pc \in [Cmds -> PCs] /\ tx \in TxType /\ msg \in [Cmds -> Body]
  BY DEF TypeOK, TxType
<1>2. /\ pc' = [pc EXCEPT ![c] = "commit"]
      /\ tx' = [tx EXCEPT ![c] = [id |-> 1, who |-> Matching(c)]]
      /\ msg' = [msg EXCEPT ![c].says = IF found THEN "done" ELSE "none"]
  BY DEF Begin, Goto
<1>3. /\ pc'[c] = "commit" /\ tx'[c].who = Matching(c)
      /\ msg'[c].says = IF found THEN "done" ELSE "none"
      /\ \A d \in Cmds \ {c} : pc'[d] = pc[d] /\ tx'[d] = tx[d] /\ msg'[d] = msg[d]
  <2>1. pc'[c] = "commit" /\ \A d \in Cmds \ {c} : pc'[d] = pc[d]
    BY <1>1, <1>2
  <2>2. tx'[c].who = Matching(c) /\ \A d \in Cmds \ {c} : tx'[d] = tx[d]
    BY <1>1, <1>2 DEF TxType
  <2>3. /\ msg'[c].says = IF found THEN "done" ELSE "none"
        /\ \A d \in Cmds \ {c} : msg'[d] = msg[d]
    <3>1. msg' = [msg EXCEPT ![c] = [msg[c] EXCEPT !.says = IF found THEN "done" ELSE "none"]]
      BY <1>2
    <3> QED  BY <1>1, <3>1 DEF Body
  <2> QED  BY <2>1, <2>2, <2>3
<1>4. \A d \in Cmds : /\ Kind(d)' = Kind(d) /\ Matching(d)' = Matching(d)
                      /\ \A what : Told(d, what)' <=> Told(d, what)
  BY DEF Kind, Matching, Told
<1>5. OpenAtCommit' /\ FinalIsLate'
  BY <1>3 DEF OpenAtCommit, FinalIsLate, Early
<1>6. HeldRows'
  <2>1. WarningRows' = WarningRows /\ UNCHANGED req
    BY DEF WarningRows
  <2>2. Holding(c)'
    BY <1>3, <1>4, <2>1, MatchingIsLocks, OneRowIsOne DEF Holding, Deleters, Changers
  <2>3. ASSUME NEW d \in Cmds \ {c}, pc'[d] = "commit" PROVE Holding(d)'
    <3>1. Holding(d)
      BY <1>3, <2>3 DEF HeldRows
    <3> QED  BY <1>3, <1>4, <2>1, <3>1 DEF Holding
  <2> QED  BY <2>2, <2>3 DEF HeldRows
<1>7. HeldApart'
  BY <1>3 DEF HeldApart, Unlocked
<1>8. AbsentRows'
  <2>1. Kind(c) \in Deleters /\ msg'[c].says = "none" => Matching(c) = {}
    <3>1. Kind(c) \in Deleters => (found <=> Matching(c) # {})
      OBVIOUS
    <3>2. msg'[c].says = "none" => ~found
      BY <1>3
    <3> QED  BY <3>1, <3>2
  <2>2. Kind(c) \notin WarnViews
    BY DEF Deleters, Changers, WarnViews
  <2>3. Absent(c)
    BY DEF AbsentRows
  <2>4. Absent(c)'
    BY <1>4, <2>1, <2>2, <2>3 DEF Absent
  <2>5. ASSUME NEW d \in Cmds \ {c} PROVE Absent(d)'
    BY <1>3, <1>4 DEF AbsentRows, Absent
  <2> QED  BY <2>4, <2>5 DEF AbsentRows
<1>9. Earned'
  <2>1. Removers' = Removers
    BY <1>3, <1>4 DEF Removers
  <2> QED  BY <1>4, <2>1 DEF Earned, Removers
<1>10. EditsSayNone'
  <2>1. Kind(c) \in Changers => ~found
    BY MatchingIsLocks
  <2> QED  BY <1>3, <1>4, <2>1 DEF EditsSayNone
<1>11. EditsGoUnanswered'
  BY <1>4 DEF EditsGoUnanswered
<1> QED  BY <1>5, <1>6, <1>7, <1>8, <1>9, <1>10, <1>11

\* A view has its answer: it is no deletion and no edit, and holds no row.
LEMMA ViewStep ==
    ASSUME RInv, TypeOK', NEW c \in Cmds,
           pc[c] = "work", Goto(c, "answer"),
           Kind(c) \notin Deleters \cup Changers,
           \A d \in Cmds \ {c} : msg'[d] = msg[d],
           Kind(c) \in WarnViews /\ msg'[c].says = "none" => Matching(c) = {},
           UNCHANGED <<warnings, req, reply, cmdlog, tx>>
    PROVE  RInv'
<1> USE DEF RInv
<1>1. pc \in [Cmds -> PCs] /\ pc' = [pc EXCEPT ![c] = "answer"]
  BY DEF TypeOK, Goto
<1>2. pc'[c] = "answer" /\ \A d \in Cmds \ {c} : pc'[d] = pc[d]
  BY <1>1
<1>3. \A d \in Cmds : /\ Kind(d)' = Kind(d) /\ Matching(d)' = Matching(d)
                      /\ \A what : Told(d, what)' <=> Told(d, what)
  BY DEF Kind, Matching, Told
<1>4. OpenAtCommit' /\ FinalIsLate'
  BY <1>2 DEF OpenAtCommit, FinalIsLate, Early
<1>5. HeldRows'
  <2>1. WarningRows' = WarningRows /\ UNCHANGED <<req, tx>>
    BY DEF WarningRows
  <2>2. ASSUME NEW d \in Cmds \ {c}, pc'[d] = "commit" PROVE Holding(d)'
    <3>1. Holding(d)
      BY <1>2, <2>2 DEF HeldRows
    <3> QED  BY <1>3, <2>1, <3>1 DEF Holding
  <2> QED  BY <1>2, <2>2 DEF HeldRows
<1>6. HeldApart'
  BY DEF HeldApart
<1>7. AbsentRows'
  <2>1. Absent(c)'
    BY <1>3 DEF AbsentRows, Absent, Deleters
  <2>2. ASSUME NEW d \in Cmds \ {c} PROVE Absent(d)'
    BY <1>3 DEF AbsentRows, Absent
  <2> QED  BY <2>1, <2>2 DEF AbsentRows
<1>8. Earned'
  <2>1. Removers' = Removers
    BY <1>2, <1>3 DEF Removers
  <2> QED  BY <1>3, <2>1 DEF Earned, Removers
<1>9. EditsSayNone'
  BY <1>2, <1>3 DEF EditsSayNone
<1>10. EditsGoUnanswered'
  BY <1>3 DEF EditsGoUnanswered
<1> QED  BY <1>4, <1>5, <1>6, <1>7, <1>8, <1>9, <1>10

\* A response sends a statement, shows what it found, or ends.
LEMMA ResponseStep ==
    ASSUME RInv, TypeOK', NEW c \in Cmds, process_response(c)
    PROVE  RInv'
<1> USE DEF RInv
<1>1. /\ pc[c] = "work"
      /\ Unlocked(c) \/ Kind(c) \in Views
      /\ UNCHANGED <<warnings, req, reply, cmdlog>>
  BY DEF process_response
<1>2. msg \in [Cmds -> Body]
  BY DEF TypeOK
<1>3. ASSUME Raise(c) \/ NullDereference(c), UNCHANGED msg PROVE RInv'
  <2>1. \A d \in Cmds : MovesOn(d)
    BY <1>1, <1>3, BadEndsMoveOn
  <2> QED  BY <1>1, <1>3, <2>1, QuietStep
<1>4. ASSUME NEW rows, View(c, rows), Kind(c) \in Views,
             Kind(c) \in WarnViews => rows = Matching(c)
      PROVE  RInv'
  <2>1. /\ Goto(c, "answer") /\ UNCHANGED tx
        /\ \A d \in Cmds \ {c} : msg'[d] = msg[d]
        /\ msg'[c].says = "none" => rows = {}
    BY <1>2, <1>4 DEF View
  <2>2. Kind(c) \notin Deleters \cup Changers
    BY <1>4 DEF Views, Deleters, Changers, WarnViews, CaseViews
  <2>3. Kind(c) \in WarnViews /\ msg'[c].says = "none" => Matching(c) = {}
    BY <1>4, <2>1
  <2> QED  BY <1>1, <2>1, <2>2, <2>3, ViewStep
<1>5. CASE delete_rows(c)
  <2>1. Kind(c) \in Deleters /\ Kind(c) \notin Views
    BY <1>5 DEF delete_rows, Views, Deleters, WarnViews, CaseViews
  <2>2. CASE OneRow(Matching(c)) /\ Begin(c, Matching(c) # {})
    <3>1. (Matching(c) # {}) \in BOOLEAN
      OBVIOUS
    <3> QED  BY <1>1, <2>1, <2>2, <3>1, BeginStep
  <2>3. CASE Raise(c) /\ UNCHANGED msg
    BY <1>3, <2>3
  <2> QED  BY <1>5, <2>2, <2>3 DEF delete_rows
<1>6. CASE update_case(c)
  <2>1. Kind(c) \in Changers /\ Kind(c) \notin Views \cup Deleters
    BY <1>6 DEF update_case, Views, Deleters, Changers, WarnViews, CaseViews
  <2>2. CASE Begin(c, FALSE)
    <3>1. FALSE = (Matching(c) # {})
      BY <2>1, MatchingIsLocks DEF RInv
    <3> QED  BY <1>1, <2>1, <2>2, <3>1, BeginStep
  <2>3. CASE Raise(c) /\ UNCHANGED msg
    BY <1>3, <2>3
  <2> QED  BY <1>6, <2>2, <2>3 DEF update_case
<1>7. CASE view_warning_rows(c)
  <2>1. Kind(c) \in Views
    BY <1>7 DEF view_warning_rows, Views
  <2> QED  BY <1>3, <1>4, <1>7, <2>1 DEF view_warning_rows
<1>8. CASE view_case_rows(c)
  <2>1. Kind(c) \in Views \ WarnViews
    BY <1>8 DEF view_case_rows, Views, WarnViews, CaseViews
  <2>2. CASE View(c, {})
    BY <1>4, <2>1, <2>2
  <2>3. CASE Raise(c) /\ UNCHANGED msg
    BY <1>3, <2>3
  <2>4. CASE msg' = [msg EXCEPT ![c].says = "view"] /\ Goto(c, "answer") /\ UNCHANGED tx
    <3>1. \A d \in Cmds \ {c} : msg'[d] = msg[d]
      BY <1>2, <2>4
    <3>2. Kind(c) \notin Deleters \cup Changers \cup WarnViews
      BY <2>1 DEF Views, Deleters, Changers, WarnViews, CaseViews
    <3> QED  BY <1>1, <2>4, <3>1, <3>2, ViewStep
  <2>5. \/ Raise(c) /\ UNCHANGED msg
        \/ View(c, {})
        \/ msg' = [msg EXCEPT ![c].says = "view"] /\ Goto(c, "answer") /\ UNCHANGED tx
    BY <1>8 DEF view_case_rows, CasesFound
  <2> QED  BY <2>2, <2>3, <2>4, <2>5
<1>9. CASE view_muted_rows(c)
  <2>1. Kind(c) \notin Deleters \cup Changers \cup WarnViews
    BY <1>9 DEF view_muted_rows, Deleters, Changers, WarnViews
  <2>2. CASE (Raise(c) \/ NullDereference(c)) /\ UNCHANGED msg
    BY <1>3, <2>2
  <2>3. ASSUME NEW seen \in SUBSET TimedOut,
               msg' = [msg EXCEPT ![c] = [says |-> "view",
                                          rows |-> {<<"timeout", u>> : u \in seen}]],
               Goto(c, "answer"), UNCHANGED tx
        PROVE  RInv'
    <3>1. \A d \in Cmds \ {c} : msg'[d] = msg[d]
      BY <1>2, <2>3
    <3> QED  BY <1>1, <2>1, <2>3, <3>1, ViewStep
  <2> QED  BY <1>9, <2>2, <2>3 DEF view_muted_rows, ViewTimeouts
<1> QED  BY <1>5, <1>6, <1>7, <1>8, <1>9 DEF process_response

-----------------------------------------------------------------------------
(***************************************************************************)
(* The commit: the rows the command holds are there, and go.               *)
(***************************************************************************)
\* What the rows held say of the tables before and after.
LEMMA AppliedRows ==
    ASSUME RInv, NEW c \in Cmds, pc[c] = "commit", Applied(c), req' = req
    PROVE  /\ warnings' \subseteq warnings
           /\ \A d \in Cmds \ {c} :
                 tx[d].who \subseteq WarningRows => tx[d].who \subseteq WarningRows'
           /\ Kind(c) \in Deleters => Matching(c)' = {}
           /\ Kind(c) \in Deleters /\ msg[c].says = "done" => warnings' # warnings
<1> USE DEF RInv
<1>1. warnings' \subseteq warnings
  BY DEF Applied
<1>2. Holding(c)
  BY DEF HeldRows
<1>3. \A w \in warnings \ warnings' : <<"warning", w.id>> \in tx[c].who
  BY DEF Applied
<1>4. ASSUME NEW d \in Cmds \ {c}, tx[d].who \subseteq WarningRows
      PROVE  tx[d].who \subseteq WarningRows'
  <2>1. tx[d].who \cap tx[c].who = {}
    BY DEF HeldApart
  <2> QED  BY <1>3, <1>4, <2>1 DEF WarningRows
<1>5. ASSUME Kind(c) \in Deleters PROVE Matching(c)' = {}
  <2>1. Matching(c)' \subseteq Matching(c)
    BY <1>1, <1>5, MatchingShrinks
  <2>2. Matching(c)' \subseteq tx[c].who
    BY <1>2, <1>5, <2>1 DEF Holding
  <2>3. Matching(c)' \subseteq WarningRows'
    BY <1>5 DEF Matching, WarningRows, Deleters, Changers, Kind
  <2>4. WarningRows' \cap tx[c].who = {}
    BY <1>5 DEF Applied, WarningRows
  <2> QED  BY <2>2, <2>3, <2>4
<1>6. ASSUME Kind(c) \in Deleters, msg[c].says = "done" PROVE warnings' # warnings
  <2>1. PICK w \in warnings : <<"warning", w.id>> \in tx[c].who
    BY <1>2, <1>6 DEF Holding, WarningRows
  <2> QED  BY <1>6, <2>1 DEF Applied
<1> QED  BY <1>1, <1>4, <1>5, <1>6

LEMMA AppliedStep ==
    ASSUME RInv, TypeOK', NEW c \in Cmds, pc[c] = "commit", Applied(c),
           UNCHANGED <<req, msg, reply, cmdlog>>,
           \A d \in Cmds \ {c} : MovesOn(d),
           tx'[c] = NoTx, pc'[c] # "commit"
    PROVE  RInv'
<1> USE DEF RInv
<1>1. warnings' \subseteq warnings
  BY AppliedRows
<1>2. \A d \in Cmds : /\ Kind(d)' = Kind(d)
                      /\ \A what : Told(d, what)' <=> Told(d, what)
                      /\ Kind(d) \in Deleters \cup WarnViews =>
                            Matching(d)' \subseteq Matching(d)
  BY <1>1, MatchingShrinks DEF Kind, Told
<1>3. OpenAtCommit' /\ FinalIsLate'
  <2>1. OpenAtCommit'
    BY DEF OpenAtCommit, MovesOn
  <2>2. FinalIsLate'
    BY DEF FinalIsLate, MovesOn, Early
  <2> QED  BY <2>1, <2>2
<1>4. HeldRows'
  <2>1. ASSUME NEW d \in Cmds \ {c}, pc'[d] = "commit" PROVE Holding(d)'
    <3>1. pc[d] = "commit" /\ tx'[d] = tx[d]
      BY <2>1 DEF MovesOn
    <3>2. Holding(d)
      BY <3>1 DEF HeldRows
    <3>3. tx[d].who \subseteq WarningRows => tx'[d].who \subseteq WarningRows'
      BY <3>1, AppliedRows
    <3>4. Kind(d)' = Kind(d)
      BY <1>2
    <3>5. Kind(d) \in Deleters => Matching(d)' \subseteq tx'[d].who
      BY <1>2, <3>1, <3>2 DEF Holding
    <3> QED  BY <3>1, <3>2, <3>3, <3>4, <3>5 DEF Holding
  <2> QED  BY <2>1 DEF HeldRows
<1>5. HeldApart'
  <2>1. \A d \in Cmds : tx'[d].who \subseteq tx[d].who
    BY DEF MovesOn, NoTx
  <2> QED  BY <2>1 DEF HeldApart
<1>6. AbsentRows'
  BY <1>2 DEF AbsentRows, Absent
<1>7. Earned'
  <2>1. IsFiniteSet(Warnings) /\ IsFiniteSet(warnings) /\ IsFiniteSet(warnings')
    BY <1>1, RecordsAssumption, FS_Subset DEF RecordsAssumption, TypeOK
  <2>2. /\ Cardinality(Warnings) \in Nat /\ Cardinality(warnings) \in Nat
        /\ Cardinality(warnings') \in Nat
    BY <2>1, FS_CardinalityType
  <2>3. c \notin Removers
    BY DEF Removers, FinalIsLate, Told, Early
  <2>4. Removers' \subseteq Removers \cup {c}
    BY <1>2 DEF Removers, MovesOn
  <2>5. c \in Removers' => Kind(c) \in Deleters /\ msg[c].says = "done"
    BY <1>2 DEF Removers, FinalIsLate, Told, Early
  <2>6. \A d \in Removers' : Matching(d)' = {}
    <3>1. ASSUME NEW d \in Removers', d # c PROVE Matching(d)' = {}
      BY <1>2, <2>4, <3>1 DEF Earned, Removers
    <3>2. c \in Removers' => Matching(c)' = {}
      BY <2>5, AppliedRows
    <3> QED  BY <3>1, <3>2
  <2>7. /\ IsFiniteSet(Removers \cup {c})
        /\ Cardinality(Removers \cup {c}) = Cardinality(Removers) + 1
        /\ Cardinality(Removers) \in Nat
    BY <2>3, FS_AddElement, FS_CardinalityType DEF Earned
  <2>8. IsFiniteSet(Removers') /\ Cardinality(Removers') \in Nat
    BY <2>4, <2>7, FS_Subset, FS_CardinalityType
  <2>9. Cardinality(Removers') <= Cardinality(Warnings) - Cardinality(warnings')
    <3>1. CASE c \in Removers'
      <4>1. warnings' # warnings
        BY <2>5, <3>1, AppliedRows
      <4>2. Cardinality(warnings') < Cardinality(warnings)
        BY <1>1, <2>1, <2>2, <4>1, FS_Subset
      <4>3. Cardinality(Removers') <= Cardinality(Removers) + 1
        BY <2>4, <2>7, FS_Subset
      <4>4. Cardinality(Removers) <= Cardinality(Warnings) - Cardinality(warnings)
        BY DEF Earned
      <4> QED  BY <2>2, <2>7, <2>8, <4>2, <4>3, <4>4
    <3>2. CASE c \notin Removers'
      <4>1. Removers' \subseteq Removers
        BY <2>4, <3>2
      <4>2. Cardinality(warnings') <= Cardinality(warnings)
        BY <1>1, <2>1, FS_Subset
      <4>3. Cardinality(Removers') <= Cardinality(Removers)
        BY <4>1, FS_Subset DEF Earned
      <4>4. Cardinality(Removers) <= Cardinality(Warnings) - Cardinality(warnings)
        BY DEF Earned
      <4> QED  BY <2>2, <2>7, <2>8, <4>2, <4>3, <4>4
    <3> QED  BY <3>1, <3>2
  <2> QED  BY <2>6, <2>8, <2>9 DEF Earned
<1>8. EditsSayNone'
  BY <1>2 DEF EditsSayNone, MovesOn
<1>9. EditsGoUnanswered'
  BY <1>2 DEF EditsGoUnanswered
<1> QED  BY <1>3, <1>4, <1>5, <1>6, <1>7, <1>8, <1>9

LEMMA CommitStep ==
    ASSUME RInv, TypeOK', NEW c \in Cmds, Commit(c)
    PROVE  RInv'
<1> USE DEF RInv
<1>1. pc[c] = "commit" /\ UNCHANGED <<req, msg, reply, cmdlog>>
  BY DEF Commit
<1>2. pc \in [Cmds -> PCs] /\ tx \in TxType
  BY DEF TypeOK, TxType
<1>3. CASE Applied(c) /\ Goto(c, "answer") /\ tx' = [tx EXCEPT ![c] = NoTx]
  <2>1. /\ \A d \in Cmds \ {c} : MovesOn(d)
        /\ tx'[c] = NoTx /\ pc'[c] # "commit"
    BY <1>2, <1>3 DEF Goto, MovesOn, TxType
  <2> QED  BY <1>1, <1>3, <2>1, AppliedStep
<1>4. CASE Applied(c) /\ RollBack(c)
  <2>1. \A d \in Cmds : MovesOn(d)
    BY <1>4, BadEndsMoveOn
  <2>2. tx'[c] = NoTx /\ pc'[c] # "commit"
    BY <1>1, <1>2, <1>4 DEF RollBack, Goto, ProcessDies, TxType
  <2> QED  BY <1>1, <1>4, <2>1, <2>2, AppliedStep
<1>5. CASE UNCHANGED warnings /\ RollBack(c)
  <2>1. \A d \in Cmds : MovesOn(d)
    BY <1>5, BadEndsMoveOn
  <2> QED  BY <1>1, <1>5, <2>1, QuietStep
<1> QED  BY <1>3, <1>4, <1>5 DEF Commit

-----------------------------------------------------------------------------
(***************************************************************************)
(* The answer: what the command found, to whoever waits for it.            *)
(***************************************************************************)
LEMMA AnswerStep ==
    ASSUME RInv, TypeOK', NEW c \in Cmds, Answer(c)
    PROVE  RInv'
<1> USE DEF RInv
<1>1. /\ pc[c] = "answer"
      /\ UNCHANGED <<warnings, req, tx, msg, cmdlog>>
  BY DEF Answer
<1>2. /\ pc \in [Cmds -> PCs]
      /\ reply \in [Cmds -> [from : {"none", "final"}, body : Body]]
  BY DEF TypeOK
<1>3. /\ pc'[c] \in {"log", "done"}
      /\ \A d \in Cmds \ {c} : pc'[d] = pc[d] /\ reply'[d] = reply[d]
  BY <1>2 DEF Answer, Goto, Show
<1>4. \/ reply'[c] = reply[c]
      \/ /\ pc'[c] = "done"
         /\ reply'[c] = [from |-> "final", body |-> msg[c]]
         /\ ~(Kind(c) \in Changers /\ msg[c].says = "none")
  BY <1>2 DEF Answer, Goto, Show
<1>5. \A d \in Cmds : Kind(d)' = Kind(d) /\ Matching(d)' = Matching(d)
  BY <1>1 DEF Kind, Matching
<1>6. \A d \in Cmds \ {c} : \A what : Told(d, what)' <=> Told(d, what)
  BY <1>3 DEF Told
<1>7. \A what : ~Told(c, what)
  BY <1>1 DEF FinalIsLate, Told, Early
<1>8. \A what : Told(c, what)' =>
         msg[c].says = what /\ ~(Kind(c) \in Changers /\ msg[c].says = "none")
  BY <1>4, <1>7 DEF Told
<1>9. OpenAtCommit' /\ FinalIsLate'
  <2>1. OpenAtCommit'
    BY <1>1, <1>3 DEF OpenAtCommit
  <2>2. FinalIsLate'
    BY <1>1, <1>3, <1>4 DEF FinalIsLate, Early
  <2> QED  BY <2>1, <2>2
<1>10. HeldRows'
  <2>1. WarningRows' = WarningRows
    BY <1>1 DEF WarningRows
  <2>2. ASSUME NEW d \in Cmds, pc'[d] = "commit" PROVE Holding(d)'
    <3>1. pc[d] = "commit"
      BY <1>3, <2>2
    <3>2. Holding(d)
      BY <3>1 DEF HeldRows
    <3> QED  BY <1>1, <1>5, <2>1, <3>2 DEF Holding
  <2> QED  BY <2>2 DEF HeldRows
<1>11. HeldApart'
  BY <1>1 DEF HeldApart
<1>12. AbsentRows'
  BY <1>1, <1>5, <1>6, <1>8 DEF AbsentRows, Absent
<1>13. Earned'
  <2>1. Removers' \subseteq Removers
    BY <1>1, <1>3, <1>5, <1>6, <1>8 DEF Removers
  <2>2. IsFiniteSet(Removers') /\ Cardinality(Removers') <= Cardinality(Removers)
    BY <2>1, FS_Subset DEF Earned
  <2>3. Cardinality(Removers) \in Nat /\ Cardinality(Removers') \in Nat
    BY <2>2, FS_CardinalityType DEF Earned
  <2>4. Cardinality(warnings) \in Nat /\ Cardinality(Warnings) \in Nat
    BY RecordsAssumption, FS_Subset, FS_CardinalityType DEF RecordsAssumption, TypeOK
  <2>5. Cardinality(Removers') <= Cardinality(Warnings) - Cardinality(warnings')
    BY <1>1, <2>2, <2>3, <2>4 DEF Earned
  <2>6. \A d \in Removers' : Matching(d)' = {}
    BY <1>5, <2>1 DEF Earned, Removers
  <2> QED  BY <2>2, <2>5, <2>6 DEF Earned
<1>14. EditsSayNone'
  BY <1>1, <1>3, <1>5 DEF EditsSayNone
<1>15. EditsGoUnanswered'
  <2>1. ASSUME Kind(c) \in Changers PROVE reply'[c] = reply[c]
    BY <1>1, <1>4, <2>1 DEF EditsSayNone
  <2> QED  BY <1>1, <1>3, <1>5, <2>1 DEF EditsGoUnanswered
<1> QED  BY <1>9, <1>10, <1>11, <1>12, <1>13, <1>14, <1>15

-----------------------------------------------------------------------------
(***************************************************************************)
(* The invariant holds of every behaviour.                                 *)
(***************************************************************************)
LEMMA InitLemma == Init => RInv
<1> SUFFICES ASSUME Init PROVE RInv
  OBVIOUS
<1> USE DEF Init
<1>1. TypeOK
  <2>1. Nothing \in Body /\ NoTx \in [id : {0, 1}, who : SUBSET Locks]
    BY NoTxIsTx DEF Nothing, Body
  <2> QED  BY <2>1 DEF TypeOK, PCs
<1>2. OpenAtCommit /\ HeldRows /\ HeldApart /\ FinalIsLate
  BY DEF OpenAtCommit, HeldRows, HeldApart, FinalIsLate, NoTx
<1>3. AbsentRows
  BY DEF AbsentRows, Absent, Told, Nothing
<1>4. Earned
  <2>1. Removers = {}
    BY DEF Removers, Told
  <2>2. Cardinality(Warnings) \in Nat
    BY RecordsAssumption, FS_CardinalityType DEF RecordsAssumption
  <2> QED  BY <2>1, <2>2, FS_EmptySet DEF Earned
<1>5. EditsSayNone
  BY DEF EditsSayNone
<1>6. EditsGoUnanswered
  BY DEF EditsGoUnanswered
<1> QED  BY <1>1, <1>2, <1>3, <1>4, <1>5, <1>6 DEF RInv

LEMMA StepLemma == RInv /\ [Next]_vars => RInv'
<1> SUFFICES ASSUME RInv, [Next]_vars PROVE RInv'
  OBVIOUS
<1>1. TypeOK' /\ TypeOK /\ OpenAtCommit
  BY TypeStep DEF RInv
<1>2. CASE UNCHANGED vars
  <2>1. \A d \in Cmds : MovesOn(d)
    BY <1>2 DEF vars, MovesOn
  <2> QED  BY <1>1, <1>2, <2>1, QuietStep DEF vars
<1>3. ASSUME NEW c \in Cmds, Invoke(c) \/ check_permissions(c) PROVE RInv'
  <2>1. \A d \in Cmds : MovesOn(d)
    BY <1>1, <1>3, GateMovesOn
  <2>2. UNCHANGED <<warnings, req, msg, reply, cmdlog>>
    BY <1>3 DEF Invoke, check_permissions
  <2> QED  BY <1>1, <2>1, <2>2, QuietStep
<1>4. ASSUME NEW c \in Cmds, process_response(c) PROVE RInv'
  BY <1>1, <1>4, ResponseStep
<1>5. ASSUME NEW c \in Cmds, Commit(c) PROVE RInv'
  BY <1>1, <1>5, CommitStep
<1>6. ASSUME NEW c \in Cmds, Answer(c) PROVE RInv'
  BY <1>1, <1>6, AnswerStep
<1>7. ASSUME NEW c \in Cmds, LogChange(c) PROVE RInv'
  <2>1. \A d \in Cmds : MovesOn(d)
    BY <1>1, <1>7, BadEndsMoveOn DEF LogChange
  <2> QED  BY <1>1, <1>7, <2>1, QuietStep DEF LogChange
<1>8. ASSUME NEW c \in Cmds, FetchedLate(c) PROVE RInv'
  <2>1. \A d \in Cmds : MovesOn(d)
    BY <1>1, <1>8, BadEndsMoveOn DEF FetchedLate
  <2> QED  BY <1>1, <1>8, <2>1, QuietStep DEF FetchedLate
<1>9. CASE Kill
  <2>1. \A d \in Cmds : MovesOn(d)
    <3>1. PICK c \in Cmds : TRUE
      BY <1>9 DEF Kill
    <3> QED  BY <1>1, <1>9, <3>1, BadEndsMoveOn DEF Kill
  <2> QED  BY <1>1, <1>9, <2>1, QuietStep DEF Kill
<1> QED
  BY <1>2, <1>3, <1>4, <1>5, <1>6, <1>7, <1>8, <1>9 DEF Next, wrapper_function

THEOREM Invariance == Spec => []RInv
<1>1. Init => RInv
  BY InitLemma
<1>2. RInv /\ [Next]_vars => RInv'
  BY StepLemma
<1> QED  BY <1>1, <1>2, PTL DEF Spec

\* Types, of any commands on any tables.
THEOREM TypeCorrect == Spec => []TypeOK
<1>1. RInv => TypeOK
  BY DEF RInv
<1> QED  BY <1>1, Invariance, PTL

\* delete_warning, clear_warnings and clear_guild_warnings, racing: as many
\* warnings are gone as commands said they removed one.
THEOREM RemovalsAreEarned == Spec => []SuccessesAreEarned
<1>1. RInv => SuccessesAreEarned
  <2> SUFFICES ASSUME RInv PROVE SuccessesAreEarned
    OBVIOUS
  <2> DEFINE successes == {c \in Cmds : Kind(c) \in Deleters /\ Told(c, "done")}
  <2>1. successes \subseteq Removers
    BY DEF Removers
  <2>2. Earned
    BY DEF RInv
  <2>3. /\ Cardinality(successes) <= Cardinality(Removers)
        /\ IsFiniteSet(successes)
    BY <2>1, <2>2, FS_Subset DEF Earned
  <2>4. /\ Cardinality(successes) \in Nat /\ Cardinality(Removers) \in Nat
    BY <2>2, <2>3, FS_CardinalityType DEF Earned
  <2>5. Cardinality(warnings) \in Nat /\ Cardinality(Warnings) \in Nat
    BY RecordsAssumption, FS_Subset, FS_CardinalityType DEF RecordsAssumption, RInv, TypeOK
  <2>6. Cardinality(successes) <= Cardinality(Warnings) - Cardinality(warnings)
    BY <2>2, <2>3, <2>4, <2>5 DEF Earned
  <2>7. \A c \in successes : Matching(c) = {}
    BY <2>1, <2>2 DEF Earned
  <2> QED  BY <2>6, <2>7 DEF SuccessesAreEarned
<1> QED  BY <1>1, Invariance, PTL

\* The answer that there is no warning, of the deletions and of the views.
THEOREM AbsenceStays == Spec => []AbsenceIsTrue
<1>1. RInv => AbsenceIsTrue
  BY DEF RInv, AbsentRows, Absent, AbsenceIsTrue
<1> QED  BY <1>1, Invariance, PTL

\* Whatever the database makes of modcase_update_reason, change_reason and
\* change_duration neither answer nor log.
THEOREM NoEditIsAnswered == Spec => []EditsGoUnanswered
<1>1. RInv => EditsGoUnanswered
  BY DEF RInv
<1> QED  BY <1>1, Invariance, PTL

=============================================================================
