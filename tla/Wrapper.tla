------------------------------ MODULE Wrapper ------------------------------
(***************************************************************************)
(* What the command wrappers have in common: a thread per command, a       *)
(* connection of its own that carries one transaction at a time, the       *)
(* message it assembles and the answer it shows, and the ways a step may   *)
(* end badly.                                                              *)
(***************************************************************************)
EXTENDS Naturals, FiniteSets

CONSTANTS Cmds,      \* the invocations of a behaviour
          ChunkCap   \* errors join_with_limit fits into one embed

ASSUME WrapperAssumption == ChunkCap \in Nat \ {0}

VARIABLES
    pc,       \* where each command's thread is
    tx,       \* the transaction open on each connection
    msg,      \* the dpp::message a response is assembled in
    reply     \* what the channel was last shown

-----------------------------------------------------------------------------
\* id 0: no transaction.  who: the rows it will insert.
NoTx == [id |-> 0, who |-> {}]

\* pqxx::work on a connection that already carries a transaction throws.
ConnectionBusy(c) == tx[c] # NoTx

Goto(c, where) == pc' = [pc EXCEPT ![c] = where]

\* The process is gone, and with it every command and open transaction.
ProcessDies(culprits) ==
    /\ pc' = [d \in Cmds |-> IF d \in culprits THEN "segv"
                             ELSE IF pc[d] \in {"idle", "segv"} THEN pc[d]
                             ELSE "dead"]
    /\ tx' = [d \in Cmds |-> NoTx]

\* A null dereference in the command's thread.
NullDereference(c) == ProcessDies({c})

\* An exception that nothing in src/ catches, thrown in the command's thread:
\* the thread's owner (D++) may swallow it or terminate.
Raise(c) ==
    \/ Goto(c, "raised") /\ UNCHANGED tx
    \/ ProcessDies({})

\* The same in a callback, or a callback on a destroyed wrapper.
RaiseInCallback ==
    \/ UNCHANGED <<pc, tx>>
    \/ ProcessDies({})

-----------------------------------------------------------------------------
\* errs: the targets whose errors are shown; success: the success embed is
\* attached; claimed: the targets that embed names.
EmptyMessage == [errs |-> {}, success |-> FALSE, claimed |-> {}, ephemeral |-> FALSE]

MessageAbout(targets) ==
    [errs : SUBSET targets, success : BOOLEAN, claimed : SUBSET targets,
     ephemeral : BOOLEAN]

Slices(n) == (n + ChunkCap - 1) \div ChunkCap

embeds(m) == Slices(Cardinality(m.errs)) + (IF m.success THEN 1 ELSE 0)

\* More errors than one embed holds.
TooLong(errors) == Cardinality(errors) > ChunkCap

Show(c, from, body) == reply' = [reply EXCEPT ![c] = [from |-> from, body |-> body]]

\* A paginator takes the fields of the command; the response then goes on to
\* use its connection or its interaction.
Paginate(c, from, body) == Show(c, from, body) /\ NullDereference(c)

=============================================================================
