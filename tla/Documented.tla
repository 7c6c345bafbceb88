---------------------------- MODULE Documented ----------------------------
(***************************************************************************)
(* What a header of src/ says of the commands that CommandWrapper models,  *)
(* and the code does not do: the run that checks it ends in a violation.   *)
(***************************************************************************)
EXTENDS CommandWrapper

\* moderation.h: "If a user is hard banned, only the owner would be able to
\* unban that user."  Nothing writes the hardbans table the gate reads.
HardbanLiftedByOwnerOnly ==
    [][\A c \in Cmds :
          /\ Kind(c) = "unban" /\ req[c].author # Owner
          /\ pc[c] = "gate" /\ pc'[c] = "calls"
          => \A u \in req[c].users : bans[u] # "hardban"]_vars

=============================================================================
