----------------------------- MODULE CaseLedger -----------------------------
(***************************************************************************)
(* What the modcases table promises, whoever writes it: an append-only     *)
(* ledger.  A command records, in one step, a case about one or more       *)
(* people under a number at most one above the highest recorded and above  *)
(* every number of its own; nothing is ever changed or taken away.  Two    *)
(* commands may obtain the same number: nothing in the code forbids it.    *)
(***************************************************************************)
EXTENDS ModCases

CONSTANTS Cmds,    \* who records
          Users,   \* what a case may be about
          Before   \* the rows of earlier commands

VARIABLE cases

Init == cases = Before

Fresh(c, n) == \A row \in cases : row.cmd = c => row.id < n

Record(c, n) ==
    /\ Fresh(c, n)
    /\ \E who \in (SUBSET Users) \ {{}} :
          cases' = cases \cup {[id |-> n, cmd |-> c, target |-> t] : t \in who}

Next == \E c \in Cmds, n \in 1 .. (LastCaseId(cases) + 1) : Record(c, n)

Spec == Init /\ [][Next]_cases

=============================================================================
