----------------------------- MODULE MCHelpers -----------------------------
(***************************************************************************)
(* The helpers without a state of their own, each on inputs of its own:    *)
(* every text of up to six characters, every list of up to five strings of *)
(* one to five characters, and every sequence of calls on a container of   *)
(* up to four elements.  Where one works, the others have empty inputs.    *)
(***************************************************************************)
EXTENDS HumanTime, JoinWithLimit, UniqueVector

CONSTANT RangeLength   \* the longest range inserted at once

ShortTexts == BoundedSeq(Classes, 6)
ShortLists == BoundedSeq(1 .. 5, 5)
ShortRanges == UNION {[1 .. n -> Values] : n \in 1 .. RangeLength}

HelpersInit ==
    /\ ParseInit /\ JoinInit /\ Init
    /\ text = <<>> \/ vector = <<>>

HelpersNext ==
    \/ ParseNext /\ UNCHANGED <<joinVars, vars>>
    \/ JoinNext /\ UNCHANGED <<parseVars, vars>>
    \/ text = <<>> /\ vector = <<>> /\ Next /\ UNCHANGED <<parseVars, joinVars>>

HelpersSpec == HelpersInit /\ [][HelpersNext]_<<parseVars, joinVars, vars>>

=============================================================================
