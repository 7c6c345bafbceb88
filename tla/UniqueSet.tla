----------------------------- MODULE UniqueSet -----------------------------
(***************************************************************************)
(* What unique_vector promises its callers: a set.  They ask it to take    *)
(* values in, one call at a time; a value asked for is taken in or,        *)
(* sometimes, silently not; nothing comes in that was not asked for, and   *)
(* nothing leaves but by a call that removes.  One call fills it up with   *)
(* copies of a value.                                                      *)
(***************************************************************************)
EXTENDS Naturals

CONSTANT Values   \* what the container may hold

VARIABLES elements,   \* what it holds
          asked       \* what the call under way asks it to take in

Init == elements = {} /\ asked = {}

Ask    == asked = {} /\ asked' \in SUBSET Values /\ UNCHANGED elements
Take   == \E v \in asked :
             /\ asked' \in {asked, asked \ {v}}
             /\ elements' \in {elements, elements \cup {v}}
Remove == asked = {} /\ elements' \in SUBSET elements /\ UNCHANGED asked
Fill   == asked = {} /\ UNCHANGED asked
             /\ \E v \in Values : elements' = elements \cup {v}
Crash  == asked' = {} /\ UNCHANGED elements

Next == Ask \/ Take \/ Remove \/ Fill \/ Crash

Spec == Init /\ [][Next]_<<elements, asked>>

=============================================================================
