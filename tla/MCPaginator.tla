---------------------------- MODULE MCPaginator ----------------------------
(***************************************************************************)
(* Instances of Paginator for TLC: two paginators of one author in one     *)
(* channel or not, of embeds or texts, for a person or for automod.        *)
(***************************************************************************)
EXTENDS Paginator

CONSTANTS p1, p2   \* paginators

Asked(style, pages) ==
    [style |-> style, size |-> pages, interaction |-> TRUE, started |-> TRUE,
     place |-> "here"]

Elsewhere(d) == [d EXCEPT !.place = "there"]
Automod(d)   == [d EXCEPT !.interaction = FALSE]
Unstarted(d) == [d EXCEPT !.started = FALSE]

Pair(d, e) == [p \in Pagers |-> IF p = p1 THEN d ELSE e]

\* Three embeds are one more than a message takes.
MCBatches ==
    {Pair(Asked("embeds", 2), Asked("texts", 2)),
     Pair(Asked("embeds", 3), Elsewhere(Automod(Asked("texts", 3)))),
     Pair(Automod(Asked("embeds", 2)), Unstarted(Asked("texts", 2)))}

=============================================================================
