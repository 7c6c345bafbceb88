----------------------------- MODULE Paginator -----------------------------
(***************************************************************************)
(* message_paginator: pages in one message, turned by four buttons.        *)
(* Commands make paginators on their threads, start them and drop them at  *)
(* once; people click; one thread hands each click to every handler there  *)
(* is; requests to Discord overtake each other.                            *)
(***************************************************************************)
EXTENDS Naturals, FiniteSets, Sequences

CONSTANTS Pagers,     \* the paginators of a behaviour
          Batches,    \* what they may be, together
          EmbedCap,   \* embeds Discord takes in one message
          MaxClicks   \* bound: clicks in a behaviour

\* In the order their ids are written in.
Buttons == <<"forward", "backward", "skip_last", "skip_first">>

\* place: the author and the channel of the command, which are in every id.
Designs == [style : {"embeds", "texts"}, size : Nat, interaction : BOOLEAN,
            started : BOOLEAN, place : {"here", "there"}]

ASSUME PaginatorAssumption ==
    /\ Batches \subseteq [Pagers -> Designs]
    /\ \A b \in Batches, p \in Pagers : b[p].started => b[p].size > 0
    /\ EmbedCap \in Nat \ {0} /\ MaxClicks \in Nat

VARIABLES
    design,     \* what each paginator is given
    counter,    \* the static id
    loaded,     \* what a thread has read of it, to increment it
    ids,        \* the number in each of its ids, as far as they are written
    pc,         \* where each paginator's thread is
    page,       \* current_page
    handlers,   \* who listens to clicks
    click,      \* the click under way
    draft,      \* the edit a handler is about to post
    clicks,     \* how many clicks there were
    first,      \* what became of the message start() sends
    edits,      \* the edits on their way, in order
    message,    \* what Discord shows
    raced,      \* whether two paginators were ever made at the same time
    turned,     \* which were turned by a click
    overtaken,  \* which had an edit overtake its message, or another go wrong
    crossed     \* which ended while a handler was about to post

made    == <<counter, loaded, ids, raced>>
clicked == <<click, draft, clicks, page, turned>>
told    == <<first, edits, message, overtaken>>
vars    == <<design, made, pc, handlers, clicked, told, crossed>>

Nobody  == "nobody"
NoClick == [of |-> Nobody, button |-> 0, handed |-> FALSE, todo |-> {}]

Numbers(p) == 0 .. (design[p].size - 1)
AllNumbers == UNION {0 .. (b[p].size - 1) : b \in Batches, p \in Pagers}

\* live: the buttons can be clicked.
Content == [pages : SUBSET AllNumbers, live : BOOLEAN]
Empty   == [pages |-> {}, live |-> FALSE]
NoDraft == [of |-> Nobody, shows |-> Empty]

Making == {"ids", "load", "store"}

TypeOK ==
    /\ design \in Batches
    /\ counter \in Nat /\ loaded \in [Pagers -> Nat]
    /\ ids \in [Pagers -> Seq(Nat)] /\ \A p \in Pagers : Len(ids[p]) <= Len(Buttons)
    /\ pc \in [Pagers -> {"idle", "made", "shown", "listening", "ended", "dead"} \cup Making]
    /\ page \in [Pagers -> Nat] /\ \A p \in Pagers : page[p] = 0 \/ page[p] \in Numbers(p)
    /\ handlers \subseteq Pagers
    /\ click \in [of : Pagers, button : DOMAIN Buttons, handed : BOOLEAN,
                  todo : SUBSET Pagers] \cup {NoClick}
    /\ draft \in [of : Pagers, shows : Content] \cup {NoDraft}
    /\ clicks \in 0 .. MaxClicks
    /\ first \in [Pagers -> {"unsent", "sent", "arrived", "refused"}]
    /\ edits \in [Pagers -> Seq(Content)]
    /\ message \in [Pagers -> Content]
    /\ raced \in BOOLEAN
    /\ turned \cup overtaken \cup crossed \subseteq Pagers

Init ==
    /\ design \in Batches
    /\ counter = 0 /\ loaded = [p \in Pagers |-> 0] /\ ids = [p \in Pagers |-> <<>>]
    /\ pc = [p \in Pagers |-> "idle"]
    /\ page = [p \in Pagers |-> 0]
    /\ handlers = {} /\ click = NoClick /\ draft = NoDraft /\ clicks = 0
    /\ first = [p \in Pagers |-> "unsent"] /\ edits = [p \in Pagers |-> <<>>]
    /\ message = [p \in Pagers |-> Empty]
    /\ raced = FALSE /\ turned = {} /\ overtaken = {} /\ crossed = {}

-----------------------------------------------------------------------------
Embeds(p)      == design[p].style = "embeds"
Interactive(p) == design[p].interaction
size(p)        == design[p].size
Goto(p, where) == pc' = [pc EXCEPT ![p] = where]
Post(p, shows) == edits' = [edits EXCEPT ![p] = Append(@, shows)]
Running        == \A p \in Pagers : pc[p] # "dead"

\* The process is gone; what is on its way is not.
ProcessDies == pc' = [p \in Pagers |-> "dead"]

-----------------------------------------------------------------------------
(***************************************************************************)
(* The constructor: four ids with the counter in them, then id++.          *)
(***************************************************************************)
Make(p) ==
    /\ pc[p] = "idle" /\ Running
    /\ Goto(p, "ids")
    /\ raced' = (raced \/ \E q \in Pagers : pc[q] \in Making)
    /\ UNCHANGED <<design, counter, loaded, ids, handlers, clicked, told, crossed>>

WriteId(p) ==
    /\ pc[p] = "ids"
    /\ ids' = [ids EXCEPT ![p] = Append(@, counter)]
    /\ Goto(p, IF Len(ids'[p]) = Len(Buttons) THEN "load" ELSE "ids")
    /\ UNCHANGED <<design, counter, loaded, raced, handlers, clicked, told, crossed>>

\* The counter is not atomic: an increment is a load and a store.
LoadCounter(p) ==
    /\ pc[p] = "load" /\ Goto(p, "store")
    /\ loaded' = [loaded EXCEPT ![p] = counter]
    /\ UNCHANGED <<design, counter, ids, raced, handlers, clicked, told, crossed>>

StoreCounter(p) ==
    /\ pc[p] = "store" /\ Goto(p, "made")
    /\ counter' = loaded[p] + 1
    /\ UNCHANGED <<design, loaded, ids, raced, handlers, clicked, told, crossed>>

-----------------------------------------------------------------------------
(***************************************************************************)
(* start(), and the end.                                                   *)
(***************************************************************************)
\* The message as it was given: the embeds all at once, and of the texts none.
GivenPages(p) == IF Embeds(p) THEN Numbers(p) ELSE {}

Start(p) ==
    /\ pc[p] = "made" /\ design[p].started
    /\ Goto(p, "shown")
    /\ first' = [first EXCEPT ![p] = "sent"]
    /\ UNCHANGED <<design, made, handlers, clicked, edits, message, overtaken, crossed>>

Listen(p) ==
    /\ pc[p] = "shown"
    /\ Goto(p, "listening")
    /\ handlers' = handlers \cup {p}
    /\ UNCHANGED <<design, made, clicked, told, crossed>>

\* What m_message holds: as given, or the page turned to.
Held(p) == IF p \in turned THEN {page[p]} ELSE GivenPages(p)

\* Mutant of Destroy: only takes the handler away.
Detach(p) ==
    /\ pc[p] = "listening"
    /\ Goto(p, "ended")
    /\ handlers' = handlers \ {p}
    /\ UNCHANGED <<design, made, clicked, told, crossed>>

\* The paginator is a local variable of the response.  It disables its buttons;
\* its handler stays.
Destroy(p) ==
    /\ pc[p] = "listening" \/ (pc[p] = "made" /\ ~design[p].started)
    /\ Goto(p, "ended")
    /\ Post(p, [pages |-> Held(p), live |-> FALSE])
    /\ crossed' = IF draft.of = p THEN crossed \cup {p} ELSE crossed
    /\ UNCHANGED <<design, made, handlers, clicked, first, message, overtaken>>

-----------------------------------------------------------------------------
(***************************************************************************)
(* Clicks.                                                                 *)
(***************************************************************************)
Click(p, i) ==
    /\ message[p].live /\ click = NoClick /\ Running
    /\ clicks < MaxClicks /\ clicks' = clicks + 1
    /\ click' = [of |-> p, button |-> i, handed |-> FALSE, todo |-> {}]
    /\ UNCHANGED <<design, made, pc, handlers, draft, page, turned, told, crossed>>

\* on_button_click has every handler there is called.
HandOut ==
    /\ click # NoClick /\ ~click.handed /\ Running
    /\ click' = [click EXCEPT !.handed = TRUE, !.todo = handlers]
    /\ UNCHANGED <<design, made, pc, handlers, draft, clicks, page, turned, told, crossed>>

CustomId(p, i) == <<design[p].place, ids[p][i], Buttons[i]>>

\* Mutant of IsFor: without the number.
IsForPlace(q) == design[click.of].place = design[q].place

IsFor(q) == CustomId(click.of, click.button) = CustomId(q, click.button)

\* Mutant of PageAfter: forward without the remainder.
PageAfterUnwrapped(q) ==
    IF Buttons[click.button] = "forward" THEN page[q] + 1 ELSE 0

PageAfter(q) ==
    CASE Buttons[click.button] = "forward"    -> (page[q] + 1) % size(q)
      [] Buttons[click.button] = "backward"   -> IF page[q] = 0 THEN size(q) - 1
                                                ELSE page[q] - 1
      [] Buttons[click.button] = "skip_last"  -> size(q) - 1
      [] Buttons[click.button] = "skip_first" -> 0

\* forward, backward, skip_last and skip_first, up to their edit.
Turn(q) ==
    /\ page' = [page EXCEPT ![q] = PageAfter(q)]
    /\ draft' = [of |-> q, shows |-> [pages |-> {PageAfter(q)}, live |-> TRUE]]
    /\ turned' = turned \cup {q}

\* A handler's turn.  That of a paginator which is gone reads freed memory.
Handle(q) ==
    /\ q \in click.todo /\ draft = NoDraft /\ Running
    /\ click' = [click EXCEPT !.todo = @ \ {q}]
    /\ IF pc[q] = "ended"
       THEN (ProcessDies \/ UNCHANGED pc) /\ UNCHANGED <<page, draft, turned>>
       ELSE /\ IF IsFor(q) THEN Turn(q) ELSE UNCHANGED <<page, draft, turned>>
            /\ UNCHANGED pc
    /\ UNCHANGED <<design, made, handlers, clicks, told, crossed>>

PostDraft ==
    /\ draft # NoDraft /\ Running
    /\ Post(draft.of, draft.shows)
    /\ draft' = NoDraft
    /\ UNCHANGED <<design, made, pc, handlers, click, clicks, page, turned, first, message,
                   overtaken, crossed>>

ClickOver ==
    /\ click.handed /\ click.todo = {} /\ draft = NoDraft /\ Running
    /\ click' = NoClick
    /\ UNCHANGED <<design, made, pc, handlers, draft, clicks, page, turned, told, crossed>>

-----------------------------------------------------------------------------
(***************************************************************************)
(* Discord.  External.                                                     *)
(***************************************************************************)
\* A reply and the edits of it are requests of different routes, in no order; a
\* message takes so many embeds.
FirstArrives(p) ==
    /\ first[p] = "sent"
    /\ \/ /\ Cardinality(GivenPages(p)) <= EmbedCap
          /\ first' = [first EXCEPT ![p] = "arrived"]
          /\ message' = [message EXCEPT ![p] = [pages |-> GivenPages(p), live |-> TRUE]]
       \/ first' = [first EXCEPT ![p] = "refused"] /\ UNCHANGED message
    /\ UNCHANGED <<design, made, pc, handlers, clicked, edits, overtaken, crossed>>

\* edit_response finds the reply, if it is there; message_edit is given a message
\* without an id and finds none.
EditArrives(p) ==
    /\ edits[p] # <<>>
    /\ edits' = [edits EXCEPT ![p] = Tail(@)]
    /\ \/ /\ Interactive(p) /\ first[p] = "arrived"
          /\ message' = [message EXCEPT ![p] = Head(edits[p])]
          /\ UNCHANGED overtaken
       \/ overtaken' = overtaken \cup {p} /\ UNCHANGED message
    /\ UNCHANGED <<design, made, pc, handlers, clicked, first, crossed>>

-----------------------------------------------------------------------------
Construct(p) == Make(p) \/ WriteId(p) \/ LoadCounter(p) \/ StoreCounter(p)

Next ==
    \/ \E p \in Pagers :
          \/ Construct(p) \/ Start(p) \/ Listen(p) \/ Destroy(p)
          \/ \E i \in DOMAIN Buttons : Click(p, i)
          \/ Handle(p)
          \/ FirstArrives(p) \/ EditArrives(p)
    \/ HandOut \/ PostDraft \/ ClickOver

Spec == Init /\ [][Next]_vars

-----------------------------------------------------------------------------
(***************************************************************************)
(* What holds of them.                                                     *)
(***************************************************************************)
\* Once a paginator is gone and its requests are answered, its buttons are off
\* and the page last turned to stays, unless its last edit was lost, on the way or
\* against one that a handler posted later.
EndedMessagesSettle ==
    \A p \in Pagers :
        pc[p] = "ended" /\ first[p] = "arrived" /\ edits[p] = <<>>
            /\ p \notin overtaken \cup crossed
           => message[p] = [pages |-> Held(p), live |-> FALSE]

\* A click turns the pages of the message it was made on, of no other, unless
\* two paginators were made at the same time for one author in one channel.
ClicksStayApart ==
    [][draft = NoDraft /\ draft' # NoDraft
          => \/ draft'.of = click.of
             \/ raced /\ design[draft'.of].place = design[click.of].place]_vars

=============================================================================
