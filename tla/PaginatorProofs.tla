-------------------------- MODULE PaginatorProofs --------------------------
(***************************************************************************)
(* What message_paginator shows in the end and whom a click turns, for any *)
(* number of paginators, of any size, and any number of clicks.            *)
(***************************************************************************)
EXTENDS Paginator, SequenceTheorems, TLAPS

\* Where a thread is that has sent its message.
Past == {"shown", "listening", "ended", "dead"}

\* Or whose paginator has its ids.
Made == {"made"} \cup Past

\* The process is there for all paginators or for none.
AllOrNone == (\E p \in Pagers : pc[p] = "dead") => \A p \in Pagers : pc[p] = "dead"

\* A paginator has four ids once it is made.
IdsAreWritten ==
    \A p \in Pagers :
        /\ pc[p] = "idle" => Len(ids[p]) = 0
        /\ pc[p] = "ids" => Len(ids[p]) < 4
        /\ pc[p] \in {"load", "store", "made", "shown", "listening", "ended"} => Len(ids[p]) = 4

\* Only what was started listens, is clicked and is turned.
StartedFirst ==
    /\ \A p \in Pagers : pc[p] \in {"shown", "listening"} => design[p].started
    /\ \A p \in handlers : design[p].started /\ pc[p] \in {"listening", "ended", "dead"}
    /\ turned \subseteq handlers
    /\ click # NoClick => click.todo \subseteq handlers /\ pc[click.of] \in Past
    /\ \A p \in Pagers : /\ first[p] # "unsent" => pc[p] \in Past
                         /\ message[p].live => first[p] = "arrived"

\* Unless two were made at the same time, the counter has gone past the ids of
\* whatever was made, and no two have an id of one number.
IdsStayApart ==
    ~raced /\ Running =>
        /\ \A p, q \in Pagers : pc[p] \in Making /\ pc[q] \in Making => p = q
        /\ \A p \in Pagers :
              /\ pc[p] \in Making => \A k \in 1 .. Len(ids[p]) : ids[p][k] = counter
              /\ pc[p] = "store" => loaded[p] = counter
              /\ pc[p] \in Made => \A k \in 1 .. 4 : ids[p][k] < counter
        /\ \A p, q \in Pagers :
              pc[p] \in Made /\ pc[q] \in Made /\ p # q =>
                  \A k \in 1 .. 4 : ids[p][k] # ids[q][k]

PagerInv == TypeOK /\ AllOrNone /\ IdsAreWritten /\ StartedFirst

\* The content a paginator leaves behind.
Final(p) == [pages |-> Held(p), live |-> FALSE]

\* What an ended paginator still has on its way ends with its last edit, unless
\* a handler had a page to post; when nothing is on its way that edit is there.
SettleInv ==
    /\ draft # NoDraft /\ pc[draft.of] = "ended" => draft.of \in crossed
    /\ \A p \in Pagers :
          pc[p] = "ended" /\ p \notin overtaken \cup crossed =>
              IF edits[p] = <<>> THEN first[p] = "arrived" /\ message[p] = Final(p)
              ELSE edits[p][Len(edits[p])] = Final(p)

-----------------------------------------------------------------------------
(* The types.                                                              *)

\* There are four buttons.
LEMMA FourButtons == Len(Buttons) = 4 /\ DOMAIN Buttons = 1 .. 4
  BY DEF Buttons

\* What a design says.
LEMMA DesignType ==
    ASSUME TypeOK
    PROVE  /\ design \in [Pagers -> Designs]
           /\ \A p \in Pagers : design[p].size \in Nat /\ (design[p].started => design[p].size > 0)
<1>1. design \in [Pagers -> Designs]
  BY PaginatorAssumption DEF TypeOK
<1>2. \A p \in Pagers : design[p].size \in Nat
  BY <1>1 DEF Designs
<1>3. \A p \in Pagers : design[p].started => design[p].size > 0
  BY PaginatorAssumption DEF TypeOK
<1> QED  BY <1>1, <1>2, <1>3

\* The pages of a paginator are among all pages there are.
LEMMA NumbersAreKnown ==
    ASSUME TypeOK, NEW p \in Pagers
    PROVE  Numbers(p) \subseteq AllNumbers
<1>1. design \in Batches
  BY DEF TypeOK
<1> DEFINE Known == {0 .. (b[q].size - 1) : b \in Batches, q \in Pagers}
<1>2. Numbers(p) \in Known
  BY <1>1 DEF Numbers
<1>3. UNION Known = AllNumbers
  BY DEF AllNumbers
<1> HIDE DEF Known
<1> QED  BY <1>2, <1>3

\* The page a button turns to is a page.
LEMMA PageAfterIsPage ==
    ASSUME TypeOK, NEW q \in Pagers, design[q].started, click # NoClick
    PROVE  PageAfter(q) \in Numbers(q)
<1>1. PICK n \in Nat : n = design[q].size /\ n > 0 /\ size(q) = n /\ Numbers(q) = 0 .. (n - 1)
  BY DesignType DEF size, Numbers
<1>2. page[q] \in 0 .. (n - 1)
  <2>1. page[q] = 0 \/ page[q] \in Numbers(q)
    BY DEF TypeOK
  <2> QED  BY <1>1, <2>1
<1>3. click.button \in 1 .. 4
  BY FourButtons DEF TypeOK
<1>4. (page[q] + 1) % n \in 0 .. (n - 1)
  BY <1>1, <1>2
<1>5. CASE click.button = 1
  <2>1. Buttons[click.button] = "forward"
    BY <1>5 DEF Buttons
  <2> QED  BY <1>1, <1>4, <2>1 DEF PageAfter
<1>6. CASE click.button = 2
  <2>1. Buttons[click.button] = "backward"
    BY <1>6 DEF Buttons
  <2> QED  BY <1>1, <1>2, <2>1 DEF PageAfter
<1>7. CASE click.button = 3
  <2>1. Buttons[click.button] = "skip_last"
    BY <1>7 DEF Buttons
  <2> QED  BY <1>1, <2>1 DEF PageAfter
<1>8. CASE click.button = 4
  <2>1. Buttons[click.button] = "skip_first"
    BY <1>8 DEF Buttons
  <2> QED  BY <1>1, <2>1 DEF PageAfter
<1> QED  BY <1>3, <1>5, <1>6, <1>7, <1>8

\* What a message is given, and what it is left with, is content.
LEMMA ContentsAreContent ==
    ASSUME PagerInv, NEW p \in Pagers
    PROVE  /\ [pages |-> GivenPages(p), live |-> TRUE] \in Content
           /\ Final(p) \in Content
<1>1. Numbers(p) \subseteq AllNumbers
  BY NumbersAreKnown DEF PagerInv
<1>2. GivenPages(p) \subseteq AllNumbers
  BY <1>1 DEF GivenPages
<1>3. p \in turned => page[p] \in Numbers(p)
  <2>1. SUFFICES ASSUME p \in turned PROVE page[p] \in Numbers(p)
    OBVIOUS
  <2>2. design[p].started
    BY <2>1 DEF PagerInv, StartedFirst
  <2>3. design[p].size \in Nat /\ design[p].size > 0
    BY <2>2, DesignType DEF PagerInv
  <2>4. 0 \in Numbers(p)
    BY <2>3 DEF Numbers
  <2> QED  BY <2>4 DEF PagerInv, TypeOK
<1>4. Held(p) \subseteq AllNumbers
  BY <1>1, <1>2, <1>3 DEF Held
<1> QED  BY <1>2, <1>4 DEF Content, Final

\* Every step keeps every variable in its type.
LEMMA TypeStep == PagerInv /\ [Next]_vars => TypeOK'
<1> SUFFICES ASSUME PagerInv, [Next]_vars PROVE TypeOK'
  OBVIOUS
<1>0. TypeOK
  BY DEF PagerInv
<1>1. ASSUME NEW p \in Pagers, Make(p) PROVE TypeOK'
  BY <1>0, <1>1 DEF Make, Goto, TypeOK, Making, made, clicked, told, Numbers
<1>2. ASSUME NEW p \in Pagers, WriteId(p) PROVE TypeOK'
  <2>1. ids' = [ids EXCEPT ![p] = Append(@, counter)] /\ ids[p] \in Seq(Nat) /\ counter \in Nat
    BY <1>0, <1>2 DEF WriteId, TypeOK
  <2>2. Append(ids[p], counter) \in Seq(Nat) /\ Len(Append(ids[p], counter)) = Len(ids[p]) + 1
    BY <2>1, AppendProperties
  <2>3. Len(ids[p]) \in Nat /\ Len(ids[p]) < 4
    BY <1>2, <2>1 DEF PagerInv, IdsAreWritten, WriteId
  <2>4. ids' \in [Pagers -> Seq(Nat)]
    BY <1>0, <2>1, <2>2 DEF TypeOK
  <2>5. ids'[p] = Append(ids[p], counter) /\ \A q \in Pagers : q # p => ids'[q] = ids[q]
    BY <1>0, <2>1 DEF TypeOK
  <2>6. \A q \in Pagers : Len(ids'[q]) <= Len(Buttons)
    <3>1. Len(ids'[p]) <= 4
      BY <2>2, <2>3, <2>5
    <3>2. \A q \in Pagers : q # p => Len(ids'[q]) <= Len(Buttons)
      BY <1>0, <2>5 DEF TypeOK
    <3> QED  BY <3>1, <3>2, FourButtons
  <2>7. pc' \in [Pagers -> {"idle", "made", "shown", "listening", "ended", "dead"} \cup Making]
    BY <1>0, <1>2 DEF WriteId, Goto, TypeOK, Making
  <2> QED  BY <1>0, <1>2, <2>4, <2>6, <2>7 DEF WriteId, TypeOK, made, clicked, told, Numbers
<1>3. ASSUME NEW p \in Pagers, LoadCounter(p) PROVE TypeOK'
  BY <1>0, <1>3 DEF LoadCounter, Goto, TypeOK, Making, clicked, told, Numbers
<1>4. ASSUME NEW p \in Pagers, StoreCounter(p) PROVE TypeOK'
  BY <1>0, <1>4 DEF StoreCounter, Goto, TypeOK, Making, clicked, told, Numbers
<1>5. ASSUME NEW p \in Pagers, Start(p) PROVE TypeOK'
  BY <1>0, <1>5 DEF Start, Goto, TypeOK, made, clicked, Numbers
<1>6. ASSUME NEW p \in Pagers, Listen(p) PROVE TypeOK'
  BY <1>0, <1>6 DEF Listen, Goto, TypeOK, made, clicked, told, Numbers
<1>7. ASSUME NEW p \in Pagers, Destroy(p) PROVE TypeOK'
  <2>1. Final(p) \in Content /\ edits[p] \in Seq(Content)
    BY <1>0, <1>7, ContentsAreContent DEF TypeOK
  <2>2. edits' = [edits EXCEPT ![p] = Append(edits[p], Final(p))]
    BY <1>7 DEF Destroy, Post, Final
  <2>3. edits' \in [Pagers -> Seq(Content)]
    <3>1. PICK V, e : /\ V = Seq(Content) /\ e = Append(edits[p], Final(p)) /\ e \in V
                      /\ edits \in [Pagers -> V]
      BY <1>0, <2>1, AppendProperties DEF TypeOK
    <3> QED  BY <2>2, <3>1
  <2>4. /\ pc' \in [Pagers -> {"idle", "made", "shown", "listening", "ended", "dead"} \cup Making]
        /\ crossed' \subseteq Pagers
    BY <1>0, <1>7 DEF Destroy, Goto, TypeOK
  <2> QED  BY <1>0, <1>7, <2>3, <2>4 DEF Destroy, TypeOK, made, clicked, Numbers
<1>8. ASSUME NEW p \in Pagers, NEW k \in DOMAIN Buttons, Click(p, k) PROVE TypeOK'
  <2>1. click' \in [of : Pagers, button : DOMAIN Buttons, handed : BOOLEAN,
                    todo : SUBSET Pagers]
    BY <1>8 DEF Click
  <2>2. clicks' \in 0 .. MaxClicks
    BY <1>0, <1>8, PaginatorAssumption DEF Click, TypeOK
  <2> QED  BY <1>0, <1>8, <2>1, <2>2 DEF Click, TypeOK, made, told, Numbers
<1>9. ASSUME NEW q \in Pagers, Handle(q) PROVE TypeOK'
  <2>0. click # NoClick /\ q \in handlers /\ design[q].started
    BY <1>9 DEF Handle, NoClick, PagerInv, StartedFirst
  <2>1. click' \in [of : Pagers, button : DOMAIN Buttons, handed : BOOLEAN,
                    todo : SUBSET Pagers] \cup {NoClick}
    BY <1>0, <1>9, <2>0 DEF Handle, TypeOK
  <2>2. pc' \in [Pagers -> {"idle", "made", "shown", "listening", "ended", "dead"} \cup Making]
    BY <1>0, <1>9 DEF Handle, ProcessDies, TypeOK
  <2>3. /\ page' \in [Pagers -> Nat]
        /\ \A p \in Pagers : page'[p] = 0 \/ page'[p] \in Numbers(p)
        /\ draft' \in [of : Pagers, shows : Content] \cup {NoDraft}
        /\ turned' \subseteq Pagers
    <3>1. CASE Turn(q)
      <4>1. PICK n : n = PageAfter(q) /\ n \in Numbers(q)
        BY <1>0, <2>0, PageAfterIsPage
      <4>2. n \in Nat /\ n \in AllNumbers
        BY <1>0, <4>1, NumbersAreKnown, DesignType DEF Numbers
      <4>3. /\ page' = [page EXCEPT ![q] = n]
            /\ draft' = [of |-> q, shows |-> [pages |-> {n}, live |-> TRUE]]
            /\ turned' = turned \cup {q}
        BY <3>1, <4>1 DEF Turn
      <4>4. [pages |-> {n}, live |-> TRUE] \in Content
        BY <4>2 DEF Content
      <4> QED  BY <1>0, <4>1, <4>2, <4>3, <4>4 DEF TypeOK
    <3>2. CASE UNCHANGED <<page, draft, turned>>
      BY <1>0, <3>2 DEF TypeOK
    <3> QED  BY <1>9, <3>1, <3>2 DEF Handle
  <2> QED  BY <1>0, <1>9, <2>1, <2>2, <2>3 DEF Handle, TypeOK, made, told, Numbers
<1>10. ASSUME NEW p \in Pagers, FirstArrives(p) PROVE TypeOK'
  <2>1. [pages |-> GivenPages(p), live |-> TRUE] \in Content
    BY ContentsAreContent
  <2>2. message' \in [Pagers -> Content] /\ first' \in [Pagers -> {"unsent", "sent", "arrived", "refused"}]
    BY <1>0, <1>10, <2>1 DEF FirstArrives, TypeOK
  <2> QED  BY <1>0, <1>10, <2>2 DEF FirstArrives, TypeOK, made, clicked, Numbers
<1>11. ASSUME NEW p \in Pagers, EditArrives(p) PROVE TypeOK'
  <2>1. edits[p] \in Seq(Content) /\ edits[p] # <<>>
    BY <1>0, <1>11 DEF EditArrives, TypeOK
  <2>2. Head(edits[p]) \in Content /\ Tail(edits[p]) \in Seq(Content)
    BY <2>1, HeadTailProperties
  <2>3. edits' = [edits EXCEPT ![p] = Tail(edits[p])]
    BY <1>11 DEF EditArrives
  <2>4. edits' \in [Pagers -> Seq(Content)]
    BY <1>0, <2>2, <2>3 DEF TypeOK
  <2>5. message' \in [Pagers -> Content] /\ overtaken' \subseteq Pagers
    BY <1>0, <1>11, <2>2 DEF EditArrives, TypeOK
  <2> QED  BY <1>0, <1>11, <2>4, <2>5 DEF EditArrives, TypeOK, made, clicked, Numbers
<1>12. CASE HandOut
  BY <1>0, <1>12 DEF HandOut, TypeOK, made, told, Numbers
<1>13. CASE PostDraft
  <2>1. draft.of \in Pagers /\ draft.shows \in Content
    BY <1>0, <1>13 DEF PostDraft, TypeOK
  <2>2. edits' = [edits EXCEPT ![draft.of] = Append(@, draft.shows)]
    BY <1>13 DEF PostDraft, Post
  <2>3. edits' \in [Pagers -> Seq(Content)]
    BY <1>0, <2>1, <2>2, AppendProperties DEF TypeOK
  <2> QED  BY <1>0, <1>13, <2>3 DEF PostDraft, TypeOK, made, Numbers
<1>14. CASE ClickOver
  BY <1>0, <1>14 DEF ClickOver, TypeOK, made, told, Numbers
<1>15. CASE UNCHANGED vars
  BY <1>0, <1>15 DEF vars, TypeOK, made, clicked, told, Numbers
<1> QED
  BY <1>1, <1>2, <1>3, <1>4, <1>5, <1>6, <1>7, <1>8, <1>9, <1>10, <1>11, <1>12, <1>13, <1>14,
     <1>15 DEF Next, Construct

-----------------------------------------------------------------------------
(* What the paginators are at.                                             *)

\* At first there is nothing.
LEMMA PagerInvInit == Init => PagerInv
<1> SUFFICES ASSUME Init PROVE PagerInv
  OBVIOUS
<1>1. <<>> \in Seq(Nat) /\ <<>> \in Seq(Content) /\ Len(<<>>) = 0
  BY EmptySeq
<1>2. Empty \in Content
  BY DEF Empty, Content
<1>3. TypeOK
  <2>1. ids \in [Pagers -> Seq(Nat)] /\ edits \in [Pagers -> Seq(Content)]
    BY <1>1 DEF Init
  <2>2. \A p \in Pagers : Len(ids[p]) <= Len(Buttons)
    BY <1>1, FourButtons DEF Init
  <2>3. clicks \in 0 .. MaxClicks
    BY PaginatorAssumption DEF Init
  <2> QED  BY <1>2, <2>1, <2>2, <2>3 DEF Init, TypeOK, Making
<1>4. AllOrNone
  BY DEF Init, AllOrNone
<1>5. IdsAreWritten
  BY <1>1 DEF Init, IdsAreWritten
<1>6. StartedFirst
  BY DEF Init, StartedFirst, Empty
<1> QED  BY <1>3, <1>4, <1>5, <1>6 DEF PagerInv

\* The process dies for all of them.
LEMMA AllOrNoneStep == PagerInv /\ [Next]_vars => AllOrNone'
<1> SUFFICES ASSUME PagerInv, [Next]_vars PROVE AllOrNone'
  OBVIOUS
<1>0. AllOrNone /\ pc \in [Pagers -> {"idle", "made", "shown", "listening", "ended", "dead"} \cup Making]
  BY DEF PagerInv, TypeOK
<1>1. CASE UNCHANGED pc
  BY <1>0, <1>1 DEF AllOrNone
<1>2. CASE ProcessDies
  BY <1>2 DEF ProcessDies, AllOrNone
<1>3. ASSUME NEW p \in Pagers, NEW l, Goto(p, l), pc[p] # "dead", l # "dead" PROVE AllOrNone'
  BY <1>0, <1>3 DEF Goto, AllOrNone
<1>4. ASSUME NEW p \in Pagers, Construct(p) \/ Start(p) \/ Listen(p) \/ Destroy(p) PROVE AllOrNone'
  BY <1>3, <1>4 DEF Construct, Make, WriteId, LoadCounter, StoreCounter, Start, Listen, Destroy
<1>5. ASSUME NEW p \in Pagers, Handle(p) PROVE AllOrNone'
  BY <1>1, <1>2, <1>5 DEF Handle
<1>6. ASSUME NEW p \in Pagers, FirstArrives(p) \/ EditArrives(p) PROVE AllOrNone'
  BY <1>1, <1>6 DEF FirstArrives, EditArrives
<1>7. ASSUME NEW p \in Pagers, NEW k \in DOMAIN Buttons, Click(p, k) PROVE AllOrNone'
  BY <1>1, <1>7 DEF Click
<1>8. CASE HandOut \/ PostDraft \/ ClickOver \/ UNCHANGED vars
  BY <1>1, <1>8 DEF HandOut, PostDraft, ClickOver, vars
<1> QED  BY <1>4, <1>5, <1>6, <1>7, <1>8 DEF Next

\* The four ids are written one by one.
LEMMA IdsAreWrittenStep == PagerInv /\ [Next]_vars => IdsAreWritten'
<1> SUFFICES ASSUME PagerInv, [Next]_vars PROVE IdsAreWritten'
  OBVIOUS
<1>0. /\ IdsAreWritten /\ ids \in [Pagers -> Seq(Nat)] /\ counter \in Nat
      /\ pc \in [Pagers -> {"idle", "made", "shown", "listening", "ended", "dead"} \cup Making]
  BY DEF PagerInv, TypeOK
<1>1. CASE UNCHANGED <<pc, ids>>
  BY <1>0, <1>1 DEF IdsAreWritten
<1>2. CASE ProcessDies /\ UNCHANGED ids
  BY <1>0, <1>2 DEF ProcessDies, IdsAreWritten
<1>3. ASSUME NEW p \in Pagers, WriteId(p) PROVE IdsAreWritten'
  <2>1. ids' = [ids EXCEPT ![p] = Append(@, counter)] /\ ids[p] \in Seq(Nat) /\ pc[p] = "ids"
    BY <1>0, <1>3 DEF WriteId
  <2>2. Len(Append(ids[p], counter)) = Len(ids[p]) + 1 /\ Len(ids[p]) \in Nat
    BY <1>0, <2>1, AppendProperties
  <2>3. Len(ids'[p]) = Len(ids[p]) + 1 /\ \A q \in Pagers : q # p => ids'[q] = ids[q]
    BY <1>0, <2>1, <2>2
  <2>4. Len(ids[p]) < 4
    BY <1>0, <2>1 DEF IdsAreWritten
  <2>5. /\ pc'[p] = IF Len(ids'[p]) = 4 THEN "load" ELSE "ids"
        /\ \A q \in Pagers : q # p => pc'[q] = pc[q]
    BY <1>0, <1>3, FourButtons DEF WriteId, Goto
  <2>6. /\ pc'[p] = "ids" => Len(ids'[p]) < 4
        /\ pc'[p] = "load" => Len(ids'[p]) = 4
        /\ pc'[p] \in {"ids", "load"}
    BY <2>2, <2>3, <2>4, <2>5
  <2>7. ASSUME NEW q \in Pagers, q # p
        PROVE  /\ pc'[q] = "idle" => Len(ids'[q]) = 0
               /\ pc'[q] = "ids" => Len(ids'[q]) < 4
               /\ pc'[q] \in {"load", "store", "made", "shown", "listening", "ended"}
                    => Len(ids'[q]) = 4
    BY <1>0, <2>3, <2>5, <2>7 DEF IdsAreWritten
  <2> QED  BY <2>6, <2>7 DEF IdsAreWritten
<1>4. ASSUME NEW p \in Pagers, NEW l, Goto(p, l), UNCHANGED ids,
             \/ pc[p] = "idle" /\ l = "ids"
             \/ /\ pc[p] \in {"load", "store", "made", "shown", "listening"}
                /\ l \in {"store", "made", "shown", "listening", "ended"}
      PROVE  IdsAreWritten'
  BY <1>0, <1>4 DEF Goto, IdsAreWritten
<1>5. ASSUME NEW p \in Pagers, Make(p) \/ LoadCounter(p) \/ StoreCounter(p) \/ Start(p) \/ Listen(p)
                               \/ Destroy(p)
      PROVE  IdsAreWritten'
  BY <1>4, <1>5 DEF Make, LoadCounter, StoreCounter, Start, Listen, Destroy, made
<1>6. ASSUME NEW p \in Pagers, Handle(p) PROVE IdsAreWritten'
  BY <1>1, <1>2, <1>6 DEF Handle, made
<1>7. ASSUME NEW p \in Pagers, FirstArrives(p) \/ EditArrives(p) PROVE IdsAreWritten'
  BY <1>1, <1>7 DEF FirstArrives, EditArrives, made
<1>8. ASSUME NEW p \in Pagers, NEW k \in DOMAIN Buttons, Click(p, k) PROVE IdsAreWritten'
  BY <1>1, <1>8 DEF Click, made
<1>9. CASE HandOut \/ PostDraft \/ ClickOver \/ UNCHANGED vars
  BY <1>1, <1>9 DEF HandOut, PostDraft, ClickOver, vars, made
<1> QED  BY <1>3, <1>5, <1>6, <1>7, <1>8, <1>9 DEF Next, Construct

\* A sequence is empty when it has no length.
LEMMA EmptyByLength ==
    ASSUME NEW S, NEW s \in Seq(S)
    PROVE  s = <<>> <=> Len(s) = 0
  BY EmptySeq

\* What is left of a sequence ends as it does, unless nothing is left.
LEMMA TailEndsAlike ==
    ASSUME NEW S, NEW s \in Seq(S), s # <<>>
    PROVE  /\ Tail(s) = <<>> => Head(s) = s[Len(s)]
           /\ Tail(s) # <<>> => Tail(s)[Len(Tail(s))] = s[Len(s)]
<1>1. PICK n \in Nat : n = Len(s) /\ n >= 1
  BY EmptySeq
<1>2. PICK t \in Seq(S) : t = Tail(s) /\ Len(t) = n - 1 /\ \A k \in 1 .. n - 1 : t[k] = s[k + 1]
  <2>1. /\ Tail(s) \in Seq(S) /\ Len(Tail(s)) = Len(s) - 1
        /\ \A k \in 1 .. Len(Tail(s)) : Tail(s)[k] = s[k + 1]
    BY HeadTailProperties
  <2>2. \A k \in 1 .. n - 1 : Tail(s)[k] = s[k + 1]
    BY <1>1, <2>1
  <2> QED  BY <1>1, <2>1, <2>2
<1>3. Head(s) = s[1]
  OBVIOUS
<1>4. ASSUME t = <<>> PROVE s[1] = s[n]
  <2>1. Len(t) = 0
    BY <1>4, EmptyByLength
  <2>2. n = 1
    BY <1>1, <1>2, <2>1
  <2> QED  BY <2>2
<1>5. ASSUME t # <<>> PROVE t[n - 1] = s[n]
  <2>1. n - 1 # 0
    BY <1>2, <1>5, EmptyByLength
  <2>2. n - 1 \in 1 .. n - 1 /\ n - 1 + 1 = n
    BY <1>1, <2>1
  <2> QED  BY <1>2, <2>2
<1> QED  BY <1>1, <1>2, <1>3, <1>4, <1>5

\* Nothing is heard, clicked or turned before it is sent.
LEMMA StartedFirstStep == PagerInv /\ [Next]_vars => StartedFirst'
<1> SUFFICES ASSUME PagerInv, [Next]_vars PROVE StartedFirst'
  OBVIOUS
<1>0. /\ StartedFirst /\ handlers \subseteq Pagers
      /\ click \in [of : Pagers, button : DOMAIN Buttons, handed : BOOLEAN,
                    todo : SUBSET Pagers] \cup {NoClick}
      /\ first \in [Pagers -> {"unsent", "sent", "arrived", "refused"}]
      /\ message \in [Pagers -> Content]
      /\ pc \in [Pagers -> {"idle", "made", "shown", "listening", "ended", "dead"} \cup Making]
  BY DEF PagerInv, TypeOK
<1>1. ASSUME UNCHANGED <<design, pc, handlers, click, turned, first, message>>
      PROVE  StartedFirst'
  BY <1>0, <1>1 DEF StartedFirst
<1>2. ASSUME NEW p \in Pagers, NEW l, Goto(p, l), pc[p] \notin Past,
             (pc[p] = "made" /\ l = "ended") \/ l \notin Past,
             UNCHANGED <<design, handlers, click, turned, first, message>>
      PROVE  StartedFirst'
  BY <1>0, <1>2 DEF Goto, StartedFirst, Past
<1>3. ASSUME NEW p \in Pagers, Construct(p) PROVE StartedFirst'
  <2>1. PICK l : Goto(p, l) /\ l \in Making \cup {"made"}
    BY <1>3 DEF Construct, Make, WriteId, LoadCounter, StoreCounter, Making
  <2>2. pc[p] \notin Past /\ l \notin Past
    BY <1>3, <2>1 DEF Construct, Make, WriteId, LoadCounter, StoreCounter, Making, Past
  <2>3. UNCHANGED <<design, handlers, click, turned, first, message>>
    BY <1>3 DEF Construct, Make, WriteId, LoadCounter, StoreCounter, clicked, told
  <2> QED  BY <1>2, <2>1, <2>2, <2>3
<1>4. ASSUME NEW p \in Pagers, Start(p) PROVE StartedFirst'
  BY <1>0, <1>4 DEF Start, Goto, StartedFirst, Past, made, clicked
<1>5. ASSUME NEW p \in Pagers, Listen(p) PROVE StartedFirst'
  <2>1. /\ pc' = [pc EXCEPT ![p] = "listening"] /\ pc[p] = "shown" /\ design[p].started
        /\ handlers' = handlers \cup {p}
        /\ UNCHANGED <<design, click, turned, first, message>>
    BY <1>0, <1>5 DEF Listen, Goto, StartedFirst, clicked, told
  <2>2. pc'[p] = "listening" /\ \A q \in Pagers : q # p => pc'[q] = pc[q]
    BY <1>0, <2>1
  <2>3. \A q \in Pagers : pc[q] \in Past => pc'[q] \in Past
    BY <2>1, <2>2 DEF Past
  <2>4. \A q \in Pagers : pc'[q] \in {"shown", "listening"} => design'[q].started
    BY <1>0, <2>1, <2>2 DEF StartedFirst
  <2>5. \A q \in handlers' : design'[q].started /\ pc'[q] \in {"listening", "ended", "dead"}
    BY <1>0, <2>1, <2>2 DEF StartedFirst
  <2>6. turned' \subseteq handlers'
    BY <1>0, <2>1 DEF StartedFirst
  <2>7. click' # NoClick => click'.todo \subseteq handlers' /\ pc'[click'.of] \in Past
    BY <1>0, <2>1, <2>3 DEF StartedFirst
  <2>8. \A q \in Pagers : /\ first'[q] # "unsent" => pc'[q] \in Past
                          /\ message'[q].live => first'[q] = "arrived"
    BY <1>0, <2>1, <2>3 DEF StartedFirst
  <2> QED  BY <2>4, <2>5, <2>6, <2>7, <2>8 DEF StartedFirst
<1>6. ASSUME NEW p \in Pagers, Destroy(p) PROVE StartedFirst'
  BY <1>0, <1>6 DEF Destroy, Goto, StartedFirst, Past, made, clicked
<1>7. ASSUME NEW p \in Pagers, NEW k \in DOMAIN Buttons, Click(p, k) PROVE StartedFirst'
  <2>1. first[p] = "arrived" /\ pc[p] \in Past
    BY <1>0, <1>7 DEF Click, StartedFirst
  <2>2. click'.todo = {} /\ click'.of = p
    BY <1>7 DEF Click
  <2>3. UNCHANGED <<design, pc, handlers, turned, first, message>>
    BY <1>7 DEF Click, told
  <2> QED  BY <1>0, <2>1, <2>2, <2>3 DEF StartedFirst
<1>8. CASE HandOut
  <2>1. /\ click' = [click EXCEPT !.handed = TRUE, !.todo = handlers]
        /\ UNCHANGED <<design, pc, handlers, turned, first, message>>
    BY <1>8 DEF HandOut, told
  <2>2. click # NoClick /\ click \in [of : Pagers, button : DOMAIN Buttons, handed : BOOLEAN,
                                      todo : SUBSET Pagers]
    BY <1>0, <1>8 DEF HandOut
  <2>3. click'.todo = handlers /\ click'.of = click.of
    BY <2>1, <2>2
  <2> QED  BY <1>0, <2>1, <2>2, <2>3 DEF StartedFirst
<1>9. ASSUME NEW q \in Pagers, Handle(q) PROVE StartedFirst'
  <2>1. /\ click # NoClick
        /\ click \in [of : Pagers, button : DOMAIN Buttons, handed : BOOLEAN, todo : SUBSET Pagers]
    BY <1>0, <1>9 DEF Handle, NoClick
  <2>2. q \in handlers
    BY <1>0, <1>9, <2>1 DEF Handle, StartedFirst
  <2>3. click'.todo \subseteq handlers /\ click'.of = click.of /\ click.of \in Pagers
    BY <1>0, <1>9, <2>1 DEF Handle, StartedFirst
  <2>4. UNCHANGED <<design, handlers, first, message>> /\ turned' \subseteq handlers
    BY <1>0, <1>9, <2>2 DEF Handle, Turn, told, StartedFirst
  <2>5. UNCHANGED pc \/ \A r \in Pagers : pc'[r] = "dead"
    BY <1>9 DEF Handle, ProcessDies
  <2> QED  BY <1>0, <2>1, <2>3, <2>4, <2>5 DEF StartedFirst, Past
<1>10. ASSUME NEW p \in Pagers, FirstArrives(p) PROVE StartedFirst'
  BY <1>0, <1>10 DEF FirstArrives, StartedFirst, made, clicked
<1>11. ASSUME NEW p \in Pagers, EditArrives(p) PROVE StartedFirst'
  BY <1>0, <1>11 DEF EditArrives, StartedFirst, made, clicked
<1>12. CASE PostDraft \/ UNCHANGED vars
  BY <1>1, <1>12 DEF PostDraft, vars, made, clicked, told
<1>13. CASE ClickOver
  BY <1>0, <1>13 DEF ClickOver, StartedFirst, made, told
<1> QED  BY <1>3, <1>4, <1>5, <1>6, <1>7, <1>8, <1>9, <1>10, <1>11, <1>12, <1>13 DEF Next

\* Every step keeps what the paginators are at.
LEMMA PagerInvStep == PagerInv /\ [Next]_vars => PagerInv'
  BY TypeStep, AllOrNoneStep, IdsAreWrittenStep, StartedFirstStep DEF PagerInv

\* So it always holds.
LEMMA PagerInvHolds == Spec => []PagerInv
  BY PagerInvInit, PagerInvStep, PTL DEF Spec

\* Every state of any number of paginators is well-typed: no page is ever turned
\* to that is not there, whatever is clicked in whatever order.
THEOREM TypeCorrect == Spec => []TypeOK
<1>1. PagerInv => TypeOK
  BY DEF PagerInv
<1> QED  BY <1>1, PagerInvHolds, PTL

-----------------------------------------------------------------------------
(* What messages show in the end.                                          *)

\* Nothing has ended at first.
LEMMA SettleInvInit == Init => SettleInv
  BY DEF Init, SettleInv

\* What is on its way ends with the last edit, action by action.
LEMMA SettleInvStep == PagerInv /\ SettleInv /\ [Next]_vars => SettleInv'
<1> SUFFICES ASSUME PagerInv, SettleInv, [Next]_vars PROVE SettleInv'
  OBVIOUS
<1>0. /\ edits \in [Pagers -> Seq(Content)]
      /\ pc \in [Pagers -> {"idle", "made", "shown", "listening", "ended", "dead"} \cup Making]
      /\ message \in [Pagers -> Content]
      /\ first \in [Pagers -> {"unsent", "sent", "arrived", "refused"}]
      /\ draft \in [of : Pagers, shows : Content] \cup {NoDraft}
      /\ page \in [Pagers -> Nat]
  BY DEF PagerInv, TypeOK
<1>1. ASSUME UNCHANGED <<draft, crossed, overtaken, edits, first, message, page, turned, design>>,
             \A p \in Pagers : pc'[p] = "ended" => pc[p] = "ended"
      PROVE  SettleInv'
  <2>1. \A p \in Pagers : Final(p)' = Final(p)
    BY <1>1 DEF Final, Held, GivenPages, Numbers, Embeds
  <2>2. draft' # NoDraft /\ pc'[draft'.of] = "ended" => draft'.of \in crossed'
    BY <1>0, <1>1 DEF SettleInv
  <2>3. ASSUME NEW p \in Pagers, pc'[p] = "ended", p \notin overtaken' \cup crossed'
        PROVE  IF edits'[p] = <<>> THEN first'[p] = "arrived" /\ message'[p] = Final(p)'
               ELSE edits'[p][Len(edits'[p])] = Final(p)'
    BY <1>1, <2>1, <2>3 DEF SettleInv
  <2> QED  BY <2>2, <2>3 DEF SettleInv
<1>2. ASSUME NEW p \in Pagers, Construct(p) \/ Listen(p) PROVE SettleInv'
  <2>1. \A q \in Pagers : pc'[q] = "ended" => pc[q] = "ended"
    BY <1>0, <1>2, FourButtons DEF Construct, Make, WriteId, LoadCounter, StoreCounter, Listen, Goto
  <2> QED
    BY <1>1, <1>2, <2>1 DEF Construct, Make, WriteId, LoadCounter, StoreCounter, Listen, made, clicked,
       told
<1>3. ASSUME NEW p \in Pagers, Start(p) PROVE SettleInv'
  <2>1. /\ pc' = [pc EXCEPT ![p] = "shown"] /\ first' = [first EXCEPT ![p] = "sent"] /\ pc[p] = "made"
        /\ UNCHANGED <<draft, crossed, overtaken, edits, message, page, turned, design>>
    BY <1>3 DEF Start, Goto, clicked, made
  <2>2. \A q \in Pagers : Final(q)' = Final(q)
    BY <2>1 DEF Final, Held, GivenPages, Numbers, Embeds
  <2>3. \A q \in Pagers : pc'[q] = "ended" => pc[q] = "ended" /\ q # p /\ first'[q] = first[q]
    BY <1>0, <2>1
  <2>4. draft' # NoDraft /\ pc'[draft'.of] = "ended" => draft'.of \in crossed'
    BY <1>0, <2>1, <2>3 DEF SettleInv
  <2>5. ASSUME NEW q \in Pagers, pc'[q] = "ended", q \notin overtaken' \cup crossed'
        PROVE  IF edits'[q] = <<>> THEN first'[q] = "arrived" /\ message'[q] = Final(q)'
               ELSE edits'[q][Len(edits'[q])] = Final(q)'
    BY <2>1, <2>2, <2>3, <2>5 DEF SettleInv
  <2> QED  BY <2>4, <2>5 DEF SettleInv
<1>4. ASSUME NEW p \in Pagers, Destroy(p) PROVE SettleInv'
  <2>1. /\ pc' = [pc EXCEPT ![p] = "ended"]
        /\ edits' = [edits EXCEPT ![p] = Append(edits[p], Final(p))]
        /\ crossed' = IF draft.of = p THEN crossed \cup {p} ELSE crossed
        /\ UNCHANGED <<draft, overtaken, first, message, page, turned, design>>
    BY <1>4 DEF Destroy, Goto, Post, Final, clicked
  <2>2. \A q \in Pagers : Final(q)' = Final(q)
    BY <2>1 DEF Final, Held, GivenPages, Numbers, Embeds
  <2>3. \A q \in Pagers : q # p => pc'[q] = pc[q] /\ edits'[q] = edits[q]
    BY <1>0, <2>1
  <2>4. draft' # NoDraft /\ pc'[draft'.of] = "ended" => draft'.of \in crossed'
    BY <1>0, <2>1, <2>3 DEF SettleInv
  <2>5. edits'[p] # <<>> /\ edits'[p][Len(edits'[p])] = Final(p)
    <3>1. Final(p) \in Content /\ edits[p] \in Seq(Content) /\ edits'[p] = Append(edits[p], Final(p))
      BY <1>0, <2>1, ContentsAreContent
    <3> QED  BY <3>1, AppendProperties
  <2>6. ASSUME NEW q \in Pagers, pc'[q] = "ended", q \notin overtaken' \cup crossed'
        PROVE  IF edits'[q] = <<>> THEN first'[q] = "arrived" /\ message'[q] = Final(q)'
               ELSE edits'[q][Len(edits'[q])] = Final(q)'
    <3>1. CASE q = p
      BY <2>2, <2>5, <3>1
    <3>2. CASE q # p
      <4>1. pc[q] = "ended" /\ q \notin overtaken \cup crossed
        BY <2>1, <2>3, <2>6, <3>2
      <4> QED  BY <2>1, <2>2, <2>3, <3>2, <4>1 DEF SettleInv
    <3> QED  BY <3>1, <3>2
  <2> QED  BY <2>4, <2>6 DEF SettleInv
<1>5. ASSUME NEW p \in Pagers, NEW k \in DOMAIN Buttons, Click(p, k) PROVE SettleInv'
  BY <1>1, <1>5 DEF Click, told, made
<1>6. CASE HandOut \/ ClickOver \/ UNCHANGED vars
  BY <1>1, <1>6 DEF HandOut, ClickOver, vars, told, made, clicked
<1>7. ASSUME NEW p \in Pagers, Handle(p) PROVE SettleInv'
  <2>1. CASE UNCHANGED <<page, draft, turned>>
    <3>1. \A q \in Pagers : pc'[q] = "ended" => pc[q] = "ended"
      BY <1>7 DEF Handle, ProcessDies
    <3> QED  BY <1>1, <1>7, <2>1, <3>1 DEF Handle, told, made
  <2>2. CASE Turn(p) /\ pc[p] # "ended" /\ UNCHANGED pc
    <3>1. /\ page' = [page EXCEPT ![p] = PageAfter(p)] /\ draft'.of = p
          /\ turned' = turned \cup {p}
          /\ UNCHANGED <<crossed, overtaken, edits, first, message, design>>
      BY <1>7, <2>2 DEF Handle, Turn, told, made
    <3>2. \A q \in Pagers : q # p => page'[q] = page[q]
      BY <1>0, <3>1
    <3>3. \A q \in Pagers : q # p => Final(q)' = Final(q)
      BY <3>1, <3>2 DEF Final, Held, GivenPages, Numbers, Embeds
    <3>4. draft' # NoDraft /\ pc'[draft'.of] = "ended" => draft'.of \in crossed'
      BY <2>2, <3>1
    <3>5. ASSUME NEW q \in Pagers, pc'[q] = "ended", q \notin overtaken' \cup crossed'
          PROVE  IF edits'[q] = <<>> THEN first'[q] = "arrived" /\ message'[q] = Final(q)'
                 ELSE edits'[q][Len(edits'[q])] = Final(q)'
      <4>1. q # p /\ pc[q] = "ended" /\ q \notin overtaken \cup crossed
        BY <2>2, <3>1, <3>5
      <4> QED  BY <3>1, <3>3, <4>1 DEF SettleInv
    <3> QED  BY <3>4, <3>5 DEF SettleInv
  <2> QED  BY <1>7, <2>1, <2>2 DEF Handle
<1>8. CASE PostDraft
  <2>1. /\ draft.of \in Pagers /\ draft.shows \in Content
        /\ edits' = [edits EXCEPT ![draft.of] = Append(edits[draft.of], draft.shows)]
        /\ draft' = NoDraft
        /\ UNCHANGED <<pc, crossed, overtaken, first, message, page, turned, design>>
    BY <1>0, <1>8 DEF PostDraft, Post, made
  <2>2. \A q \in Pagers : Final(q)' = Final(q)
    BY <2>1 DEF Final, Held, GivenPages, Numbers, Embeds
  <2>3. \A q \in Pagers : q # draft.of => edits'[q] = edits[q]
    BY <1>0, <2>1
  <2>4. pc[draft.of] = "ended" => draft.of \in crossed
    BY <1>8 DEF PostDraft, SettleInv
  <2>5. ASSUME NEW q \in Pagers, pc'[q] = "ended", q \notin overtaken' \cup crossed'
        PROVE  IF edits'[q] = <<>> THEN first'[q] = "arrived" /\ message'[q] = Final(q)'
               ELSE edits'[q][Len(edits'[q])] = Final(q)'
    <3>1. q # draft.of /\ pc[q] = "ended" /\ q \notin overtaken \cup crossed
      BY <2>1, <2>4, <2>5
    <3> QED  BY <2>1, <2>2, <2>3, <3>1 DEF SettleInv
  <2> QED  BY <2>1, <2>5 DEF SettleInv
<1>9. ASSUME NEW p \in Pagers, FirstArrives(p) PROVE SettleInv'
  <2>1. /\ first[p] = "sent"
        /\ UNCHANGED <<draft, pc, crossed, overtaken, edits, page, turned, design>>
        /\ \A q \in Pagers : q # p => first'[q] = first[q] /\ message'[q] = message[q]
    BY <1>0, <1>9 DEF FirstArrives, made, clicked
  <2>2. \A q \in Pagers : Final(q)' = Final(q)
    BY <2>1 DEF Final, Held, GivenPages, Numbers, Embeds
  <2>3. draft' # NoDraft /\ pc'[draft'.of] = "ended" => draft'.of \in crossed'
    BY <2>1 DEF SettleInv
  <2>4. ASSUME NEW q \in Pagers, pc'[q] = "ended", q \notin overtaken' \cup crossed'
        PROVE  IF edits'[q] = <<>> THEN first'[q] = "arrived" /\ message'[q] = Final(q)'
               ELSE edits'[q][Len(edits'[q])] = Final(q)'
    <3>1. /\ pc[q] = "ended" /\ q \notin overtaken \cup crossed /\ edits'[q] = edits[q]
          /\ edits[q] = <<>> => first[q] = "arrived" /\ message[q] = Final(q)
          /\ edits[q] # <<>> => edits[q][Len(edits[q])] = Final(q)
      BY <2>1, <2>4 DEF SettleInv
    <3>2. edits[q] = <<>> => q # p
      BY <2>1, <3>1
    <3> QED  BY <2>1, <2>2, <3>1, <3>2
  <2> QED  BY <2>3, <2>4 DEF SettleInv
<1>10. ASSUME NEW p \in Pagers, EditArrives(p) PROVE SettleInv'
  <2>1. /\ edits[p] # <<>> /\ edits' = [edits EXCEPT ![p] = Tail(edits[p])]
        /\ UNCHANGED <<draft, pc, crossed, first, page, turned, design>>
        /\ overtaken \subseteq overtaken'
        /\ p \notin overtaken' => first[p] = "arrived" /\ message'[p] = Head(edits[p])
        /\ \A q \in Pagers : q # p => message'[q] = message[q]
    BY <1>0, <1>10 DEF EditArrives, made, clicked
  <2>2. \A q \in Pagers : Final(q)' = Final(q)
    BY <2>1 DEF Final, Held, GivenPages, Numbers, Embeds
  <2>3. draft' # NoDraft /\ pc'[draft'.of] = "ended" => draft'.of \in crossed'
    BY <2>1 DEF SettleInv
  <2>4. ASSUME NEW q \in Pagers, pc'[q] = "ended", q \notin overtaken' \cup crossed'
        PROVE  IF edits'[q] = <<>> THEN first'[q] = "arrived" /\ message'[q] = Final(q)'
               ELSE edits'[q][Len(edits'[q])] = Final(q)'
    <3>0. pc[q] = "ended" /\ q \notin overtaken \cup crossed
      BY <2>1, <2>4
    <3>1. CASE q # p
      <4>1. edits'[q] = edits[q] /\ message'[q] = message[q] /\ first'[q] = first[q]
        BY <1>0, <2>1, <3>1
      <4> QED  BY <2>2, <3>0, <4>1 DEF SettleInv
    <3>2. CASE q = p
      <4>1. PICK s, t : s = edits[p] /\ t = edits'[p] /\ s # <<>>
                        /\ (t = <<>> => Head(s) = s[Len(s)])
                        /\ (t # <<>> => t[Len(t)] = s[Len(s)])
        BY <1>0, <2>1, TailEndsAlike
      <4>2. s[Len(s)] = Final(p)
        BY <3>0, <3>2, <4>1 DEF SettleInv
      <4>3. t = <<>> => message'[p] = Final(p) /\ first'[p] = "arrived"
        BY <2>1, <2>4, <3>2, <4>1, <4>2
      <4> QED  BY <2>2, <3>2, <4>1, <4>2, <4>3
    <3> QED  BY <3>1, <3>2
  <2> QED  BY <2>3, <2>4 DEF SettleInv
<1> QED  BY <1>2, <1>3, <1>4, <1>5, <1>6, <1>7, <1>8, <1>9, <1>10 DEF Next

\* However its requests overtake each other, an ended paginator whose edits are
\* through leaves a message without live buttons, at the page last turned to,
\* unless that edit was lost, or crossed one that a handler was about to post.
THEOREM EndedMessagesAlwaysSettle == Spec => []EndedMessagesSettle
<1>1. SettleInv => EndedMessagesSettle
  BY DEF SettleInv, EndedMessagesSettle, Final
<1> QED  BY <1>1, PagerInvHolds, SettleInvInit, SettleInvStep, PTL DEF Spec

-----------------------------------------------------------------------------
(* Whom a click turns.                                                     *)

\* No ids are written at first.
LEMMA IdsStayApartInit == Init => IdsStayApart
  BY DEF Init, IdsStayApart, Making, Made, Past

\* One is made after the other, each under a counter that the one before has
\* increased.
LEMMA IdsStayApartStep == PagerInv /\ IdsStayApart /\ [Next]_vars => IdsStayApart'
<1> SUFFICES ASSUME PagerInv, IdsStayApart, [Next]_vars PROVE IdsStayApart'
  OBVIOUS
<1>0. /\ ids \in [Pagers -> Seq(Nat)] /\ counter \in Nat /\ loaded \in [Pagers -> Nat]
      /\ pc \in [Pagers -> {"idle", "made", "shown", "listening", "ended", "dead"} \cup Making]
      /\ raced \in BOOLEAN /\ AllOrNone /\ IdsAreWritten
  BY DEF PagerInv, TypeOK
<1>1. ASSUME UNCHANGED made, Running' => Running,
             \A p \in Pagers : pc'[p] = pc[p] \/ (pc[p] \in Made /\ pc'[p] \in Made)
      PROVE  IdsStayApart'
  <2>1. \A p \in Pagers : /\ pc'[p] \in Making => pc[p] \in Making
                          /\ pc'[p] = "store" => pc[p] = "store"
                          /\ pc'[p] \in Made => pc[p] \in Made
    BY <1>1 DEF Made, Making, Past
  <2>2. UNCHANGED <<counter, loaded, ids, raced>>
    BY <1>1 DEF made
  <2> QED  BY <1>1, <2>1, <2>2 DEF IdsStayApart
<1>2. ASSUME NEW p \in Pagers, Start(p) \/ Listen(p) \/ Destroy(p) PROVE IdsStayApart'
  <2>1. PICK l : Goto(p, l) /\ l \in Made /\ l # "dead" /\ pc[p] \in Made /\ pc[p] # "dead"
    BY <1>2 DEF Start, Listen, Destroy, Made, Past
  <2>2. /\ \A q \in Pagers : pc'[q] = pc[q] \/ (pc[q] \in Made /\ pc'[q] \in Made)
        /\ Running' => Running
    BY <1>0, <2>1 DEF Goto, Running
  <2>3. UNCHANGED made
    BY <1>2 DEF Start, Listen, Destroy
  <2> QED  BY <1>1, <2>2, <2>3
<1>3. ASSUME NEW p \in Pagers, Handle(p) PROVE IdsStayApart'
  <2>1. CASE UNCHANGED pc
    BY <1>1, <1>3, <2>1 DEF Handle, Running
  <2>2. CASE ProcessDies
    BY <1>3, <2>2 DEF ProcessDies, Running, IdsStayApart
  <2> QED  BY <1>3, <2>1, <2>2 DEF Handle
<1>4. ASSUME NEW p \in Pagers, FirstArrives(p) \/ EditArrives(p) PROVE IdsStayApart'
  BY <1>1, <1>4 DEF FirstArrives, EditArrives, Running
<1>5. ASSUME NEW p \in Pagers, NEW k \in DOMAIN Buttons, Click(p, k) PROVE IdsStayApart'
  BY <1>1, <1>5 DEF Click, Running
<1>6. CASE HandOut \/ PostDraft \/ ClickOver \/ UNCHANGED vars
  BY <1>1, <1>6 DEF HandOut, PostDraft, ClickOver, vars, Running
<1>7. ASSUME NEW p \in Pagers, Make(p) PROVE IdsStayApart'
  <2>1. SUFFICES ASSUME ~raced', Running' PROVE IdsStayApart'
    BY DEF IdsStayApart
  <2>2. /\ pc' = [pc EXCEPT ![p] = "ids"] /\ pc[p] = "idle" /\ Running /\ ~raced
        /\ \A q \in Pagers : pc[q] \notin Making
        /\ UNCHANGED <<counter, loaded, ids>>
    BY <1>7, <2>1 DEF Make, Goto
  <2>3. pc'[p] = "ids" /\ \A q \in Pagers : q # p => pc'[q] = pc[q]
    BY <1>0, <2>2
  <2>4. Len(ids[p]) = 0
    BY <1>0, <2>2 DEF IdsAreWritten
  <2>5. \A q \in Pagers : pc'[q] \in Making => q = p
    BY <2>2, <2>3
  <2>6. \A q \in Pagers : pc'[q] \in Made => q # p /\ pc[q] \in Made
    BY <2>3 DEF Made, Past
  <2>7. \A k \in 1 .. Len(ids[p]) : ids[p][k] = counter
    BY <2>4
  <2> QED  BY <2>2, <2>3, <2>5, <2>6, <2>7 DEF IdsStayApart
<1>8. ASSUME NEW p \in Pagers, WriteId(p) PROVE IdsStayApart'
  <2>1. SUFFICES ASSUME ~raced', Running' PROVE IdsStayApart'
    BY DEF IdsStayApart
  <2>2. /\ pc[p] = "ids" /\ Goto(p, IF Len(ids'[p]) = Len(Buttons) THEN "load" ELSE "ids")
        /\ ids' = [ids EXCEPT ![p] = Append(ids[p], counter)]
        /\ UNCHANGED <<counter, loaded, raced>>
    BY <1>8 DEF WriteId
  <2>3. pc'[p] \in {"ids", "load"} /\ \A q \in Pagers : q # p => pc'[q] = pc[q] /\ ids'[q] = ids[q]
    BY <1>0, <2>2 DEF Goto
  <2>4. Running
    BY <2>1, <2>2, <2>3 DEF Running
  <2>5. \A q \in Pagers : /\ pc'[q] \in Making => pc[q] \in Making
                          /\ pc'[q] = "store" => q # p
                          /\ pc'[q] \in Made => q # p
    BY <2>2, <2>3 DEF Made, Making, Past
  <2>6. \A k \in 1 .. Len(ids'[p]) : ids'[p][k] = counter
    <3>1. PICK s \in Seq(Nat) : s = ids[p] /\ ids'[p] = Append(s, counter)
      BY <1>0, <2>2
    <3>2. \A k \in 1 .. Len(s) : s[k] = counter
      BY <2>1, <2>2, <2>4, <3>1 DEF IdsStayApart, Making
    <3>3. /\ Len(Append(s, counter)) = Len(s) + 1 /\ Len(s) \in Nat
          /\ \A k \in 1 .. Len(s) : Append(s, counter)[k] = s[k]
          /\ Append(s, counter)[Len(s) + 1] = counter
      BY <1>0, AppendProperties
    <3>4. \A k \in 1 .. Len(s) + 1 : k \in 1 .. Len(s) \/ k = Len(s) + 1
      BY <3>3
    <3> QED  BY <3>1, <3>2, <3>3, <3>4
  <2> QED  BY <2>1, <2>2, <2>3, <2>4, <2>5, <2>6 DEF IdsStayApart
<1>9. ASSUME NEW p \in Pagers, LoadCounter(p) PROVE IdsStayApart'
  <2>1. SUFFICES ASSUME ~raced', Running' PROVE IdsStayApart'
    BY DEF IdsStayApart
  <2>2. /\ pc[p] = "load" /\ pc' = [pc EXCEPT ![p] = "store"]
        /\ loaded' = [loaded EXCEPT ![p] = counter]
        /\ UNCHANGED <<counter, ids, raced>>
    BY <1>9 DEF LoadCounter, Goto
  <2>3. /\ pc'[p] = "store" /\ loaded'[p] = counter
        /\ \A q \in Pagers : q # p => pc'[q] = pc[q] /\ loaded'[q] = loaded[q]
    BY <1>0, <2>2
  <2>4. Running
    BY <2>1, <2>2, <2>3 DEF Running
  <2>5. \A q \in Pagers : /\ pc'[q] \in Making => pc[q] \in Making
                          /\ pc'[q] \in Made => q # p /\ pc[q] \in Made
    BY <2>2, <2>3 DEF Made, Making, Past
  <2> QED  BY <2>1, <2>2, <2>3, <2>4, <2>5 DEF IdsStayApart
<1>10. ASSUME NEW p \in Pagers, StoreCounter(p) PROVE IdsStayApart'
  <2>1. SUFFICES ASSUME ~raced', Running' PROVE IdsStayApart'
    BY DEF IdsStayApart
  <2>2. /\ pc[p] = "store" /\ pc' = [pc EXCEPT ![p] = "made"] /\ counter' = loaded[p] + 1
        /\ UNCHANGED <<loaded, ids, raced>>
    BY <1>10 DEF StoreCounter, Goto
  <2>3. pc'[p] = "made" /\ \A q \in Pagers : q # p => pc'[q] = pc[q]
    BY <1>0, <2>2
  <2>4. Running
    BY <2>1, <2>2, <2>3 DEF Running
  <2>5. counter' = counter + 1
    BY <2>1, <2>2, <2>4 DEF IdsStayApart
  <2>6. \A q \in Pagers : pc'[q] \notin Making
    BY <2>1, <2>2, <2>3, <2>4 DEF IdsStayApart, Making
  <2>7. \A k \in 1 .. 4 : ids[p][k] = counter
    <3>1. Len(ids[p]) = 4
      BY <1>0, <2>2 DEF IdsAreWritten
    <3> QED  BY <2>1, <2>2, <2>4, <3>1 DEF IdsStayApart, Making
  <2>8. ASSUME NEW q \in Pagers, q # p, pc'[q] \in Made
        PROVE  pc[q] \in Made /\ \A k \in 1 .. 4 : ids[q][k] < counter
    BY <2>1, <2>2, <2>3, <2>4, <2>8 DEF IdsStayApart
  <2>9. ASSUME NEW q \in Pagers, pc[q] \in Made, NEW k \in 1 .. 4
        PROVE  ids[q][k] \in Nat
    <3>1. pc[q] # "dead"
      BY <2>4 DEF Running
    <3>2. Len(ids[q]) = 4
      BY <1>0, <2>9, <3>1 DEF IdsAreWritten, Made, Past
    <3>3. PICK s \in Seq(Nat) : s = ids[q] /\ k \in 1 .. Len(s)
      BY <1>0, <3>2
    <3> QED  BY <3>3, ElementOfSeq
  <2>10. \A q \in Pagers : pc'[q] \in Made => \A k \in 1 .. 4 : ids'[q][k] < counter'
    <3>1. SUFFICES ASSUME NEW q \in Pagers, pc'[q] \in Made, NEW k \in 1 .. 4
                   PROVE  ids[q][k] < counter + 1
      BY <2>2, <2>5
    <3>2. CASE q = p
      BY <1>0, <2>7, <3>2
    <3>3. CASE q # p
      <4>1. ids[q][k] < counter /\ ids[q][k] \in Nat
        BY <2>8, <2>9, <3>1, <3>3
      <4> QED  BY <1>0, <4>1
    <3> QED  BY <3>2, <3>3
  <2>11. ASSUME NEW q \in Pagers, NEW r \in Pagers, pc'[q] \in Made, pc'[r] \in Made, q # r,
                NEW k \in 1 .. 4
         PROVE  ids'[q][k] # ids'[r][k]
    <3>1. CASE q # p /\ r # p
      BY <2>1, <2>2, <2>4, <2>8, <2>11, <3>1 DEF IdsStayApart
    <3>2. CASE q = p
      <4>1. ids[q][k] = counter /\ ids[r][k] < counter /\ ids[r][k] \in Nat
        BY <2>7, <2>8, <2>9, <2>11, <3>2
      <4> QED  BY <1>0, <2>2, <4>1
    <3>3. CASE r = p
      <4>1. ids[r][k] = counter /\ ids[q][k] < counter /\ ids[q][k] \in Nat
        BY <2>7, <2>8, <2>9, <2>11, <3>3
      <4> QED  BY <1>0, <2>2, <4>1
    <3> QED  BY <3>1, <3>2, <3>3
  <2> QED  BY <2>6, <2>10, <2>11 DEF IdsStayApart, Making
<1> QED  BY <1>2, <1>3, <1>4, <1>5, <1>6, <1>7, <1>8, <1>9, <1>10 DEF Next, Construct

\* No click turns the pages of another message than the one it was made on,
\* unless two paginators were made at the same time for one place.
THEOREM ClicksAlwaysStayApart == Spec => ClicksStayApart
<1>1. ASSUME PagerInv, IdsStayApart, [Next]_vars, draft = NoDraft, draft' # NoDraft
      PROVE  draft'.of = click.of \/ (raced /\ design[draft'.of].place = design[click.of].place)
  <2>1. PICK q \in Pagers : Handle(q)
    BY <1>1 DEF Next, Construct, Make, WriteId, LoadCounter, StoreCounter, Start, Listen, Destroy,
       Click, HandOut, PostDraft, ClickOver, FirstArrives, EditArrives, vars, clicked
  <2>2. Turn(q) /\ IsFor(q) /\ draft'.of = q /\ q \in click.todo /\ Running
    BY <1>1, <2>1 DEF Handle, Turn
  <2>3. /\ design[click.of].place = design[q].place
        /\ ids[click.of][click.button] = ids[q][click.button]
    BY <2>2 DEF IsFor, CustomId
  <2>4. raced \in BOOLEAN /\ click # NoClick /\ click.of \in Pagers /\ click.button \in 1 .. 4
    BY <1>1, <2>2, FourButtons DEF PagerInv, TypeOK, NoClick
  <2>5. pc[click.of] \in Made /\ pc[q] \in Made
    BY <1>1, <2>2, <2>4 DEF PagerInv, StartedFirst, Made, Past
  <2>6. ~raced => q = click.of
    BY <1>1, <2>2, <2>3, <2>4, <2>5 DEF IdsStayApart
  <2> QED  BY <2>2, <2>3, <2>4, <2>6
<1>2. PagerInv /\ IdsStayApart /\ [Next]_vars =>
        [draft = NoDraft /\ draft' # NoDraft
           => \/ draft'.of = click.of
              \/ raced /\ design[draft'.of].place = design[click.of].place]_vars
  BY <1>1
<1> QED
  BY <1>2, PagerInvHolds, IdsStayApartInit, IdsStayApartStep, PTL DEF Spec, ClicksStayApart

=============================================================================
