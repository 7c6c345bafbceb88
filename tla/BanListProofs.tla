--------------------------- MODULE BanListProofs ---------------------------
(***************************************************************************)
(* Proofs about BanList, for any number of bans, any page size and any     *)
(* number of bans and unbans during the fetch.                             *)
(***************************************************************************)
EXTENDS BanList, FiniteSetTheorems, TLAPS

-----------------------------------------------------------------------------
(***************************************************************************)
(* The invariant of the recursion.  Before an answer, everybody who stood  *)
(* has been delivered or lies beyond the cursor, and nobody who was        *)
(* delivered lies beyond it; while a page is gone through, whoever stood   *)
(* has been delivered, is still on the page, or lies beyond everybody on   *)
(* it, and then the page is full.                                          *)
(***************************************************************************)
Beyond(b) == size = PageSize /\ new_after < b /\ \A p \in page : p < b

Coverage ==
    /\ fetch = "sent" => \A b \in standing : b \in delivered \/ after < b
    /\ fetch = "page" => \A b \in standing : b \in delivered \cup page \/ Beyond(b)
    /\ FetchedIsComplete

NoRepetition ==
    /\ fetch = "sent" => \A b \in delivered : b <= after
    /\ fetch = "page" => \A b \in delivered : b <= new_after

\* Before it begins, nothing has been fetched and nobody is known to stand.
NotBegun == pc \in {"idle", "gate", "fetch"} => fetch = "none" /\ delivered = {}

BInv == TypeOK /\ Coverage /\ NoRepetition /\ NotBegun

-----------------------------------------------------------------------------
\* What the ids are.
LEMMA IdsAreNumbers == \A b \in Snowflakes : b \in Nat /\ b > 1
BY BanListAssumption DEF BanListAssumption

\* What a page holds (external: Discord).
LEMMA PageShape ==
    ASSUME TypeOK, NEW p \in Pages
    PROVE  /\ p \subseteq banned
           /\ \A b \in p : after < b
           /\ Cardinality(p) \in Nat
           /\ \A b \in banned : after < b =>
                 b \in p \/ (Cardinality(p) = PageSize /\ \A q \in p : q < b)
<1> DEFINE above == {b \in banned : b > after}
<1>1. /\ p \subseteq above
      /\ \A b \in p, other \in above \ p : b < other
      /\ Cardinality(p) = PageSize \/ (p = above /\ Cardinality(p) <= PageSize)
  BY DEF Pages
<1>2. /\ after \in Nat
      /\ \A b \in banned : b \in Nat
  BY IdsAreNumbers DEF TypeOK
<1>3. PageSize \in Nat
  BY BanListAssumption DEF BanListAssumption
<1>4. Cardinality(p) \in Nat
  <2>1. p \subseteq Snowflakes
    BY <1>1 DEF TypeOK
  <2>2. IsFiniteSet(p)
    BY <2>1, BanListAssumption, FS_Subset DEF BanListAssumption
  <2> QED  BY <2>2, FS_CardinalityType
<1>5. \A b \in p : b \in banned /\ after < b
  BY <1>1, <1>2
<1>6. ASSUME NEW b \in banned, after < b, b \notin p
      PROVE  Cardinality(p) = PageSize /\ \A q \in p : q < b
  <2>1. b \in above \ p
    BY <1>2, <1>6
  <2>2. p # above
    BY <2>1
  <2> QED  BY <1>1, <2>1, <2>2
<1> QED  BY <1>4, <1>5, <1>6

\* The actions that leave the recursion and the bans alone.
LEMMA Elsewhere ==
    ASSUME BInv, UNCHANGED <<discord, fetched>>, TypeOK',
           pc' \in {"idle", "gate", "fetch"} => pc \in {"idle", "gate", "fetch"}
    PROVE  BInv'
<1>1. UNCHANGED <<guild, cached, req, banned, standing, fetch, after, page, size, new_after, delivered>>
  BY DEF discord, fetched
<1>2. Coverage' /\ NoRepetition'
  BY <1>1 DEF BInv, Coverage, NoRepetition, FetchedIsComplete, Beyond
<1>3. NotBegun'
  BY <1>1 DEF BInv, NotBegun
<1> QED  BY <1>2, <1>3 DEF BInv

\* Every action keeps the types.
LEMMA TypeStep == TypeOK /\ [Next]_vars => TypeOK'
<1> SUFFICES ASSUME TypeOK, [Next]_vars PROVE TypeOK'
  OBVIOUS
<1> USE DEF discord, fetched, thread, ProcessDies, NullDereference, Over, Gone, Alive
<1>1. CASE UNCHANGED vars
  BY <1>1 DEF vars, TypeOK
<1>2. CASE Invoke
  BY <1>2 DEF Invoke, TypeOK
<1>3. CASE check_permissions
  BY <1>3 DEF check_permissions, Cancel, ErrorWebhook, TypeOK
<1>4. CASE Begin
  BY <1>4 DEF Begin, recursive_call, TypeOK
<1>5. CASE Respond
  <2>1. ASSUME NEW f \in Found
        PROVE  f \cap cached \subseteq Snowflakes /\ f \ cached \subseteq Snowflakes
    BY DEF Found
  <2> QED  BY <1>5, <2>1 DEF Respond, ShowErrors, LookUp, ErrorWebhook, TypeOK
<1>6. CASE JoinNames
  BY <1>6 DEF JoinNames, TypeOK
<1>7. CASE log_command_invoke
  BY <1>7 DEF log_command_invoke, TypeOK
<1>8. CASE Answer
  BY <1>8 DEF Answer, ErrorWebhook, TypeOK
<1>9. CASE DiscordAnswers
  <2>1. PICK p \in Pages : page' = p /\ size' = Cardinality(p)
    BY <1>9 DEF DiscordAnswers
  <2>2. page' \subseteq Snowflakes /\ size' \in Nat
    BY <2>1, PageShape DEF TypeOK
  <2> QED  BY <1>9, <2>2 DEF DiscordAnswers, TypeOK
<1>10. CASE DiscordFails
  BY <1>10 DEF DiscordFails, TypeOK
<1>11. ASSUME NEW b \in page, InsertBan(b) PROVE TypeOK'
  <2>1. /\ page' \subseteq Snowflakes /\ new_after' \in Nat
        /\ bans' \subseteq delivered' /\ delivered' \subseteq Snowflakes
    BY <1>11, IdsAreNumbers DEF InsertBan, KeepAddress, Further, TypeOK
  <2>2. pc' \in {"idle", "gate", "fetch", "respond", "names", "log", "answer"} \cup Over
    BY <1>11 DEF InsertBan, KeepAddress, TypeOK
  <2> QED  BY <1>11, <2>1, <2>2 DEF InsertBan, TypeOK
<1>12. CASE EndOfPage
  BY <1>12 DEF EndOfPage, recursive_call, TypeOK
<1>13. CASE LateCallback
  BY <1>13 DEF LateCallback, TypeOK
<1>14. CASE EditBans
  BY <1>14, BanListAssumption DEF BanListAssumption, EditBans, TypeOK
<1>15. ASSUME NEW u \in Snowflakes, UserArrives(u) \/ UserArrivesLate(u) PROVE TypeOK'
  BY <1>15 DEF UserArrives, UserArrivesLate, TypeOK
<1>16. CASE Kill
  BY <1>16 DEF Kill, TypeOK
<1> QED
  BY <1>1, <1>2, <1>3, <1>4, <1>5, <1>6, <1>7, <1>8, <1>9, <1>10, <1>11, <1>12, <1>13,
     <1>14, <1>15, <1>16 DEF Next, wrapper_function, callback

-----------------------------------------------------------------------------
(***************************************************************************)
(* The steps of the recursion.                                             *)
(***************************************************************************)
\* The facts about ids that the steps below compare.
LEMMA Numbers ==
    ASSUME TypeOK
    PROVE  /\ after \in Nat /\ new_after \in Nat /\ size \in Nat /\ PageSize \in Nat
           /\ \A b \in standing \cup delivered \cup page \cup banned : b \in Nat /\ b > 1
BY IdsAreNumbers, BanListAssumption DEF TypeOK, BanListAssumption

LEMMA BeginStep == BInv /\ Begin => Coverage' /\ NoRepetition' /\ NotBegun'
<1> SUFFICES ASSUME BInv, Begin PROVE Coverage' /\ NoRepetition' /\ NotBegun'
  OBVIOUS
<1>1. /\ fetch' = "sent" /\ after' = 1 /\ delivered' = {} /\ standing' = banned
      /\ pc' = "respond"
  BY DEF Begin, recursive_call, BInv, NotBegun
<1>2. \A b \in banned : b > 1
  BY Numbers DEF BInv
<1> QED
  BY <1>1, <1>2 DEF Coverage, NoRepetition, NotBegun, FetchedIsComplete, BInv, TypeOK

\* A page takes up where the cursor is: nobody on it has been taken in before.
LEMMA AnswerStep ==
    BInv /\ DiscordAnswers
        => Coverage' /\ NoRepetition' /\ NotBegun' /\ page' \cap delivered = {}
<1> SUFFICES ASSUME BInv, DiscordAnswers
             PROVE  Coverage' /\ NoRepetition' /\ NotBegun' /\ page' \cap delivered = {}
  OBVIOUS
<1>1. /\ fetch = "sent" /\ fetch' = "page" /\ new_after' = after
      /\ UNCHANGED <<standing, after, delivered, pc>>
  BY DEF DiscordAnswers, discord, thread
<1>2. PICK p \in Pages : page' = p /\ size' = Cardinality(p)
  BY DEF DiscordAnswers
<1>3. /\ \A b \in p : after < b
      /\ \A b \in banned : after < b =>
            b \in p \/ (Cardinality(p) = PageSize /\ \A q \in p : q < b)
  BY PageShape DEF BInv
<1>4. /\ \A b \in standing : b \in delivered \/ after < b
      /\ \A b \in delivered : b <= after
      /\ standing \subseteq banned
  BY <1>1 DEF BInv, Coverage, NoRepetition, TypeOK
<1>5. \A b \in standing : b \in delivered' \cup page' \/ Beyond(b)'
  <2>1. SUFFICES ASSUME NEW b \in standing, b \notin delivered, b \notin p PROVE Beyond(b)'
    BY <1>1, <1>2
  <2>2. after < b /\ b \in banned
    BY <1>4, <2>1
  <2>3. Cardinality(p) = PageSize /\ \A q \in p : q < b
    BY <1>3, <2>1, <2>2
  <2> QED  BY <1>1, <1>2, <2>2, <2>3 DEF Beyond
<1>6. page' \cap delivered = {}
  <2>1. \A b \in delivered : b \in Nat /\ b <= after /\ after \in Nat
    BY <1>4, Numbers DEF BInv
  <2>2. \A b \in p : b \in Nat
    BY IdsAreNumbers, PageShape DEF BInv, TypeOK
  <2> QED  BY <1>2, <1>3, <2>1, <2>2
<1>7. NotBegun'
  BY <1>1 DEF BInv, NotBegun
<1> QED  BY <1>1, <1>4, <1>5, <1>6, <1>7 DEF Coverage, NoRepetition, FetchedIsComplete

LEMMA InsertStep ==
    ASSUME BInv, NEW b \in page, InsertBan(b)
    PROVE  Coverage' /\ NoRepetition' /\ NotBegun'
<1>1. /\ fetch = "page" /\ fetch' = "page"
      /\ page' = page \ {b} /\ delivered' = delivered \cup {b}
      /\ new_after' = IF new_after < b THEN b ELSE new_after
      /\ UNCHANGED <<standing, after, size>>
      /\ pc' = pc \/ pc' = "dead"
  BY DEF InsertBan, KeepAddress, ProcessDies, Further, discord
<1>2. /\ new_after \in Nat /\ b \in Nat
      /\ \A d \in standing \cup delivered \cup page : d \in Nat
  BY Numbers DEF BInv
<1>3. \A d \in standing : d \in delivered \cup page \/ Beyond(d)
  BY <1>1 DEF BInv, Coverage
<1>4. \A d \in standing : Beyond(d) => Beyond(d)'
  BY <1>1, <1>2 DEF Beyond
<1>5. \A d \in standing : d \in delivered' \cup page' \/ Beyond(d)'
  BY <1>1, <1>3, <1>4
<1>6. \A d \in delivered' : d <= new_after'
  <2>1. \A d \in delivered : d <= new_after
    BY <1>1 DEF BInv, NoRepetition
  <2> QED  BY <1>1, <1>2, <2>1
<1>7. NotBegun'
  BY <1>1 DEF BInv, NotBegun
<1> QED  BY <1>1, <1>5, <1>6, <1>7 DEF Coverage, NoRepetition, FetchedIsComplete

\* The last page is not full, so nobody lies beyond it.
LEMMA EndStep == BInv /\ EndOfPage => Coverage' /\ NoRepetition' /\ NotBegun'
<1> SUFFICES ASSUME BInv, EndOfPage PROVE Coverage' /\ NoRepetition' /\ NotBegun'
  OBVIOUS
<1>1. /\ fetch = "page" /\ page = {}
      /\ UNCHANGED <<standing, page, size, new_after, delivered, pc>>
  BY DEF EndOfPage, discord, thread
<1>2. /\ \A b \in standing : b \in delivered \/ Beyond(b)
      /\ \A b \in delivered : b <= new_after
  BY <1>1 DEF BInv, Coverage, NoRepetition
<1>3. NotBegun'
  BY <1>1 DEF BInv, NotBegun
<1>4. CASE size < PageSize
  <2>1. fetch' = "done"
    BY <1>4 DEF EndOfPage
  <2>2. size # PageSize
    BY <1>4, Numbers DEF BInv
  <2>3. standing \subseteq delivered
    BY <1>2, <2>2 DEF Beyond
  <2> QED  BY <1>1, <1>3, <2>1, <2>3 DEF Coverage, NoRepetition, FetchedIsComplete
<1>5. CASE ~(size < PageSize)
  <2>1. fetch' = "sent" /\ after' = new_after
    BY <1>5 DEF EndOfPage, recursive_call
  <2>2. \A b \in standing : b \in delivered \/ new_after < b
    BY <1>2 DEF Beyond
  <2> QED  BY <1>1, <1>2, <1>3, <2>1, <2>2 DEF Coverage, NoRepetition, FetchedIsComplete
<1> QED  BY <1>4, <1>5

\* Bans and unbans during the fetch: nobody new stands.
LEMMA EditStep == BInv /\ EditBans => Coverage' /\ NoRepetition' /\ NotBegun'
<1> SUFFICES ASSUME BInv, EditBans PROVE Coverage' /\ NoRepetition' /\ NotBegun'
  OBVIOUS
<1>1. /\ standing' \subseteq standing
      /\ UNCHANGED <<fetch, after, page, size, new_after, delivered, pc>>
  BY DEF EditBans, fetched, thread
<1> QED
  BY <1>1 DEF BInv, Coverage, NoRepetition, NotBegun, FetchedIsComplete, Beyond

LEMMA EveryStep == BInv /\ [Next]_vars => BInv'
<1> SUFFICES ASSUME BInv, [Next]_vars PROVE BInv'
  OBVIOUS
<1>1. TypeOK'
  BY TypeStep DEF BInv
<1> DEFINE Before == {"idle", "gate", "fetch"}
<1>2. CASE UNCHANGED vars
  BY <1>1, <1>2, Elsewhere DEF vars, thread
<1>3. CASE Invoke
  BY <1>1, <1>3, Elsewhere DEF Invoke
<1>4. CASE check_permissions
  BY <1>1, <1>4, Elsewhere DEF check_permissions
<1>5. CASE Respond
  <2>1. pc' \notin Before
    BY <1>5 DEF Respond, ShowErrors, LookUp, ErrorWebhook, ProcessDies, NullDereference
  <2> QED  BY <1>1, <1>5, <2>1, Elsewhere DEF Respond
<1>6. CASE JoinNames \/ log_command_invoke \/ Answer
  <2>1. pc' \notin Before
    BY <1>6 DEF JoinNames, log_command_invoke, Answer, ErrorWebhook, NullDereference
  <2> QED  BY <1>1, <1>6, <2>1, Elsewhere DEF JoinNames, log_command_invoke, Answer
<1>7. ASSUME NEW u \in Snowflakes, UserArrives(u) \/ UserArrivesLate(u) PROVE BInv'
  <2>1. pc' \in Before => pc \in Before
    BY <1>7 DEF UserArrives, UserArrivesLate, ProcessDies
  <2> QED  BY <1>1, <1>7, <2>1, Elsewhere DEF UserArrives, UserArrivesLate
<1>8. CASE Kill
  <2>1. pc' \notin Before
    BY <1>8 DEF Kill, ProcessDies
  <2> QED  BY <1>1, <1>8, <2>1, Elsewhere DEF Kill
<1>9. CASE DiscordFails \/ LateCallback
  <2>1. /\ fetch' \in {"failed", "late"} /\ fetch \in {"sent", "page"}
        /\ pc' \in Before => pc \in Before
    BY <1>9 DEF DiscordFails, LateCallback, ProcessDies, thread
  <2>2. pc \notin Before
    BY <2>1 DEF BInv, NotBegun
  <2> QED
    BY <1>1, <2>1, <2>2 DEF BInv, Coverage, NoRepetition, NotBegun, FetchedIsComplete
<1>10. CASE Begin
  BY <1>1, <1>10, BeginStep DEF BInv
<1>11. CASE DiscordAnswers
  BY <1>1, <1>11, AnswerStep DEF BInv
<1>12. ASSUME NEW b \in page, InsertBan(b) PROVE BInv'
  BY <1>1, <1>12, InsertStep DEF BInv
<1>13. CASE EndOfPage
  BY <1>1, <1>13, EndStep DEF BInv
<1>14. CASE EditBans
  BY <1>1, <1>14, EditStep DEF BInv
<1> QED
  BY <1>2, <1>3, <1>4, <1>5, <1>6, <1>7, <1>8, <1>9, <1>10, <1>11, <1>12, <1>13, <1>14
  DEF Next, wrapper_function, callback

-----------------------------------------------------------------------------
THEOREM Invariance == Spec => []BInv
<1>1. Init => BInv
  <2>1. Init => TypeOK
    <3> SUFFICES ASSUME Init PROVE TypeOK
      OBVIOUS
    <3>1. edits \in 0 .. MaxEdits
      BY BanListAssumption DEF Init, BanListAssumption
    <3>2. after \in Nat /\ size \in Nat /\ new_after \in Nat /\ cmdlog \in BOOLEAN
      BY DEF Init
    <3>3. reply \in [says : {"nothing", "refused", "errors", "list"},
                     names : SUBSET Snowflakes]
      BY DEF Init
    <3> QED  BY <3>1, <3>2, <3>3 DEF Init, TypeOK
  <2>2. Init => fetch = "none" /\ delivered = {}
    BY DEF Init
  <2> QED
    BY <2>1, <2>2 DEF BInv, Coverage, NoRepetition, NotBegun, FetchedIsComplete
<1>2. BInv /\ [Next]_vars => BInv'
  BY EveryStep
<1> QED  BY <1>1, <1>2, PTL DEF Spec

\* Every reachable state is well-typed, for any guilds, ids and page size.
THEOREM TypeCorrect == Spec => []TypeOK
<1>1. BInv => TypeOK
  BY DEF BInv
<1> QED  BY <1>1, Invariance, PTL

\* "All bans are fetched" (guild_bans_wrapper.cpp:90): a fetch that comes to a page
\* that is not full has had everybody who was banned all the while, for any number of
\* bans, any page size and any number of changes between the pages.
THEOREM FetchesAreComplete == Spec => []FetchedIsComplete
<1>1. BInv => FetchedIsComplete
  BY DEF BInv, Coverage
<1> QED  BY <1>1, Invariance, PTL

\* No page repeats anybody (the cursor of lines 82 to 92 only moves on).
THEOREM NoPageRepeats == Spec => NothingIsFetchedTwice
<1> DEFINE New == fetch = "sent" /\ fetch' = "page" => page' \cap delivered = {}
<1>1. ASSUME BInv, [Next]_vars PROVE New
  <2>1. SUFFICES ASSUME fetch = "sent", fetch' = "page" PROVE DiscordAnswers
    BY <1>1, AnswerStep
  <2>2. fetch' # fetch
    BY <2>1
  <2> QED
    BY <1>1, <2>1, <2>2 DEF Next, vars, wrapper_function, callback, Invoke, check_permissions,
       Begin, recursive_call, Respond, JoinNames, log_command_invoke, Answer, DiscordFails,
       InsertBan, EndOfPage, LateCallback, UserArrives, UserArrivesLate, EditBans, Kill, fetched
<1>2. BInv /\ [Next]_vars => [New]_vars
  BY <1>1
<1> QED  BY <1>2, Invariance, PTL DEF Spec, NothingIsFetchedTwice

-----------------------------------------------------------------------------
(***************************************************************************)
(* The cursor.                                                             *)
(***************************************************************************)
\* A page that had anybody on it has somebody to come, beyond the cursor of its
\* request, or the greatest id seen is beyond it.
AheadOfCursor ==
    fetch = "page" => /\ \A b \in page : after < b
                      /\ size # 0 => page # {} \/ after < new_after

LEMMA AheadStep == BInv /\ AheadOfCursor /\ [Next]_vars => AheadOfCursor'
<1> SUFFICES ASSUME BInv, AheadOfCursor, [Next]_vars, fetch' = "page" PROVE AheadOfCursor'
  BY DEF AheadOfCursor
<1>1. CASE DiscordAnswers
  <2>1. PICK p \in Pages : page' = p /\ size' = Cardinality(p)
    BY <1>1 DEF DiscordAnswers
  <2>2. \A b \in p : after < b
    BY PageShape DEF BInv
  <2>3. Cardinality(p) # 0 => p # {}
    BY FS_EmptySet
  <2>4. after' = after
    BY <1>1 DEF DiscordAnswers
  <2> QED  BY <2>1, <2>2, <2>3, <2>4 DEF AheadOfCursor
<1>2. ASSUME NEW b \in page, InsertBan(b) PROVE AheadOfCursor'
  <2>1. /\ fetch = "page" /\ page' = page \ {b}
        /\ new_after' = IF new_after < b THEN b ELSE new_after
        /\ UNCHANGED <<after, size>>
    BY <1>2 DEF InsertBan, Further
  <2>2. after < b /\ \A d \in page : after < d
    BY <2>1 DEF AheadOfCursor
  <2>3. after \in Nat /\ new_after \in Nat /\ b \in Nat
    BY Numbers DEF BInv
  <2>4. after' < new_after'
    BY <2>1, <2>2, <2>3
  <2> QED  BY <2>1, <2>2, <2>4 DEF AheadOfCursor
<1>3. CASE ~DiscordAnswers /\ \A b \in page : ~InsertBan(b)
  <2>1. UNCHANGED <<fetch, after, page, size, new_after>>
    BY <1>3 DEF Next, vars, wrapper_function, callback, Invoke, check_permissions, Begin,
       recursive_call, Respond, JoinNames, log_command_invoke, Answer, DiscordFails,
       EndOfPage, LateCallback, UserArrives, UserArrivesLate, EditBans, Kill, fetched
  <2> QED  BY <2>1 DEF AheadOfCursor
<1> QED  BY <1>1, <1>2, <1>3

\* recursive_call never asks for the same page again: a request after a full page
\* starts beyond the start of that one, whoever is banned or unbanned meanwhile
\* (guild_bans_wrapper.cpp:82 to 92).  Each fetch therefore makes finitely many.
THEOREM RequestsMoveOn == Spec => CursorMovesOn
<1> DEFINE Step == fetch = "page" /\ fetch' = "sent" => after < after'
<1>1. Init => AheadOfCursor
  BY DEF Init, AheadOfCursor
<1>2. ASSUME BInv, AheadOfCursor, [Next]_vars PROVE Step
  <2>1. SUFFICES ASSUME fetch = "page", fetch' = "sent" PROVE after < after'
    OBVIOUS
  <2>2. ~Begin
    BY <1>2, <2>1 DEF Begin, BInv, NotBegun
  <2>3. EndOfPage
    BY <1>2, <2>1, <2>2 DEF Next, vars, wrapper_function, callback, Invoke,
       check_permissions, Respond, JoinNames, log_command_invoke, Answer, DiscordAnswers,
       DiscordFails, InsertBan, LateCallback, UserArrives, UserArrivesLate, EditBans, Kill,
       fetched
  <2>4. page = {} /\ ~(size < PageSize) /\ after' = new_after
    BY <2>1, <2>3 DEF EndOfPage, recursive_call
  <2>5. size # 0
    BY <1>2, <2>4, Numbers, BanListAssumption DEF BInv, BanListAssumption
  <2> QED  BY <1>2, <2>1, <2>4, <2>5 DEF AheadOfCursor
<1>3. BInv /\ AheadOfCursor /\ [Next]_vars => [Step]_vars
  BY <1>2
<1> QED  BY <1>1, <1>3, AheadStep, Invariance, PTL DEF Spec, CursorMovesOn

=============================================================================
