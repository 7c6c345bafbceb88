------------------------------ MODULE BanList ------------------------------
(***************************************************************************)
(* The list of a guild's bans.  recursive_call asks Discord for one page   *)
(* after another, from the callback of the page before, while people are   *)
(* banned and unbanned; the response does not wait for it, and the end of  *)
(* the wrapper ends it.                                                    *)
(*                                                                         *)
(* What the callback keeps of a ban is the address of an element of its    *)
(* own page, in a vector that is unique by address.  The page goes with    *)
(* the callback: from then on the address is of nothing, or of a ban of    *)
(* some later page.                                                        *)
(***************************************************************************)
EXTENDS Guild, Integers

CONSTANTS Guilds,      \* the guilds to run in
          Authors,     \* who asks for the list
          Snowflakes,  \* the ids of those who may be banned
          Cachings,    \* which of them D++ may have in its cache
          PageSize,    \* max_guild_ban_fetch
          ChunkCap,    \* errors join_with_limit fits into one page
          MaxEdits     \* bound: bans and unbans during the fetch

ASSUME BanListAssumption ==
    /\ \A g \in Guilds : GuildRecord(g)
    /\ Authors \subseteq Users
    /\ Snowflakes \subseteq {n \in Nat : n > 1} /\ IsFiniteSet(Snowflakes)
    /\ Cachings \subseteq SUBSET Snowflakes
    /\ {PageSize, ChunkCap} \subseteq Nat \ {0}
    /\ MaxEdits \in Nat

VARIABLES
    guild,      \* roles and settings
    cached,     \* the users in D++'s cache
    req,        \* the command
    banned,     \* Discord: who is banned
    standing,   \* of those, who has been since the fetch began
    edits,      \* how many bans and unbans there were since
    fetch,      \* where the request for a page is
    after,      \* its cursor
    page,       \* what is still to be inserted of the page that came
    size,       \* how many were on it
    new_after,  \* the greatest id seen
    bans,       \* whose addresses have been inserted
    delivered,  \* history: who has been on a page, as far as it was gone through
    asked,      \* the names user_get_cached has still to bring
    names,      \* banned_usernames
    pc,         \* where the command's thread is
    reply,      \* what the channel was shown
    cmdlog      \* whether the command is in the command log

discord == <<guild, cached, req, banned, standing, edits>>
fetched == <<fetch, after, page, size, new_after, bans, delivered>>
thread  == <<asked, names, pc, reply, cmdlog>>
vars    == <<discord, fetched, thread>>

BanListRequest == [kind : {"view_ban_list"}, author : Authors, interaction : BOOLEAN]

Over == {"cancelled", "done", "segv", "dead"}

TypeOK ==
    /\ guild \in Guilds /\ cached \in Cachings /\ req \in BanListRequest
    /\ standing \subseteq banned /\ banned \subseteq Snowflakes
    /\ edits \in 0 .. MaxEdits
    /\ fetch \in {"none", "sent", "page", "done", "failed", "late"}
    /\ after \in Nat /\ size \in Nat /\ new_after \in Nat
    /\ page \subseteq Snowflakes /\ bans \subseteq delivered /\ delivered \subseteq Snowflakes
    /\ asked \subseteq Snowflakes /\ names \subseteq Snowflakes
    /\ pc \in {"idle", "gate", "fetch", "respond", "names", "log", "answer"} \cup Over
    /\ reply \in [says : {"nothing", "refused", "errors", "list"}, names : SUBSET Snowflakes]
    /\ cmdlog \in BOOLEAN

Init ==
    /\ guild \in Guilds /\ cached \in Cachings /\ req \in BanListRequest
    /\ banned \in SUBSET Snowflakes
    /\ standing = {} /\ edits = 0
    /\ fetch = "none" /\ after = 1 /\ page = {} /\ size = 0 /\ new_after = 1
    /\ bans = {} /\ delivered = {} /\ asked = {} /\ names = {}
    /\ pc = "idle"
    /\ reply = [says |-> "nothing", names |-> {}]
    /\ cmdlog = FALSE

-----------------------------------------------------------------------------
Alive       == pc \notin Over
Gone        == pc \in {"cancelled", "done"}
Interactive == req.interaction

\* The end of the process; of a null dereference in the command's thread.
ProcessDies     == pc' = "dead"
NullDereference == pc' = "segv"

Invoke ==
    /\ pc = "idle" /\ pc' = "gate"
    /\ UNCHANGED <<discord, fetched, asked, names, reply, cmdlog>>

BanListErrors ==
    BotLacks(guild, "ban_members") \cup AuthorLacks(guild, req, "ban_members")

\* invoke_error_webhook: a paginator takes the command it then uses, unless there
\* is one page.
ErrorWebhook(errors) ==
    IF Cardinality(errors) \in 1 .. ChunkCap THEN pc' = "done" ELSE NullDereference

Cancel ==
    IF Interactive
    THEN pc' = "cancelled" /\ reply' = [says |-> "refused", names |-> {}]
    ELSE ErrorWebhook(BanListErrors) /\ UNCHANGED reply

check_permissions ==
    /\ pc = "gate"
    /\ IF guild.roles[Bot] = {} \/ guild.roles[req.author] = {}
       THEN NullDereference /\ UNCHANGED reply
       ELSE IF BanListErrors = {} THEN pc' = "fetch" /\ UNCHANGED reply ELSE Cancel
    /\ UNCHANGED <<discord, fetched, asked, names, cmdlog>>

-----------------------------------------------------------------------------
(***************************************************************************)
(* The recursion.                                                          *)
(***************************************************************************)
recursive_call(from) == fetch' = "sent" /\ after' = from

\* The first call; wrapper_function goes on to the response.
Begin ==
    /\ pc = "fetch" /\ pc' = "respond"
    /\ recursive_call(1)
    /\ standing' = banned
    /\ UNCHANGED <<guild, cached, req, banned, edits, page, size, new_after, bans,
                   delivered, asked, names, reply, cmdlog>>

\* External: the bans with the least ids beyond the cursor, PageSize of them if
\* there are as many.
Pages ==
    LET above == {b \in banned : b > after}
    IN  {p \in SUBSET above :
            /\ \A b \in p, other \in above \ p : b < other
            /\ Cardinality(p) = PageSize \/ (p = above /\ Cardinality(p) <= PageSize)}

DiscordAnswers ==
    /\ fetch = "sent" /\ Alive
    /\ \E p \in Pages : page' = p /\ size' = Cardinality(p)
    /\ fetch' = "page" /\ new_after' = after
    /\ UNCHANGED <<discord, after, bans, delivered, thread>>

\* The callback with an error: it is recorded, and nothing asked for any more.
DiscordFails ==
    /\ fetch = "sent" /\ Alive
    /\ fetch' = "failed"
    /\ UNCHANGED <<discord, after, page, size, new_after, bans, delivered, thread>>

Further(b) == IF new_after < b THEN b ELSE new_after

\* The element's address goes into the vector, or is found there: as that of a ban
\* whose page is gone, or past the vector's end.  The first insertion reads the end
\* of a vector without memory, and an element that is not inserted is freed twice:
\* the process may die of either.
KeepAddress(b) ==
    \/ bans' = bans \cup {b} /\ UNCHANGED pc
    \/ bans # {} /\ UNCHANGED <<bans, pc>>
    \/ ProcessDies /\ UNCHANGED bans

\* One iteration over event_map.
InsertBan(b) ==
    /\ fetch = "page" /\ Alive
    /\ b \in page
    /\ page' = page \ {b} /\ delivered' = delivered \cup {b}
    /\ new_after' = Further(b)
    /\ KeepAddress(b)
    /\ UNCHANGED <<discord, fetch, after, size, asked, names, reply, cmdlog>>

\* Mutant of EndOfPage: starts beyond the greatest id.
EndOfPageBeyond ==
    /\ fetch = "page" /\ page = {} /\ Alive
    /\ IF size < PageSize THEN fetch' = "done" /\ UNCHANGED after
       ELSE recursive_call(new_after + 1)
    /\ UNCHANGED <<discord, page, size, new_after, bans, delivered, thread>>

\* Mutant of EndOfPage: asks from where this page began.
EndOfPageAgain ==
    /\ fetch = "page" /\ page = {} /\ Alive
    /\ IF size < PageSize THEN fetch' = "done" /\ UNCHANGED after
       ELSE recursive_call(after)
    /\ UNCHANGED <<discord, page, size, new_after, bans, delivered, thread>>

EndOfPage ==
    /\ fetch = "page" /\ page = {} /\ Alive
    /\ IF size < PageSize THEN fetch' = "done" /\ UNCHANGED after
       ELSE recursive_call(new_after)
    /\ UNCHANGED <<discord, page, size, new_after, bans, delivered, thread>>

callback == DiscordAnswers \/ DiscordFails \/ EndOfPage \/ \E b \in page : InsertBan(b)

\* On a wrapper that exists no more.
LateCallback ==
    /\ Gone /\ fetch \in {"sent", "page"}
    /\ fetch' = "late" /\ (ProcessDies \/ UNCHANGED pc)
    /\ UNCHANGED <<discord, after, page, size, new_after, bans, delivered, asked, names, reply, cmdlog>>

\* People are banned and unbanned while pages are fetched.
EditBans ==
    /\ fetch \in {"sent", "page"} /\ Alive
    /\ edits < MaxEdits /\ edits' = edits + 1
    /\ \E b \in Snowflakes :
          /\ banned' = IF b \in banned THEN banned \ {b} ELSE banned \cup {b}
          /\ standing' = standing \ {b}
    /\ UNCHANGED <<guild, cached, req, fetched, thread>>

-----------------------------------------------------------------------------
(***************************************************************************)
(* The response.                                                           *)
(***************************************************************************)
\* The one error there can be, as it ends the recursion.
errors == IF fetch = "failed" THEN {"fetch"} ELSE {}

ShowErrors ==
    /\ errors # {}
    /\ IF Interactive
       THEN pc' = "done" /\ reply' = [says |-> "errors", names |-> {}]
       ELSE ErrorWebhook(errors) /\ UNCHANGED reply
    /\ UNCHANGED <<asked, names>>

\* The bans whose page is gone.
Dangling == IF fetch = "page" THEN {b \in bans : b <= after} ELSE bans

\* The users whose ids are read: of a ban that dangles, anybody's or nobody's.
Found ==
    {f \in SUBSET Snowflakes :
        /\ bans \ Dangling \subseteq f
        /\ Cardinality(f \ (bans \ Dangling)) <= Cardinality(Dangling)}

\* user_get_cached for each ban: at once for the users in the cache.  A loop over
\* a vector that a callback inserts into may find anything, too.
LookUp ==
    /\ errors = {}
    /\ \/ \E f \in Found : names' = f \cap cached /\ asked' = f \ cached /\ pc' = "names"
       \/ /\ fetch = "page" \/ Dangling # {}
          /\ ProcessDies /\ UNCHANGED <<asked, names>>
    /\ UNCHANGED reply

Respond ==
    /\ pc = "respond"
    /\ ShowErrors \/ LookUp
    /\ UNCHANGED <<discord, fetched, cmdlog>>

\* A user who was not cached arrives, or an error does; of names that are appended
\* in parallel one may be lost.
UserArrives(u) ==
    /\ u \in asked /\ Alive
    /\ asked' = asked \ {u}
    /\ names' \in {names, names \cup {u}}
    /\ UNCHANGED <<discord, fetched, pc, reply, cmdlog>>

UserArrivesLate(u) ==
    /\ u \in asked /\ Gone
    /\ asked' = asked \ {u}
    /\ ProcessDies \/ UNCHANGED pc
    /\ UNCHANGED <<discord, fetched, names, reply, cmdlog>>

\* join_with_limit takes the names there are.
JoinNames ==
    /\ pc = "names"
    /\ reply' = [reply EXCEPT !.names = names]
    /\ pc' = IF Interactive THEN "log" ELSE "answer"
    /\ UNCHANGED <<discord, fetched, asked, names, cmdlog>>

log_command_invoke ==
    /\ pc = "log" /\ pc' = "answer"
    /\ cmdlog' = TRUE
    /\ UNCHANGED <<discord, fetched, asked, names, reply>>

\* A list is shown in pages or at once.  Without a person to show it to, what is
\* sent are the errors.
Answer ==
    /\ pc = "answer"
    /\ IF Interactive
       THEN pc' = "done" /\ reply' = [reply EXCEPT !.says = "list"]
       ELSE ErrorWebhook(errors) /\ UNCHANGED reply
    /\ UNCHANGED <<discord, fetched, asked, names, cmdlog>>

Kill ==
    /\ pc \notin {"idle", "segv", "dead"}
    /\ ProcessDies
    /\ UNCHANGED <<discord, fetched, asked, names, reply, cmdlog>>

-----------------------------------------------------------------------------
wrapper_function ==
    check_permissions \/ Begin \/ Respond \/ JoinNames \/ log_command_invoke \/ Answer

Next ==
    \/ Invoke \/ wrapper_function
    \/ callback \/ LateCallback
    \/ \E u \in Snowflakes : UserArrives(u) \/ UserArrivesLate(u)
    \/ EditBans
    \/ Kill

Spec == Init /\ [][Next]_vars

\* Discord answers, well or not, and the threads that take its answers run.
FairSpec == Spec /\ WF_vars(callback) /\ WF_vars(LateCallback)

-----------------------------------------------------------------------------
(***************************************************************************)
(* What holds of it.                                                       *)
(***************************************************************************)
\* "All bans are fetched": of a fetch that comes to its last page, whoever was
\* banned all the while has been on one, though others were banned and unbanned
\* between the pages.
FetchedIsComplete == fetch = "done" => standing \subseteq delivered

\* No page repeats anybody who was on an earlier one.
NothingIsFetchedTwice ==
    [][fetch = "sent" /\ fetch' = "page" => page' \cap delivered = {}]_vars

\* Every further request starts beyond the start of the one before.
CursorMovesOn == [][fetch = "page" /\ fetch' = "sent" => after < after']_vars

\* The recursion ends by itself, however many are banned meanwhile.
FetchEnds == fetch = "sent" ~> (fetch \in {"done", "failed", "late"} \/ pc \in {"segv", "dead"})

=============================================================================
