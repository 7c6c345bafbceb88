# Verification of Reactaio

Reactaio is a Discord bot in C++ (D++, libpqxx).  This directory holds TLA+
models of its logic, TLC instances that check them, and TLAPS proofs about
them.  Paths below are relative to `src/src/cogs/` unless they begin with
`src/`.

## The system

| part | state it keeps | operations | talks to | modelled by |
|---|---|---|---|---|
| Command base (`moderation/wrappers/command_wrapper`, `core/discord/discord_command.h`, `moderation/modules/moderation_command.h`) | the parsed duration, the connection (a `unique_ptr`) | construction, `invoke_error_webhook`, `log_command_invoke`, role settings | the database | `Wrapper`, `CommandWrapper` |
| `kick`, `ban`, `hardban`, `softban`, `unban`, `warn` (`moderation/wrappers/*`) | `errors`, `members_with_errors` / `users_with_errors`, `cancel_operation`, the command | `wrapper_function`: `check_permissions`, one API call per target, `process_response`; `lambda_callback` for every answer | Discord, the modcases table, the paginator | `Guild`, `CommandWrapper` |
| `mute`, `unmute` | as above; `use_timeout` and the mute role of the configuration | one or two calls per member; a table of timeouts | Discord, `moderation_config`, `permanent_timeouts` | `Mutes` |
| `lock`, `unlock`, `lockdown`, `remove_lockdown` | channels, `channels_with_errors` | one edit of a permission overwrite per channel, callbacks | Discord, the lockdown list, modcases | `Channels` |
| Warnings, case edits, views | none beyond the answer | look up, delete, update, show | the warnings and modcases tables | `Records` |
| Ban list | `bans`, `banned_usernames` | `recursive_call` from page to page, the response | Discord | `BanList` |
| `message_paginator` (`core/discord`) | a static counter, four ids, the current page, the message, the command it took over | construction, `start`, four buttons, destruction | D++ button events, Discord | `Paginator` |
| modcases table (`member_wrapper`, `hybrid_wrapper`, `user_wrapper`, `src/src/prepared_statements.h`) | rows (case id, action, moderator, person) | look up the last id, insert, commit, edit | most commands | `ModCases`, `CaseLedger` |
| Helpers (`core/helpers.cpp`, `core/strings.h`, `core/algorithm.h`) | none | `parse_human_time`, `get_tokens`, `join_with_limit`, `get_roles_sorted`, set operations | commands | `HumanTime`, `JoinWithLimit`, `Guild` |
| `unique_vector` (`core/containers`) | its elements, its memory | insertion at the lower bound, erasure, `reverse`, `resize`, copies | everything | `UniqueVector`, `UniqueSet` |
| Audit log, `duration`, `fifo_map` and `fixed_map`, module system, logger, file watcher, program entry, tables of names | see "Not modelled" | | | |

What is hard here:

* The calls of a command are asynchronous and nothing waits for them: the response
  is put together while callbacks write the vectors it reads, and the wrapper is a
  local variable of the function in `moderation/modules/moderation.cpp`, so a
  callback may find it gone.  A paginator is a local variable of the response, and
  its handlers stay.
* A connection carries one transaction at a time, and callbacks, response, gate
  and command log share it.
* A case number is the last one plus one, read and written by each callback.
* A failure is recorded in two vectors, one after the other; the response reads
  both, the same question up to three times.
* An edit of a channel replaces a whole overwrite; a list may hold channels that
  are gone; a mute makes one or two calls that share a list of failures.
* Requests overtake each other, people click while a paginator ends, people are
  banned while pages of bans are fetched.
* Roles and users are compared as pointers, some of them private copies.
* Crashes, lost answers, commits whose confirmation is lost, and edits of the guild
  or its configuration between a look-up and its use.

What makes each part correct: a gate lets nobody act on whom he may not; an answer
tells what happened and hides itself only from a failure; case numbers have no
gaps, are earned by something that happened and are never taken back; whoever is
told that something was removed removed it; a fetch that ends has everybody; a
click turns one message; a container loses nothing; every command ends; a text
that is cut loses nothing.

## Modules

| module | models | state and actions |
|---|---|---|
| `Guild` | the roles of a guild, `get_roles_sorted`, every `check_permissions` and `check_*_possible` of the six commands, and the tests other gates share | operators: each error of a gate is a pair of reason and person, a gate is the set of its errors, and the command is cancelled when it is not empty |
| `Wrapper` | what wrappers have in common | `pc`, `tx`, `msg`, `reply`; the ways a step ends: `Raise`, `RaiseInCallback`, `NullDereference`, `ProcessDies`, `Paginate` |
| `ModCases` | the modcases table as it is queried | operators |
| `CaseLedger` | abstract: what that table promises | `cases`; `Record` |
| `CommandWrapper` | the life of a moderation command, from invocation to the end of its last callback | below |
| `Channels` | the four commands on channels | below |
| `Mutes` | mute and unmute | below |
| `Records` | the commands on the warnings and modcases tables | below |
| `BanList` | the recursion over pages of bans and its response | below |
| `Paginator` | paginators, clicks and requests | below |
| `Documented` | a line of a header that the commands of `CommandWrapper` do not keep | one property |
| `UniqueVector`, `UniqueSet` | the container, and abstractly the set its callers take it for | `m_container`, `allocated`, `call`; one action per member function, `insert` one value at a time |
| `HumanTime` | `get_tokens`, `parse_human_time` | the text, the tokens, the loop variable; `Scan`, `CountTokens`, `ReadPair` |
| `JoinWithLimit` | `join_with_limit` | the vector, the slice being filled, the result; `Gather`, `StartSlice`, `Drop` |
| `MC*` | instances for TLC; `MCHelpers` is one for the three modules above | |
| `*Proofs` | theorems | |

### Composition

`CommandWrapper`, `Channels`, `Mutes` and `Records` are built over `Guild` (their
gates) and `Wrapper` (their threads and connections).  `CommandWrapper` and
`Channels` write the modcases table of `ModCases`, and each is shown to implement
`CaseLedger` (`Ledger == INSTANCE CaseLedger WITH ...`): the first with an empty
table to begin with and people as what a case is about, the second with the rows of
earlier commands and channels.  `UniqueVector` implements `UniqueSet`
with `elements <- Elements(m_container)`.  The other modules then use sets for
the program's unique vectors.

### CommandWrapper

Its variables are the guild and Discord's ban list (outside the program), and per
command: the thread's place `pc`, the state of the call for each target `call`,
the modcase transaction open on its connection `tx`, the response under
construction `msg`, what the channel was shown `reply`; the tables are `cases` and
`cmdlog`.  The actions:

* `Invoke`, `check_permissions`, `SendCall` (one iteration of `process_kicks`,
  `process_bans`, ...), then `process_response` cut at every reading of a vector
  that callbacks write: `SnapshotErrors`, `FlagErrors`, `ShowErrors`, `Decide`,
  `Collect`; then `Modlogs`, `Answer`, `log_command_invoke`.
* `CallbackSucceeds`, `CallbackFails`, `RecordFailure`: `lambda_callback`, cut
  between its two insertions; `CommitModcase`, `AbortModcase`: the end of the
  transaction `log_modcase` opened; `LateCallback`: a callback on a wrapper that
  is gone.
* `DiscordApplies`, `DiscordRefuses`, `AnswerLost`, `EditGuild`, `Kill`: the
  environment.

The kinds differ in their gate, in which rows they log (`LogRows`), in how they
show errors (`FlagKick`, ..., `FlagWarn`) and in when they paginate.

### Channels, Mutes

Both follow the same skeleton.  `Channels` adds what Discord holds of each channel
(`overwrite`: may everybody send, and is the channel hidden), the configured list
`lockdown`, read once by the gate and once more by `process_lockdown`, and what the
wrapper found of it (`found`).  lock and unlock open a case per successful callback
(`EditSucceeds`); a lockdown opens one in its response (`CollectLockdown`), commits
it (`CommitCase`), and then uses the committed transaction (`LogLockdown`).

`Mutes` adds `config`, the two ways Discord can silence somebody (`timedout`,
`rolemuted`), the `timeouts` table, and which calls a command makes per member
(`apis`).  While mute sends its calls it holds the transaction it read the
configuration with, so a callback that comes early cannot open its own.

### Records, BanList, Paginator

`Records` has no calls to Discord.  A command passes its gate, runs a statement that
waits for rows others have written (`Unlocked`), and commits, with the three outcomes
of a commit: done, done but not confirmed, not done.

`BanList` cuts `recursive_call` at each inserted ban (`InsertBan`) and at the end of a
page, where it asks for the next; the response looks users up and joins the names that
have arrived.  `EditBans` bans and unbans people between pages; `standing` is the
specification's own record of those banned all the while, `delivered` of those who were
on a page the callback went through.  `bans` holds whose addresses were kept:
`KeepAddress` keeps the address of an element of the callback's own page in a vector
that is unique by address, so a ban may be dropped for one whose page is gone, and the
process may die; what the response reads through addresses that dangle (`Dangling`) is
anybody's name or nobody's (`Found`).

`Paginator` cuts the constructor at each id and the increment of the static counter at
its load and store.  D++ hands a click to every handler there is; a handler turns its
page and posts an edit, and the destructor may post its own in between.  Discord takes
the requests of a reply and of its edits in any order.  `raced`, `turned`, `overtaken`
and `crossed` record what happened, for the properties to speak of.

Some modules hold a definition marked as a mutant of its neighbour: a mistake one
could make at that place.  No specification uses it; it documents what the
properties are able to notice.

### How the code was read

* D++, libpqxx, Discord and the operating system are modelled from how the code
  uses them.  A call is queued, applied or refused, then answered; its callback
  runs on any thread at any time, since nothing in `src/` serialises callbacks
  with the thread of the command.
* `lenient` says whether the database does what the code takes for granted.  The
  code nests transactions on one connection (the gates of kick, ban and mute, the
  error path of unban), takes the result of `exec_prepared1` on an empty table for a
  row of NULLs, and passes some statements more parameters than they have; libpqxx
  throws in each case.  With a strict database kick and ban never pass their gate
  (neither would their look-up of `get_ban_id` in `process_bans` return, tempbans
  being empty), and no first case is ever recorded.  `Solo` and `Records` check both
  databases; `Race` and `Mutes` the lenient one, which alone lets the races happen;
  `HardbanLifted` the strict one.  With a strict database no mute ever passes its gate,
  so the mute side of `Mutes` is checked only for a lenient one.  Neither lets the edits
  of cases find a row: their statement compares the number with the text of the reason
  (`prepared_statements.h:27`).  The theorems hold for both.  `Channels` is strict
  and starts from a table with a case.
* A connection is a `unique_ptr` that is moved with the command, so each command
  has its own.  The statements are taken to be prepared and the guild to have its
  rows in `moderation_config` and `webhooks` (whose name some statements
  misspell; it is taken to exist).  `botlog`, which `prepared_statements.h` does not
  have, throws.
* A wrapper takes over the command passed to it, as its constructors mean to;
  objects that the code shares by pointer live as long as their owners.  The bans of
  `BanList` do not: they are elements of a local variable of the callback.
* Pointers: an object of a D++ cache has one address (`Cached`), a
  `std::make_shared` of it another (`Copied`).
* A `unique_vector` is a set in every module but its own.  That is the container's
  promise (`SetSpec`) up to what `UniqueVector` shows it may do beyond: lose a new
  greatest value, or end the process at its first insertion.  The vectors of a gate, of
  the failed members and of the failed channels are such; that inserting into them may
  end the process is `Kill`, which may come at any step.  `LowerBounds` allows
  every place at which a binary search could stop, in a vector that is not sorted more
  than any one library would.
* A data race on a vector yields its old or its new content, or kills the process;
  elements appended from parallel threads may be lost.  A late callback does nothing
  or kills the process.  A null dereference kills it (`segv`), an optional that is
  read while empty does that or yields something.  An exception that nothing in `src/`
  catches ends the thread (`raised`) or the process.
* After `Kill` the database and Discord keep their state; commands that are
  still idle may be invoked on the process started next.
* `guild_member_timeout` takes the date on which a timeout ends, as D++ has it.  The
  schema of `permanent_timeouts` is not in the repository: `KeyIsNumber` says whether
  its key, which mute's statement names in ON CONFLICT, is the number or the member;
  the theorems hold for both.
* The statements of a deletion take their rows' locks at once, so two deletions do not
  wait for each other in a circle; PostgreSQL would break such a circle by an error,
  which is `Commit`'s failure.
* At most one click is under way, since one thread handles events.
* The tempban and tempmute branches are left out: no text is ever read as a duration
  (`NoDuration`, proved; `TwoDays` shows what the header says of it instead).  So are
  the "invalid user" branches, which the code itself calls unreachable.
* Text, colours, pictures and direct messages are left out, except the lengths in
  `JoinWithLimit`.  An error is one unit of an embed (`ChunkCap` of them fill one).

## Runs

| run | question | instance | states |
|---|---|---|---|
| `Solo` | does one command answer, log, and come to an end? | one command out of 35 requests, every kind, one or two targets or none, a person or automod; two guilds (usual; moderator demoted and a member without roles) with edits in between; both databases; `ChunkCap` 1, so two errors need two embeds; one user already banned; fair | 70,572 |
| `Race` | what happens to case numbers when callbacks of two commands race? | two commands, each a hardban of one member or an unban of two users: up to four callbacks and four transactions; the two commands are interchangeable | 582,655 |
| `Channels` | what is left of a channel, and what is recorded and answered, when two commands meet on it? | four pairs: a lock of two channels beside a refused one; lock and unlock of one channel; automod's unlock beside a lockdown; lockdown and its end.  Two guilds; lists with no channel, one, a deleted one, and both, edited between the two readings; one channel hidden; one earlier case | 311,512 |
| `Mutes` | who is muted, and who is told so? | four pairs: two mutes; a mute of two beside a refused unmute; unmute and mute of one member; an unmute beside a mute whose duration does not parse.  Two guilds, three configurations, edited in between; one member timed out by hand | 604,390 |
| `Records` | what do commands that delete and edit the same rows tell people? | seven triples over three warnings (one of somebody who has left) and two cases; four guilds; both databases; fair | 15,844 |
| `Bans` | does a fetch end, and with what? | any set of four people banned, pages of two, one ban or unban during the fetch, three guilds, two of the four in D++'s cache; fair | 629,101 |
| `Pages` | which message does a click turn, and how does it end? | two paginators of two or three pages, of embeds and texts, for one author in one channel or two, started or not, for a person or automod; two clicks; a message takes two embeds | 2,509,186 |
| `GateRules` | whom does a gate protect? | every way to give one of two roles to four people, every order of positions and addresses, every choice of permissions; any set of roles for two of them; settings that name a role; 84 requests, followed from invocation to the last call | 133,104 |
| `Helpers` | how does a duration text parse, how is a list of errors cut, and is a `unique_vector` a sorted set? | every text of up to six characters out of three classes; every list of up to five strings of one to five characters, limit 4; every sequence of calls over four values, ranges of up to two, up to four elements: each with empty inputs for the others | 102,541 |

Three more runs end in a counterexample; see below.

Why these bounds are enough to meet the interesting cases.  Two targets, or two
calls for one member, give a success and a failure in one command, and a callback
between two readings of the vectors.  Two racing commands with two callbacks each
give two transactions that read the same last case, and one that comes after both.
Three deleters can find the same row, one after another and at once.  With pages of
two, four bans make a full page, a second
full page and an empty last one, a ban or unban can fall before, on and after the cursor,
and the third and fourth ban come after the first page is gone.
Two paginators can take the same number, and each can be gone when the other's click
comes; three pages tell forward from backward.  Four values tell a lowest, a highest
and a middle place.  Two roles give a higher and a lower one in both memory orders;
six characters make three tokens, the smallest odd count above one; strings of 1 to 5
against a limit of 4 fit, fill, overflow and exceed a slice.

What the runs show:

* `Solo`: an ephemeral answer is right for good (`EphemeralMeansNobodySucceeds`);
  nobody who was acted on is missing from the answer (`SuccessNeverHidden`); only
  commands whose answer stands are in the command log (`LoggedMeansAnswered`); a
  command that ends normally has answered (`EndedMeansAnswered`); every command ends
  (`EveryCommandEnds`) and every call is settled, in time or late (`EveryCallSettles`).
* `Race`: a case is earned by a callback and names the command's targets
  (`CasesAreEarned`); the table implements `CaseLedger` (`LedgerSpec`).  Two commands
  may get the same number; the ledger allows that, since nothing in the code prevents it.
* `Channels`: the same of channels, and an answer names every channel whose edit
  succeeds (`SuccessNeverHidden`, which it shares with `Solo`); a channel that is locked
  or unlocked was so by a command that passed its gate, found the channel and made its
  call (`OverwriteIsAccountable`).
* `Mutes`: an answer that hides itself is right (`HiddenMeansAllFailed`); one that tells of
  success names everybody for whom all calls succeed (`SuccessNeverHidden`); a recorded
  timeout was answered with success (`RecordedMeansApplied`).
* `Records`: no more commands tell of a removal than warnings are gone
  (`SuccessesAreEarned`), an answer that there are none is true (`AbsenceIsTrue`);
  commands that wait for each other's rows end (`EveryCommandEnds`).
* `Bans`: the pages of a fetch that comes to its end have held everybody who was banned
  all the while (`FetchedIsComplete`), and it does end (`FetchEnds`).  What the list
  then shows of them is another matter: see "Further observations".
* `Pages`: once all requests have arrived a dead paginator's buttons are off and its
  page is the one last turned to, unless one of two named races happened
  (`EndedMessagesSettle`); a click turns another message only if both were made at the
  same time (`ClicksStayApart`).
* `GateRules`: no call is ever made against owner, bot or author as members
  (`UntouchablesAreSafe`); where everybody has one role, nobody passes a gate against a
  higher one (`RankIsRespected`).
* `Helpers`: tokens are the maximal runs of their class (`TokensAreRuns`), and a text throws
  exactly when, cleaned, it begins and ends with a digit (`ThrowsOnNumbers`);
  `join_with_limit` shows every string that fits once and in order
  (`NothingLostOrReordered`), its strings alone stay within the limit (`JoinTypeOK`), and a
  slice ends only before a string that would not fit with a newline, an empty one only
  before a string as long as the limit at the beginning (`SlicesAreTight`).  A
  `unique_vector` is sorted and unique until reversed or resized (`SortedAndUnique`), a
  set (`SetSpec`), and loses nothing but a new greatest value (`OnlyTheGreatestIsLost`).

Deadlock is not checked: commands end, and an instance has finitely many.

Three runs end in a counterexample, each of what a header says and the code does not do.

* `HardbanLifted` states `moderation.h:163`, "only the owner would be able to unban that
  user"; nothing writes the hardbans table, so a moderator's unban of somebody the owner
  has hardbanned passes its gate.
* `Timeouts`, on the instance of `Mutes`, states `moderation.h:119`, "Uses the discord
  timeout feature if specified" (`TimeoutIsGiven`); `process_mutes` hands the longest
  possible length over as a date, which lies in the past, so a mute by timeout ends
  timeouts and begins none (`mute_wrapper.cpp:210`).
* `TwoDays`, on the instance of `Helpers`, states `helpers.h:150`, "For example 2d -> 2
  days." (`TwoDaysAreADuration`); every even number of tokens is refused
  (`helpers.cpp:82`).

### Fairness

In `CommandWrapper` (`Fairness`): a wrapper's thread takes its next step, a
transaction ends, a queued call is answered, since D++ times requests out, and its
callback is run.  In `Records`: the threads of the commands run; a statement that waits
for a row waits for a transaction that is itself about to commit.  In `BanList`:
requests are answered and the threads that take the answers run; nothing is assumed of
the response, which may end the wrapper in the middle of the fetch.  Nothing is assumed
of users, administrators, crashes and lost answers.  Weak fairness is enough because
each of these steps stays enabled until it is taken or the process dies.  In `Records`
a blocked statement is enabled again when the row is free, and each of the others ends after
finitely many steps, so it stays so in the end.

## Further observations

Visible in the same models, and not given a run of their own.

Answers and logs:

* An answer of more than one embed goes through a paginator, which takes the
  connection; `log_command_invoke` then dereferences null, although
  `command_wrapper.h:50` says it "Logs the command being invoked."
* Errors recorded after `SnapshotErrors` are in no answer, and an unban that failed for
  everybody may answer in public (`unban_wrapper.cpp:115`, `:136`).  A target whose
  error callback stands between its two insertions is shown as failed and as done
  (`hardban_wrapper.cpp:192`).
* unlock never fills `channels_with_errors`, so it claims the channels that failed
  (`unlock_wrapper.cpp`); mute without a usable mute role makes no call and claims
  everybody (`mute_wrapper.cpp`).
* The commands of `Records` end without a word when their gate refuses: the response,
  which would report the errors, does not run.
* A late or lost answer of Discord is an error like any other: somebody who is banned may
  be reported as not banned.
* A callback that comes when the wrapper is gone (`moderation/modules/moderation.cpp:30`)
  uses its `this`; what that yields is undefined (`LateCallback`).
* Two commands may take one case number: nothing checks the number a row is inserted
  with, and `CaseLedger` promises no more (`hybrid_wrapper.cpp:11`).
* An edit of a case finds no row, because its statement compares the number with the text
  of the reason (`prepared_statements.h:27`, against `moderation.h:200` and `:207`), and
  it then inserts into the command log on a committed transaction: it neither answers nor
  logs (`EditsGoUnanswered`).  `change_duration` runs the statement of `change_reason`.

Effects:

* softban only bans; `moderation.h:105` says "Bans and then unbans".
* A permanent timeout ends in January 1970, which ends one that stands
  (`mute_wrapper.cpp:210`); the numbers in `permanent_timeouts` never advance
  (`TimeoutNumbersStandStill`).
* A lock or unlock replaces the whole overwrite of everyone: what an administrator had
  set is gone, a hidden channel is hidden no more (`lock_wrapper.cpp:76`).
* A lockdown uses a committed transaction after its case, which throws: it neither answers
  nor logs (`lockdown_wrapper.cpp:197`), although `command_wrapper.h:50` says "Logs the
  command being invoked."; a list with a deleted channel beside others ends in a
  null dereference.
* Clearing two or more warnings throws, since the statement must yield one row, and
  clears none (`clear_warnings.cpp:60`), although `moderation.h:140` says "Removes all
  warnings for a guild member".
* A timeout whose callback comes while mute still holds the transaction it read the
  configuration with (`mute_wrapper.cpp:185`) stands without a row.
* `member_wrapper::log_modcase` is run by each callback for all members, though
  `member_wrapper.h:40` says "Logs the modcase for each of the members"; the hybrid one
  compares new objects with `users_with_errors`, so cases name members on whom the
  action failed (`hybrid_wrapper.cpp:19`).

Gates:

* Protected roles are private copies, equal to none, so they protect nobody
  (`ban_wrapper.h:38`: "Protected roles that are immune to moderation commands.");
  permitted roles permit nobody for the same reason (`command_wrapper.cpp:79`).
* `get_roles_sorted` sorts by address, so `front()` is not the highest role when people
  have several (`helpers.cpp:119`), which is why `RankIsRespected` speaks of single
  roles; a member on the bot's own level passes the gate and Discord refuses
  (`ban_wrapper.cpp:415`).
* unmute and the lockdowns ask nothing of the author's permissions, and the commands of
  `Records` only something of the bot's.
* The first case of a guild and the gates of kick, ban and mute throw unless the database
  is lenient.

Views and pages:

* The views of cases throw for any case that is found; `view_mod_modcases` runs the
  statement of the cases of a user; members with the mute role are never shown, because the role is
  compared with a private copy.
* The list of bans is built before the first page can have come, so it normally lists
  nobody.  Asked for without an interaction it sends errors there are none of, through a
  paginator without pages, which ends the process (`guild_bans_wrapper.cpp:154`);
  `moderation.h:168` says "View all the bans of the server as a paginated message".
* The bans it keeps are addresses of the callback's own elements, unique by address
  (`guild_bans_wrapper.cpp:87`): a ban of a later page may be dropped, and whom the list
  shows is undefined.  That is why `FetchedIsComplete` speaks of the pages.
* Paginators of texts start with an empty message.  automod's pages never turn and keep
  live buttons, since the edit is given a message without an id.

Helpers:

* An odd number of tokens ends in an exception or a refusal, an even one in a refusal: no
  text is a duration.
* Slices do not count their newlines (`helpers.cpp:22`), so one may exceed the limit; a
  string as long as the limit leaves an empty slice before it.
* The first insertion into a `unique_vector` without memory reads what is not there and
  ends the process (`FirstInsertCrashes`); after `reverse` or `resize` the next one searches
  as if the elements were sorted (`unique_vector.h:320`); `pop_back` removes the last
  element and returns the first.

## Proofs

All theorems hold for any constants that satisfy the named assumptions:
`GuildAssumption` (finitely many users; the owner is not a bot), `WrapperAssumption`
(an embed takes an error), and for each module one assumption that its constants have
their types (`CommandAssumption`; `ChannelsAssumption`: finitely many channels, an
earlier table without gaps; `MutesAssumption`; `RecordsAssumption`: finitely many
warnings, no id twice; `VectorAssumption`; `BanListAssumption`: finitely many ids,
greater than the cursor's first value; `PaginatorAssumption`: what is
started has a page; `TextAssumption`, `LimitAssumption`).  TLC evaluates each on its instances.

* `CommandWrapperProofs`.  `TypeCorrect` and `NumbersHaveNoGaps` are proved
  together (`Inductive`): that numbers have no gaps is not inductive by itself,
  because it depends on the number a transaction fixed when it opened.
  `NumbersInv` adds that this number is at most one above the table's last and above
  every number its command has recorded; it survives other commands' commits because the table
  only grows.  Typing needs it in turn, because the last id is a natural number
  only of a table without gaps.  `ImplementsLedger` follows: `CommitModcase` is a
  `Record` of the ledger, every other step a stutter.
  `ErrorsAreFinal`, a recorded error is never taken back, and
  `AllErrorsMeansEverybody`, comparing counts is as good as comparing sets, lead to
  `ResponseInv`, which relates what a response holds to where it is, and to
  `NoSuccessIsHidden` and `HiddenAnswersAreFinal`.  `NumbersAreEarned` counts: a
  commit does not come with a callback, so `EarnedInv` counts an open transaction as
  a number already recorded, and `CallsInv` keeps calls to the command's targets.
  `LogIsHonest` and `EndsAreAnswered` rest on `AnsweredInv`: where a thread is says
  which calls were made and what was shown.  Of the gates, `CommonChecks` and
  `PassedMember` say what an empty set of errors implies for each member of the list;
  `OwnerBotAndAuthorAreSafe` carries that from the gate to every call made later, when
  roles may have been edited, and `RanksAreSafe` is about the step that passes the gate.
* `ChannelsProofs`.  The same for the commands on channels.  `NumbersInv` as above;
  `SetOutInv` says that a command that runs has found channels, that the null one
  stands alone, and that no other channel is edited: without it an edit on Discord
  is not accountable and `are_all_errors` says nothing.  The
  answer hides itself by the number of failed channels: for unlock that number is
  always 0, for a lockdown without channels it is always 1, and `Hopeless` says of
  the others that no call can succeed any more; `ResponseInv` carries that to the
  answer, and `NamedInv` that what is collected names every channel whose call has not failed
  (`NoSuccessIsHidden`).  `CaseInv` says which case an open transaction will make and that none like
  it is recorded.
* `MutesProofs`.  `TInv` (types and the numbers), `CallsInv` (a call belongs to a
  member and an API the command set out with, and fresh commands have none),
  `ResponseInv` (who is claimed, against the failed calls), and `TableInv` (an open
  transaction of a timeout belongs to a call that has succeeded) give `HiddenIsFailure`,
  `SuccessesAreNamed`, `RecordsAreEarned` and `NumbersStandStill`.
* `RecordsProofs`.  `RInv` relates the rows a transaction will delete to the table: they
  are in it, no two transactions share one, and there is at most one of them.  That
  every success has a row of its own then needs the count of the warnings that are
  gone or in an open transaction.  `NoEditIsAnswered` holds for both databases.
* `UniqueVectorProofs`.  `VInv`: types, order, and that a vector without memory is empty.
  Uniqueness comes with strict order; `ImplementsSet` maps every member function to a
  step of `UniqueSet`.
* `BanListProofs`.  `BInv`: `Coverage`, everybody who was banned all the while is in `delivered`,
  on the page being read, or beyond all of it on a page that is full; `NoRepetition`,
  nobody in `delivered` lies beyond the cursor.  Completeness alone is not inductive: it speaks
  of the last page only.  `AheadOfCursor`, a page that had anybody on it has taken the
  greatest id beyond the cursor or still holds somebody who will, gives
  `RequestsMoveOn`: the safety half of "the recursion ends".
* `PaginatorProofs`.  `PagerInv`: types, and in what order a paginator gets its ids, its
  handler and its message; that a page turned to exists rests on `StartedFirst`.
  `EndedMessagesSettle` speaks of a state in which nothing is on its way, so
  `SettleInv` says what holds while something is: the last edit of an ended paginator
  is the one its destructor posted, unless a handler had a page to post.
  `ClicksStayApart` needs `IdsStayApart`: as long as no two paginators were made at the
  same time, the static counter has gone past every id in use, and no two share one.
* `HelpersProofs`.  Both helpers are loops whose results are compared with functions
  defined by recursion over their input (`remove_non_alphanumeric`, `Showable`, `Total`,
  and `FlattenSeq` of the community modules).  `Least` takes the least element of a set
  of numbers from the library's theorem that < is well-founded; `Induction` is induction
  for membership in a set, and `Recursion` that a function defined by recursion over a
  range exists and obeys its equation.  With these come equations for one string more
  (`ShowableStep`, `TotalAppend`, `FlattenAppend`).  `JoinInv`: up to the loop's
  string, the slices handed in and the one being filled hold what can be shown, and each
  begins with what did not fit into the one before; the last iteration hands it in.
  `ParseInv`: up to the loop's character, tokens and the open run make up the cleaned
  text; afterwards, an odd number of alternating runs begins and ends in the same class
  (`OddRuns`), which decides between an exception and a refusal; a parse that goes on has
  read at most half of its tokens, so it ends before the loop's own bound.

Some results are proved and in no run, since no instance adds to them: the type
invariants of `CommandWrapper`, `Mutes`, `Records`, `UniqueVector` and `BanList`;
`CaseIdsContiguous`, `TimeoutNumbersStandStill`, `EditsGoUnanswered`, `FirstInsertCrashes`,
`NothingIsFetchedTwice`, `CursorMovesOn`; and `NoDuration`, that no text is a duration, of
which `TwoDays` shows one instance.

Every invariant and every action property of a passing run, and the refinements of
`CaseLedger` and `UniqueSet`, are also theorems.  Only model-checked: the properties that
need fairness (`EveryCommandEnds` of `CommandWrapper` and of `Records`,
`EveryCallSettles`, `FetchEnds`), since the prover has no rules for ENABLED.

## Not modelled

* The audit log: its `recursive_call` is never called, and what it would do per entry
  is formatting.
* `duration`: no value of the type is ever produced by `parse_human_time`.  With it go the
  tempban and tempmute branches of ban and mute.
* `fifo_map` and `fixed_map`: used for constant tables, or not at all.
* The module system: `module_manager` is an interface whose load, unload and reload have
  no definitions.
* The logger formats lines for a logging library; `FileWatch.hpp` is vendored and nothing
  starts it; `src/src/reactaio.cpp` reads a configuration and starts the cluster;
  slash commands and audit log names are tables.
* `add_page`, `remove_page` and `start(user)` of the paginator and `update_duration`
  have no caller.
* Hazards without a property of their own are those whose outcome is undefined, or which
  the model shows to go wrong in a way a property could only restate: they are under
  "Further observations".

## What could come next

1. The other safety halves of the liveness properties, as `CursorMovesOn` is one of
   `FetchEnds`: a measure that every step of a thread decreases, and that whoever waits
   for a row waits for a command that is at its commit.
2. `CommandWrapper`, `Channels` and `Mutes` over one table and one guild: their cases
   already share a ledger, their calls do not meet.
3. `duration` and the temporary bans, once a text can be read as a duration.
