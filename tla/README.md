# A verification project for the quiz contest service

TLA+ models of the contest service (a backend of Express, Sequelize on MySQL,
Redis and BullMQ, and a web client in plain JavaScript) with TLC runs on small
instances and theorems checked by TLAPS.  The modules are translated from the
code under `src/`; `PROJECT.json` maps every definition to the lines it stands
for.

## 1. The system

| Component | Source | State | Operations | Hard parts |
| --- | --- | --- | --- | --- |
| Participation | `src/participation` | rows of `participations` (unique on contest and user), stored answers | join, save answers, submit | requests of one user overlap; the status is checked before the transaction that relies on it; the quiz is read outside the transaction |
| Scoring | `src/participation/services/scoring.ts` | none | grade a selection against the key | empty keys, duplicate selections |
| Contests | `src/contest` | rows of `contests`, cache entries for detail and list | create, update, remove, read through the cache | check-then-write on the window, the clock passing in between, a cache filled with an old row after a bust |
| Questions | `src/question` | rows of `questions` and `options` | create, update, remove; options likewise, each validating the option set in its transaction | two transactions each valid on its own snapshot |
| Prizes and awards | `src/prize`, `src/common/queues` | rows of `prizes` and `awards`, the BullMQ job of the contest | create and remove a prize, the award job | the job id deduplicates, the delay is fixed when the job is added, retries and stalled jobs run again |
| Leaderboard | `src/leaderboard`, `src/common/cache` | cached pages with a time to live | read a page, bust after a submit | rows and total are two queries, fill racing a bust, scan then delete, ties |
| Rate limits | `src/common/ratelimit`, `src/rate-limit-policy` | policy table, runtime policies and memoised limiters per process, counters in Redis | consume, tune a policy, load at boot | a tuned policy and a limiter built earlier; the block is a second call to Redis |
| Accounts | `src/auth`, `src/user` | users with a role, tokens that carry it | sign up, log in, grant a role | a token outlives the role it carries; two administrators demote each other |
| Web client | `frontend/js` | location, `#app`, token and `currentUser`, `quizState`, the modal overlay | navigate, sign in and out, play a quiz, administer contests | every page goes on after its awaits, whatever the tab shows by then; a dialog is closed over the contest it was opened for |

A request is served by one asynchronous handler.  Nothing serialises handlers,
neither in one Node process (they interleave at every `await`) nor across
processes, so the unit of atomicity is one database statement or one
transaction.  Components meet in the tables (MySQL, REPEATABLE READ), in Redis
(cache entries, counters, the job queue) and by calls between services: the
participation, question, prize and leaderboard services all ask
`ContestService.getById`, which may answer from the cache.  The web client meets
the backend through its answers only; its handlers interleave in the same way,
with the user's clicks between them.

What makes each component correct:

* Participation: a row is created once, only by someone the contest admits,
  advances once from in progress to submitted, and then neither its score nor
  its answers change; the score is the grade of the stored answers at an
  instant of the submit.
* Scoring: a question pays only for the options of its key.
* Contests: the stored window is never inverted and never moves once the contest
  has started; what the cache serves is the table, or is being deleted.
* Questions: every stored option set is one its type allows.
* Prizes: each prize goes to the user of its rank once, after the end of the
  contest, and a prize whose job waits is eventually awarded.
* Leaderboard: a page is the ranking, the pages show everybody once, and a
  submission is missing only for a bounded time.
* Rate limits: no window lets more requests pass than the policy has points, and
  the enforced limit is the configured one.
* Accounts: a role that was revoked stops being honoured; an administrator
  remains.
* Web client: the screen, the URL, the session and the quiz that is posted belong
  together, and no page stays on its spinner.

## 2. Plan

The order follows the weight of the behaviour: first what decides who wins
(participations, answer keys, prizes), then what guards and shows it.

| Step | Module | Composes | Properties and theorems | State |
| --- | --- | --- | --- | --- |
| 1 | `Scoring`, `ContestRules` | used by all below | grading, derived status, access | done |
| 2 | `Participation`, `SubmitHistory` | Scoring, ContestRules; environment edits of contest and quiz | rows advance and are whole, answers never dangle, submissions are final, grades are those of an instant; implements `ParticipationLifecycle` | done, proved |
| 3 | `QuestionAuthoring` | one question, stands alone | the key survives crossing transactions | done, proved |
| 4 | `PrizeAward` | ContestRules; environment of submissions and schedules | a prize is won once, awards follow the ranking, a job ends in awards | done, safety proved |
| 5 | `ContestAdmin` | ContestRules; `CacheService` as it uses it | windows stay valid, the schedule is held, the cache is fresh unless raced and in the end | done, safety proved |
| 6 | `Leaderboard` | `CacheService` as it uses it; submits and removal of the contest | pages are fresh unless raced, nobody is left out, the ranking shows in the end | done, safety proved |
| 7 | `RequestGate` | accounts, tokens, roles, rate-limit policies, limiters of each process | a window's budget, an administrator remains, a demotion takes hold | done, proved |
| 8 | `Browser`, `AdminConsole` | AdminConsole extends Browser with its pages and dialogs | screen, URL, session and quiz belong together; pages settle | done, safety proved |
| 9 | proofs | | the refinement of `ParticipationLifecycle`; safety of `Leaderboard`, `Browser` and `AdminConsole` | done |

Theorems stay next to one component each: `<Component>Proofs` extends the
component and TLAPS (`GateProofs` for RequestGate, `PrizeProofs` for PrizeAward,
`SubmitProofs` for SubmitHistory, Scoring and the refinement, `BrowserProofs` for
Browser and AdminConsole).

## 3. Modules

Every handler is cut at its `await`s.  `pc` in a request or run record names the
call it is suspended at; the action that leaves this `pc` is the code up to the
next `await` together with the effect of the call.  A transaction is one step at
its commit; where its snapshot matters, the first read of the transaction is a
step of its own and the values it read are kept in the record (REPEATABLE READ,
no check of the snapshot at commit, unique and foreign keys checked on the
latest rows, row locks held until commit).

### ContestRules and Scoring

Pure operators: `deriveContestStatus`, `hasAccess`, `validWindow`, `isSameSet`,
`scoreSubmission`, and `Cascade`, which removes from stored answers what the
foreign keys of `participant_answers` and `participant_answer_options` remove
with a deleted question or option.  `isSameSet` compares lengths first, as the
code does: answers are sets of `<<option, copy>>`, since nothing keeps a client
from posting one option twice.

### Participation

| State | In the code |
| --- | --- |
| `rows[u]` | the row of `participations` of user u, unique on contest and user |
| `answers[u]` | `participant_answers` and `participant_answer_options` |
| `contest`, `quiz` | rows of `contests`, `questions`, `options`, changed by the environment |
| `served` | every contest row that ever existed: `getById` may answer from a cache entry of any age |
| `req[r]` | one request in flight: where it is suspended, and what it read |
| `now` | the servers' clock in the resolution of the DATETIME columns, seconds |

`Join`, `JoinLookup`, `JoinInsert` are `ParticipationService.join`;
`SaveAnswers`, `SaveValidate`, `SaveReplace` are `saveAnswers`; `Submit`,
`SubmitQuestions`, `SubmitSnapshot`, `SubmitUpdate`, `SubmitBust` are `submit`;
`Abort` is any call that fails, an InnoDB deadlock, a crash or a posted list with
the same question twice (the unique key rolls the transaction back).  `Written`
is `entity.update`, which writes only the fields that differ from the snapshot
into whatever the row has become.  `Refuse` stands for requests refused before
they change anything, the rate limit included; no property relies on it.

`Hasty` is the set of users who may have several requests in flight; the others
are *patient*.  Properties that the code guarantees to everyone quantify over
all users, the ones that `requireInProgress` only guarantees to a user who waits
quantify over patient users, in the company of hasty ones.

`SubmitHistory` adds a history variable with the scores a user could have earned
at each instant of a submit; it restricts no step.  `ParticipationLifecycle` is the abstract
specification: join, save and submit are one step each and the score is the grade
of the stored answers.  `Participation` maps `stage` and `score` to the columns of
the row.

Questions and options created while the contest runs are not modelled here: ids
of deleted rows never return, so an edit only removes or corrects.

### QuestionAuthoring

One question: its type, its options with `is_correct`, and the option requests
of administrators.  `addOption`, `updateOption` and `removeOption` write first and
validate the options of their own snapshot plus their own write
(`isValidOptionSet`), then commit.  `Locked` is the row lock of a pending write;
`RemoveQuestion` cascades.  `updateQuestion` (text and points) does not touch the
option set and is left out.

### PrizeAward

| State | In the code |
| --- | --- |
| `prizes`, `used` | `prizes`, unique on contest and rank; ids given so far |
| `awards` | `awards`, unique on contest and prize |
| `job` | the BullMQ job `award-<contestId>`: waiting until `due`, active under the lock of `holder`, ended but still known under its id, or absent; `throws` and `stalls` count against the attempts |
| `run[w]` | one execution of `runAward` by a worker, with the prizes it listed and the rows it is about to insert |
| `results` | submitted participations; a second submit of a user that was in flight replaces score and time, at any later moment (section 7) |
| `redone` | history: the users who submitted once more since a run read the ranking to award from |
| `req[r]` | a request that creates a prize |

`CreatePrize`, `InsertPrize`, `scheduleAward` are `createPrize`; `ReadPrizes`,
`Snapshot`, `InsertAwards`, `Bust` are `runAward`; `TakeJob`, `Complete`, `Throw`,
`Stall`, `Forget` are the queue as configured in `queue.registry.ts`.  The backoff
of a retry is "any later time".  `Overlap` says whether a job whose lock expired
may be given away while its first run still goes on (BullMQ cannot exclude it
when an event loop is blocked or Redis is slow).  `Placings` are the orders the
ranking query may return: equal score and equal second are in no order.  An award
carries the score of its winner as the ranking had it, and `AwardsFollowRanking`
compares what was awarded without exception, what the winners have now only for
those who are not in `redone`.

### ContestAdmin

| State | In the code |
| --- | --- |
| `row`, `used` | the table `contests` and the ids given so far |
| `detail[i]`, `list[k]` | cache entries `contest:<id>` and `contests:<query>`; a list remembers the time of its query |
| `req[r]` | one request and the await it is suspended at |
| `now` | the servers' clock |
| `late`, `lost`, `hasty` | histories: entries stored after their rows had changed; entries whose deletion died with its request; contests written by an update that had been overtaken |

`GetById`, `FindContest`, `SetDetail` and `ListContests`, `FindContests`,
`SetList` are the two reads that miss the cache (a hit changes nothing).
`UpdateContest` is the check, `FindForUpdate` the second read of
`BaseDAO.update`, `SaveContest` its UPDATE of the columns that differ;
`RemoveContest`, `DestroyContest` and `CreateContest` are the other writers.
`bustCaches` is a deletion of one key and, concurrently, `delByPrefix`: a scan
that visits the keys in any order (`ScanList`) and a pipeline at its end
(`DeleteLists`).  `ExpireDetail` and `ExpireList` are the time to live: an entry
may expire at any moment and, under fairness, does.  `Abort` is a failed call or
a crash at any await.  The histories say what a property must exempt: they name
the races the code accepts, so that everything else is checked.

### Leaderboard

`board` has the score and the second of each submission, `cached` the pages.
`FindRows` and `CountRows` are the two statements of `findAndCountAll`, in either
order, `SetPage` stores the page; `Submit`, `Commit`, `ScanPage` and `DeletePages`
are the end of a submit as the leaderboard sees it, two of one user included;
`RemoveContest` takes the participations with it and deletes no page.
`Rankings` are all orders the query may return: equal score and equal second have
none, and each query may choose another.  `late` and `lost` are the histories of
ContestAdmin; `clean` in a request says whether a commit fell between its queries
and the store.

### RequestGate

| State | In the code |
| --- | --- |
| `role`, `tokens` | the column of `users`, the JWTs signed (user, role, expiry) |
| `policy` | the row of the policy in MySQL |
| `runtime[p]`, `limiter[p]` | in process p: the map of `RateLimitPolicyService`, the memoised `RateLimiterRedis` |
| `counter` | the key in Redis: points consumed and expiry |
| `passed`, `used`, `lastAdmin`, `orphaned` | histories: requests let through in the life of the counter, the points its limiters had, when a user was last an administrator, whether someone changed a role without being one any more |

`Arrive`, `Consume`, `Block`, `Enter` are the rate limit, `authRequired` and
`requireRoles` in the order of `app.ts`; `FindUser` and `IssueToken` are the
login, `FindTarget` and `SaveRole` the grant of a role, `FindPolicy`,
`SavePolicy`, `Upsert` the change of a policy, `Restart` the boot of a process.
The window is a fixed one that a first excess turns into a block, in a second
call that may come late.

### Browser and AdminConsole

One tab.  A handler runs to its next `await` in one step and nothing cancels it:
`call[s]` holds those in flight, and the action that answers one goes on with
whatever the module variables hold by then.

| State | In the code |
| --- | --- |
| `loc`, `app` | the location and what `#app` shows: page, contest, how far it got, lists still to be filled, marked options |
| `token`, `me` | localStorage, and `currentUser` of `state.js` |
| `quiz` | `quizState` of `quiz.js` |
| `dialog` | the modal overlay and the contest its buttons are closed over |
| `entry` | at the server: who joined and submitted what |
| `made` | at the server: how many contests the tab has created |
| `kept`, `listed` | the cached page of `GET /contests` and the one the panel shows, each by how many of these were there when it was read |
| `lapses` | history: a clearing of the cached list that failed, a list stored late, since a create last cleared it |
| `hurry` | history: what the user did not wait for (`quiz`, `page`, `session`, `list`) |

`renderCurrentRoute` is the router with its redirects; `Load`, `Visit`,
`doLogout`, `SignIn`, `selectOption`, `saveAnswers`, `submitContest` are what a
user does, and AdminConsole adds the panel, the contest page and the dialogs.  Every
answer may be an error.  `hurry` plays the part of `Hasty` above: the client
has no protection against a user who clicks on while a call is in flight, so each
safety property names exactly the calls it needs the user to wait for and holds
against everything else.  The harm a hurry exempts is real (section 7).

`CacheMoves` is what the rest of the world does to the cached list; `ListsRead`
answers with it, or with the rows, which it then caches unless that fails.
`Created` is the INSERT and the clearing, `CreateFailed` a create that ends in an
error: nothing done, all done and the answer lost, or the INSERT without the
clearing.

## 4. Runs

| Run | Instance | What it shows |
| --- | --- | --- |
| `requests` | 2 users (one hasty and normal, one patient and VIP), 2 requests, 1 question with 3 options, 2 quizzes, 2 contests, clock 0..2 | whatever overlaps, rows are whole and only advance, everyone was let in, answers never dangle; the patient user's submission is final |
| `submit_corrected` | 2 patient users, 2 requests, 2 questions of 2 options, each of which may be posted twice, 3 quizzes that differ in keys and points, clock 0..1 | a score is what the answers were worth at one instant of the submit, although the quiz is read before the transaction; a copy earns nothing; the service implements the one-step lifecycle |
| `questions_overlap` | 4 option ids, 2 requests | the key of a single-select or true/false question is one option and always the same |
| `award_queue` | 1 user, 2 prize ids of one rank, 2 workers, runs may overlap, a contest moved between two windows, clock 0..3 | a prize is won once, never before an end the contest had; a waiting job ends in awards |
| `award_serial` | 2 users, 2 scores, 2 ranks, 1 worker, clock 0..2 | awards are made in one round and follow the ranking that was read; who submits once more after that keeps the award and changes only the result |
| `contests` | 1 contest id, 1 list key, 2 requests, 2 writes, 5 posted bodies, clock 0..2 | windows stay valid and the schedule holds unless an update was overtaken; the cache is fresh unless raced, and in the end |
| `leaderboard` | 2 users, one of whom may submit with two scores, 2 pages of one row, 2 requests, clock 0..1 | pages are those of the ranking unless raced, together they show everybody once, and in the end the final ranking |
| `gate` | 2 administrators, 2 processes, 2 requests in flight, 4 in all, points 1 or 3, a window of 1, a block of 2, tokens of 1, clock 0..2, 1 restart | a window's budget, an administrator remains, a demotion takes hold |
| `browser_player` | 2 people at one tab, 2 running contests, one of them multi-select, 2 options, 2 handlers in flight, 6 clicks | the quiz on the screen is the one that is posted; screen, URL and session agree; pages settle |
| `browser_admin` | an administrator and a user, 2 contests, 2 handlers in flight, 6 clicks | dialogs edit the contest on the screen, lists are current although they come from a cache, unless that fell behind; pages settle |
| `double_submit`, `policy_change` | as `requests` and `gate`, smaller | section 7 |

Why the bounds are enough.  Two requests are the least that race, and every race
in the code is between two: each handler holds at most one stale value at a time
and compares nothing across three parties.  Two users show that one user's
requests leave another's row alone.  Three options distinguish a wrong, a partial
and a complete selection and leave one to delete.  Two quizzes and two contests
give one edit in either direction; the clock takes a start, an end and one value
after.  `Attempts` is 2 in the runs (3 in the code): a first throw that is retried
and one that is not are the two cases.  A prize id is used once (`PrizeIds` bounds
how many are created; a request that finds none left can only be aborted).
In `contests` one id suffices because no operation touches two contests but the
list, and two writes are one that overtakes another; two pages of one row are the
least that can disagree.  In `gate` the points 1 let one request overrun the
window and 3 take all but one of the four; a second restart or a longer life of
tokens only repeats what one does.  In the browser runs two handlers are the one
that was left behind and the one that replaced it, and six clicks reach
two pages, a sign-in or a dialog, and a way out with calls still in flight.  The
theorems of section 6 do not depend on any of these.

`CHECK_DEADLOCK FALSE` stands in the configurations of `gate`, `policy_change` and
the browser runs: their clock, requests and clicks are bounded, and a system that
nobody asks anything and whose user has stopped is done.

## 5. Fairness

* `award_queue` (`FairSpec`): weak fairness of the clock, of some worker taking a
  due job, of each step of a run, and of the stalled check.  Each is what a
  running server does: time passes, `registerWorker` starts a worker in every
  process, an `await` of a run ends in an answer or an error, and BullMQ's workers
  look for stalled jobs periodically.
* `contests` and `leaderboard`: weak fairness of the steps of a request that is
  being served (an `await` ends; that it may fail instead is `Abort`, of which
  nothing is assumed) and of the expiry of each cache entry (every `set` has a time
  to live).  Nobody has to read, write or submit.
* the browser runs: weak fairness of the answers of each handler in flight: a
  `fetch` ends in an answer or an error.  Nothing makes a user act.

Nothing is assumed anywhere about failures, crashes, requests or administrators:
the award property allows a job that has used up its attempts and prizes that are
removed, and the cache properties speak of the end of writing (writes and users
are bounded).

## 6. Proofs

All theorems hold for every value of the constants under the assumptions of their
modules (`ConstantsAssumption`, `ContestAdminAssumption`, `RequestGateAssumption`,
`LeaderboardAssumption`, `BrowserAssumption`: types of the parameters, and that
finitely many pages are asked for; `NoneAssumption`, and part of
`BrowserAssumption`: the absent value is not a value).  TLC evaluates them in
every run.

| Module | Theorem | Inductive invariant |
| --- | --- | --- |
| `ParticipationProofs` | `TypeCorrect`, `RowsWhole`, `RowsAdvance` | `TInv` adds to the types what each `pc` implies for the request's fields (`Phase`); `WInv` adds that a request about to insert or update holds a whole row and a time not in the future: `Written` merges the fields of two rows, and the merge of whole rows is whole only because of that |
| | `JoinedGate` | `GInv`: a join in flight was admitted at the present time, or at the time in the row it will insert |
| | `NoDangling` | `DInv`: stored answers are closed under `Cascade`, and the quiz of a deleted contest is empty |
| | `SubmissionFinal`, `AnswersFinal` | `SInv`: a patient user's requests in flight are one, and the participation it found in progress is still in progress, exactly what `requireInProgress` cannot promise to a hasty user |
| `SubmitProofs` | `OnlyTheKeyPays` | none beyond `TInv`; a lemma on `isSameSet`: a choice of one stored copy per option of the key is injective, hence onto a finite selection of the same size |
| | `GradedAtOnce` | `GradedInv` on top of `TInv`, `DInv`, `SInv`: while a submit is in flight, the grade of the answers under the quiz it read is among the instants, because a patient user's answers stand still between the two reads |
| | `LifecycleImplemented` | `RInv` on top of `TInv`, `WInv`, `DInv`, `SInv`: what a patient user's submit is about to write is the grade of the stored answers under one of the quizzes, so its UPDATE is the one step of `ParticipationLifecycle`; every other step maps to a join, a save or a stutter |
| `QuestionProofs` | `TypeCorrect` | `QInv`: types, and what each `pc` implies for a request and for its view |
| | `OneKey`, `KeyIsFixed` | `KInv`: a transaction on a question with one key that reaches its commit leaves the key alone, in its snapshot and in the latest rows |
| | `SetsValid` | `VInv`, when requests do not overlap: the view of the transaction is the table |
| `PrizeProofs` | `TypeCorrect`, `WonOnce` | `PInv`: types, and what the `pc` of a request, a run and the job's state imply for their fields |
| | `AfterAnEnd` | `AInv`: a job is due, and a run has begun, no earlier than some end the contest had |
| | `AwardedInOneRound` | `SInv`, one run at a time: whoever runs holds the active job, and while a run is about to insert there are no awards |
| | `FollowRanking` | `RInv`, one run at a time: awards agree, place by place and score by score, with the ranking that was read, which nothing disturbs; with the present results as long as the winner is not in `redone` |
| `ContestAdminProofs` | `TypeCorrect` | `Typed`: types, and the fields of a request at each `pc` |
| | `WindowsStayValid`, `ScheduleIsHeld` | `UpdatesSound`: an update in flight was accepted against the row it holds in `existing`, and a payload made from an unchanged row merges to what was checked |
| | `CacheIsFresh` | `Known` (what is cached has an id that was given, so a created contest is cached nowhere) and `Fresh` itself: every step that changes a row leaves a request behind that has still to delete what it made stale |
| `GateProofs` | `TypeCorrect` | `Typed`: types, and a counter that has not expired |
| | `BudgetHolds` | `Budget`: as long as the limiters agree on n points, what passed is at most n and at most the counter, so a block, which sets the counter to n + 1, forgets nothing |
| | `AnAdminRemains` | `OthersOnly`: a role change in flight is for somebody other than the one who asked |
| | `DemotionHolds` | `Lasting`: a token with the administrator's role expires within its lifetime, and the time its login took, of the last moment its user had the role |
| `LeaderboardProofs` | `CachedPagesAreFresh` | `LInv`: types (`LType`); `QueryInv`, what a query that nothing has overtaken found is still so; `PagesInv`, a settled page is one cut from a current ranking. The page a request is about to store is fresh only because of `QueryInv` |
| | `PagingLeavesNobodyOut` | none beyond `LInv`; lemmas on rankings: without ties the rank of a user counts those who come before, so there is one ranking and all pages are cut from it; each rank is on the page of its quotient |
| `BrowserProofs` | `TabTypes`, `OneSessionHolds`, `QuizIsOnScreen`, `ScreenIsOfTheUrl`, `PressedIsSubmitted` | `TabInv`: types by the kind of each handler in flight (`BType`); `SessionInv`, a boot in flight is alone and carries the token; `QuizInv`, a quiz in flight is the one `quizState` was emptied for; `SubmitInv`, a submit in flight keeps its contest and its user; `PageInv`, at most one handler in flight is going to write `#app`, and it is about the location (`Due`) |
| | `ConsoleIsOfTheUrl`, `DialogStaysOverItsPage`, `ListStaysCurrent`, `ConsoleKeepsTheTab` | `ConsoleInv`: all of `TabInv`, now for the steps of the console too; `DialogInv`, while a dialog is open nothing but its own calls is going to write the screen; `ListInv`, as long as nothing has lapsed, the cached list has all contests or there is none, hence a list in flight has seen all contests or none yet |

Action properties follow from the invariant and one more case split per action.
`SetsValid`, `AwardedInOneRound` and `FollowRanking` assume `Overlap = FALSE`;
without it they are false (section 7).  `OnlyTheKeyPays` assumes finite sets of
options and copies; `GradedAtOnce` and `LifecycleImplemented` that administrators
correct quizzes without deleting from them (`Corrections`), without which they are
false; both are about patient users and hold in the company of hasty ones, more
than their run, in which everybody waits.  `StoredSetsAreValid` is
the one property that is proved and has no run of its own.

How the proof of the refinement goes: initial states map to initial states, and of
the steps of `Participation` only `JoinInsert`, `SaveReplace`, `SubmitUpdate`,
edits of the quiz and the removal of the contest change what the lifecycle sees.
A hasty user's steps change nothing of a patient user's.  The proof that the tab's
invariants are kept splits by what an action does to the calls in flight (starts
one, answers one, renders a page), not by action alone: all kinds of handlers
share these lemmas.

Only model-checked: the liveness properties (`PrizesAreAwarded`, `FreshInTheEnd`,
`RankingShows`, `Settles`), because fairness is out of the prover's reach, and what
`scoreSubmission` adds up to, because the sum is an induction over data.  Every
safety property of section 4, the refinement included, is a theorem.

## 7. Where the code and its documentation differ

Shown by a run:

* `double_submit`.  `requireInProgress` reads the status before the transaction
  and the UPDATE has no condition on it: of two submits in flight the second
  overwrites score and time (a test says a second submit is refused).  In the
  same way a save in flight during a submit replaces answers of a submitted
  participation; `DraftsOnlyInProgress` therefore holds for patient users only.
* `policy_change`.  The limiter of a policy is made once per process.  A tuned
  policy shows in the headers of the process that served the change and is
  enforced by none that had made its limiter, although the README calls policies
  tunable without a redeploy.  Other processes learn of it when they restart.

Seen while modelling, without a run of their own:

* `submit` and `saveAnswers` never look at the access level or the window: a normal
  user who joined before the contest became VIP, or before it ended, submits it.
* Two administrators each remove or unmark one of two correct options of a
  multi-select; both commit, the key is empty, and an unanswered question earns
  its points.
* For the same reason the result of a winner can change after the awards: the
  second submit that was in flight overwrites it, and a better rank may from then
  on belong to a worse result.  Awards are not made again.
* `ContestService.create` clears the cached lists after its INSERT.  If the
  clearing fails, or a reader stores a list it read before, `GET /contests` lacks
  the contest until the entry expires, and so does the admin panel that loads its
  list again after the create.
* In the client nothing cancels a handler: a quiz page that was left overwrites
  the page that replaced it, the start-up check of an old token signs out who has
  just signed in, a dialog that survived Back renders its contest on another page,
  an older list comes last.  The browser properties exempt users who
  do not wait for the calls concerned (`hurry`), these cases included.
* Two administrators who demote each other at the same time leave none
  (`orphaned` in `RequestGate`).
* Two runs of a stalled award job can list different prizes; the unique key sees
  no conflict and one participant wins both.
* The delay of the award job is fixed when the first prize is created; a contest
  that is moved later is awarded before its end.  The queue also still knows the id
  of a job that has run, so a prize created after a run that awarded nothing gets
  no job.
* Two updates of one contest that each post a whole window can leave the start of
  one and the end of the other: each writes only the columns that differ from the
  row it loaded (`WindowsAreValid` exempts contests in `hasty`).
* The columns are DATETIME without fractions: a window of less than a second is
  valid when it is checked and empty when it is stored.
* An option deleted between the two reads of a submit is missing from the answers
  but not from the key, so `GradedAtAnInstant` holds for corrections and not for
  deletions.
* The bust of the contest's question cache clears a key that is never set.

## 8. Not modelled

* Validation of request bodies beyond what the actions' inputs say, serialisation
  of responses, OpenAPI documents, configuration and logging: no state of the
  system.  History and award listings are read-only.  Seeds and migrations: the
  keys they declare are part of the actions.
* Signup, one INSERT decided by the unique email, and passwords, which only decide
  whether a login goes on.
* Rate-limit policies of single routes and of the USER scope: the same code with
  another key.  A policy is tuned in its points only, not in its duration or block.  A policy with `blockSec` 0, which never blocks.  The store in memory
  is for tests.
* Page, order and search text of list keys; fields of a contest other than its
  window and its access level; text, points and position of questions outside
  `Participation`; questions and options created while a contest runs (ids of
  deleted rows never return).
* Time finer than the second of the DATETIME columns.
* In the web client: contests beyond the first page of 50 that it asks for (which
  contests that page has is no concern of the model: `listed` says as of which
  creation it was read); creations of other clients and of a tab that was reloaded
  meanwhile, which are not counted in `made`; a second tab that changes the same localStorage, keyboard
  focus that reaches controls under the overlay, layout and toasts, and what forms
  validate.  The static frontend server is pure I/O.
* `PrizeAward` and `Participation` take an update of the contest as one step of
  their environment; the race inside it is in `ContestAdmin`.
