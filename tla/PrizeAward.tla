------------------------------ MODULE PrizeAward ------------------------------
(***************************************************************************)
(* The prize service of one contest and its award job.  Creating a prize   *)
(* adds a delayed job to a BullMQ queue; when it is due, a worker awards   *)
(* the prizes to the top submitted participants.                           *)
(*                                                                         *)
(* The queue delivers the job at least once: a run that throws is tried    *)
(* again, and a job whose lock a worker has lost (a crash, or a worker     *)
(* that went on but could not renew it) is given to another worker.        *)
(***************************************************************************)
EXTENDS ContestRules, FiniteSets

CONSTANTS
    Users,     \* participants
    Scores,    \* scores of submissions
    Ranks,     \* ranks administrators give prizes for
    PrizeIds,  \* ids a prize may be given, each at most once
    Requests,  \* slots for requests to create a prize
    Workers,   \* slots for runs of the job
    Contests,  \* contest rows the administrators may leave behind
    Overlap,   \* whether a job may be given away while its run goes on
    Attempts,  \* the runs that may throw, 3 in the code
    MaxStalls, \* the times a job may stall, 1 by default in BullMQ
    MaxTime,   \* bound on the clock
    None       \* the absent value

Times == 0..MaxTime

VARIABLES
    now,      \* the clock
    contest,  \* the row of table contests, None once deleted
    served,   \* the contest rows getById may return: all that ever existed
    results,  \* the submitted participations
    redone,   \* history: who submitted once more since a ranking was read to award from
    prizes,   \* the rank of each prize, None where there is no row
    used,     \* the ids given so far
    awards,   \* table awards, unique on (contest_id, prize_id)
    job,      \* the job award-<contestId> in Redis
    run,      \* the runs of the job
    req       \* the requests to create a prize

vars == <<now, contest, served, results, redone, prizes, used, awards, job, run, req>>

Result == [score : Scores, at : Times]

Award == [user : Users, score : Scores, at : Times]

Awards == [PrizeIds -> Award \cup {None}]

PrizeTable == [PrizeIds -> Ranks \cup {None}]

NoPrizes == [p \in PrizeIds |-> None]

NoAwards == [p \in PrizeIds |-> None]

\* A job waits until its time has come, is active under the lock of one
\* worker, and stays known under its id after it has ended.
Job == [state : {"absent", "waiting", "active", "completed", "failed"},
        due : Times, throws : 0..Attempts, stalls : 0..MaxStalls,
        holder : Workers \cup {None}]

NoJob == [state |-> "absent", due |-> 0, throws |-> 0, stalls |-> 0, holder |-> None]

\* What a run remembers between two awaits: the prizes it read and the rows
\* it is about to insert.
Run == [pc : {"idle", "prizes", "snapshot", "insert", "bust"},
        listed : PrizeTable \cup {None}, rows : Awards \cup {None}]

NoRun == [pc |-> "idle", listed |-> None, rows |-> None]

Request == [pc : {"idle", "insert", "schedule"},
            rank : Ranks \cup {None}, end : Times \cup {None}]

Idle == [pc |-> "idle", rank |-> None, end |-> None]

ASSUME ConstantsAssumption ==
    /\ IsFiniteSet(PrizeIds) /\ IsFiniteSet(Users)
    /\ Scores \subseteq Nat
    /\ Ranks \subseteq Nat
    /\ Contests \subseteq Contest(Times)
    /\ Overlap \in BOOLEAN
    /\ Attempts \in Nat \ {0}
    /\ MaxStalls \in Nat
    /\ MaxTime \in Nat

ASSUME NoneAssumption ==
    /\ None \notin Users \cup Workers
    /\ None \notin Ranks \cup Times
    /\ None \notin Contests
    /\ None \notin Result
    /\ None \notin Award
    /\ None \notin Awards
    /\ None \notin PrizeTable

TypeOK ==
    /\ now \in Times
    /\ contest \in Contests \cup {None}
    /\ served \in SUBSET Contests
    /\ results \in [Users -> Result \cup {None}]
    /\ redone \in SUBSET Users
    /\ prizes \in PrizeTable
    /\ used \in SUBSET PrizeIds
    /\ awards \in Awards
    /\ \A p \in PrizeIds : (awards[p] # None => prizes[p] # None) /\ (prizes[p] # None => p \in used)
    /\ job \in Job
    /\ run \in [Workers -> Run]
    /\ req \in [Requests -> Request]

Init ==
    /\ now = 0
    /\ contest \in Contests
    /\ served = {contest}
    /\ results = [u \in Users |-> None]
    /\ redone = {}
    /\ prizes = NoPrizes
    /\ used = {}
    /\ awards = NoAwards
    /\ job = NoJob
    /\ run = [w \in Workers |-> NoRun]
    /\ req = [r \in Requests |-> Idle]

Awarded == {p \in PrizeIds : awards[p] # None}

\* The awards whose winner has submitted once more.
Outdated == {p \in Awarded : awards[p].user \in redone}

-----------------------------------------------------------------------------
(* Requests of administrators.                                             *)

Answer(r) == req' = [req EXCEPT ![r] = Idle]

CreatePrize(r, k) ==
    /\ req[r].pc = "idle"
    /\ \E c \in served :
          req' = [req EXCEPT ![r] = [pc |-> "insert", rank |-> k, end |-> c.end]]
    /\ UNCHANGED <<now, contest, served, results, redone, prizes, used, awards, job, run>>

\* The unique key on (contest_id, rank) and the foreign key on the contest
\* decide at the INSERT.
InsertPrize(r) ==
    /\ req[r].pc = "insert"
    /\ IF contest # None /\ \A p \in PrizeIds : prizes[p] # req[r].rank
       THEN \E p \in PrizeIds \ used :
               /\ prizes' = [prizes EXCEPT ![p] = req[r].rank]
               /\ used' = used \cup {p}
               /\ req' = [req EXCEPT ![r].pc = "schedule"]
       ELSE /\ Answer(r)
            /\ UNCHANGED <<prizes, used>>
    /\ UNCHANGED <<now, contest, served, results, redone, awards, job, run>>

\* Mutant: the job is added without a delay.
DueNow(end) == now

\* When the delay of a job added now is over.
Due(end) == IF end < now THEN now ELSE end

\* Adding a job whose id the queue knows, whatever became of it, is a no-op.
scheduleAward(r) ==
    /\ req[r].pc = "schedule"
    /\ job' = IF job.state = "absent"
              THEN [NoJob EXCEPT !.state = "waiting", !.due = Due(req[r].end)]
              ELSE job
    /\ Answer(r)
    /\ UNCHANGED <<now, contest, served, results, redone, prizes, used, awards, run>>

\* A call to the database or to Redis that fails, or a crash of the server.
AbortRequest(r) ==
    /\ req[r].pc # "idle"
    /\ Answer(r)
    /\ UNCHANGED <<now, contest, served, results, redone, prizes, used, awards, job, run>>

\* Mutant: no cascade from prizes to awards.
RemovePrizeOnly(p) ==
    /\ prizes[p] # None
    /\ prizes' = [prizes EXCEPT ![p] = None]
    /\ UNCHANGED <<now, contest, served, results, redone, used, awards, job, run, req>>

\* The awards of a prize go with it.
RemovePrize(p) ==
    /\ prizes[p] # None
    /\ prizes' = [prizes EXCEPT ![p] = None]
    /\ awards' = [awards EXCEPT ![p] = None]
    /\ UNCHANGED <<now, contest, served, results, redone, used, job, run, req>>

-----------------------------------------------------------------------------
(* The queue.                                                              *)

\* A worker takes the job when it is due.
TakeJob(w) ==
    /\ job.state = "waiting"
    /\ job.due <= now
    /\ run[w].pc = "idle"
    /\ job' = [job EXCEPT !.state = "active", !.holder = w]
    /\ run' = [run EXCEPT ![w] = [NoRun EXCEPT !.pc = "prizes"]]
    /\ UNCHANGED <<now, contest, served, results, redone, prizes, used, awards, req>>

\* A run that ends reports to the queue only while it holds the lock.
Complete(w) ==
    /\ job' = IF job.holder = w
              THEN [job EXCEPT !.state = "completed", !.holder = None]
              ELSE job
    /\ run' = [run EXCEPT ![w] = NoRun]

\* Mutant: a throw is reported as a completion.
ThrowSwallowed(w) ==
    /\ job' = IF job.holder # w THEN job
              ELSE [job EXCEPT !.state = "completed", !.holder = None]
    /\ run' = [run EXCEPT ![w] = NoRun]

\* A run that throws is tried again after a backoff, up to its attempts.
Throw(w) ==
    /\ job' = IF job.holder # w THEN job
              ELSE [job EXCEPT !.state = IF job.throws + 1 < Attempts THEN "waiting" ELSE "failed",
                               !.throws = @ + 1, !.holder = None]
    /\ run' = [run EXCEPT ![w] = NoRun]

\* The lock of the active job has expired.  Unless runs may overlap, its run
\* is gone by then.
Stall ==
    /\ job.state = "active"
    /\ Overlap \/ run[job.holder].pc = "idle"
    /\ job' = [job EXCEPT !.state = IF job.stalls < MaxStalls THEN "waiting" ELSE "failed",
                          !.stalls = IF @ < MaxStalls THEN @ + 1 ELSE @,
                          !.holder = None]
    /\ UNCHANGED <<now, contest, served, results, redone, prizes, used, awards, run, req>>

\* An ended job is removed once enough others have ended after it.
Forget ==
    /\ job.state \in {"completed", "failed"}
    /\ job' = NoJob
    /\ UNCHANGED <<now, contest, served, results, redone, prizes, used, awards, run, req>>

-----------------------------------------------------------------------------
(* The award, runAward.                                                    *)

\* The ranking query: score descending, then submittedAt ascending.
Better(a, b) == a.score > b.score \/ (a.score = b.score /\ a.at < b.at)

Submitted == {u \in Users : results[u] # None}

\* The places the ranking query may give; it leaves equal results unordered.
Placings ==
    {pl \in [Submitted -> 1..Cardinality(Submitted)] :
        \A u, v \in Submitted :
            /\ u # v => pl[u] # pl[v]
            /\ Better(results[u], results[v]) => pl[u] < pl[v]}

\* Mutant: the list is ordered by descending rank.
IndexDescending(listed, p) ==
    Cardinality({q \in PrizeIds : listed[q] # None /\ listed[q] >= listed[p]})

\* The place of a prize in the list ordered by rank.
Index(listed, p) == Cardinality({q \in PrizeIds : listed[q] # None /\ listed[q] <= listed[p]})

Winner(listed, pl, p) == {u \in DOMAIN pl : pl[u] = Index(listed, p)}

AwardTo(u, t) == [user |-> u, score |-> results[u].score, at |-> t]

\* One award for each prize, as far as there are participants.
Assign(listed, pl, t) ==
    [p \in PrizeIds |->
        IF listed[p] = None \/ Winner(listed, pl, p) = {} THEN None
        ELSE AwardTo(CHOOSE u \in Winner(listed, pl, p) : TRUE, t)]

\* The prizes are read before the transaction.
ReadPrizes(w) ==
    /\ run[w].pc = "prizes"
    /\ IF prizes = NoPrizes
       THEN Complete(w)
       ELSE /\ run' = [run EXCEPT ![w].pc = "snapshot", ![w].listed = prizes]
            /\ UNCHANGED job
    /\ UNCHANGED <<now, contest, served, results, redone, prizes, used, awards, req>>

\* Mutant: the run does not look for earlier awards.
NothingToAwardAgain == Submitted = {}

NothingToAward == Awarded # {} \/ Submitted = {}

\* The snapshot of the transaction: whether there are awards, and the
\* ranking.  awardedAt is taken before the INSERT is sent.
Snapshot(w) ==
    /\ run[w].pc = "snapshot"
    /\ IF NothingToAward
       THEN Complete(w) /\ UNCHANGED redone
       ELSE /\ \E pl \in Placings :
                  run' = [run EXCEPT ![w].pc = "insert",
                                     ![w].rows = Assign(run[w].listed, pl, now)]
            /\ redone' = {}
            /\ UNCHANGED job
    /\ UNCHANGED <<now, contest, served, results, prizes, used, awards, req>>

\* Mutant: awards are upserted.
InsertableOver(P) == \A p \in P : prizes[p] # None

\* The foreign key on the prize and the unique key on (contest_id, prize_id)
\* look at the latest rows, not at the snapshot.
Insertable(P) == \A p \in P : prizes[p] # None /\ awards[p] = None

\* The rows are inserted and committed together, or rolled back together.
InsertAwards(w) ==
    LET new == run[w].rows
        P == {p \in PrizeIds : new[p] # None}
    IN
    /\ run[w].pc = "insert"
    /\ IF Insertable(P)
       THEN /\ awards' = [p \in PrizeIds |-> IF p \in P THEN new[p] ELSE awards[p]]
            /\ run' = [run EXCEPT ![w].pc = "bust"]
            /\ UNCHANGED job
       ELSE Throw(w) /\ UNCHANGED awards
    /\ UNCHANGED <<now, contest, served, results, redone, prizes, used, req>>

\* The leaderboard is cleared from the cache, and the run ends.
Bust(w) ==
    /\ run[w].pc = "bust"
    /\ Complete(w)
    /\ UNCHANGED <<now, contest, served, results, redone, prizes, used, awards, req>>

\* A call to the database or to Redis that fails.
RunFails(w) ==
    /\ run[w].pc # "idle"
    /\ Throw(w)
    /\ UNCHANGED <<now, contest, served, results, redone, prizes, used, awards, req>>

\* The worker crashes: an open transaction is rolled back, and the job stays
\* active until its lock expires.
Crash(w) ==
    /\ run[w].pc # "idle"
    /\ run' = [run EXCEPT ![w] = NoRun]
    /\ UNCHANGED <<now, contest, served, results, redone, prizes, used, awards, job, req>>

-----------------------------------------------------------------------------
(* What other components do.                                               *)

Tick ==
    /\ now < MaxTime
    /\ now' = now + 1
    /\ UNCHANGED <<contest, served, results, redone, prizes, used, awards, job, run, req>>

\* A submission is stamped before its transaction commits.  It may come after
\* the end of a contest, not before its start.  One that was let in before
\* another of its user committed replaces the result of that other, at any
\* time: the UPDATE has no condition.
SubmitResult(u, s, t) ==
    /\ contest # None
    /\ t <= now
    /\ \E c \in served : c.start <= t
    /\ results' = [results EXCEPT ![u] = [score |-> s, at |-> t]]
    /\ redone' = IF results[u] = None THEN redone ELSE redone \cup {u}
    /\ UNCHANGED <<now, contest, served, prizes, used, awards, job, run, req>>

\* The schedule may change until the contest starts.
UpdateContest(c) ==
    /\ contest # None
    /\ deriveContestStatus(contest, now) = "UPCOMING"
    /\ validWindow(c)
    /\ contest' = c
    /\ served' = served \cup {c}
    /\ UNCHANGED <<now, results, redone, prizes, used, awards, job, run, req>>

\* Everything that refers to the contest goes with it, except the job.
RemoveContest ==
    /\ contest # None
    /\ contest' = None
    /\ results' = [u \in Users |-> None]
    /\ redone' = {}
    /\ prizes' = NoPrizes
    /\ awards' = NoAwards
    /\ UNCHANGED <<now, served, used, job, run, req>>

Admin(r) ==
    \/ \E k \in Ranks : CreatePrize(r, k)
    \/ InsertPrize(r) \/ scheduleAward(r) \/ AbortRequest(r)

runAward(w) == ReadPrizes(w) \/ Snapshot(w) \/ InsertAwards(w) \/ Bust(w)

Next ==
    \/ \E r \in Requests : Admin(r)
    \/ \E p \in PrizeIds : RemovePrize(p)
    \/ \E w \in Workers : TakeJob(w) \/ runAward(w) \/ RunFails(w) \/ Crash(w)
    \/ Stall \/ Forget
    \/ Tick
    \/ \E u \in Users, s \in Scores, t \in Times : SubmitResult(u, s, t)
    \/ \E c \in Contests : UpdateContest(c)
    \/ RemoveContest

Spec == Init /\ [][Next]_vars

\* Time passes, the servers run workers, a run goes on or is found stalled.
Fairness ==
    /\ WF_vars(Tick)
    /\ WF_vars(\E w \in Workers : TakeJob(w))
    /\ \A w \in Workers : WF_vars(runAward(w))
    /\ WF_vars(Stall)

FairSpec == Spec /\ Fairness

-----------------------------------------------------------------------------
(***************************************************************************)
(* Properties that hold even when a job is run twice at once.              *)
(***************************************************************************)

\* A prize is won once: no second run gives it to somebody else, and an award
\* is taken back only together with its prize.
PrizeWonOnce ==
    [][\A p \in Awarded :
          \/ awards'[p] = awards[p]
          \/ awards'[p] = None /\ prizes'[p] = None]_vars

\* No award is made before an end that the contest had at some time, whatever
\* the delay of the job, its retries and changes of the schedule.
AwardedAfterAnEnd == \A p \in Awarded : \E c \in served : c.end <= awards[p].at

(***************************************************************************)
(* Properties that hold when the queue gives a job to one worker at a time.*)
(***************************************************************************)

\* Awards are made in one round: retries, later jobs and later prizes add
\* nothing to a contest that has awards.
OneRound ==
    [][Awarded # {} => \A p \in PrizeIds : awards'[p] # None => awards'[p] = awards[p]]_vars

\* An award carries the score of its winner, a better rank never goes to a
\* lower score and nobody wins twice, even though the prizes are read before
\* the transaction that reads the ranking; and a better rank never goes to a
\* worse result, unless one of the two winners submitted once more after the
\* ranking was read: awards are not made again.
AwardsFollowRanking ==
    /\ \A p \in Awarded \ Outdated : awards[p].score = results[awards[p].user].score
    /\ \A p, q \in Awarded : prizes[p] < prizes[q] =>
          /\ awards[p].user # awards[q].user
          /\ awards[p].score >= awards[q].score
          /\ {p, q} \cap Outdated = {} =>
                ~ Better(results[awards[q].user], results[awards[p].user])

\* A job that is due or will be leads to awards, unless all prizes or the
\* contest are removed meanwhile or its attempts are used up.
PrizesAreAwarded ==
    (job.state = "waiting" /\ prizes # NoPrizes /\ Submitted # {}) ~>
        (Awarded # {} \/ prizes = NoPrizes \/ job.state = "failed")
=============================================================================
