----------------------------- MODULE PrizeProofs -----------------------------
(***************************************************************************)
(* Theorems about PrizeAward, for every value of its constants.            *)
(***************************************************************************)
EXTENDS PrizeAward, FiniteSetTheorems, TLAPS

-----------------------------------------------------------------------------
(* Type correctness.                                                       *)

\* Only an active job has a holder, and one that may run has an attempt left.
JobShape(j) ==
    /\ j \in Job
    /\ IF j.state = "active" THEN j.holder \in Workers ELSE j.holder = None
    /\ j.state \in {"waiting", "active"} => j.throws < Attempts

\* What a run holds, by the call it waits for.
RunShape(q) ==
    /\ q \in Run
    /\ q.pc = "snapshot" => q.listed \in PrizeTable
    /\ q.pc = "insert" => q.rows \in Awards

RequestShape(q) ==
    /\ q \in Request
    /\ q.pc = "insert" => q.rank \in Ranks
    /\ q.pc # "idle" => q.end \in Times

PInv ==
    /\ TypeOK
    /\ JobShape(job)
    /\ \A w \in Workers : RunShape(run[w])
    /\ \A r \in Requests : RequestShape(req[r])

LEMMA NoneFacts ==
    /\ None \notin Users /\ None \notin Workers /\ None \notin Ranks /\ None \notin Times
    /\ None \notin Contests /\ None \notin Result /\ None \notin Award
BY NoneAssumption

LEMMA ShapesAtRest == JobShape(NoJob) /\ RunShape(NoRun) /\ RequestShape(Idle)
BY ConstantsAssumption DEF JobShape, RunShape, RequestShape, Job, NoJob, Run, NoRun, Request, Idle, Times

LEMMA RequestStep ==
    ASSUME PInv, NEW r \in Requests, NEW q, RequestShape(q), req' = [req EXCEPT ![r] = q]
    PROVE  req' \in [Requests -> Request] /\ \A s \in Requests : RequestShape(req'[s])
BY DEF PInv, TypeOK, RequestShape

LEMMA AnswerStep ==
    ASSUME PInv, NEW r \in Requests, Answer(r)
    PROVE  req' \in [Requests -> Request] /\ \A s \in Requests : RequestShape(req'[s])
BY RequestStep, ShapesAtRest DEF Answer

LEMMA RunStep ==
    ASSUME PInv, NEW w \in Workers, NEW q, RunShape(q), run' = [run EXCEPT ![w] = q]
    PROVE  run' \in [Workers -> Run] /\ \A v \in Workers : RunShape(run'[v])
BY DEF PInv, TypeOK, RunShape

LEMMA CompleteStep ==
    ASSUME PInv, NEW w \in Workers, Complete(w)
    PROVE  /\ JobShape(job')
           /\ run' \in [Workers -> Run] /\ \A v \in Workers : RunShape(run'[v])
<1>1. JobShape(job')
  BY NoneFacts DEF PInv, Complete, JobShape, Job
<1>2. QED
  BY <1>1, RunStep, ShapesAtRest DEF Complete

LEMMA ThrowStep ==
    ASSUME PInv, NEW w \in Workers, Throw(w)
    PROVE  /\ JobShape(job')
           /\ run' \in [Workers -> Run] /\ \A v \in Workers : RunShape(run'[v])
<1>1. CASE job.holder # w
  BY <1>1, RunStep, ShapesAtRest DEF Throw, PInv
<1>2. CASE job.holder = w
  <2>1. job.state = "active" /\ job \in Job /\ job.throws < Attempts
    BY <1>2, NoneFacts DEF PInv, JobShape
  <2>2. job.throws + 1 \in 0..Attempts
    BY <2>1, ConstantsAssumption DEF Job
  <2>3. JobShape(job')
    BY <1>2, <2>1, <2>2, ConstantsAssumption DEF Throw, JobShape, Job
  <2>4. QED
    BY <2>3, RunStep, ShapesAtRest DEF Throw
<1>3. QED
  BY <1>1, <1>2

LEMMA AwardType ==
    ASSUME PInv, NEW u \in Submitted, NEW t \in Times
    PROVE  AwardTo(u, t) \in Award
<1>1. u \in Users /\ results[u] \in Result
  BY DEF Submitted, PInv, TypeOK
<1>2. QED
  BY <1>1 DEF AwardTo, Award, Result

LEMMA AssignType ==
    ASSUME PInv, NEW listed, NEW pl, DOMAIN pl \subseteq Submitted, NEW t \in Times
    PROVE  Assign(listed, pl, t) \in Awards
<1>1. ASSUME NEW p \in PrizeIds, Winner(listed, pl, p) # {}
      PROVE  AwardTo(CHOOSE u \in Winner(listed, pl, p) : TRUE, t) \in Award
  <2>1. (CHOOSE u \in Winner(listed, pl, p) : TRUE) \in Winner(listed, pl, p)
    BY <1>1
  <2>2. (CHOOSE u \in Winner(listed, pl, p) : TRUE) \in Submitted
    BY <2>1 DEF Winner
  <2>3. QED
    BY <2>2, AwardType
<1>2. QED
  BY <1>1 DEF Assign, Awards

LEMMA PInvInit == Init => PInv
BY ConstantsAssumption, ShapesAtRest
   DEF Init, PInv, TypeOK, Times, PrizeTable, NoPrizes, Awards, NoAwards, JobShape, RunShape, RequestShape

LEMMA PInvStep == PInv /\ [Next]_vars => PInv'
<1> SUFFICES ASSUME PInv, [Next]_vars PROVE PInv'
  OBVIOUS
<1> USE DEF TypeOK
<1>1. ASSUME NEW r \in Requests, NEW k \in Ranks, CreatePrize(r, k) PROVE PInv'
  <2>1. PICK c \in served : req' = [req EXCEPT ![r] = [pc |-> "insert", rank |-> k, end |-> c.end]]
    BY <1>1 DEF CreatePrize
  <2>2. c.end \in Times
    BY <2>1, ConstantsAssumption DEF PInv, Contest
  <2>3. RequestShape([pc |-> "insert", rank |-> k, end |-> c.end])
    BY <2>2 DEF RequestShape, Request
  <2>4. QED
    BY <1>1, <2>1, <2>3, RequestStep DEF CreatePrize, PInv
<1>2. ASSUME NEW r \in Requests, InsertPrize(r) PROVE PInv'
  <2>1. CASE contest # None /\ \A p \in PrizeIds : prizes[p] # req[r].rank
    <3> DEFINE q == [req[r] EXCEPT !.pc = "schedule"]
    <3>1. PICK p \in PrizeIds \ used :
              /\ prizes' = [prizes EXCEPT ![p] = req[r].rank]
              /\ used' = used \cup {p}
              /\ req' = [req EXCEPT ![r].pc = "schedule"]
      BY <1>2, <2>1 DEF InsertPrize
    <3>2. RequestShape(q)
      BY <1>2 DEF InsertPrize, PInv, RequestShape, Request
    <3>3. req' = [req EXCEPT ![r] = q]
      BY <3>1
    <3>4. req[r].rank \in Ranks
      BY <1>2 DEF InsertPrize, PInv, RequestShape
    <3>5. /\ prizes' \in PrizeTable
          /\ \A o \in PrizeIds : prizes'[o] = IF o = p THEN req[r].rank ELSE prizes[o]
      BY <3>1, <3>4 DEF PInv, PrizeTable
    <3>6. /\ used' \in SUBSET PrizeIds
          /\ \A o \in PrizeIds : /\ awards[o] # None => prizes'[o] # None
                                 /\ prizes'[o] # None => o \in used'
      BY <3>1, <3>4, <3>5, NoneFacts DEF PInv
    <3>7. QED
      BY <1>2, <3>2, <3>3, <3>5, <3>6, RequestStep DEF InsertPrize, PInv
  <2>2. CASE ~ (contest # None /\ \A p \in PrizeIds : prizes[p] # req[r].rank)
    BY <1>2, <2>2, AnswerStep DEF InsertPrize, PInv
  <2>3. QED
    BY <2>1, <2>2
<1>3. ASSUME NEW r \in Requests, scheduleAward(r) PROVE PInv'
  <2>1. Due(req[r].end) \in Times
    BY <1>3 DEF scheduleAward, PInv, RequestShape, Due
  <2> DEFINE j == [NoJob EXCEPT !.state = "waiting", !.due = Due(req[r].end)]
  <2>2. JobShape(j)
    <3>1. NoJob \in Job /\ NoJob.throws = 0 /\ NoJob.holder = None
      BY ShapesAtRest DEF JobShape, NoJob
    <3>2. j.state = "waiting" /\ j.throws = 0 /\ j.holder = None
      BY <3>1 DEF Job
    <3>3. j \in Job
      BY <2>1, <3>1 DEF Job
    <3>4. QED
      BY <3>2, <3>3, ConstantsAssumption DEF JobShape
  <2>3. JobShape(job')
    BY <1>3, <2>2 DEF scheduleAward, PInv
  <2>4. QED
    BY <1>3, <2>3, AnswerStep DEF scheduleAward, PInv, JobShape
<1>4. ASSUME NEW r \in Requests, AbortRequest(r) PROVE PInv'
  BY <1>4, AnswerStep DEF AbortRequest, PInv
<1>5. ASSUME NEW p \in PrizeIds, RemovePrize(p) PROVE PInv'
  <2>1. prizes' \in PrizeTable /\ awards' \in Awards
    BY <1>5 DEF RemovePrize, PInv, PrizeTable, Awards
  <2>2. \A o \in PrizeIds : /\ prizes'[o] = IF o = p THEN None ELSE prizes[o]
                            /\ awards'[o] = IF o = p THEN None ELSE awards[o]
    BY <1>5 DEF RemovePrize, PInv, PrizeTable, Awards
  <2>3. QED
    BY <1>5, <2>1, <2>2 DEF RemovePrize, PInv
<1>6. ASSUME NEW w \in Workers, TakeJob(w) PROVE PInv'
  <2> DEFINE q == [NoRun EXCEPT !.pc = "prizes"]
  <2>1. RunShape(q)
    BY DEF RunShape, Run, NoRun
  <2>2. JobShape(job')
    BY <1>6 DEF TakeJob, PInv, JobShape, Job
  <2>3. run' = [run EXCEPT ![w] = q]
    BY <1>6 DEF TakeJob
  <2>4. QED
    BY <1>6, <2>1, <2>2, <2>3, RunStep DEF TakeJob, PInv, JobShape
<1>7. ASSUME NEW w \in Workers, ReadPrizes(w) PROVE PInv'
  <2>1. CASE prizes = NoPrizes
    BY <1>7, <2>1, CompleteStep DEF ReadPrizes, PInv, JobShape
  <2>2. CASE prizes # NoPrizes
    <3> DEFINE q == [run[w] EXCEPT !.pc = "snapshot", !.listed = prizes]
    <3>1. RunShape(q)
      BY DEF PInv, RunShape, Run
    <3>2. run' = [run EXCEPT ![w] = q]
      BY <1>7, <2>2 DEF ReadPrizes
    <3>3. QED
      BY <1>7, <2>2, <3>1, <3>2, RunStep DEF ReadPrizes, PInv
  <2>3. QED
    BY <2>1, <2>2
<1>8. ASSUME NEW w \in Workers, Snapshot(w) PROVE PInv'
  <2>1. CASE NothingToAward
    BY <1>8, <2>1, CompleteStep DEF Snapshot, PInv, JobShape
  <2>2. CASE ~ NothingToAward
    <3>1. PICK pl \in Placings :
              run' = [run EXCEPT ![w].pc = "insert", ![w].rows = Assign(run[w].listed, pl, now)]
      BY <1>8, <2>2 DEF Snapshot
    <3> DEFINE q == [run[w] EXCEPT !.pc = "insert", !.rows = Assign(run[w].listed, pl, now)]
    <3>2. Assign(run[w].listed, pl, now) \in Awards
      BY AssignType DEF PInv, Placings
    <3>3. RunShape(q)
      BY <3>2 DEF PInv, RunShape, Run
    <3>4. run' = [run EXCEPT ![w] = q]
      BY <3>1
    <3>5. QED
      BY <1>8, <2>2, <3>3, <3>4, RunStep DEF Snapshot, PInv
  <2>3. QED
    BY <2>1, <2>2
<1>9. ASSUME NEW w \in Workers, InsertAwards(w) PROVE PInv'
  <2> DEFINE new == run[w].rows
             P == {p \in PrizeIds : new[p] # None}
  <2>1. CASE Insertable(P)
    <3> DEFINE q == [run[w] EXCEPT !.pc = "bust"]
    <3>1. RunShape(q)
      BY DEF PInv, RunShape, Run
    <3>2. run' = [run EXCEPT ![w] = q]
      BY <1>9, <2>1 DEF InsertAwards
    <3>3. awards' = [p \in PrizeIds |-> IF p \in P THEN new[p] ELSE awards[p]]
      BY <1>9, <2>1 DEF InsertAwards
    <3>4. new \in Awards
      BY <1>9 DEF InsertAwards, PInv, RunShape
    <3>5. awards' \in Awards
      BY <3>3, <3>4 DEF PInv, Awards
    <3>6. \A p \in PrizeIds : awards'[p] # None => prizes[p] # None
      BY <2>1, <3>3 DEF PInv, Insertable
    <3>7. QED
      BY <1>9, <2>1, <3>1, <3>2, <3>5, <3>6, RunStep DEF InsertAwards, PInv
  <2>2. CASE ~ Insertable(P)
    BY <1>9, <2>2, ThrowStep DEF InsertAwards, PInv, JobShape
  <2>3. QED
    BY <2>1, <2>2
<1>10. ASSUME NEW w \in Workers, Bust(w) PROVE PInv'
  BY <1>10, CompleteStep DEF Bust, PInv, JobShape
<1>11. ASSUME NEW w \in Workers, RunFails(w) PROVE PInv'
  BY <1>11, ThrowStep DEF RunFails, PInv, JobShape
<1>12. ASSUME NEW w \in Workers, Crash(w) PROVE PInv'
  BY <1>12, RunStep, ShapesAtRest DEF Crash, PInv
<1>13. CASE Stall
  <2>1. JobShape(job')
    <3>1. job.throws < Attempts /\ job \in Job
      BY <1>13 DEF Stall, PInv, JobShape
    <3>2. CASE job.stalls < MaxStalls
      <4>1. job' = [job EXCEPT !.state = "waiting", !.stalls = job.stalls + 1, !.holder = None]
        BY <1>13, <3>2 DEF Stall
      <4>2. job.stalls + 1 \in 0..MaxStalls
        BY <3>1, <3>2, ConstantsAssumption DEF Job
      <4>3. QED
        BY <3>1, <4>1, <4>2 DEF JobShape, Job
    <3>3. CASE ~ (job.stalls < MaxStalls)
      <4>1. job' = [job EXCEPT !.state = "failed", !.stalls = job.stalls, !.holder = None]
        BY <1>13, <3>3 DEF Stall
      <4>2. QED
        BY <3>1, <4>1 DEF JobShape, Job
    <3>4. QED
      BY <3>2, <3>3
  <2>2. QED
    BY <1>13, <2>1 DEF Stall, PInv, JobShape
<1>14. CASE Forget
  BY <1>14, ShapesAtRest DEF Forget, PInv, JobShape
<1>15. CASE Tick
  <2>1. now' \in Times
    BY <1>15, ConstantsAssumption DEF Tick, PInv, Times
  <2>2. QED
    BY <1>15, <2>1 DEF Tick, PInv
<1>16. ASSUME NEW u \in Users, NEW s \in Scores, NEW t \in Times, SubmitResult(u, s, t) PROVE PInv'
  <2>1. results' \in [Users -> Result \cup {None}] /\ redone' \in SUBSET Users
    BY <1>16 DEF SubmitResult, PInv, Result
  <2>2. QED
    BY <1>16, <2>1 DEF SubmitResult, PInv
<1>17. ASSUME NEW c \in Contests, UpdateContest(c) PROVE PInv'
  BY <1>17 DEF UpdateContest, PInv
<1>18. CASE RemoveContest
  BY <1>18 DEF RemoveContest, PInv, PrizeTable, NoPrizes, Awards, NoAwards
<1>19. CASE UNCHANGED vars
  BY <1>19 DEF vars, PInv
<1>20. QED
  BY <1>1, <1>2, <1>3, <1>4, <1>5, <1>6, <1>7, <1>8, <1>9, <1>10, <1>11, <1>12, <1>13, <1>14,
     <1>15, <1>16, <1>17, <1>18, <1>19 DEF Next, Admin, runAward

\* Every reachable state is well typed; in particular an award never outlives
\* its prize, and a job that may run has an attempt left.
THEOREM TypeCorrect == Spec => []TypeOK
<1>1. Spec => []PInv
  BY PInvInit, PInvStep, PTL DEF Spec
<1>2. QED
  BY <1>1, PTL DEF PInv

\* A prize is won once, however many runs of the job there are.
THEOREM WonOnce == Spec => PrizeWonOnce
<1> DEFINE Once == \A p \in Awarded : \/ awards'[p] = awards[p]
                                      \/ awards'[p] = None /\ prizes'[p] = None
<1>1. PInv /\ [Next]_vars => Once
  <2> SUFFICES ASSUME PInv, [Next]_vars PROVE Once
    OBVIOUS
  <2>1. ASSUME NEW p \in PrizeIds, RemovePrize(p) PROVE Once
    BY <2>1 DEF RemovePrize, Awarded, PInv, TypeOK, Awards, PrizeTable
  <2>2. ASSUME NEW w \in Workers, InsertAwards(w) PROVE Once
    BY <2>2 DEF InsertAwards, Insertable, Awarded
  <2>3. CASE RemoveContest
    BY <2>3 DEF RemoveContest, Awarded, NoAwards, NoPrizes
  <2>4. CASE UNCHANGED awards
    BY <2>4
  <2>5. QED
    BY <2>1, <2>2, <2>3, <2>4
       DEF Next, Admin, runAward, vars, CreatePrize, InsertPrize, scheduleAward, AbortRequest,
           TakeJob, RunFails, Crash, Stall, Forget, ReadPrizes, Snapshot, Bust, Tick,
           SubmitResult, UpdateContest
<1>2. Spec => []PInv
  BY PInvInit, PInvStep, PTL DEF Spec
<1>3. Spec => [][Once]_vars
  BY <1>1, <1>2, PTL DEF Spec
<1>4. QED
  BY <1>3 DEF PrizeWonOnce

-----------------------------------------------------------------------------
(* Awards and the end of the contest.                                      *)

\* Some contest row that existed had ended by t.
Over(t, rows) == \E c \in rows : c.end <= t

RowsOver(q, rows) ==
    q.pc = "insert" => \A p \in PrizeIds : q.rows[p] # None => Over(q.rows[p].at, rows)

AInv ==
    /\ AwardedAfterAnEnd
    /\ job.state \in {"waiting", "active"} => Over(job.due, served)
    /\ job.state = "active" => job.due <= now
    /\ \A w \in Workers : run[w].pc # "idle" => Over(now, served)
    /\ \A w \in Workers : RowsOver(run[w], served)
    /\ \A r \in Requests : req[r].pc # "idle" => Over(req[r].end, served)

LEMMA AInvInit == Init => AInv
BY DEF Init, AInv, AwardedAfterAnEnd, Awarded, NoAwards, NoJob, NoRun, RowsOver, Idle

LEMMA OverLater ==
    ASSUME NEW s, NEW t \in Times, NEW u \in Times, s \subseteq Contests, Over(t, s), t <= u
    PROVE  Over(u, s)
BY ConstantsAssumption DEF Over, Contest, Times

LEMMA OverMore ==
    ASSUME NEW s, NEW s2, s \subseteq s2, NEW t, Over(t, s)
    PROVE  Over(t, s2)
BY DEF Over

\* A step of run w, which leaves the job alone.
LEMMA ARunStep ==
    ASSUME PInv, AInv, NEW w \in Workers, NEW q, RowsOver(q, served),
           q.pc # "idle" => Over(now, served),
           run' = [run EXCEPT ![w] = q],
           UNCHANGED <<now, served, awards, job, req>>
    PROVE  AInv'
<1>1. \A v \in Workers : run'[v] = IF v = w THEN q ELSE run[v]
  BY DEF PInv, TypeOK
<1>2. /\ \A v \in Workers : run'[v].pc # "idle" => Over(now, served)
      /\ \A v \in Workers : RowsOver(run'[v], served)
  BY <1>1 DEF AInv
<1>3. QED
  BY <1>2 DEF AInv, AwardedAfterAnEnd, Awarded

\* A run that ends, with whatever becomes of the job.
LEMMA ARunEnds ==
    ASSUME PInv, AInv, NEW w \in Workers, run' = [run EXCEPT ![w] = NoRun],
           job'.state # "active" \/ job' = job, job'.due = job.due,
           job'.state \in {"waiting", "active"} => job.state \in {"waiting", "active"},
           UNCHANGED <<now, served, awards, req>>
    PROVE  AInv'
<1>1. \A v \in Workers : run'[v] = IF v = w THEN NoRun ELSE run[v]
  BY DEF PInv, TypeOK
<1>2. NoRun.pc = "idle" /\ RowsOver(NoRun, served)
  BY DEF NoRun, RowsOver
<1>3. /\ \A v \in Workers : run'[v].pc # "idle" => Over(now, served)
      /\ \A v \in Workers : RowsOver(run'[v], served)
  BY <1>1, <1>2 DEF AInv
<1>4. job'.state \in {"waiting", "active"} => Over(job'.due, served)
  BY DEF AInv
<1>5. job'.state = "active" => job'.due <= now
  BY DEF AInv
<1>6. QED
  BY <1>3, <1>4, <1>5 DEF AInv, AwardedAfterAnEnd, Awarded

LEMMA ACompletes ==
    ASSUME PInv, AInv, NEW w \in Workers, Complete(w), UNCHANGED <<now, served, awards, req>>
    PROVE  AInv'
BY ARunEnds, NoneFacts DEF Complete, PInv, TypeOK, Job

LEMMA AThrows ==
    ASSUME PInv, AInv, NEW w \in Workers, Throw(w), UNCHANGED <<now, served, awards, req>>
    PROVE  AInv'
<1>1. CASE job.holder # w
  BY <1>1, ARunEnds DEF Throw
<1>2. CASE job.holder = w
  <2>1. job \in Job /\ job.state = "active"
    BY <1>2, NoneFacts DEF PInv, TypeOK, JobShape
  <2>2. job'.state \in {"waiting", "failed"} /\ job'.due = job.due
    BY <1>2, <2>1 DEF Throw, Job
  <2>3. QED
    BY <2>1, <2>2, ARunEnds DEF Throw
<1>3. QED
  BY <1>1, <1>2

\* A step of request r, which leaves the runs alone.
LEMMA ARequestStep ==
    ASSUME PInv, AInv, NEW r \in Requests, NEW q, q.pc # "idle" => Over(q.end, served),
           req' = [req EXCEPT ![r] = q],
           UNCHANGED <<now, served, awards, job, run>>
    PROVE  AInv'
<1>1. \A s \in Requests : req'[s] = IF s = r THEN q ELSE req[s]
  BY DEF PInv, TypeOK
<1>2. \A s \in Requests : req'[s].pc # "idle" => Over(req'[s].end, served)
  BY <1>1 DEF AInv
<1>3. QED
  BY <1>2 DEF AInv, AwardedAfterAnEnd, Awarded

LEMMA AssignedAt ==
    ASSUME NEW listed, NEW pl, NEW t, NEW p \in PrizeIds, Assign(listed, pl, t)[p] # None
    PROVE  Assign(listed, pl, t)[p].at = t
BY DEF Assign, AwardTo

LEMMA AInvStep == PInv /\ PInv' /\ AInv /\ [Next]_vars => AInv'
<1> SUFFICES ASSUME PInv, PInv', AInv, [Next]_vars PROVE AInv'
  OBVIOUS
<1>1. ASSUME NEW r \in Requests, NEW k \in Ranks, CreatePrize(r, k) PROVE AInv'
  <2>1. PICK c \in served : req' = [req EXCEPT ![r] = [pc |-> "insert", rank |-> k, end |-> c.end]]
    BY <1>1 DEF CreatePrize
  <2>2. Over(c.end, served)
    BY <2>1, ConstantsAssumption DEF Over, PInv, TypeOK, Contest, Times
  <2>3. QED
    BY <1>1, <2>1, <2>2, ARequestStep DEF CreatePrize
<1>2. ASSUME NEW r \in Requests, InsertPrize(r) PROVE AInv'
  <2>1. Over(req[r].end, served)
    BY <1>2 DEF InsertPrize, AInv
  <2>2. CASE req' = [req EXCEPT ![r].pc = "schedule"]
    <3> DEFINE q == [req[r] EXCEPT !.pc = "schedule"]
    <3>1. q.end = req[r].end
      BY DEF PInv, TypeOK, Request
    <3>2. req' = [req EXCEPT ![r] = q]
      BY <2>2
    <3>3. QED
      BY <1>2, <2>1, <3>1, <3>2, ARequestStep DEF InsertPrize
  <2>3. CASE Answer(r)
    BY <1>2, <2>3, ARequestStep DEF Answer, Idle, InsertPrize
  <2>4. QED
    BY <1>2, <2>2, <2>3 DEF InsertPrize
<1>3. ASSUME NEW r \in Requests, scheduleAward(r) PROVE AInv'
  <2>1. req[r].end \in Times /\ now \in Times /\ Over(req[r].end, served) /\ served \subseteq Contests
    BY <1>3 DEF scheduleAward, PInv, TypeOK, RequestShape, AInv
  <2>2. Over(Due(req[r].end), served)
    BY <2>1, OverLater, ConstantsAssumption DEF Due, Times
  <2>3. (job'.state = "waiting" /\ job'.due = Due(req[r].end)) \/ job' = job
    BY <1>3 DEF scheduleAward, NoJob
  <2>4. \A s \in Requests : req'[s].pc # "idle" => req'[s] = req[s]
    BY <1>3 DEF scheduleAward, Answer, Idle, PInv, TypeOK
  <2>5. QED
    BY <1>3, <2>2, <2>3, <2>4 DEF scheduleAward, AInv, AwardedAfterAnEnd, Awarded
<1>4. ASSUME NEW r \in Requests, AbortRequest(r) PROVE AInv'
  BY <1>4, ARequestStep DEF AbortRequest, Answer, Idle
<1>5. ASSUME NEW p \in PrizeIds, RemovePrize(p) PROVE AInv'
  <2>1. \A o \in PrizeIds : awards'[o] # None => awards'[o] = awards[o]
    BY <1>5 DEF RemovePrize, PInv, TypeOK, Awards
  <2>2. QED
    BY <1>5, <2>1 DEF RemovePrize, AInv, AwardedAfterAnEnd, Awarded
<1>6. ASSUME NEW w \in Workers, TakeJob(w) PROVE AInv'
  <2>1. Over(now, served)
    BY <1>6, OverLater DEF TakeJob, AInv, PInv, TypeOK, Job
  <2>2. job'.state = "active" /\ job'.due = job.due
    BY <1>6 DEF TakeJob, PInv, TypeOK, Job
  <2>3. \A v \in Workers : run'[v] = IF v = w THEN [NoRun EXCEPT !.pc = "prizes"] ELSE run[v]
    BY <1>6 DEF TakeJob, PInv, TypeOK
  <2>4. RowsOver([NoRun EXCEPT !.pc = "prizes"], served)
    BY DEF RowsOver, NoRun
  <2>5. \A v \in Workers : RowsOver(run'[v], served)
    BY <2>3, <2>4 DEF AInv
  <2>6. QED
    BY <1>6, <2>1, <2>2, <2>5 DEF TakeJob, AInv, AwardedAfterAnEnd, Awarded
<1>7. ASSUME NEW w \in Workers, ReadPrizes(w) PROVE AInv'
  <2>1. CASE prizes = NoPrizes
    BY <1>7, <2>1, ACompletes DEF ReadPrizes
  <2>2. CASE prizes # NoPrizes
    <3> DEFINE q == [run[w] EXCEPT !.pc = "snapshot", !.listed = prizes]
    <3>1. q.pc = "snapshot"
      BY DEF PInv, TypeOK, Run
    <3>2. Over(now, served)
      BY <1>7 DEF ReadPrizes, AInv
    <3>3. run' = [run EXCEPT ![w] = q]
      BY <1>7, <2>2 DEF ReadPrizes
    <3>4. RowsOver(q, served)
      BY <3>1 DEF RowsOver
    <3>5. QED
      BY <1>7, <2>2, <3>2, <3>3, <3>4, ARunStep DEF ReadPrizes
  <2>3. QED
    BY <2>1, <2>2
<1>8. ASSUME NEW w \in Workers, Snapshot(w) PROVE AInv'
  <2>1. CASE NothingToAward
    BY <1>8, <2>1, ACompletes DEF Snapshot
  <2>2. CASE ~ NothingToAward
    <3>1. PICK pl \in Placings :
              run' = [run EXCEPT ![w].pc = "insert", ![w].rows = Assign(run[w].listed, pl, now)]
      BY <1>8, <2>2 DEF Snapshot
    <3> DEFINE q == [run[w] EXCEPT !.pc = "insert", !.rows = Assign(run[w].listed, pl, now)]
    <3>2. Over(now, served)
      BY <1>8 DEF Snapshot, AInv
    <3>3. q.rows = Assign(run[w].listed, pl, now)
      BY DEF PInv, TypeOK, Run
    <3>4. RowsOver(q, served)
      BY <3>2, <3>3, AssignedAt DEF RowsOver
    <3>5. run' = [run EXCEPT ![w] = q]
      BY <3>1
    <3>6. QED
      BY <1>8, <2>2, <3>2, <3>4, <3>5, ARunStep DEF Snapshot
  <2>3. QED
    BY <2>1, <2>2
<1>9. ASSUME NEW w \in Workers, InsertAwards(w) PROVE AInv'
  <2> DEFINE new == run[w].rows
             P == {p \in PrizeIds : new[p] # None}
  <2>1. CASE Insertable(P)
    <3>1. awards' = [p \in PrizeIds |-> IF p \in P THEN new[p] ELSE awards[p]]
      BY <1>9, <2>1 DEF InsertAwards
    <3>2. \A p \in P : Over(new[p].at, served)
      BY <1>9 DEF InsertAwards, AInv, RowsOver
    <3>3. AwardedAfterAnEnd'
      BY <1>9, <3>1, <3>2 DEF InsertAwards, AInv, AwardedAfterAnEnd, Awarded, Over
    <3>4. \A v \in Workers : run'[v] = IF v = w THEN [run[w] EXCEPT !.pc = "bust"] ELSE run[v]
      BY <1>9, <2>1 DEF InsertAwards, PInv, TypeOK
    <3>5. [run[w] EXCEPT !.pc = "bust"].pc = "bust"
      BY DEF PInv, TypeOK, Run
    <3>6. /\ \A v \in Workers : run'[v].pc # "idle" => Over(now, served)
          /\ \A v \in Workers : RowsOver(run'[v], served)
      BY <1>9, <3>4, <3>5 DEF AInv, InsertAwards, RowsOver
    <3>7. UNCHANGED <<now, served, job, req>>
      BY <1>9, <2>1 DEF InsertAwards
    <3>8. QED
      BY <3>3, <3>6, <3>7 DEF AInv
  <2>2. CASE ~ Insertable(P)
    BY <1>9, <2>2, AThrows DEF InsertAwards
  <2>3. QED
    BY <2>1, <2>2
<1>10. ASSUME NEW w \in Workers, Bust(w) PROVE AInv'
  BY <1>10, ACompletes DEF Bust
<1>11. ASSUME NEW w \in Workers, RunFails(w) PROVE AInv'
  BY <1>11, AThrows DEF RunFails
<1>12. ASSUME NEW w \in Workers, Crash(w) PROVE AInv'
  BY <1>12, ARunEnds DEF Crash
<1>13. CASE Stall
  <2>1. job'.state # "active" /\ job'.due = job.due
    BY <1>13 DEF Stall, PInv, TypeOK, Job
  <2>2. QED
    BY <1>13, <2>1 DEF Stall, AInv, AwardedAfterAnEnd, Awarded
<1>14. CASE Forget
  BY <1>14 DEF Forget, NoJob, AInv, AwardedAfterAnEnd, Awarded
<1>15. CASE Tick
  <2>1. now \in Times /\ now' \in Times /\ now <= now' /\ served \subseteq Contests
    BY <1>15 DEF Tick, PInv, TypeOK, Times
  <2>2. Over(now, served) => Over(now', served)
    BY <2>1, OverLater
  <2>3. job.due \in Times
    BY DEF PInv, TypeOK, Job
  <2>4. job.state = "active" => job.due <= now'
    BY <2>1, <2>3 DEF AInv, Times
  <2>5. QED
    BY <1>15, <2>2, <2>4 DEF Tick, AInv, AwardedAfterAnEnd, Awarded
<1>16. ASSUME NEW u \in Users, NEW s \in Scores, NEW t \in Times, SubmitResult(u, s, t) PROVE AInv'
  BY <1>16 DEF SubmitResult, AInv, AwardedAfterAnEnd, Awarded
<1>17. ASSUME NEW c \in Contests, UpdateContest(c) PROVE AInv'
  <2>1. \A t : Over(t, served) => Over(t, served')
    BY <1>17, OverMore DEF UpdateContest
  <2>2. AwardedAfterAnEnd'
    BY <1>17 DEF UpdateContest, AInv, AwardedAfterAnEnd, Awarded
  <2>3. \A q : RowsOver(q, served) => RowsOver(q, served')
    BY <2>1 DEF RowsOver
  <2>4. QED
    BY <1>17, <2>1, <2>2, <2>3 DEF UpdateContest, AInv
<1>18. CASE RemoveContest
  BY <1>18 DEF RemoveContest, AInv, AwardedAfterAnEnd, Awarded, NoAwards
<1>19. CASE UNCHANGED vars
  BY <1>19 DEF vars, AInv, AwardedAfterAnEnd, Awarded
<1>20. QED
  BY <1>1, <1>2, <1>3, <1>4, <1>5, <1>6, <1>7, <1>8, <1>9, <1>10, <1>11, <1>12, <1>13, <1>14,
     <1>15, <1>16, <1>17, <1>18, <1>19 DEF Next, Admin, runAward

\* No award is made before an end that the contest had at some time.
THEOREM AfterAnEnd == Spec => []AwardedAfterAnEnd
<1>1. Spec => []PInv
  BY PInvInit, PInvStep, PTL DEF Spec
<1>2. Spec => []AInv
  BY <1>1, AInvInit, AInvStep, PTL DEF Spec
<1>3. QED
  BY <1>2, PTL DEF AInv

-----------------------------------------------------------------------------
(* One run at a time.                                                      *)

\* The only run is that of the worker that holds the job, and it is about to
\* insert awards only where there are none.
SInv ==
    /\ \A w \in Workers : run[w].pc # "idle" => job.state = "active" /\ job.holder = w
    /\ \A w \in Workers : run[w].pc = "insert" => Awarded = {}

LEMMA SInvInit == Init => SInv
BY DEF Init, SInv, NoRun

\* Once the holder has ended its run there is none.
LEMMA SEnds ==
    ASSUME PInv, SInv, NEW w \in Workers, run[w].pc # "idle", run' = [run EXCEPT ![w] = NoRun]
    PROVE  \A v \in Workers : run'[v].pc = "idle"
BY DEF PInv, TypeOK, SInv, NoRun

LEMMA SInvIdle ==
    ASSUME \A v \in Workers : run'[v].pc = "idle"
    PROVE  SInv'
BY DEF SInv

\* A step of the holder that keeps the job.
LEMMA SRunStep ==
    ASSUME PInv, SInv, NEW w \in Workers, run[w].pc # "idle", NEW q,
           run' = [run EXCEPT ![w] = q], q.pc = "insert" => Awarded' = {}, UNCHANGED job
    PROVE  SInv'
<1>1. \A v \in Workers : run'[v] = IF v = w THEN q ELSE run[v]
  BY DEF PInv, TypeOK
<1>2. \A v \in Workers : v # w => run[v].pc = "idle"
  BY DEF SInv
<1>3. QED
  BY <1>1, <1>2 DEF SInv

LEMMA SInvStep ==
    ASSUME Overlap = FALSE
    PROVE  PInv /\ SInv /\ [Next]_vars => SInv'
<1> SUFFICES ASSUME PInv, SInv, [Next]_vars PROVE SInv'
  OBVIOUS
<1>1. ASSUME NEW w \in Workers, TakeJob(w) PROVE SInv'
  <2>1. \A v \in Workers : run'[v] = IF v = w THEN [NoRun EXCEPT !.pc = "prizes"] ELSE run[v]
    BY <1>1 DEF TakeJob, PInv, TypeOK
  <2>2. \A v \in Workers : run[v].pc = "idle"
    BY <1>1 DEF TakeJob, SInv
  <2>3. job'.state = "active" /\ job'.holder = w
    BY <1>1 DEF TakeJob, PInv, TypeOK, Job
  <2>4. [NoRun EXCEPT !.pc = "prizes"].pc = "prizes"
    BY DEF NoRun
  <2>5. QED
    BY <2>1, <2>2, <2>3, <2>4 DEF SInv
<1>2. ASSUME NEW w \in Workers, ReadPrizes(w) PROVE SInv'
  <2>1. CASE prizes = NoPrizes
    BY <1>2, <2>1, SEnds, SInvIdle DEF ReadPrizes, Complete
  <2>2. CASE prizes # NoPrizes
    <3> DEFINE q == [run[w] EXCEPT !.pc = "snapshot", !.listed = prizes]
    <3>1. q.pc = "snapshot"
      BY DEF PInv, TypeOK, Run
    <3>2. run' = [run EXCEPT ![w] = q]
      BY <1>2, <2>2 DEF ReadPrizes
    <3>3. QED
      BY <1>2, <2>2, <3>1, <3>2, SRunStep DEF ReadPrizes
  <2>3. QED
    BY <2>1, <2>2
<1>3. ASSUME NEW w \in Workers, Snapshot(w) PROVE SInv'
  <2>1. CASE NothingToAward
    BY <1>3, <2>1, SEnds, SInvIdle DEF Snapshot, Complete
  <2>2. CASE ~ NothingToAward
    <3>1. PICK pl \in Placings :
              run' = [run EXCEPT ![w].pc = "insert", ![w].rows = Assign(run[w].listed, pl, now)]
      BY <1>3, <2>2 DEF Snapshot
    <3> DEFINE q == [run[w] EXCEPT !.pc = "insert", !.rows = Assign(run[w].listed, pl, now)]
    <3>2. Awarded' = {}
      BY <1>3, <2>2 DEF Snapshot, NothingToAward, Awarded
    <3>3. run' = [run EXCEPT ![w] = q]
      BY <3>1
    <3>4. QED
      BY <1>3, <2>2, <3>2, <3>3, SRunStep DEF Snapshot
  <2>3. QED
    BY <2>1, <2>2
<1>4. ASSUME NEW w \in Workers, InsertAwards(w) PROVE SInv'
  <2>1. CASE run' = [run EXCEPT ![w].pc = "bust"] /\ UNCHANGED job
    <3> DEFINE q == [run[w] EXCEPT !.pc = "bust"]
    <3>1. q.pc = "bust"
      BY DEF PInv, TypeOK, Run
    <3>2. run' = [run EXCEPT ![w] = q]
      BY <2>1
    <3>3. QED
      BY <1>4, <2>1, <3>1, <3>2, SRunStep DEF InsertAwards
  <2>2. CASE Throw(w)
    BY <1>4, <2>2, SEnds, SInvIdle DEF InsertAwards, Throw
  <2>3. QED
    BY <1>4, <2>1, <2>2 DEF InsertAwards
<1>5. ASSUME NEW w \in Workers, Bust(w) \/ RunFails(w) \/ Crash(w) PROVE SInv'
  BY <1>5, SEnds, SInvIdle DEF Bust, Complete, RunFails, Throw, Crash
<1>6. CASE Stall
  <2>1. \A v \in Workers : run[v].pc = "idle"
    BY <1>6 DEF Stall, SInv
  <2>2. QED
    BY <1>6, <2>1, SInvIdle DEF Stall
<1>7. CASE Forget
  BY <1>7 DEF Forget, SInv
<1>8. ASSUME NEW r \in Requests, scheduleAward(r) PROVE SInv'
  BY <1>8 DEF scheduleAward, SInv, Awarded
<1>9. ASSUME UNCHANGED <<run, job>>, \A p \in PrizeIds : awards[p] = None => awards'[p] = None
      PROVE  SInv'
  BY <1>9 DEF SInv, Awarded
<1>10. ASSUME NEW p \in PrizeIds, RemovePrize(p) PROVE SInv'
  BY <1>9, <1>10 DEF RemovePrize, PInv, TypeOK, Awards
<1>11. CASE RemoveContest
  BY <1>9, <1>11 DEF RemoveContest, NoAwards
<1>12. CASE UNCHANGED <<run, job, awards>>
  BY <1>9, <1>12
<1>13. QED
  BY <1>1, <1>2, <1>3, <1>4, <1>5, <1>6, <1>7, <1>8, <1>10, <1>11, <1>12
     DEF Next, Admin, runAward, vars, CreatePrize, InsertPrize, AbortRequest, Tick,
         SubmitResult, UpdateContest

\* When the queue gives the job to one worker at a time, awards are made in
\* one round, whatever fails and however often the job is run.
THEOREM AwardedInOneRound ==
    ASSUME Overlap = FALSE
    PROVE  Spec => OneRound
<1> DEFINE Round == Awarded # {} =>
                       \A p \in PrizeIds : awards'[p] # None => awards'[p] = awards[p]
<1>1. PInv /\ SInv /\ [Next]_vars => Round
  <2> SUFFICES ASSUME PInv, SInv, [Next]_vars, Awarded # {}
               PROVE  \A p \in PrizeIds : awards'[p] # None => awards'[p] = awards[p]
    OBVIOUS
  <2>1. ASSUME NEW o \in PrizeIds, RemovePrize(o)
        PROVE  \A p \in PrizeIds : awards'[p] # None => awards'[p] = awards[p]
    BY <2>1 DEF RemovePrize, PInv, TypeOK, Awards
  <2>2. CASE RemoveContest
    BY <2>2 DEF RemoveContest, NoAwards
  <2>3. ASSUME NEW w \in Workers, InsertAwards(w) PROVE FALSE
    BY <2>3 DEF InsertAwards, SInv
  <2>4. CASE UNCHANGED awards
    BY <2>4
  <2>5. QED
    BY <2>1, <2>2, <2>3, <2>4
       DEF Next, Admin, runAward, vars, CreatePrize, InsertPrize, scheduleAward, AbortRequest,
           TakeJob, RunFails, Crash, Stall, Forget, ReadPrizes, Snapshot, Bust, Tick,
           SubmitResult, UpdateContest
<1>2. Spec => []PInv
  BY PInvInit, PInvStep, PTL DEF Spec
<1>3. PInv /\ SInv /\ [Next]_vars => SInv'
  BY SInvStep
<1>4. Spec => []SInv
  BY <1>2, <1>3, SInvInit, PTL DEF Spec
<1>5. Spec => [][Round]_vars
  BY <1>1, <1>2, <1>4, PTL DEF Spec
<1>6. QED
  BY <1>5 DEF OneRound

-----------------------------------------------------------------------------
(* The awards follow the ranking, when the queue gives the job to one      *)
(* worker at a time.                                                       *)

\* Award a, of a better rank than b, is not b's winner's and has no lower score;
\* unless one of the winners is exempt, b's is not ranked before a's.
Ranked(a, b, res, ex) ==
    /\ a.user # b.user
    /\ a.score >= b.score
    /\ a.user \notin ex /\ b.user \notin ex => ~ Better(res[b.user], res[a.user])

\* An award carries the score of a result that is there.
Scored(a, res, ex) ==
    /\ a.user \in Users /\ res[a.user] # None
    /\ a.user \notin ex => a.score = res[a.user].score

\* Rows of awards give better ranks to better results.
RowsRanked(ranks, rows, res, ex) ==
    /\ \A p \in PrizeIds : rows[p] # None => ranks[p] # None /\ Scored(rows[p], res, ex)
    /\ \A o, p \in PrizeIds :
          rows[o] # None /\ rows[p] # None /\ ranks[o] < ranks[p] => Ranked(rows[o], rows[p], res, ex)

\* The prizes a run has listed are those of the table, as far as they still
\* are in it, and no new prize can take the place of one that is not.
Listed(listed, pz, ids) ==
    \A p \in PrizeIds : listed[p] # None => p \in ids /\ pz[p] \in {listed[p], None}

RInv ==
    /\ RowsRanked(prizes, awards, results, redone)
    /\ contest = None => prizes = NoPrizes
    /\ \A w \in Workers :
          /\ run[w].pc \in {"snapshot", "insert"} =>
                run[w].listed \in PrizeTable /\ Listed(run[w].listed, prizes, used)
          /\ run[w].pc = "insert" /\ contest # None =>
                RowsRanked(run[w].listed, run[w].rows, results, redone)

-----------------------------------------------------------------------------
\* A prize of a later rank has a later place in the list.
LEMMA IndexGrows ==
    ASSUME NEW listed \in PrizeTable, NEW o \in PrizeIds, NEW p \in PrizeIds,
           listed[o] # None, listed[p] # None, listed[o] < listed[p]
    PROVE  /\ Index(listed, o) \in Nat /\ Index(listed, p) \in Nat
           /\ Index(listed, o) < Index(listed, p)
<1> DEFINE S(r) == {q \in PrizeIds : listed[q] # None /\ listed[q] <= listed[r]}
<1>1. \A q \in PrizeIds : listed[q] # None => listed[q] \in Nat
  BY ConstantsAssumption DEF PrizeTable
<1>2. S(o) \in SUBSET S(p) /\ p \in S(p) /\ p \notin S(o)
  BY <1>1
<1>3. IsFiniteSet(S(p))
  BY ConstantsAssumption, FS_Subset
<1>4. /\ IsFiniteSet(S(o))
      /\ Cardinality(S(o)) <= Cardinality(S(p))
      /\ Cardinality(S(o)) # Cardinality(S(p))
  BY <1>2, <1>3, FS_Subset
<1>5. Cardinality(S(o)) \in Nat /\ Cardinality(S(p)) \in Nat
  BY <1>3, <1>4, FS_CardinalityType
<1>6. QED
  BY <1>4, <1>5 DEF Index

\* Whoever gets a prize has the place of that prize.
LEMMA WinnerPlace ==
    ASSUME NEW listed, NEW pl \in Placings, NEW t, NEW p \in PrizeIds,
           NEW a, a = Assign(listed, pl, t)[p], a # None
    PROVE  /\ listed[p] # None
           /\ a.user \in Submitted /\ a.score = results[a.user].score
           /\ pl[a.user] = Index(listed, p)
<1>1. listed[p] # None /\ Winner(listed, pl, p) # {}
  BY DEF Assign
<1>2. PICK u : u = CHOOSE x \in Winner(listed, pl, p) : TRUE
  OBVIOUS
<1>3. u \in Winner(listed, pl, p)
  BY <1>1, <1>2
<1>4. a = AwardTo(u, t)
  BY <1>1, <1>2 DEF Assign
<1>5. a.user = u /\ a.score = results[u].score
  BY <1>4 DEF AwardTo
<1>6. u \in Submitted /\ pl[u] = Index(listed, p)
  BY <1>3 DEF Winner, Placings
<1>7. QED
  BY <1>1, <1>5, <1>6

LEMMA AssignRanked ==
    ASSUME PInv, NEW listed \in PrizeTable, NEW pl \in Placings, NEW t,
           NEW o \in PrizeIds, NEW p \in PrizeIds,
           Assign(listed, pl, t)[o] # None, Assign(listed, pl, t)[p] # None,
           listed[o] < listed[p]
    PROVE  Ranked(Assign(listed, pl, t)[o], Assign(listed, pl, t)[p], results, {})
<1>a. PICK a : a = Assign(listed, pl, t)[o]
  OBVIOUS
<1>b. PICK b : b = Assign(listed, pl, t)[p]
  OBVIOUS
<1>1. /\ a.user \in Submitted /\ b.user \in Submitted
      /\ listed[o] # None /\ listed[p] # None
      /\ a.score = results[a.user].score /\ b.score = results[b.user].score
  <2>1. listed[o] # None /\ a.user \in Submitted /\ a.score = results[a.user].score
    BY <1>a, WinnerPlace
  <2>2. listed[p] # None /\ b.user \in Submitted /\ b.score = results[b.user].score
    BY <1>b, WinnerPlace
  <2>3. QED
    BY <2>1, <2>2
<1>2. pl[a.user] = Index(listed, o) /\ pl[b.user] = Index(listed, p)
  BY <1>a, <1>b, WinnerPlace
<1>3. pl[a.user] \in Nat /\ pl[b.user] \in Nat /\ pl[a.user] < pl[b.user]
  BY <1>1, <1>2, IndexGrows
<1>4. Better(results[b.user], results[a.user]) => pl[b.user] < pl[a.user]
  BY <1>1 DEF Placings
<1>5. a.user # b.user /\ ~ Better(results[b.user], results[a.user])
  BY <1>3, <1>4
<1>6. results[a.user] \in Result /\ results[b.user] \in Result
  BY <1>1 DEF Submitted, PInv, TypeOK
<1>7. a.score \in Nat /\ b.score \in Nat
  BY <1>1, <1>6, ConstantsAssumption DEF Result
<1>8. ~ (b.score > a.score)
  BY <1>1, <1>5 DEF Better
<1>9. a.score >= b.score
  BY <1>7, <1>8
<1>10. Ranked(a, b, results, {})
  BY <1>5, <1>9 DEF Ranked
<1>11. QED
  BY <1>a, <1>b, <1>10

LEMMA AssignRows ==
    ASSUME PInv, NEW listed \in PrizeTable, NEW pl \in Placings, NEW t
    PROVE  RowsRanked(listed, Assign(listed, pl, t), results, {})
<1>1. ASSUME NEW p \in PrizeIds, Assign(listed, pl, t)[p] # None
      PROVE  listed[p] # None /\ Scored(Assign(listed, pl, t)[p], results, {})
  <2>1. PICK a : a = Assign(listed, pl, t)[p]
    OBVIOUS
  <2>2. listed[p] # None /\ a.user \in Submitted /\ a.score = results[a.user].score
    BY <1>1, <2>1, WinnerPlace
  <2>3. Scored(a, results, {})
    BY <2>2 DEF Scored, Submitted
  <2>4. QED
    BY <2>1, <2>2, <2>3
<1>2. QED
  BY <1>1, AssignRanked DEF RowsRanked

-----------------------------------------------------------------------------
LEMMA RInvInit == Init => RInv
BY NoneFacts DEF Init, RInv, RowsRanked, NoAwards, NoRun

\* A step of run w that leaves the tables alone.
LEMMA RRunStep ==
    ASSUME PInv, RInv, NEW w \in Workers, NEW q, run' = [run EXCEPT ![w] = q],
           q.pc \in {"snapshot", "insert"} => q.listed \in PrizeTable /\ Listed(q.listed, prizes, used),
           q.pc = "insert" => RowsRanked(q.listed, q.rows, results, redone),
           UNCHANGED <<contest, results, redone, prizes, used, awards>>
    PROVE  RInv'
<1>1. \A v \in Workers : run'[v] = IF v = w THEN q ELSE run[v]
  BY DEF PInv, TypeOK
<1>2. QED
  BY <1>1 DEF RInv

LEMMA REnds ==
    ASSUME PInv, RInv, NEW w \in Workers, run' = [run EXCEPT ![w] = NoRun],
           UNCHANGED <<contest, results, redone, prizes, used, awards>>
    PROVE  RInv'
BY RRunStep DEF NoRun

LEMMA RInvStep ==
    ASSUME Overlap = FALSE
    PROVE  PInv /\ SInv /\ RInv /\ [Next]_vars => RInv'
<1> SUFFICES ASSUME PInv, SInv, RInv, [Next]_vars PROVE RInv'
  OBVIOUS
<1>1. ASSUME NEW r \in Requests, InsertPrize(r) PROVE RInv'
  <2>1. CASE UNCHANGED <<prizes, used>>
    BY <1>1, <2>1 DEF InsertPrize, RInv
  <2>2. CASE ~ UNCHANGED <<prizes, used>>
    <3>1. PICK p \in PrizeIds \ used :
              /\ contest # None
              /\ prizes' = [prizes EXCEPT ![p] = req[r].rank]
              /\ used' = used \cup {p}
      BY <1>1, <2>2 DEF InsertPrize
    <3>2. \A o \in PrizeIds : prizes'[o] = IF o = p THEN req[r].rank ELSE prizes[o]
      BY <3>1 DEF PInv, TypeOK, PrizeTable
    <3>3. \A o \in PrizeIds : awards[o] # None => o # p
      BY <3>1 DEF PInv, TypeOK
    <3>4. UNCHANGED <<contest, results, redone, awards, run>>
      BY <1>1 DEF InsertPrize
    <3>5. RowsRanked(prizes', awards, results, redone)
      BY <3>2, <3>3 DEF RInv, RowsRanked
    <3>6. ASSUME NEW listed, Listed(listed, prizes, used) PROVE Listed(listed, prizes', used')
      BY <3>1, <3>2, <3>6 DEF Listed
    <3>7. QED
      BY <3>1, <3>4, <3>5, <3>6 DEF RInv
  <2>3. QED
    BY <2>1, <2>2
<1>2. ASSUME NEW p \in PrizeIds, RemovePrize(p) PROVE RInv'
  <2>1. \A o \in PrizeIds : /\ prizes'[o] = IF o = p THEN None ELSE prizes[o]
                            /\ awards'[o] = IF o = p THEN None ELSE awards[o]
    BY <1>2 DEF RemovePrize, PInv, TypeOK, PrizeTable, Awards
  <2>2. contest # None
    BY <1>2 DEF RemovePrize, RInv, NoPrizes
  <2>3. UNCHANGED <<contest, results, redone, used, run>>
    BY <1>2 DEF RemovePrize
  <2>4. RowsRanked(prizes', awards', results, redone)
    BY <2>1 DEF RInv, RowsRanked
  <2>5. ASSUME NEW listed, Listed(listed, prizes, used) PROVE Listed(listed, prizes', used)
    BY <2>1, <2>5 DEF Listed
  <2>6. QED
    BY <2>2, <2>3, <2>4, <2>5 DEF RInv
<1>3. ASSUME NEW w \in Workers, TakeJob(w) PROVE RInv'
  <2> DEFINE q == [NoRun EXCEPT !.pc = "prizes"]
  <2>1. q.pc = "prizes"
    BY DEF NoRun
  <2>2. run' = [run EXCEPT ![w] = q]
    BY <1>3 DEF TakeJob
  <2>3. QED
    BY <1>3, <2>1, <2>2, RRunStep DEF TakeJob
<1>4. ASSUME NEW w \in Workers, ReadPrizes(w) PROVE RInv'
  <2>1. CASE prizes = NoPrizes
    BY <1>4, <2>1, REnds DEF ReadPrizes, Complete
  <2>2. CASE prizes # NoPrizes
    <3> DEFINE q == [run[w] EXCEPT !.pc = "snapshot", !.listed = prizes]
    <3>1. q.pc = "snapshot" /\ q.listed = prizes
      BY DEF PInv, TypeOK, Run
    <3>2. run' = [run EXCEPT ![w] = q]
      BY <1>4, <2>2 DEF ReadPrizes
    <3>3. prizes \in PrizeTable /\ Listed(prizes, prizes, used)
      BY DEF PInv, TypeOK, Listed
    <3>4. UNCHANGED <<contest, results, redone, prizes, used, awards>>
      BY <1>4 DEF ReadPrizes
    <3>5. QED
      BY <3>1, <3>2, <3>3, <3>4, RRunStep
  <2>3. QED
    BY <2>1, <2>2
<1>5. ASSUME NEW w \in Workers, Snapshot(w) PROVE RInv'
  <2>1. CASE NothingToAward
    BY <1>5, <2>1, REnds DEF Snapshot, Complete
  <2>2. CASE ~ NothingToAward
    <3>1. PICK pl \in Placings :
              run' = [run EXCEPT ![w].pc = "insert", ![w].rows = Assign(run[w].listed, pl, now)]
      BY <1>5, <2>2 DEF Snapshot
    <3> DEFINE q == [run[w] EXCEPT !.pc = "insert", !.rows = Assign(run[w].listed, pl, now)]
    <3>2. q.listed = run[w].listed /\ q.rows = Assign(run[w].listed, pl, now)
      BY DEF PInv, TypeOK, Run
    <3>3. run[w].listed \in PrizeTable /\ Listed(run[w].listed, prizes, used)
      BY <1>5 DEF Snapshot, RInv
    <3>4. RowsRanked(q.listed, q.rows, results, {})
      BY <3>2, <3>3, AssignRows
    <3>5. \A v \in Workers : run'[v] = IF v = w THEN q ELSE run[v]
      BY <3>1 DEF PInv, TypeOK
    <3>6. redone' = {} /\ UNCHANGED <<contest, results, prizes, used, awards>>
      BY <1>5, <2>2 DEF Snapshot
    <3>7. \A p \in PrizeIds : awards[p] = None
      BY <2>2 DEF NothingToAward, Awarded
    <3>8. \A v \in Workers : v # w => run[v].pc = "idle"
      BY <1>5 DEF Snapshot, SInv
    <3> HIDE DEF q
    <3>9. RowsRanked(prizes', awards', results', redone')
      BY <3>6, <3>7 DEF RowsRanked
    <3>10. QED
      BY <3>2, <3>3, <3>4, <3>5, <3>6, <3>8, <3>9 DEF RInv
  <2>3. QED
    BY <2>1, <2>2
<1>6. ASSUME NEW w \in Workers, InsertAwards(w) PROVE RInv'
  <2> DEFINE new == run[w].rows
             P == {p \in PrizeIds : new[p] # None}
  <2>1. CASE Insertable(P)
    <3>1. awards' = [p \in PrizeIds |-> IF p \in P THEN new[p] ELSE awards[p]]
      BY <1>6, <2>1 DEF InsertAwards
    <3>2. \A p \in PrizeIds : awards[p] = None
      BY <1>6 DEF InsertAwards, SInv, Awarded
    <3>3. UNCHANGED <<contest, results, redone, prizes, used>>
      BY <1>6 DEF InsertAwards
    <3>4. \A p \in PrizeIds : awards'[p] = new[p]
      BY <3>1, <3>2
    <3>5. \A p \in P : prizes[p] # None
      BY <2>1 DEF Insertable
    <3>6. P # {} => RowsRanked(run[w].listed, new, results, redone)
      BY <1>6, <3>5 DEF InsertAwards, RInv, NoPrizes
    <3>7. Listed(run[w].listed, prizes, used)
      BY <1>6 DEF InsertAwards, RInv
    <3>8. \A p \in P : prizes[p] = run[w].listed[p]
      BY <3>5, <3>6, <3>7 DEF Listed, RowsRanked
    <3>9. RowsRanked(prizes, awards', results, redone)
      BY <3>4, <3>5, <3>6, <3>8 DEF RowsRanked
    <3>10. \A v \in Workers : run'[v] = IF v = w THEN [run[w] EXCEPT !.pc = "bust"] ELSE run[v]
      BY <1>6, <2>1 DEF InsertAwards, PInv, TypeOK
    <3>11. [run[w] EXCEPT !.pc = "bust"].pc = "bust"
      BY DEF PInv, TypeOK, Run
    <3>12. QED
      BY <3>3, <3>9, <3>10, <3>11 DEF RInv
  <2>2. CASE ~ Insertable(P)
    BY <1>6, <2>2, REnds DEF InsertAwards, Throw
  <2>3. QED
    BY <2>1, <2>2
<1>7. ASSUME NEW w \in Workers, Bust(w) \/ RunFails(w) \/ Crash(w) PROVE RInv'
  BY <1>7, REnds DEF Bust, Complete, RunFails, Throw, Crash
<1>8. ASSUME NEW u \in Users, NEW s \in Scores, NEW t \in Times, SubmitResult(u, s, t) PROVE RInv'
  <2>1. UNCHANGED <<contest, prizes, used, awards, run>>
    BY <1>8 DEF SubmitResult
  <2>2. /\ \A v \in Users : v # u => results'[v] = results[v]
        /\ results'[u] # None /\ redone \subseteq redone'
        /\ results[u] = None \/ u \in redone'
    BY <1>8, NoneFacts DEF SubmitResult, PInv, TypeOK, Result
  <2>3. ASSUME NEW a, Scored(a, results, redone) PROVE Scored(a, results', redone')
    BY <2>2, <2>3 DEF Scored
  <2>4. ASSUME NEW a, NEW b, Scored(a, results, redone), Scored(b, results, redone),
               Ranked(a, b, results, redone)
        PROVE  Ranked(a, b, results', redone')
    BY <2>2, <2>4 DEF Scored, Ranked
  <2>5. ASSUME NEW ranks, NEW rows, RowsRanked(ranks, rows, results, redone)
        PROVE  RowsRanked(ranks, rows, results', redone')
    BY <2>3, <2>4, <2>5 DEF RowsRanked
  <2>6. QED
    BY <2>1, <2>5 DEF RInv
<1>9. CASE RemoveContest
  <2>1. \A p \in PrizeIds : awards'[p] = None
    BY <1>9 DEF RemoveContest, NoAwards
  <2>2. prizes' = NoPrizes /\ contest' = None /\ UNCHANGED <<used, run>>
    BY <1>9 DEF RemoveContest
  <2>3. ASSUME NEW listed, Listed(listed, prizes, used) PROVE Listed(listed, prizes', used)
    BY <2>2, <2>3 DEF Listed, NoPrizes
  <2>4. RowsRanked(prizes', awards', results', redone')
    BY <2>1 DEF RowsRanked
  <2>5. QED
    BY <2>2, <2>3, <2>4 DEF RInv
<1>10. ASSUME NEW c \in Contests, UpdateContest(c) PROVE RInv'
  BY <1>10, NoneFacts DEF UpdateContest, RInv
<1>11. CASE UNCHANGED <<contest, results, redone, prizes, used, awards, run>>
  BY <1>11 DEF RInv
<1>12. QED
  BY <1>1, <1>2, <1>3, <1>4, <1>5, <1>6, <1>7, <1>8, <1>9, <1>10, <1>11
     DEF Next, Admin, runAward, vars, CreatePrize, scheduleAward, AbortRequest, Stall, Forget, Tick

\* When the queue gives the job to one worker at a time, nobody wins twice, a
\* better rank never goes to a lower score, and never to a worse result unless
\* a winner submits once more after the ranking was read.
THEOREM FollowRanking ==
    ASSUME Overlap = FALSE
    PROVE  Spec => []AwardsFollowRanking
<1>1. Spec => []PInv
  BY PInvInit, PInvStep, PTL DEF Spec
<1>2. PInv /\ SInv /\ [Next]_vars => SInv'
  BY SInvStep
<1>3. Spec => []SInv
  BY <1>1, <1>2, SInvInit, PTL DEF Spec
<1>4. PInv /\ SInv /\ RInv /\ [Next]_vars => RInv'
  BY RInvStep
<1>5. Spec => []RInv
  BY <1>1, <1>3, <1>4, RInvInit, PTL DEF Spec
<1>6. RInv => AwardsFollowRanking
  BY DEF RInv, RowsRanked, Scored, Ranked, AwardsFollowRanking, Awarded, Outdated
<1>7. QED
  BY <1>5, <1>6, PTL
=============================================================================
