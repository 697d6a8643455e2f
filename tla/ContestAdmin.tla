---------------------------- MODULE ContestAdmin ----------------------------
(***************************************************************************)
(* The contest service: administrators create, change and remove contests, *)
(* everybody reads them through the cache.  Every await of a request is a  *)
(* step of its own, so that a read can be overtaken by a write and a write *)
(* by another write.  An entry of the cache may expire at any moment.      *)
(*                                                                         *)
(* `vip' stands for the fields that are not times, and is the only one the *)
(* list filters on; a list key is its two filters, the page, the order and *)
(* the search text are left out.                                           *)
(***************************************************************************)
EXTENDS ContestRules, FiniteSets

CONSTANTS
    Ids,        \* the ids the database hands out
    Lists,      \* the list keys asked for: records [status, vip]
    Posts,      \* the bodies posted to change a contest
    Requests,   \* slots for requests that are being served (a bound)
    MaxTime,    \* bound on the clock
    MaxWrites,  \* bound on the writes asked for
    None

Times == 0 .. MaxTime
Rows == Contest(Times)
Statuses == {"UPCOMING", "ACTIVE", "ENDED"}
Fields == {"start", "end", "vip"}
Inputs == [start : Times \cup {None}, end : Times \cup {None}, vip : BOOLEAN \cup {None}]
WindowKeys == {"start", "end"}

ASSUME ContestAdminAssumption ==
    /\ MaxTime \in Nat
    /\ MaxWrites \in Nat
    /\ Requests # {}
    /\ Ids \cap Lists = {}
    /\ Posts \subseteq Inputs
    /\ Lists \subseteq [status : Statuses \cup {None}, vip : BOOLEAN \cup {None}]

ASSUME NoneAssumption ==
    /\ None \notin Rows
    /\ None \notin Times
    /\ None \notin BOOLEAN
    /\ None \notin Statuses

VARIABLES
    now,      \* the clock
    row,      \* the table contests
    used,     \* the ids handed out
    detail,   \* the cached contests
    list,     \* the cached lists, each with the time of its query
    req,      \* the requests being served
    writes,   \* number of writes asked for
    hasty,    \* history: contests written by an update that had been overtaken
    late,     \* history: entries stored after their rows had changed
    lost      \* history: entries whose removal was lost with its request

vars == <<now, row, used, detail, list, req, writes, hasty, late, lost>>
database == <<now, row, used, writes, hasty>>
cache == <<detail, list, late>>

Idle == [pc |-> "idle"]
-----------------------------------------------------------------------------
(* The conditions of the queries *)

statusWhere(s, c, at) ==
    CASE s = "UPCOMING" -> c.start > at
      [] s = "ENDED" -> c.end < at
      [] s = "ACTIVE" -> c.start <= at /\ c.end >= at
      [] s = None -> TRUE

buildWhere(k, c, at) ==
    /\ statusWhere(k.status, c, at)
    /\ k.vip # None => c.vip = k.vip

Query(k, at) ==
    [i \in {j \in Ids : row[j] # None /\ buildWhere(k, row[j], at)} |-> row[i]]

Merged(c, input) == [f \in Fields |-> IF input[f] = None THEN c[f] ELSE input[f]]

changingWindow(input) == \E f \in WindowKeys : input[f] # None

\* Mutant: the fields that were not posted are written as undefined.
PayloadOfAll(c, input) == Fields

\* The columns entity.update writes: those posted with another value than the
\* one the row had when it was loaded.
toUpdatePayload(c, input) == {f \in Fields : input[f] # None /\ input[f] # c[f]}
-----------------------------------------------------------------------------
Answer(r) == req' = [req EXCEPT ![r] = Idle]

TypeOK ==
    /\ now \in Times
    /\ row \in [Ids -> Rows \cup {None}]
    /\ used \subseteq Ids
    /\ detail \in [Ids -> Rows \cup {None}]
    /\ \A k \in Lists : list[k] # None =>
        /\ list[k].at \in Times
        /\ DOMAIN list[k].rows \subseteq Ids
        /\ \A i \in DOMAIN list[k].rows : list[k].rows[i] \in Rows
    /\ \A r \in Requests : req[r].pc \in
        {"idle", "findContest", "setDetail", "findContests", "setList",
         "findForUpdate", "save", "destroy", "bust"}
    /\ writes \in 0 .. MaxWrites
    /\ hasty \subseteq Ids
    /\ late \subseteq Ids \cup Lists
    /\ lost \subseteq Ids \cup Lists

Init ==
    /\ now = 0
    /\ row \in [Ids -> {None} \cup {c \in Rows : validWindow(c)}]
    /\ used = {i \in Ids : row[i] # None}
    /\ detail = [i \in Ids |-> None]
    /\ list = [k \in Lists |-> None]
    /\ req = [r \in Requests |-> Idle]
    /\ writes = 0
    /\ hasty = {}
    /\ late = {}
    /\ lost = {}
-----------------------------------------------------------------------------
(* Reading one contest *)

\* A hit answers at once.
GetById(r, i) ==
    /\ req[r] = Idle
    /\ detail[i] = None
    /\ req' = [req EXCEPT ![r] = [pc |-> "findContest", id |-> i]]
    /\ UNCHANGED <<database, cache, lost>>

FindContest(r) ==
    /\ req[r].pc = "findContest"
    /\ LET i == req[r].id IN
        IF row[i] = None THEN Answer(r)
        ELSE req' = [req EXCEPT ![r] = [pc |-> "setDetail", id |-> i, value |-> row[i]]]
    /\ UNCHANGED <<database, cache, lost>>

SetDetail(r) ==
    /\ req[r].pc = "setDetail"
    /\ LET i == req[r].id IN
        /\ detail' = [detail EXCEPT ![i] = req[r].value]
        /\ late' = IF req[r].value = row[i] THEN late \ {i} ELSE late \cup {i}
        /\ lost' = lost \ {i}
    /\ Answer(r)
    /\ UNCHANGED <<database, list>>
-----------------------------------------------------------------------------
(* Reading a list *)

ListContests(r, k) ==
    /\ req[r] = Idle
    /\ list[k] = None
    /\ req' = [req EXCEPT ![r] = [pc |-> "findContests", key |-> k]]
    /\ UNCHANGED <<database, cache, lost>>

FindContests(r) ==
    /\ req[r].pc = "findContests"
    /\ LET k == req[r].key IN
        req' = [req EXCEPT ![r] =
            [pc |-> "setList", key |-> k, value |-> [rows |-> Query(k, now), at |-> now]]]
    /\ UNCHANGED <<database, cache, lost>>

SetList(r) ==
    /\ req[r].pc = "setList"
    /\ LET k == req[r].key
           v == req[r].value IN
        /\ list' = [list EXCEPT ![k] = v]
        /\ late' = IF v.rows = Query(k, v.at) THEN late \ {k} ELSE late \cup {k}
        /\ lost' = lost \ {k}
    /\ Answer(r)
    /\ UNCHANGED <<database, detail>>
-----------------------------------------------------------------------------
(* Writing *)

\* Mutant: the detail entry is left to its expiry.
bustListOnly(i) ==
    [pc |-> "bust", id |-> i, scan |-> Lists, found |-> {}, detail |-> {}]

\* The two deletions run concurrently: `scan' are the keys that delByPrefix
\* has still to visit, `found' those it will delete.
bustCaches(i) ==
    [pc |-> "bust", id |-> i, scan |-> Lists, found |-> {}, detail |-> {i}]

\* create deletes the lists only: no one has read the new contest.
bustLists(i) == [bustCaches(i) EXCEPT !.detail = {}]

CreateContest(r, i, c) ==
    /\ req[r] = Idle
    /\ writes < MaxWrites
    /\ i \notin used
    /\ validWindow(c)
    /\ writes' = writes + 1
    /\ used' = used \cup {i}
    /\ row' = [row EXCEPT ![i] = c]
    /\ req' = [req EXCEPT ![r] = bustLists(i)]
    /\ UNCHANGED <<now, hasty, cache, lost>>

\* Mutant: the window is checked as posted, not as it will be.
AcceptsPosted(c, input) ==
    /\ changingWindow(input) => deriveContestStatus(c, now) = "UPCOMING"
    /\ input.start # None /\ input.end # None => validWindow(input)

\* Mutant: only a contest that has ended keeps its schedule.
AcceptsActive(c, input) ==
    /\ changingWindow(input) => deriveContestStatus(c, now) # "ENDED"
    /\ validWindow(Merged(c, input))

Accepts(c, input) ==
    /\ changingWindow(input) => deriveContestStatus(c, now) = "UPCOMING"
    /\ validWindow(Merged(c, input))

\* requireContest and the checks.  A refusal changes nothing.
UpdateContest(r, i, input) ==
    /\ req[r] = Idle
    /\ writes < MaxWrites
    /\ row[i] # None
    /\ Accepts(row[i], input)
    /\ writes' = writes + 1
    /\ req' = [req EXCEPT ![r] =
        [pc |-> "findForUpdate", id |-> i, input |-> input, existing |-> row[i], asked |-> now]]
    /\ UNCHANGED <<now, row, used, hasty, cache, lost>>

\* BaseDAO.update loads the row again.
FindForUpdate(r) ==
    /\ req[r].pc = "findForUpdate"
    /\ LET i == req[r].id IN
        IF row[i] = None THEN Answer(r)
        ELSE req' = [req EXCEPT ![r] =
            [pc |-> "save", id |-> i, input |-> req[r].input, existing |-> req[r].existing,
             asked |-> req[r].asked, overtaken |-> row[i] # req[r].existing,
             payload |-> toUpdatePayload(row[i], req[r].input)]]
    /\ UNCHANGED <<database, cache, lost>>

\* An UPDATE of a row that is gone changes nothing and is no error.
SaveContest(r) ==
    /\ req[r].pc = "save"
    /\ LET i == req[r].id IN
        /\ row' = IF row[i] = None THEN row
                  ELSE [row EXCEPT ![i] =
                    [f \in Fields |-> IF f \in req[r].payload THEN req[r].input[f] ELSE row[i][f]]]
        /\ hasty' = IF req[r].overtaken \/ row[i] # req[r].existing
                    THEN hasty \cup {i} ELSE hasty
        /\ req' = [req EXCEPT ![r] = bustCaches(i)]
    /\ UNCHANGED <<now, used, writes, cache, lost>>

RemoveContest(r, i) ==
    /\ req[r] = Idle
    /\ writes < MaxWrites
    /\ row[i] # None
    /\ writes' = writes + 1
    /\ req' = [req EXCEPT ![r] = [pc |-> "destroy", id |-> i]]
    /\ UNCHANGED <<now, row, used, hasty, cache, lost>>

\* The second of two removals is answered 404 and deletes no entry.
DestroyContest(r) ==
    /\ req[r].pc = "destroy"
    /\ LET i == req[r].id IN
        IF row[i] = None THEN Answer(r) /\ UNCHANGED row
        ELSE /\ row' = [row EXCEPT ![i] = None]
             /\ req' = [req EXCEPT ![r] = bustCaches(i)]
    /\ UNCHANGED <<now, used, writes, hasty, cache, lost>>
-----------------------------------------------------------------------------
(* Deleting entries of the cache *)

\* The answer is sent when both deletions are done.
Busting(r, q) ==
    IF q.scan \cup q.found \cup q.detail = {} THEN Answer(r)
    ELSE req' = [req EXCEPT ![r] = q]

\* SCAN visits the keys in no order, with round trips between.
ScanList(r, k) ==
    /\ req[r].pc = "bust"
    /\ k \in req[r].scan
    /\ Busting(r, [req[r] EXCEPT !.scan = @ \ {k},
                                 !.found = IF list[k] = None THEN @ ELSE @ \cup {k}])
    /\ UNCHANGED <<database, cache, lost>>

\* The pipeline runs when the scan has ended.
DeleteLists(r) ==
    /\ req[r].pc = "bust"
    /\ req[r].scan = {}
    /\ req[r].found # {}
    /\ list' = [k \in Lists |-> IF k \in req[r].found THEN None ELSE list[k]]
    /\ late' = late \ req[r].found
    /\ lost' = lost \ req[r].found
    /\ Busting(r, [req[r] EXCEPT !.found = {}])
    /\ UNCHANGED <<database, detail>>

DeleteDetail(r) ==
    /\ req[r].pc = "bust"
    /\ req[r].detail # {}
    /\ LET i == req[r].id IN
        /\ detail' = [detail EXCEPT ![i] = None]
        /\ late' = late \ {i}
        /\ lost' = lost \ {i}
    /\ Busting(r, [req[r] EXCEPT !.detail = {}])
    /\ UNCHANGED <<database, list>>
-----------------------------------------------------------------------------
(* The environment *)

Pending(r) ==
    IF req[r].pc = "bust" THEN req[r].scan \cup req[r].found \cup req[r].detail ELSE {}

\* Redis, MySQL or the process fails: the rest of the request is lost.
Abort(r) ==
    /\ req[r] # Idle
    /\ lost' = lost \cup Pending(r)
    /\ Answer(r)
    /\ UNCHANGED <<database, cache>>

Tick ==
    /\ now < MaxTime
    /\ now' = now + 1
    /\ UNCHANGED <<row, used, writes, hasty, req, cache, lost>>

\* Mutant: a contest is set without EX.
NeverExpires(i) ==
    /\ detail[i] # None
    /\ FALSE
    /\ UNCHANGED vars

ExpireDetail(i) ==
    /\ detail[i] # None
    /\ detail' = [detail EXCEPT ![i] = None]
    /\ late' = late \ {i}
    /\ lost' = lost \ {i}
    /\ UNCHANGED <<database, list, req>>

ExpireList(k) ==
    /\ list[k] # None
    /\ list' = [list EXCEPT ![k] = None]
    /\ late' = late \ {k}
    /\ lost' = lost \ {k}
    /\ UNCHANGED <<database, detail, req>>

Step(r) ==
    \/ FindContest(r) \/ SetDetail(r)
    \/ FindContests(r) \/ SetList(r)
    \/ FindForUpdate(r) \/ SaveContest(r) \/ DestroyContest(r)
    \/ \E k \in Lists : ScanList(r, k)
    \/ DeleteLists(r) \/ DeleteDetail(r)

Ask(r) ==
    \/ \E i \in used : GetById(r, i) \/ RemoveContest(r, i)
    \/ \E k \in Lists : ListContests(r, k)
    \/ \E i \in Ids, c \in Rows : CreateContest(r, i, c)
    \/ \E i \in Ids, input \in Posts : UpdateContest(r, i, input)

Next ==
    \/ Tick
    \/ \E i \in Ids : ExpireDetail(i)
    \/ \E k \in Lists : ExpireList(k)
    \/ \E r \in Requests : Ask(r) \/ Step(r) \/ Abort(r)

Fairness ==
    /\ \A r \in Requests : WF_vars(Step(r))
    /\ \A i \in Ids : WF_vars(ExpireDetail(i))
    /\ \A k \in Lists : WF_vars(ExpireList(k))

Spec == Init /\ [][Next]_vars
FairSpec == Spec /\ Fairness
-----------------------------------------------------------------------------
(* The properties *)

Removing(x) == \E r \in Requests : x \in Pending(r)

\* A cached contest or list that no longer agrees with the table is about to be
\* deleted by the request that changed the table, unless the entry was stored
\* after the change or that request died: nothing else makes a reader see old
\* rows (cache-aside, busted on write).
FreshUnlessRaced ==
    /\ \A i \in Ids : detail[i] # None /\ i \notin late \cup lost =>
        detail[i] = row[i] \/ Removing(i)
    /\ \A k \in Lists : list[k] # None /\ k \notin late \cup lost =>
        list[k].rows = Query(k, list[k].at) \/ Removing(k)

\* The window of a contest stays valid whatever sequence of partial updates is
\* posted, as long as no update was overtaken by another write of the contest
\* between its checks and its UPDATE.
WindowsAreValid ==
    \A i \in Ids \ hasty : row[i] # None => validWindow(row[i])

Window(c) == <<c.start, c.end>>

\* The schedule of a contest changes only through an update that was asked for
\* before the contest started, or that another write overtook.
ScheduleHeld ==
    [][\A i \in Ids :
        row[i] # None /\ row'[i] # None /\ Window(row'[i]) # Window(row[i]) =>
            \E r \in Requests :
                /\ req[r].pc = "save"
                /\ req[r].id = i
                /\ req[r].asked < row[i].start \/ req[r].existing # row[i]]_vars

\* Once nobody writes any more, whatever raced or died, readers come to see the
\* table as it is: every wrong entry expires and none is stored again.
FreshInTheEnd ==
    <>[](/\ \A i \in Ids : detail[i] \in {None, row[i]}
         /\ \A k \in Lists : list[k] = None \/ list[k].rows = Query(k, list[k].at))
=============================================================================
