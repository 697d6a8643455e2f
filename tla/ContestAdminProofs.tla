-------------------------- MODULE ContestAdminProofs --------------------------
(***************************************************************************)
(* Theorems about ContestAdmin, for every value of its constants.          *)
(***************************************************************************)
EXTENDS ContestAdmin, TLAPS

-----------------------------------------------------------------------------
(* Type correctness: what a request holds, by the step it is at.           *)

Partial == UNION {[S -> Rows] : S \in SUBSET Ids}
Entry == [rows : Partial, at : Times]

Locating == [pc : {"findContest", "destroy"}, id : Ids]
Caching == [pc : {"setDetail"}, id : Ids, value : Rows]
Listing == [pc : {"findContests"}, key : Lists]
CachingList == [pc : {"setList"}, key : Lists, value : Entry]
Checked == [pc : {"findForUpdate"}, id : Ids, input : Posts, existing : Rows, asked : Times]
Saving == [pc : {"save"}, id : Ids, input : Posts, existing : Rows, asked : Times,
           overtaken : BOOLEAN, payload : SUBSET Fields]
Deleting == [pc : {"bust"}, id : Ids, scan : SUBSET Lists, found : SUBSET Lists,
             detail : SUBSET Ids]
Request == {Idle} \cup Locating \cup Caching \cup Listing \cup CachingList
              \cup Checked \cup Saving \cup Deleting

\* Only columns that were posted are written, and only the own entry is deleted.
WellFormed(q) ==
    /\ q.pc = "save" => \A f \in q.payload : q.input[f] # None
    /\ q.pc = "bust" => q.detail \subseteq {q.id}

ReqOK == req \in [Requests -> Request] /\ \A r \in Requests : WellFormed(req[r])

Data ==
    /\ now \in Times
    /\ row \in [Ids -> Rows \cup {None}]
    /\ used \subseteq Ids
    /\ detail \in [Ids -> Rows \cup {None}]
    /\ list \in [Lists -> Entry \cup {None}]
    /\ writes \in 0 .. MaxWrites
    /\ hasty \subseteq Ids
    /\ late \subseteq Ids \cup Lists
    /\ lost \subseteq Ids \cup Lists

Typed == Data /\ ReqOK

LEMMA Shapes ==
    ASSUME NEW q \in Request
    PROVE  /\ q.pc \in {"findContest", "destroy"} => q \in Locating
           /\ q.pc = "setDetail" => q \in Caching
           /\ q.pc = "findContests" => q \in Listing
           /\ q.pc = "setList" => q \in CachingList
           /\ q.pc = "findForUpdate" => q \in Checked
           /\ q.pc = "save" => q \in Saving
           /\ q.pc = "bust" => q \in Deleting
           /\ q.pc \in {"idle", "findContest", "setDetail", "findContests", "setList",
                        "findForUpdate", "save", "destroy", "bust"}
BY DEF Request, Idle, Locating, Caching, Listing, CachingList, Checked, Saving, Deleting

LEMMA IdleShape == Idle \in Request /\ WellFormed(Idle)
BY DEF Request, Idle, WellFormed

LEMMA ReqStep ==
    ASSUME ReqOK, NEW r \in Requests, NEW q \in Request, WellFormed(q),
           req' = [req EXCEPT ![r] = q]
    PROVE  ReqOK'
BY DEF ReqOK

LEMMA AnswerStep ==
    ASSUME ReqOK, NEW r \in Requests, Answer(r)
    PROVE  ReqOK'
BY IdleShape, ReqStep DEF Answer

LEMMA BustingStep ==
    ASSUME ReqOK, NEW r \in Requests, NEW q \in Deleting, q.detail \subseteq {q.id}, Busting(r, q)
    PROVE  ReqOK'
<1>1. q \in Request /\ WellFormed(q)
  BY DEF Request, Deleting, WellFormed
<1>2. QED
  BY <1>1, ReqStep, AnswerStep DEF Busting

LEMMA Busts ==
    ASSUME NEW i \in Ids
    PROVE  /\ bustCaches(i) \in Request /\ WellFormed(bustCaches(i))
           /\ bustLists(i) \in Request /\ WellFormed(bustLists(i))
<1>1. /\ bustCaches(i) \in Deleting /\ bustCaches(i).detail = {i} /\ bustCaches(i).id = i
      /\ bustLists(i) \in Deleting /\ bustLists(i).detail = {}
  BY DEF bustCaches, bustLists, Deleting
<1>2. QED
  BY <1>1 DEF Request, Deleting, WellFormed

LEMMA QueryIsPartial ==
    ASSUME Data, NEW k, NEW at
    PROVE  Query(k, at) \in Partial
<1> DEFINE S == {j \in Ids : row[j] # None /\ buildWhere(k, row[j], at)}
<1>1. \A i \in S : row[i] \in Rows
  BY DEF Data
<1>2. [i \in S |-> row[i]] \in [S -> Rows] /\ S \in SUBSET Ids
  BY <1>1
<1>3. QED
  BY <1>2 DEF Query, Partial

LEMMA TypedInit == Init => Typed
<1> SUFFICES ASSUME Init PROVE Typed
  OBVIOUS
<1>1. now \in Times /\ writes \in 0 .. MaxWrites
  BY ContestAdminAssumption DEF Init, Times
<1>2. Data
  BY <1>1 DEF Init, Data
<1>3. ReqOK
  BY IdleShape DEF Init, ReqOK
<1>4. QED
  BY <1>2, <1>3 DEF Typed

\* What a partial update makes of a row is a row.
LEMMA SavedRow ==
    ASSUME NEW c \in Rows, NEW q \in Saving, WellFormed(q)
    PROVE  [f \in Fields |-> IF f \in q.payload THEN q.input[f] ELSE c[f]] \in Rows
<1> DEFINE n == [f \in Fields |-> IF f \in q.payload THEN q.input[f] ELSE c[f]]
<1>1. q.input \in Inputs /\ \A f \in q.payload : q.input[f] # None
  BY ContestAdminAssumption DEF Saving, WellFormed
<1>2. c.start \in Times /\ c.end \in Times /\ c.vip \in BOOLEAN
  BY DEF Rows, Contest
<1>3. n["start"] \in Times /\ n["end"] \in Times /\ n["vip"] \in BOOLEAN
  BY <1>1, <1>2 DEF Fields, Inputs
<1>4. n = [f \in {"start", "end", "vip"} |-> n[f]]
  BY DEF Fields
<1>5. QED
  BY <1>3, <1>4 DEF Rows, Contest

LEMMA TypedStep == Typed /\ [Next]_vars => Typed'
<1> SUFFICES ASSUME Typed, [Next]_vars PROVE Typed'
  OBVIOUS
<1>0. Data /\ ReqOK
  BY DEF Typed
<1>1. ASSUME NEW r \in Requests, NEW i \in used, GetById(r, i) PROVE Typed'
  <2>1. [pc |-> "findContest", id |-> i] \in Request /\ WellFormed([pc |-> "findContest", id |-> i])
    BY <1>0 DEF Request, Locating, WellFormed, Data
  <2>2. QED
    BY <1>0, <1>1, <2>1, ReqStep DEF GetById, Typed, Data, database, cache
<1>2. ASSUME NEW r \in Requests, NEW i \in used, RemoveContest(r, i) PROVE Typed'
  <2>1. [pc |-> "destroy", id |-> i] \in Request /\ WellFormed([pc |-> "destroy", id |-> i])
    BY <1>0 DEF Request, Locating, WellFormed, Data
  <2>2. writes' \in 0 .. MaxWrites
    BY <1>0, <1>2, ContestAdminAssumption DEF RemoveContest, Data
  <2>3. QED
    BY <1>0, <1>2, <2>1, <2>2, ReqStep DEF RemoveContest, Typed, Data, cache
<1>3. ASSUME NEW r \in Requests, NEW k \in Lists, ListContests(r, k) PROVE Typed'
  <2>1. /\ [pc |-> "findContests", key |-> k] \in Request
        /\ WellFormed([pc |-> "findContests", key |-> k])
    BY DEF Request, Listing, WellFormed
  <2>2. QED
    BY <1>0, <1>3, <2>1, ReqStep DEF ListContests, Typed, Data, database, cache
<1>4. ASSUME NEW r \in Requests, NEW i \in Ids, NEW c \in Rows, CreateContest(r, i, c)
      PROVE  Typed'
  <2>1. writes' \in 0 .. MaxWrites
    BY <1>0, <1>4, ContestAdminAssumption DEF CreateContest, Data
  <2>2. ReqOK'
    BY <1>0, <1>4, Busts, ReqStep DEF CreateContest
  <2>3. QED
    BY <1>0, <1>4, <2>1, <2>2 DEF CreateContest, Typed, Data, cache
<1>5. ASSUME NEW r \in Requests, NEW i \in Ids, NEW input \in Posts, UpdateContest(r, i, input)
      PROVE  Typed'
  <2> DEFINE q == [pc |-> "findForUpdate", id |-> i, input |-> input, existing |-> row[i],
                   asked |-> now]
  <2>1. q \in Request /\ WellFormed(q)
    <3>1. row[i] \in Rows /\ now \in Times
      BY <1>0, <1>5 DEF UpdateContest, Data
    <3>2. QED
      BY <3>1 DEF Request, Checked, WellFormed
  <2>2. writes' \in 0 .. MaxWrites
    BY <1>0, <1>5, ContestAdminAssumption DEF UpdateContest, Data
  <2>3. ReqOK'
    BY <1>0, <1>5, <2>1, ReqStep DEF UpdateContest
  <2>4. QED
    BY <1>0, <1>5, <2>2, <2>3 DEF UpdateContest, Typed, Data, cache
<1>6. ASSUME NEW r \in Requests, FindContest(r) PROVE Typed'
  <2>1. req[r] \in Locating
    BY <1>0, <1>6, Shapes DEF FindContest, ReqOK
  <2> DEFINE q == [pc |-> "setDetail", id |-> req[r].id, value |-> row[req[r].id]]
  <2>2. CASE row[req[r].id] = None
    BY <1>0, <1>6, <2>2, AnswerStep DEF FindContest, Typed, Data, database, cache
  <2>3. CASE row[req[r].id] # None
    <3>1. row[req[r].id] \in Rows
      BY <1>0, <2>1, <2>3 DEF Data, Locating
    <3>2. q \in Request /\ WellFormed(q)
      BY <2>1, <3>1 DEF Locating, Request, Caching, WellFormed
    <3>3. QED
      BY <1>0, <1>6, <2>3, <3>2, ReqStep DEF FindContest, Typed, Data, database, cache
  <2>4. QED
    BY <2>2, <2>3
<1>7. ASSUME NEW r \in Requests, SetDetail(r) PROVE Typed'
  <2>1. req[r] \in Caching
    BY <1>0, <1>7, Shapes DEF SetDetail, ReqOK
  <2>2. req[r].id \in Ids /\ req[r].value \in Rows
    BY <2>1 DEF Caching
  <2>3. ReqOK'
    BY <1>0, <1>7, AnswerStep DEF SetDetail
  <2>4. late' \subseteq Ids \cup Lists /\ lost' \subseteq Ids \cup Lists
    BY <1>0, <1>7, <2>2 DEF SetDetail, Data
  <2>5. QED
    BY <1>0, <1>7, <2>2, <2>3, <2>4 DEF SetDetail, Typed, Data, database
<1>8. ASSUME NEW r \in Requests, FindContests(r) PROVE Typed'
  <2>1. req[r] \in Listing
    BY <1>0, <1>8, Shapes DEF FindContests, ReqOK
  <2> DEFINE v == [rows |-> Query(req[r].key, now), at |-> now]
             q == [pc |-> "setList", key |-> req[r].key, value |-> v]
  <2>2. v \in Entry
    BY <1>0, QueryIsPartial DEF Entry, Data
  <2>3. q \in Request /\ WellFormed(q)
    BY <2>1, <2>2 DEF Listing, Request, CachingList, WellFormed
  <2>4. ReqOK'
    BY <1>0, <1>8, <2>3, ReqStep DEF FindContests
  <2>5. QED
    BY <1>0, <1>8, <2>4 DEF FindContests, Typed, Data, database, cache
<1>9. ASSUME NEW r \in Requests, SetList(r) PROVE Typed'
  <2>1. req[r] \in CachingList
    BY <1>0, <1>9, Shapes DEF SetList, ReqOK
  <2>2. req[r].key \in Lists /\ req[r].value \in Entry
    BY <2>1 DEF CachingList
  <2>3. ReqOK'
    BY <1>0, <1>9, AnswerStep DEF SetList
  <2>4. late' \subseteq Ids \cup Lists /\ lost' \subseteq Ids \cup Lists
    BY <1>0, <1>9, <2>2 DEF SetList, Data
  <2>5. list' \in [Lists -> Entry \cup {None}]
    BY <1>0, <1>9, <2>2 DEF SetList, Data
  <2>6. QED
    BY <1>0, <1>9, <2>3, <2>4, <2>5 DEF SetList, Typed, Data, database
<1>10. ASSUME NEW r \in Requests, FindForUpdate(r) PROVE Typed'
  <2>1. req[r] \in Checked
    BY <1>0, <1>10, Shapes DEF FindForUpdate, ReqOK
  <2> DEFINE i == req[r].id
             q == [pc |-> "save", id |-> i, input |-> req[r].input, existing |-> req[r].existing,
                   asked |-> req[r].asked, overtaken |-> row[i] # req[r].existing,
                   payload |-> toUpdatePayload(row[i], req[r].input)]
  <2>2. q \in Request /\ WellFormed(q)
    BY <2>1 DEF Checked, Request, Saving, WellFormed, toUpdatePayload
  <2>3. ReqOK'
    BY <1>0, <1>10, <2>2, ReqStep, AnswerStep DEF FindForUpdate
  <2>4. QED
    BY <1>0, <1>10, <2>3 DEF FindForUpdate, Typed, Data, database, cache
<1>11. ASSUME NEW r \in Requests, SaveContest(r) PROVE Typed'
  <2>1. req[r] \in Saving /\ WellFormed(req[r])
    BY <1>0, <1>11, Shapes DEF SaveContest, ReqOK
  <2>2. req[r].id \in Ids
    BY <2>1 DEF Saving
  <2>3. ReqOK'
    BY <1>0, <1>11, <2>2, Busts, ReqStep DEF SaveContest
  <2>4. row' \in [Ids -> Rows \cup {None}]
    <3>1. row[req[r].id] # None => row[req[r].id] \in Rows
      BY <1>0, <2>2 DEF Data
    <3>2. QED
      BY <1>0, <1>11, <2>1, <2>2, <3>1, SavedRow DEF SaveContest, Data
  <2>5. hasty' \subseteq Ids
    BY <1>0, <1>11, <2>2 DEF SaveContest, Data
  <2>6. QED
    BY <1>0, <1>11, <2>3, <2>4, <2>5 DEF SaveContest, Typed, Data, cache
<1>12. ASSUME NEW r \in Requests, DestroyContest(r) PROVE Typed'
  <2>1. req[r].id \in Ids
    BY <1>0, <1>12, Shapes DEF DestroyContest, ReqOK, Locating
  <2>2. ReqOK'
    BY <1>0, <1>12, <2>1, Busts, ReqStep, AnswerStep DEF DestroyContest
  <2>3. QED
    BY <1>0, <1>12, <2>1, <2>2 DEF DestroyContest, Typed, Data, cache
<1>13. ASSUME NEW r \in Requests, NEW k \in Lists, ScanList(r, k) PROVE Typed'
  <2> DEFINE q == [req[r] EXCEPT !.scan = @ \ {k},
                                 !.found = IF list[k] = None THEN @ ELSE @ \cup {k}]
  <2>1. req[r] \in Deleting /\ req[r].detail \subseteq {req[r].id}
    BY <1>0, <1>13, Shapes DEF ScanList, ReqOK, WellFormed
  <2>2. q \in Deleting /\ q.detail \subseteq {q.id}
    BY <2>1 DEF Deleting
  <2>3. ReqOK'
    BY <1>0, <1>13, <2>2, BustingStep DEF ScanList
  <2>4. QED
    BY <1>0, <1>13, <2>3 DEF ScanList, Typed, Data, database, cache
<1>14. ASSUME NEW r \in Requests, DeleteLists(r) PROVE Typed'
  <2> DEFINE q == [req[r] EXCEPT !.found = {}]
  <2>1. req[r] \in Deleting /\ req[r].detail \subseteq {req[r].id}
    BY <1>0, <1>14, Shapes DEF DeleteLists, ReqOK, WellFormed
  <2>2. q \in Deleting /\ q.detail \subseteq {q.id}
    BY <2>1 DEF Deleting
  <2>3. ReqOK'
    BY <1>0, <1>14, <2>2, BustingStep DEF DeleteLists
  <2>4. list' \in [Lists -> Entry \cup {None}]
    BY <1>0, <1>14 DEF DeleteLists, Data
  <2>5. late' \subseteq late /\ lost' \subseteq lost
    BY <1>14 DEF DeleteLists
  <2>6. QED
    BY <1>0, <1>14, <2>3, <2>4, <2>5 DEF DeleteLists, Typed, Data, database
<1>15. ASSUME NEW r \in Requests, DeleteDetail(r) PROVE Typed'
  <2> DEFINE q == [req[r] EXCEPT !.detail = {}]
  <2>1. req[r] \in Deleting /\ req[r].detail \subseteq {req[r].id}
    BY <1>0, <1>15, Shapes DEF DeleteDetail, ReqOK, WellFormed
  <2>2. q \in Deleting /\ q.detail \subseteq {q.id}
    BY <2>1 DEF Deleting
  <2>3. ReqOK'
    BY <1>0, <1>15, <2>2, BustingStep DEF DeleteDetail
  <2>4. QED
    BY <1>0, <1>15, <2>3 DEF DeleteDetail, Typed, Data, database
<1>16. ASSUME NEW r \in Requests, Abort(r) PROVE Typed'
  <2>1. Pending(r) \subseteq Ids \cup Lists
    BY <1>0, Shapes DEF Pending, ReqOK, Deleting
  <2>2. ReqOK'
    BY <1>0, <1>16, AnswerStep DEF Abort
  <2>3. QED
    BY <1>0, <1>16, <2>1, <2>2 DEF Abort, Typed, Data, database, cache
<1>17. CASE Tick
  <2>1. now' \in Times
    BY <1>0, <1>17, ContestAdminAssumption DEF Tick, Data, Times
  <2>2. QED
    BY <1>0, <1>17, <2>1 DEF Tick, Typed, Data, ReqOK, cache
<1>18. ASSUME NEW i \in Ids, ExpireDetail(i) PROVE Typed'
  BY <1>0, <1>18 DEF ExpireDetail, Typed, Data, ReqOK, database
<1>19. ASSUME NEW k \in Lists, ExpireList(k) PROVE Typed'
  BY <1>0, <1>19 DEF ExpireList, Typed, Data, ReqOK, database
<1>20. CASE UNCHANGED vars
  BY <1>0, <1>20 DEF vars, Typed, Data, ReqOK
<1>21. QED
  BY <1>1, <1>2, <1>3, <1>4, <1>5, <1>6, <1>7, <1>8, <1>9, <1>10, <1>11, <1>12, <1>13, <1>14,
     <1>15, <1>16, <1>17, <1>18, <1>19, <1>20
  DEF Next, Ask, Step

\* Contests, cached entries and requests are well typed: no update writes a
\* column that was not posted.
THEOREM TypeCorrect == Spec => []TypeOK
<1>1. Typed => TypeOK
  <2> SUFFICES ASSUME Typed PROVE TypeOK
    OBVIOUS
  <2>1. \A r \in Requests : req[r].pc \in
            {"idle", "findContest", "setDetail", "findContests", "setList",
             "findForUpdate", "save", "destroy", "bust"}
    BY Shapes DEF Typed, ReqOK
  <2>2. ASSUME NEW k \in Lists, list[k] # None
        PROVE  /\ list[k].at \in Times
               /\ DOMAIN list[k].rows \subseteq Ids
               /\ \A i \in DOMAIN list[k].rows : list[k].rows[i] \in Rows
    <3>1. list[k] \in Entry
      BY <2>2 DEF Typed, Data
    <3>2. PICK S \in SUBSET Ids : list[k].rows \in [S -> Rows]
      BY <3>1 DEF Entry, Partial
    <3>3. QED
      BY <3>1, <3>2 DEF Entry
  <2>3. QED
    BY <2>1, <2>2 DEF TypeOK, Typed, Data
<1>2. QED
  BY TypedInit, TypedStep, <1>1, PTL DEF Spec

-----------------------------------------------------------------------------
(* The ids.                                                                *)

\* An id is in the table, the cache or on its way there only if it was handed out.
Known ==
    /\ \A i \in Ids : row[i] # None \/ detail[i] # None => i \in used
    /\ \A r \in Requests : req[r].pc = "setDetail" => req[r].id \in used

LEMMA KnownStep == Typed /\ Known /\ [Next]_vars => Known'
<1> SUFFICES ASSUME Typed, Known, [Next]_vars PROVE Known'
  OBVIOUS
<1>0. Data /\ ReqOK
  BY DEF Typed
<1>1. ASSUME NEW r \in Requests, NEW q, req' = [req EXCEPT ![r] = q],
             q.pc = "setDetail" => q.id \in used', used \subseteq used'
      PROVE  \A s \in Requests : req'[s].pc = "setDetail" => req'[s].id \in used'
  BY <1>0, <1>1 DEF Known, ReqOK
<1>2. ASSUME NEW r \in Requests, Answer(r), used \subseteq used'
      PROVE  \A s \in Requests : req'[s].pc = "setDetail" => req'[s].id \in used'
  <2>1. Idle.pc # "setDetail"
    BY DEF Idle
  <2>2. QED
    BY <1>1, <1>2, <2>1 DEF Answer
<1>3. ASSUME NEW r \in Requests, NEW q, q.pc # "setDetail", Busting(r, q), used \subseteq used'
      PROVE  \A s \in Requests : req'[s].pc = "setDetail" => req'[s].id \in used'
  BY <1>1, <1>2, <1>3 DEF Busting
<1>4. \A i : bustCaches(i).pc = "bust" /\ bustLists(i).pc = "bust"
  BY DEF bustCaches, bustLists
<1>5. ASSUME NEW r \in Requests, NEW i \in used, GetById(r, i) \/ RemoveContest(r, i) PROVE Known'
  BY <1>1, <1>5 DEF GetById, RemoveContest, Known, database, cache
<1>6. ASSUME NEW r \in Requests, NEW k \in Lists, ListContests(r, k) PROVE Known'
  BY <1>1, <1>6 DEF ListContests, Known, database, cache
<1>7. ASSUME NEW r \in Requests, NEW i \in Ids, NEW c \in Rows, CreateContest(r, i, c) PROVE Known'
  BY <1>0, <1>1, <1>4, <1>7 DEF CreateContest, Known, Data, cache
<1>8. ASSUME NEW r \in Requests, NEW i \in Ids, NEW input \in Posts, UpdateContest(r, i, input)
      PROVE  Known'
  BY <1>1, <1>8 DEF UpdateContest, Known, cache
<1>9. ASSUME NEW r \in Requests, FindContest(r) PROVE Known'
  <2>1. req[r].id \in Ids
    BY <1>0, <1>9, Shapes DEF FindContest, ReqOK, Locating
  <2>2. row[req[r].id] # None => req[r].id \in used
    BY <2>1 DEF Known
  <2>3. QED
    BY <1>1, <1>2, <1>9, <2>2 DEF FindContest, Known, database, cache
<1>10. ASSUME NEW r \in Requests, SetDetail(r) PROVE Known'
  <2>1. req[r].id \in used /\ req[r].id \in Ids
    BY <1>0, <1>10, Shapes DEF SetDetail, Known, ReqOK, Caching
  <2>2. QED
    BY <1>0, <1>2, <1>10, <2>1 DEF SetDetail, Known, Data, database
<1>11. ASSUME NEW r \in Requests, FindContests(r) \/ FindForUpdate(r) PROVE Known'
  BY <1>1, <1>2, <1>11 DEF FindContests, FindForUpdate, Known, database, cache
<1>12. ASSUME NEW r \in Requests, SetList(r) PROVE Known'
  BY <1>2, <1>12 DEF SetList, Known, database
<1>13. ASSUME NEW r \in Requests, SaveContest(r) PROVE Known'
  <2>1. req[r].id \in Ids
    BY <1>0, <1>13, Shapes DEF SaveContest, ReqOK, Saving
  <2>2. \A i \in Ids : row'[i] # None => row[i] # None
    BY <1>0, <1>13, <2>1 DEF SaveContest, Data
  <2>3. QED
    BY <1>1, <1>4, <1>13, <2>2 DEF SaveContest, Known, cache
<1>14. ASSUME NEW r \in Requests, DestroyContest(r) PROVE Known'
  <2>1. req[r].id \in Ids
    BY <1>0, <1>14, Shapes DEF DestroyContest, ReqOK, Locating
  <2>2. \A i \in Ids : row'[i] # None => row[i] # None
    BY <1>0, <1>14, <2>1 DEF DestroyContest, Data
  <2>3. QED
    BY <1>1, <1>2, <1>4, <1>14, <2>2 DEF DestroyContest, Known, cache
<1>15. ASSUME NEW r \in Requests, NEW k \in Lists, ScanList(r, k) PROVE Known'
  <2>1. req[r] \in Deleting
    BY <1>0, <1>15, Shapes DEF ScanList, ReqOK
  <2>2. [req[r] EXCEPT !.scan = @ \ {k},
                       !.found = IF list[k] = None THEN @ ELSE @ \cup {k}].pc # "setDetail"
    BY <2>1 DEF Deleting
  <2>3. QED
    BY <1>3, <1>15, <2>2 DEF ScanList, Known, database, cache
<1>16. ASSUME NEW r \in Requests, DeleteLists(r) \/ DeleteDetail(r) PROVE Known'
  <2>1. req[r] \in Deleting
    BY <1>0, <1>16, Shapes DEF DeleteLists, DeleteDetail, ReqOK
  <2>2. /\ [req[r] EXCEPT !.found = {}].pc # "setDetail"
        /\ [req[r] EXCEPT !.detail = {}].pc # "setDetail"
    BY <2>1 DEF Deleting
  <2>3. \A s \in Requests : req'[s].pc = "setDetail" => req'[s].id \in used'
    BY <1>3, <1>16, <2>2 DEF DeleteLists, DeleteDetail, database
  <2>4. req[r].id \in Ids
    BY <2>1 DEF Deleting
  <2>5. \A i \in Ids : detail'[i] # None => detail[i] # None
    BY <1>0, <1>16, <2>4 DEF DeleteLists, DeleteDetail, Data
  <2>6. QED
    BY <1>16, <2>3, <2>5 DEF DeleteLists, DeleteDetail, Known, database
<1>17. ASSUME NEW r \in Requests, Abort(r) PROVE Known'
  BY <1>2, <1>17 DEF Abort, Known, database, cache
<1>18. CASE Tick
  BY <1>18 DEF Tick, Known, cache
<1>19. ASSUME NEW i \in Ids, ExpireDetail(i) PROVE Known'
  BY <1>0, <1>19 DEF ExpireDetail, Known, Data, database
<1>20. ASSUME NEW k \in Lists, ExpireList(k) PROVE Known'
  BY <1>20 DEF ExpireList, Known, database
<1>21. CASE UNCHANGED vars
  BY <1>21 DEF vars, Known
<1>22. QED
  BY <1>5, <1>6, <1>7, <1>8, <1>9, <1>10, <1>11, <1>12, <1>13, <1>14, <1>15, <1>16, <1>17,
     <1>18, <1>19, <1>20, <1>21
  DEF Next, Ask, Step

LEMMA KnownInit == Init => Known
BY DEF Init, Known, Idle

-----------------------------------------------------------------------------
(* The window of a contest.                                                *)

\* An update was checked against the row it was asked for, and writes what was
\* checked unless another write came between.
Sound(q) ==
    /\ q.pc \in {"findForUpdate", "save"} =>
        /\ validWindow(Merged(q.existing, q.input))
        /\ changingWindow(q.input) => q.asked < q.existing.start
    /\ q.pc = "save" /\ ~ q.overtaken => q.payload = toUpdatePayload(q.existing, q.input)
    /\ q.pc = "save" => \A f \in q.payload : q.input[f] # None

UpdatesSound == \A r \in Requests : Sound(req[r])

LEMMA OnlyUpdatesMatter ==
    ASSUME NEW q, q.pc \notin {"findForUpdate", "save"}
    PROVE  Sound(q)
BY DEF Sound

LEMMA SoundStep ==
    ASSUME Typed, UpdatesSound, NEW r \in Requests, NEW q, Sound(q), req' = [req EXCEPT ![r] = q]
    PROVE  UpdatesSound'
BY DEF Typed, ReqOK, UpdatesSound

LEMMA AnswerSound ==
    ASSUME Typed, UpdatesSound, NEW r \in Requests, Answer(r)
    PROVE  UpdatesSound'
<1>1. Sound(Idle)
  BY OnlyUpdatesMatter DEF Idle
<1>2. QED
  BY <1>1, SoundStep DEF Answer

LEMMA BustSound ==
    ASSUME NEW i
    PROVE  Sound(bustCaches(i)) /\ Sound(bustLists(i))
<1>1. bustCaches(i).pc = "bust" /\ bustLists(i).pc = "bust"
  BY DEF bustCaches, bustLists
<1>2. QED
  BY <1>1, OnlyUpdatesMatter

LEMMA BustingSound ==
    ASSUME Typed, UpdatesSound, NEW r \in Requests, NEW q, q.pc = "bust", Busting(r, q)
    PROVE  UpdatesSound'
<1>1. Sound(q)
  BY OnlyUpdatesMatter
<1>2. QED
  BY <1>1, SoundStep, AnswerSound DEF Busting

LEMMA UpdatesSoundStep == Typed /\ UpdatesSound /\ [Next]_vars => UpdatesSound'
<1> SUFFICES ASSUME Typed, UpdatesSound, [Next]_vars PROVE UpdatesSound'
  OBVIOUS
<1>0. Data /\ ReqOK
  BY DEF Typed
<1>1. ASSUME NEW r \in Requests, Answer(r) PROVE UpdatesSound'
  BY <1>1, AnswerSound
<1>2. ASSUME NEW r \in Requests, NEW q, q.pc \notin {"findForUpdate", "save"},
             req' = [req EXCEPT ![r] = q]
      PROVE  UpdatesSound'
  BY <1>2, OnlyUpdatesMatter, SoundStep
<1>3. ASSUME NEW r \in Requests, NEW i \in used, GetById(r, i) \/ RemoveContest(r, i)
      PROVE  UpdatesSound'
  BY <1>2, <1>3 DEF GetById, RemoveContest
<1>4. ASSUME NEW r \in Requests, NEW k \in Lists, ListContests(r, k) PROVE UpdatesSound'
  BY <1>2, <1>4 DEF ListContests
<1>5. ASSUME NEW r \in Requests, NEW i \in Ids, NEW c \in Rows, CreateContest(r, i, c)
      PROVE  UpdatesSound'
  BY <1>5, BustSound, SoundStep DEF CreateContest
<1>6. ASSUME NEW r \in Requests, NEW i \in Ids, NEW input \in Posts, UpdateContest(r, i, input)
      PROVE  UpdatesSound'
  <2> DEFINE q == [pc |-> "findForUpdate", id |-> i, input |-> input, existing |-> row[i],
                   asked |-> now]
  <2>1. changingWindow(input) => now < row[i].start
    BY <1>6 DEF UpdateContest, Accepts, deriveContestStatus
  <2>2. validWindow(Merged(row[i], input))
    BY <1>6 DEF UpdateContest, Accepts
  <2>3. Sound(q)
    BY <2>1, <2>2 DEF Sound
  <2>4. QED
    BY <1>6, <2>3, SoundStep DEF UpdateContest
<1>7. ASSUME NEW r \in Requests, FindContest(r) \/ FindContests(r) PROVE UpdatesSound'
  BY <1>1, <1>2, <1>7 DEF FindContest, FindContests
<1>8. ASSUME NEW r \in Requests, FindForUpdate(r) PROVE UpdatesSound'
  <2> DEFINE i == req[r].id
             q == [pc |-> "save", id |-> i, input |-> req[r].input, existing |-> req[r].existing,
                   asked |-> req[r].asked, overtaken |-> row[i] # req[r].existing,
                   payload |-> toUpdatePayload(row[i], req[r].input)]
  <2>1. req[r].pc = "findForUpdate" /\ Sound(req[r])
    BY <1>8 DEF FindForUpdate, UpdatesSound
  <2>2. /\ validWindow(Merged(q.existing, q.input))
        /\ changingWindow(q.input) => q.asked < q.existing.start
    BY <2>1 DEF Sound
  <2>3. /\ ~ q.overtaken => q.payload = toUpdatePayload(q.existing, q.input)
        /\ \A f \in q.payload : q.input[f] # None
    BY DEF toUpdatePayload
  <2>4. Sound(q)
    BY <2>2, <2>3 DEF Sound
  <2>5. QED
    BY <1>1, <1>8, <2>4, SoundStep DEF FindForUpdate
<1>9. ASSUME NEW r \in Requests, SaveContest(r) \/ DestroyContest(r) PROVE UpdatesSound'
  BY <1>1, <1>9, BustSound, SoundStep DEF SaveContest, DestroyContest
<1>10. ASSUME NEW r \in Requests, NEW k \in Lists, ScanList(r, k) PROVE UpdatesSound'
  <2>1. req[r] \in Deleting
    BY <1>0, <1>10, Shapes DEF ScanList, ReqOK
  <2>2. [req[r] EXCEPT !.scan = @ \ {k},
                       !.found = IF list[k] = None THEN @ ELSE @ \cup {k}].pc = "bust"
    BY <2>1 DEF Deleting
  <2>3. QED
    BY <1>10, <2>2, BustingSound DEF ScanList
<1>11. ASSUME NEW r \in Requests, DeleteLists(r) \/ DeleteDetail(r) PROVE UpdatesSound'
  <2>1. req[r] \in Deleting
    BY <1>0, <1>11, Shapes DEF DeleteLists, DeleteDetail, ReqOK
  <2>2. [req[r] EXCEPT !.found = {}].pc = "bust" /\ [req[r] EXCEPT !.detail = {}].pc = "bust"
    BY <2>1 DEF Deleting
  <2>3. QED
    BY <1>11, <2>2, BustingSound DEF DeleteLists, DeleteDetail
<1>12. CASE UNCHANGED req
  BY <1>12 DEF UpdatesSound
<1>13. QED
  BY <1>1, <1>3, <1>4, <1>5, <1>6, <1>7, <1>8, <1>9, <1>10, <1>11, <1>12
  DEF Next, Ask, Step, SetDetail, SetList, Abort, Tick, ExpireDetail, ExpireList, vars

\* A write that nothing overtook leaves the row that was checked.
LEMMA SavedAsChecked ==
    ASSUME NEW c \in Rows, NEW input \in Posts
    PROVE  [f \in Fields |-> IF f \in toUpdatePayload(c, input) THEN input[f] ELSE c[f]]
             = Merged(c, input)
BY DEF toUpdatePayload, Merged

LEMMA WindowsStep ==
    Typed /\ UpdatesSound /\ WindowsAreValid /\ [Next]_vars => WindowsAreValid'
<1> SUFFICES ASSUME Typed, UpdatesSound, WindowsAreValid, [Next]_vars PROVE WindowsAreValid'
  OBVIOUS
<1>0. Data /\ ReqOK
  BY DEF Typed
<1>1. ASSUME NEW r \in Requests, NEW i \in Ids, NEW c \in Rows, CreateContest(r, i, c)
      PROVE  WindowsAreValid'
  BY <1>0, <1>1 DEF CreateContest, WindowsAreValid, Data
<1>2. ASSUME NEW r \in Requests, SaveContest(r) PROVE WindowsAreValid'
  <2> DEFINE i == req[r].id
  <2>1. req[r] \in Saving /\ Sound(req[r])
    BY <1>0, <1>2, Shapes DEF SaveContest, ReqOK, UpdatesSound
  <2>2. i \in Ids /\ req[r].input \in Posts
    BY <2>1 DEF Saving
  <2>3. ASSUME NEW j \in Ids \ hasty', row'[j] # None PROVE validWindow(row'[j])
    <3>1. CASE j # i
      <4>1. row'[j] = row[j] /\ j \notin hasty
        BY <1>0, <1>2, <2>2, <2>3, <3>1 DEF SaveContest, Data
      <4>2. QED
        BY <2>3, <4>1 DEF WindowsAreValid
    <3>2. CASE j = i
      <4>1. ~ req[r].overtaken /\ row[i] = req[r].existing
        BY <1>2, <2>3, <3>2 DEF SaveContest
      <4>2. req[r].pc = "save"
        BY <1>2 DEF SaveContest
      <4>3. /\ req[r].payload = toUpdatePayload(row[i], req[r].input)
            /\ validWindow(Merged(row[i], req[r].input))
        BY <2>1, <4>1, <4>2 DEF Sound
      <4>4. row[i] # None
        BY <1>2, <2>3, <3>2 DEF SaveContest
      <4>5. row[i] \in Rows
        BY <1>0, <2>2, <4>4 DEF Data
      <4>6. row'[i] = [f \in Fields |->
                         IF f \in req[r].payload THEN req[r].input[f] ELSE row[i][f]]
        BY <1>0, <1>2, <2>2, <4>4 DEF SaveContest, Data
      <4>7. row'[i] = Merged(row[i], req[r].input)
        BY <2>2, <4>3, <4>5, <4>6, SavedAsChecked
      <4>8. QED
        BY <3>2, <4>3, <4>7
    <3>3. QED
      BY <3>1, <3>2
  <2>4. QED
    BY <2>3 DEF WindowsAreValid
<1>3. ASSUME NEW r \in Requests, DestroyContest(r) PROVE WindowsAreValid'
  <2>1. req[r].id \in Ids
    BY <1>0, <1>3, Shapes DEF DestroyContest, ReqOK, Locating
  <2>2. QED
    BY <1>0, <1>3, <2>1 DEF DestroyContest, WindowsAreValid, Data
<1>4. CASE UNCHANGED <<row, hasty>>
  BY <1>4 DEF WindowsAreValid
<1>5. QED
  BY <1>1, <1>2, <1>3, <1>4
  DEF Next, Ask, Step, vars, database, GetById, RemoveContest, ListContests, UpdateContest,
      FindContest, SetDetail, FindContests, SetList, FindForUpdate, ScanList, DeleteLists,
      DeleteDetail, Abort, Tick, ExpireDetail, ExpireList

LEMMA WindowsInit == Init => UpdatesSound /\ WindowsAreValid
<1> SUFFICES ASSUME Init PROVE UpdatesSound /\ WindowsAreValid
  OBVIOUS
<1>1. Sound(Idle)
  BY OnlyUpdatesMatter DEF Idle
<1>2. QED
  BY <1>1 DEF Init, UpdatesSound, WindowsAreValid

\* The window of a contest stays valid whatever partial updates are posted, as
\* long as no update is overtaken between its checks and its UPDATE.
THEOREM WindowsStayValid == Spec => []WindowsAreValid
BY TypedInit, TypedStep, WindowsInit, UpdatesSoundStep, WindowsStep, PTL DEF Spec

\* A schedule changes only by an update that was asked for before the contest
\* started, or that another write overtook.
THEOREM ScheduleIsHeld == Spec => ScheduleHeld
<1> DEFINE Held ==
        \A i \in Ids :
            row[i] # None /\ row'[i] # None /\ Window(row'[i]) # Window(row[i]) =>
                \E r \in Requests :
                    /\ req[r].pc = "save"
                    /\ req[r].id = i
                    /\ req[r].asked < row[i].start \/ req[r].existing # row[i]
<1>1. Typed /\ Known /\ UpdatesSound /\ [Next]_vars => [Held]_vars
  <2> SUFFICES ASSUME Typed, Known, UpdatesSound, Next, NEW i \in Ids,
                      row[i] # None, row'[i] # None, Window(row'[i]) # Window(row[i])
               PROVE  \E r \in Requests :
                        /\ req[r].pc = "save"
                        /\ req[r].id = i
                        /\ req[r].asked < row[i].start \/ req[r].existing # row[i]
    OBVIOUS
  <2>0. Data /\ ReqOK
    BY DEF Typed
  <2>1. ASSUME NEW r \in Requests, SaveContest(r)
        PROVE  req[r].id = i /\ (req[r].asked < row[i].start \/ req[r].existing # row[i])
    <3>1. req[r] \in Saving /\ req[r].id \in Ids /\ Sound(req[r]) /\ req[r].pc = "save"
      BY <2>0, <2>1, Shapes DEF SaveContest, ReqOK, UpdatesSound, Saving
    <3>2. req[r].id = i
      BY <2>0, <2>1, <3>1 DEF SaveContest, Data
    <3>3. row'[i] = [f \in Fields |->
                       IF f \in req[r].payload THEN req[r].input[f] ELSE row[i][f]]
      BY <2>0, <2>1, <3>1, <3>2 DEF SaveContest, Data
    <3>4. "start" \in req[r].payload \/ "end" \in req[r].payload
      BY <3>3 DEF Window, Fields
    <3>5. changingWindow(req[r].input)
      BY <3>1, <3>4 DEF changingWindow, WindowKeys, Sound
    <3>6. QED
      BY <3>1, <3>2, <3>5 DEF Sound
  <2>2. ASSUME NEW r \in Requests, NEW j \in Ids, NEW c \in Rows, CreateContest(r, j, c)
        PROVE  FALSE
    <3>1. j # i
      BY <2>2 DEF CreateContest, Known
    <3>2. row'[i] = row[i]
      BY <2>0, <2>2, <3>1 DEF CreateContest, Data
    <3>3. QED
      BY <3>2
  <2>3. ASSUME NEW r \in Requests, DestroyContest(r) PROVE FALSE
    <3>1. req[r].id \in Ids
      BY <2>0, <2>3, Shapes DEF DestroyContest, ReqOK, Locating
    <3>2. row'[i] = row[i] \/ row'[i] = None
      BY <2>0, <2>3, <3>1 DEF DestroyContest, Data
    <3>3. QED
      BY <3>2
  <2>4. row' # row
    OBVIOUS
  <2>5. \E r \in Requests : SaveContest(r)
    BY <2>2, <2>3, <2>4
    DEF Next, Ask, Step, database, GetById, RemoveContest, ListContests, UpdateContest,
        FindContest, SetDetail, FindContests, SetList, FindForUpdate, ScanList, DeleteLists,
        DeleteDetail, Abort, Tick, ExpireDetail, ExpireList
  <2>6. PICK r \in Requests : SaveContest(r)
    BY <2>5
  <2>7. req[r].pc = "save"
    BY <2>6 DEF SaveContest
  <2>8. QED
    BY <2>1, <2>6, <2>7
<1>2. QED
  BY TypedInit, TypedStep, KnownInit, KnownStep, WindowsInit, UpdatesSoundStep, <1>1, PTL
  DEF Spec, ScheduleHeld

-----------------------------------------------------------------------------
(* The cache.                                                              *)

PendingOf(q) == IF q.pc = "bust" THEN q.scan \cup q.found \cup q.detail ELSE {}

FreshDetail(i) ==
    detail[i] # None /\ i \notin late \cup lost => detail[i] = row[i] \/ Removing(i)
FreshList(k) ==
    list[k] # None /\ k \notin late \cup lost =>
        list[k].rows = Query(k, list[k].at) \/ Removing(k)
Fresh == (\A i \in Ids : FreshDetail(i)) /\ (\A k \in Lists : FreshList(k))

\* What the changed request still has to delete is still to be deleted.
LEMMA RemovingStep ==
    ASSUME ReqOK, NEW r \in Requests, NEW q, req' = [req EXCEPT ![r] = q]
    PROVE  /\ \A x : Removing(x) /\ (x \in PendingOf(req[r]) => x \in PendingOf(q)) => Removing(x)'
           /\ \A x \in PendingOf(q) : Removing(x)'
<1>1. \A s \in Requests : req'[s] = IF s = r THEN q ELSE req[s]
  BY DEF ReqOK
<1>2. \A s \in Requests : Pending(s) = PendingOf(req[s]) /\ Pending(s)' = PendingOf(req'[s])
  BY DEF Pending, PendingOf
<1>3. \A x : Removing(x) <=> \E s \in Requests : x \in PendingOf(req[s])
  BY <1>2 DEF Removing
<1>4. \A x : Removing(x)' <=> \E s \in Requests : x \in PendingOf(req'[s])
  BY <1>2 DEF Removing
<1>5. QED
  BY <1>1, <1>3, <1>4

LEMMA FreshDefinition == FreshUnlessRaced <=> Fresh
BY DEF FreshUnlessRaced, Fresh, FreshDetail, FreshList

\* A step that changes neither the table nor the cache, of a request that has
\* nothing to delete.
LEMMA ReadStep ==
    ASSUME ReqOK, Fresh, NEW r \in Requests, NEW q, req' = [req EXCEPT ![r] = q],
           PendingOf(req[r]) = {}, UNCHANGED <<row, detail, list, late, lost>>
    PROVE  Fresh'
<1>1. \A x : Removing(x) => Removing(x)'
  BY RemovingStep
<1>2. \A i \in Ids : FreshDetail(i)'
  BY <1>1 DEF Fresh, FreshDetail
<1>3. ASSUME NEW k \in Lists PROVE FreshList(k)'
  <2>1. Query(k, list[k].at)' = Query(k, list[k].at)
    BY DEF Query, buildWhere, statusWhere
  <2>2. FreshList(k)
    BY DEF Fresh
  <2>3. QED
    BY <1>1, <2>1, <2>2 DEF FreshList
<1>4. QED
  BY <1>2, <1>3 DEF Fresh

\* A step that changes the row of i and then has all lists, and the entry of i if
\* there can be one, to delete.
LEMMA WriteStep ==
    ASSUME Typed, Fresh, NEW r \in Requests, NEW i \in Ids, NEW q, req' = [req EXCEPT ![r] = q],
           PendingOf(req[r]) = {}, Lists \subseteq PendingOf(q),
           i \in PendingOf(q) \/ detail[i] = None,
           \A j \in Ids \ {i} : row'[j] = row[j], UNCHANGED <<detail, list, late, lost>>
    PROVE  Fresh'
<1>1. (\A x : Removing(x) => Removing(x)') /\ (\A x \in PendingOf(q) : Removing(x)')
  BY RemovingStep DEF Typed
<1>2. ASSUME NEW j \in Ids PROVE FreshDetail(j)'
  <2>1. CASE j = i
    BY <1>1, <2>1 DEF FreshDetail
  <2>2. CASE j # i
    BY <1>1, <2>2 DEF Fresh, FreshDetail
  <2>3. QED
    BY <2>1, <2>2
<1>3. \A k \in Lists : FreshList(k)'
  BY <1>1 DEF FreshList
<1>4. QED
  BY <1>2, <1>3 DEF Fresh

\* A step that deletes entries, or only looks for them.
LEMMA DeleteStep ==
    ASSUME Typed, Fresh, NEW r \in Requests, NEW q, req' = [req EXCEPT ![r] = q],
           UNCHANGED row,
           \A i \in Ids : detail'[i] = None \/
                (detail'[i] = detail[i] /\ (i \in PendingOf(req[r]) => i \in PendingOf(q))),
           \A k \in Lists : list'[k] = None \/
                (list'[k] = list[k] /\ (k \in PendingOf(req[r]) => k \in PendingOf(q))),
           \A i \in Ids : detail'[i] # None => (i \in late \cup lost => i \in late' \cup lost'),
           \A k \in Lists : list'[k] # None => (k \in late \cup lost => k \in late' \cup lost')
    PROVE  Fresh'
<1>1. \A x : Removing(x) /\ (x \in PendingOf(req[r]) => x \in PendingOf(q)) => Removing(x)'
  BY RemovingStep DEF Typed
<1>2. \A i \in Ids : FreshDetail(i)'
  BY <1>1 DEF Fresh, FreshDetail
<1>3. ASSUME NEW k \in Lists PROVE FreshList(k)'
  <2>1. \A at : Query(k, at)' = Query(k, at)
    BY DEF Query, buildWhere, statusWhere
  <2>2. FreshList(k)
    BY DEF Fresh
  <2>3. CASE list'[k] = None
    BY <2>3 DEF FreshList
  <2>4. CASE list'[k] # None
    <3>1. /\ list'[k] = list[k]
          /\ k \in PendingOf(req[r]) => k \in PendingOf(q)
          /\ k \in late \cup lost => k \in late' \cup lost'
      BY <2>4
    <3>2. QED
      BY <1>1, <2>1, <2>2, <3>1 DEF FreshList
  <2>5. QED
    BY <2>3, <2>4
<1>4. QED
  BY <1>2, <1>3 DEF Fresh

\* A request that answers when nothing is left had nothing left.
LEMMA BustingAsStep ==
    ASSUME NEW r \in Requests, NEW q, q.pc = "bust", Busting(r, q)
    PROVE  \E p : req' = [req EXCEPT ![r] = p] /\ PendingOf(p) = PendingOf(q)
<1>1. CASE q.scan \cup q.found \cup q.detail = {}
  <2>1. PendingOf(Idle) = {} /\ PendingOf(q) = {}
    BY <1>1 DEF PendingOf, Idle
  <2>2. QED
    BY <1>1, <2>1 DEF Busting, Answer
<1>2. CASE q.scan \cup q.found \cup q.detail # {}
  BY <1>2 DEF Busting
<1>3. QED
  BY <1>1, <1>2

LEMMA FreshStep == Typed /\ Known /\ Fresh /\ [Next]_vars => Fresh'
<1> SUFFICES ASSUME Typed, Known, Fresh, [Next]_vars PROVE Fresh'
  OBVIOUS
<1>0. Data /\ ReqOK /\ Ids \cap Lists = {}
  BY ContestAdminAssumption DEF Typed
<1>1. ASSUME NEW r \in Requests, NEW q, req' = [req EXCEPT ![r] = q],
             req[r].pc # "bust", UNCHANGED <<row, detail, list, late, lost>>
      PROVE  Fresh'
  <2>1. PendingOf(req[r]) = {}
    BY <1>1 DEF PendingOf
  <2>2. QED
    BY <1>0, <1>1, <2>1, ReadStep
<1>2. ASSUME NEW r \in Requests, Answer(r), req[r].pc # "bust",
             UNCHANGED <<row, detail, list, late, lost>>
      PROVE  Fresh'
  BY <1>1, <1>2 DEF Answer
<1>3. ASSUME NEW r \in Requests, NEW i \in used, GetById(r, i) \/ RemoveContest(r, i) PROVE Fresh'
  <2>1. req[r].pc # "bust" /\ UNCHANGED <<row, detail, list, late, lost>>
    BY <1>3 DEF GetById, RemoveContest, Idle, database, cache
  <2>2. \E q : req' = [req EXCEPT ![r] = q]
    BY <1>3 DEF GetById, RemoveContest
  <2>3. QED
    BY <1>1, <2>1, <2>2
<1>4. ASSUME NEW r \in Requests, NEW k \in Lists, ListContests(r, k) PROVE Fresh'
  <2>1. req[r].pc # "bust" /\ UNCHANGED <<row, detail, list, late, lost>>
    BY <1>4 DEF ListContests, Idle, database, cache
  <2>2. \E q : req' = [req EXCEPT ![r] = q]
    BY <1>4 DEF ListContests
  <2>3. QED
    BY <1>1, <2>1, <2>2
<1>5. ASSUME NEW r \in Requests, NEW i \in Ids, NEW input \in Posts, UpdateContest(r, i, input)
      PROVE  Fresh'
  <2>1. req[r].pc # "bust" /\ UNCHANGED <<row, detail, list, late, lost>>
    BY <1>5 DEF UpdateContest, Idle, cache
  <2>2. \E q : req' = [req EXCEPT ![r] = q]
    BY <1>5 DEF UpdateContest
  <2>3. QED
    BY <1>1, <2>1, <2>2
<1>6. ASSUME NEW r \in Requests, FindContest(r) \/ FindContests(r) \/ FindForUpdate(r) PROVE Fresh'
  BY <1>1, <1>2, <1>6 DEF FindContest, FindContests, FindForUpdate, database, cache
<1>7. ASSUME NEW r \in Requests, NEW i \in Ids, NEW c \in Rows, CreateContest(r, i, c) PROVE Fresh'
  <2>1. PendingOf(req[r]) = {}
    BY <1>7 DEF CreateContest, PendingOf, Idle
  <2>2. Lists \subseteq PendingOf(bustLists(i))
    BY DEF PendingOf, bustLists, bustCaches
  <2>3. detail[i] = None
    BY <1>7 DEF CreateContest, Known
  <2>4. \A j \in Ids \ {i} : row'[j] = row[j]
    BY <1>0, <1>7 DEF CreateContest, Data
  <2>5. QED
    BY <1>7, <2>1, <2>2, <2>3, <2>4, WriteStep DEF CreateContest, cache
<1>8. ASSUME NEW i \in Ids
      PROVE  Lists \subseteq PendingOf(bustCaches(i)) /\ i \in PendingOf(bustCaches(i))
  BY DEF PendingOf, bustCaches
<1>9. ASSUME NEW r \in Requests, SaveContest(r) PROVE Fresh'
  <2> DEFINE i == req[r].id
  <2>1. i \in Ids
    BY <1>0, <1>9, Shapes DEF SaveContest, ReqOK, Saving
  <2>2. PendingOf(req[r]) = {}
    BY <1>9 DEF SaveContest, PendingOf
  <2>3. \A j \in Ids \ {i} : row'[j] = row[j]
    BY <1>0, <1>9, <2>1 DEF SaveContest, Data
  <2>4. req' = [req EXCEPT ![r] = bustCaches(i)] /\ UNCHANGED <<detail, list, late, lost>>
    BY <1>9 DEF SaveContest, cache
  <2>5. QED
    BY <1>8, <2>1, <2>2, <2>3, <2>4, WriteStep
<1>10. ASSUME NEW r \in Requests, DestroyContest(r) PROVE Fresh'
  <2> DEFINE i == req[r].id
  <2>1. i \in Ids
    BY <1>0, <1>10, Shapes DEF DestroyContest, ReqOK, Locating
  <2>2. PendingOf(req[r]) = {} /\ UNCHANGED <<detail, list, late, lost>>
    BY <1>10 DEF DestroyContest, PendingOf, cache
  <2>3. CASE row[i] = None
    BY <1>2, <1>10, <2>2, <2>3 DEF DestroyContest
  <2>4. CASE row[i] # None
    <3>1. \A j \in Ids \ {i} : row'[j] = row[j]
      BY <1>0, <1>10, <2>1, <2>4 DEF DestroyContest, Data
    <3>2. req' = [req EXCEPT ![r] = bustCaches(i)]
      BY <1>10, <2>4 DEF DestroyContest
    <3>3. QED
      BY <1>8, <2>1, <2>2, <3>1, <3>2, WriteStep
  <2>5. QED
    BY <2>3, <2>4
<1>11. ASSUME NEW r \in Requests, SetDetail(r) PROVE Fresh'
  <2> DEFINE i == req[r].id
             v == req[r].value
  <2>1. i \in Ids /\ i \notin Lists
    BY <1>0, <1>11, Shapes DEF SetDetail, ReqOK, Caching
  <2>2. PendingOf(req[r]) = {}
    BY <1>11 DEF SetDetail, PendingOf
  <2>3. \A x : Removing(x) => Removing(x)'
    BY <1>0, <1>11, <2>2, RemovingStep DEF SetDetail, Answer
  <2>4. /\ UNCHANGED <<row, list>>
        /\ \A j \in Ids : detail'[j] = IF j = i THEN v ELSE detail[j]
        /\ late' = IF v = row[i] THEN late \ {i} ELSE late \cup {i}
        /\ lost' = lost \ {i}
    BY <1>0, <1>11, <2>1 DEF SetDetail, Data, database
  <2>5. ASSUME NEW j \in Ids PROVE FreshDetail(j)'
    <3>1. CASE j = i
      BY <2>4, <3>1 DEF FreshDetail
    <3>2. CASE j # i
      BY <2>3, <2>4, <3>2 DEF Fresh, FreshDetail
    <3>3. QED
      BY <3>1, <3>2
  <2>6. ASSUME NEW k \in Lists PROVE FreshList(k)'
    <3>1. \A at : Query(k, at)' = Query(k, at)
      BY <2>4 DEF Query, buildWhere, statusWhere
    <3>2. k \in late' \cup lost' <=> k \in late \cup lost
      BY <2>1, <2>4
    <3>3. QED
      BY <2>3, <2>4, <3>1, <3>2 DEF Fresh, FreshList
  <2>7. QED
    BY <2>5, <2>6 DEF Fresh
<1>12. ASSUME NEW r \in Requests, SetList(r) PROVE Fresh'
  <2> DEFINE k == req[r].key
             v == req[r].value
  <2>1. k \in Lists /\ k \notin Ids
    BY <1>0, <1>12, Shapes DEF SetList, ReqOK, CachingList
  <2>2. PendingOf(req[r]) = {}
    BY <1>12 DEF SetList, PendingOf
  <2>3. \A x : Removing(x) => Removing(x)'
    BY <1>0, <1>12, <2>2, RemovingStep DEF SetList, Answer
  <2>4. /\ UNCHANGED <<row, detail>>
        /\ \A l \in Lists : list'[l] = IF l = k THEN v ELSE list[l]
        /\ late' = IF v.rows = Query(k, v.at) THEN late \ {k} ELSE late \cup {k}
        /\ lost' = lost \ {k}
    BY <1>0, <1>12, <2>1 DEF SetList, Data, database
  <2>5. ASSUME NEW i \in Ids PROVE FreshDetail(i)'
    BY <2>1, <2>3, <2>4 DEF Fresh, FreshDetail
  <2>6. ASSUME NEW l \in Lists PROVE FreshList(l)'
    <3>1. \A at : Query(l, at)' = Query(l, at)
      BY <2>4 DEF Query, buildWhere, statusWhere
    <3>2. CASE l = k
      BY <2>4, <3>1, <3>2 DEF FreshList
    <3>3. CASE l # k
      BY <2>3, <2>4, <3>1, <3>3 DEF Fresh, FreshList
    <3>4. QED
      BY <3>2, <3>3
  <2>7. QED
    BY <2>5, <2>6 DEF Fresh
<1>13. ASSUME NEW r \in Requests, NEW k \in Lists, ScanList(r, k) PROVE Fresh'
  <2> DEFINE q == [req[r] EXCEPT !.scan = @ \ {k},
                                 !.found = IF list[k] = None THEN @ ELSE @ \cup {k}]
  <2>1. req[r] \in Deleting /\ req[r].pc = "bust"
    BY <1>0, <1>13, Shapes DEF ScanList, ReqOK
  <2>2. q.pc = "bust" /\ Busting(r, q)
    BY <1>13, <2>1 DEF ScanList, Deleting
  <2>3. PICK p : req' = [req EXCEPT ![r] = p] /\ PendingOf(p) = PendingOf(q)
    BY <2>2, BustingAsStep
  <2>4. \A x : x \in PendingOf(req[r]) /\ ~ (x = k /\ list[k] = None) => x \in PendingOf(q)
    BY <2>1 DEF PendingOf, Deleting
  <2>5. UNCHANGED <<row, detail, list, late, lost>>
    BY <1>13 DEF ScanList, database, cache
  <2>6. \A i \in Ids : i \in PendingOf(req[r]) => i \in PendingOf(p)
    BY <1>0, <2>3, <2>4
  <2>7. \A l \in Lists : list[l] = None \/ (l \in PendingOf(req[r]) => l \in PendingOf(p))
    BY <2>3, <2>4
  <2>8. QED
    BY <2>3, <2>5, <2>6, <2>7, DeleteStep
<1>14. ASSUME NEW r \in Requests, DeleteLists(r) PROVE Fresh'
  <2> DEFINE q == [req[r] EXCEPT !.found = {}]
             gone == req[r].found
  <2>1. req[r] \in Deleting /\ req[r].pc = "bust" /\ gone \subseteq Lists
    BY <1>0, <1>14, Shapes DEF DeleteLists, ReqOK, Deleting
  <2>2. q.pc = "bust" /\ Busting(r, q)
    BY <1>14, <2>1 DEF DeleteLists, Deleting
  <2>3. PICK p : req' = [req EXCEPT ![r] = p] /\ PendingOf(p) = PendingOf(q)
    BY <2>2, BustingAsStep
  <2>4. \A x : x \in PendingOf(req[r]) /\ x \notin gone => x \in PendingOf(p)
    BY <2>1, <2>3 DEF PendingOf, Deleting
  <2>5. /\ UNCHANGED <<row, detail>>
        /\ \A k \in Lists : list'[k] = IF k \in gone THEN None ELSE list[k]
        /\ late' = late \ gone /\ lost' = lost \ gone
    BY <1>14 DEF DeleteLists, database
  <2>6. \A i \in Ids : i \notin gone
    BY <1>0, <2>1
  <2>7. QED
    BY <2>3, <2>4, <2>5, <2>6, DeleteStep
<1>15. ASSUME NEW r \in Requests, DeleteDetail(r) PROVE Fresh'
  <2> DEFINE q == [req[r] EXCEPT !.detail = {}]
             i == req[r].id
  <2>1. req[r] \in Deleting /\ req[r].pc = "bust" /\ req[r].detail \subseteq {i}
    BY <1>0, <1>15, Shapes DEF DeleteDetail, ReqOK, WellFormed
  <2>2. q.pc = "bust" /\ Busting(r, q) /\ i \in Ids /\ i \notin Lists
    BY <1>0, <1>15, <2>1 DEF DeleteDetail, Deleting
  <2>3. PICK p : req' = [req EXCEPT ![r] = p] /\ PendingOf(p) = PendingOf(q)
    BY <2>2, BustingAsStep
  <2>4. \A x : x \in PendingOf(req[r]) /\ x # i => x \in PendingOf(p)
    BY <2>1, <2>3 DEF PendingOf, Deleting
  <2>5. /\ UNCHANGED <<row, list>>
        /\ \A j \in Ids : detail'[j] = IF j = i THEN None ELSE detail[j]
        /\ late' = late \ {i} /\ lost' = lost \ {i}
    BY <1>0, <1>15 DEF DeleteDetail, Data, database
  <2>6. QED
    BY <2>2, <2>3, <2>4, <2>5, DeleteStep
<1>16. ASSUME NEW r \in Requests, Abort(r) PROVE Fresh'
  <2>1. Pending(r) = PendingOf(req[r])
    BY DEF Pending, PendingOf
  <2>2. /\ UNCHANGED <<row, detail, list, late>>
        /\ lost' = lost \cup PendingOf(req[r])
        /\ req' = [req EXCEPT ![r] = Idle]
    BY <1>16, <2>1 DEF Abort, Answer, database, cache
  <2>3. \A x : Removing(x) /\ x \notin PendingOf(req[r]) => Removing(x)'
    BY <1>0, <2>2, RemovingStep
  <2>4. \A i \in Ids : FreshDetail(i)'
    BY <2>2, <2>3 DEF Fresh, FreshDetail
  <2>5. ASSUME NEW k \in Lists PROVE FreshList(k)'
    <3>1. \A at : Query(k, at)' = Query(k, at)
      BY <2>2 DEF Query, buildWhere, statusWhere
    <3>2. QED
      BY <2>2, <2>3, <3>1 DEF Fresh, FreshList
  <2>6. QED
    BY <2>4, <2>5 DEF Fresh
<1>17. ASSUME UNCHANGED <<row, req>>,
             \A i \in Ids : detail'[i] = None \/
                (detail'[i] = detail[i] /\ (i \in late \cup lost => i \in late' \cup lost')),
             \A k \in Lists : list'[k] = None \/
                (list'[k] = list[k] /\ (k \in late \cup lost => k \in late' \cup lost'))
       PROVE  Fresh'
  <2>1. \A x : Removing(x)' <=> Removing(x)
    BY <1>17 DEF Removing, Pending
  <2>2. \A i \in Ids : FreshDetail(i)'
    BY <1>17, <2>1 DEF Fresh, FreshDetail
  <2>3. ASSUME NEW k \in Lists PROVE FreshList(k)'
    <3>1. \A at : Query(k, at)' = Query(k, at)
      BY <1>17 DEF Query, buildWhere, statusWhere
    <3>2. QED
      BY <1>17, <2>1, <3>1 DEF Fresh, FreshList
  <2>4. QED
    BY <2>2, <2>3 DEF Fresh
<1>18. CASE Tick \/ UNCHANGED vars
  <2>1. UNCHANGED <<row, req, detail, list, late, lost>>
    BY <1>18 DEF Tick, vars, cache
  <2>2. QED
    BY <1>17, <2>1
<1>19. ASSUME NEW i \in Ids, ExpireDetail(i) PROVE Fresh'
  <2>1. /\ UNCHANGED <<row, req, list>>
        /\ \A j \in Ids : detail'[j] = IF j = i THEN None ELSE detail[j]
        /\ late' = late \ {i} /\ lost' = lost \ {i} /\ i \notin Lists
    BY <1>0, <1>19 DEF ExpireDetail, Data, database
  <2>2. QED
    BY <1>17, <2>1
<1>20. ASSUME NEW k \in Lists, ExpireList(k) PROVE Fresh'
  <2>1. /\ UNCHANGED <<row, req, detail>>
        /\ \A l \in Lists : list'[l] = IF l = k THEN None ELSE list[l]
        /\ late' = late \ {k} /\ lost' = lost \ {k} /\ k \notin Ids
    BY <1>0, <1>20 DEF ExpireList, Data, database
  <2>2. QED
    BY <1>17, <2>1
<1>21. QED
  BY <1>3, <1>4, <1>5, <1>6, <1>7, <1>9, <1>10, <1>11, <1>12, <1>13, <1>14, <1>15, <1>16,
     <1>18, <1>19, <1>20
  DEF Next, Ask, Step

\* A cached contest or list that disagrees with the table is about to be deleted
\* by the request that changed the table, unless it was stored after the change
\* or that request died, whatever readers, writers and expiries do.
THEOREM CacheIsFresh == Spec => []FreshUnlessRaced
<1>1. Init => Fresh
  BY DEF Init, Fresh, FreshDetail, FreshList
<1>2. Fresh => FreshUnlessRaced
  BY FreshDefinition
<1>3. QED
  BY TypedInit, TypedStep, KnownInit, KnownStep, <1>1, FreshStep, <1>2, PTL DEF Spec
=============================================================================
