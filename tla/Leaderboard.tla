---------------------------- MODULE Leaderboard ----------------------------
(***************************************************************************)
(* The leaderboard of a contest: pages of the ranking, read through the    *)
(* cache while participants submit.  A page is filled from two queries, of *)
(* the rows and of their number, that run concurrently; a submit deletes   *)
(* all pages after its transaction.                                        *)
(***************************************************************************)
EXTENDS Naturals, Sequences, FiniteSets, SequencesExt

CONSTANTS
    Users,
    Scores,     \* per user, the scores the answers may earn
    Pages,      \* the pages asked for: records [page, perPage]
    Requests,   \* slots for requests that are being served (a bound)
    MaxTime,    \* bound on the clock
    None

ASSUME LeaderboardAssumption ==
    /\ Scores \in [Users -> SUBSET Nat]
    /\ Pages \subseteq [page : Nat \ {0}, perPage : Nat \ {0}]
    /\ IsFiniteSet(Pages)
    /\ MaxTime \in Nat

VARIABLES
    now,      \* the clock
    board,    \* per user, the score and the time of a submitted participation
    cached,   \* the cached pages
    req,      \* the requests being served
    removed,  \* whether the contest was removed
    late,     \* history: pages stored after the ranking had changed
    lost      \* history: pages whose removal was lost with its request

vars == <<now, board, cached, req, removed, late, lost>>

Idle == [pc |-> "idle"]

\* What delByPrefix has still to visit, and what it will delete.
bustLeaderboard == [pc |-> "bust", scan |-> Pages, found |-> {}]

Init ==
    /\ now = 0
    /\ board = [u \in Users |-> None]
    /\ cached = [k \in Pages |-> None]
    /\ req = [r \in Requests |-> Idle]
    /\ removed = FALSE
    /\ late = {}
    /\ lost = {}

Answer(r) == req' = [req EXCEPT ![r] = Idle]
-----------------------------------------------------------------------------
(* The ranking *)

OnBoard == {u \in Users : board[u] # None}

\* RANKED_ORDER: score descending, then submittedAt ascending.
Before(u, v) ==
    \/ board[u].score > board[v].score
    \/ board[u].score = board[v].score /\ board[u].at < board[v].at

\* Complete ties come in any order, and each query may choose another.
Rankings ==
    {s \in SetToSeqs(OnBoard) : \A i, j \in DOMAIN s : i < j => ~Before(s[j], s[i])}

\* Mutant: page numbers taken as if they began at zero.
offsetFromZero(k) == k.perPage * k.page

offset(k) == k.perPage * (k.page - 1)

\* Mutant: every page begins with rank 1.
rankOnPage(k, i) == i

rank(k, i) == offset(k) + i

\* LIMIT and OFFSET.
Rows(s, k) ==
    LET on == SubSeq(s, offset(k) + 1, IF Len(s) < offset(k) + k.perPage THEN Len(s)
                                       ELSE offset(k) + k.perPage) IN
    [i \in DOMAIN on |-> [user |-> on[i], score |-> board[on[i]].score, at |-> board[on[i]].at]]
-----------------------------------------------------------------------------
(* Reading a page.  A hit answers at once; getById comes first and may let *)
(* a contest pass that was just removed.                                   *)

GetLeaderboard(r, k) ==
    /\ req[r] = Idle
    /\ cached[k] = None
    /\ req' = [req EXCEPT ![r] = [pc |-> "query", key |-> k, rows |-> None, total |-> None, clean |-> TRUE]]
    /\ UNCHANGED <<now, board, cached, removed, late, lost>>

FindRows(r) ==
    /\ req[r].pc = "query"
    /\ req[r].rows = None
    /\ \E s \in Rankings : req' = [req EXCEPT ![r].rows = Rows(s, req[r].key)]
    /\ UNCHANGED <<now, board, cached, removed, late, lost>>

CountRows(r) ==
    /\ req[r].pc = "query"
    /\ req[r].total = None
    /\ req' = [req EXCEPT ![r].total = Cardinality(OnBoard)]
    /\ UNCHANGED <<now, board, cached, removed, late, lost>>

Value(r) ==
    [data |-> [i \in DOMAIN req[r].rows |->
        [user |-> req[r].rows[i].user, score |-> req[r].rows[i].score,
         at |-> req[r].rows[i].at, rank |-> rank(req[r].key, i)]],
     total |-> req[r].total]

SetPage(r) ==
    /\ req[r].pc = "query"
    /\ req[r].rows # None
    /\ req[r].total # None
    /\ LET k == req[r].key IN
        /\ cached' = [cached EXCEPT ![k] = Value(r)]
        /\ late' = IF req[r].clean THEN late \ {k} ELSE late \cup {k}
        /\ lost' = lost \ {k}
    /\ Answer(r)
    /\ UNCHANGED <<now, board, removed>>
-----------------------------------------------------------------------------
(* Submitting.  Two submits of one user may both be under way. *)

\* History: the pages being filled have queried what is about to change.
Overtaken ==
    [r \in Requests |->
        IF req[r].pc = "query" /\ (req[r].rows # None \/ req[r].total # None)
        THEN [req[r] EXCEPT !.clean = FALSE] ELSE req[r]]

\* The score and the time are taken in the transaction, before its commit.
Submit(r, u, n) ==
    /\ req[r] = Idle
    /\ ~removed
    /\ board[u] = None
    /\ req' = [req EXCEPT ![r] = [pc |-> "commit", user |-> u, entry |-> [score |-> n, at |-> now]]]
    /\ UNCHANGED <<now, board, cached, removed, late, lost>>

\* An UPDATE of a participation that is gone changes nothing.
Commit(r) ==
    /\ req[r].pc = "commit"
    /\ board' = IF removed THEN board ELSE [board EXCEPT ![req[r].user] = req[r].entry]
    /\ req' = [Overtaken EXCEPT ![r] = bustLeaderboard]
    /\ UNCHANGED <<now, cached, removed, late, lost>>

\* The answer is sent when the deletion is done.
Busting(r, q) ==
    IF q.scan \cup q.found = {} THEN Answer(r) ELSE req' = [req EXCEPT ![r] = q]

\* SCAN visits the keys in no order, with round trips between.
ScanPage(r, k) ==
    /\ req[r].pc = "bust"
    /\ k \in req[r].scan
    /\ Busting(r, [req[r] EXCEPT !.scan = @ \ {k},
                                 !.found = IF cached[k] = None THEN @ ELSE @ \cup {k}])
    /\ UNCHANGED <<now, board, cached, removed, late, lost>>

DeletePages(r) ==
    /\ req[r].pc = "bust"
    /\ req[r].scan = {}
    /\ req[r].found # {}
    /\ cached' = [k \in Pages |-> IF k \in req[r].found THEN None ELSE cached[k]]
    /\ late' = late \ req[r].found
    /\ lost' = lost \ req[r].found
    /\ Busting(r, [req[r] EXCEPT !.found = {}])
    /\ UNCHANGED <<now, board, removed>>
-----------------------------------------------------------------------------
(* The environment *)

Pending(r) == IF req[r].pc = "bust" THEN req[r].scan \cup req[r].found ELSE {}

\* Redis, MySQL or the process fails: the rest of the request is lost.
Abort(r) ==
    /\ req[r] # Idle
    /\ lost' = lost \cup Pending(r)
    /\ Answer(r)
    /\ UNCHANGED <<now, board, cached, removed, late>>

\* The participations go with the contest; its removal deletes no page.
RemoveContest ==
    /\ ~removed
    /\ removed' = TRUE
    /\ board' = [u \in Users |-> None]
    /\ lost' = {k \in Pages : cached[k] # None}
    /\ req' = Overtaken
    /\ UNCHANGED <<now, cached, late>>

\* Mutant: only the first page is set with EX.
ExpireFirst(k) ==
    /\ k.page = 1
    /\ cached[k] # None
    /\ cached' = [cached EXCEPT ![k] = None]
    /\ late' = late \ {k}
    /\ lost' = lost \ {k}
    /\ UNCHANGED <<now, board, req, removed>>

Expire(k) ==
    /\ cached[k] # None
    /\ cached' = [cached EXCEPT ![k] = None]
    /\ late' = late \ {k}
    /\ lost' = lost \ {k}
    /\ UNCHANGED <<now, board, req, removed>>

Tick ==
    /\ now < MaxTime
    /\ now' = now + 1
    /\ UNCHANGED <<board, cached, req, removed, late, lost>>

Step(r) ==
    \/ FindRows(r) \/ CountRows(r) \/ SetPage(r)
    \/ Commit(r) \/ DeletePages(r)
    \/ \E k \in Pages : ScanPage(r, k)

Ask(r) ==
    \/ \E k \in Pages : GetLeaderboard(r, k)
    \/ \E u \in Users : \E n \in Scores[u] : Submit(r, u, n)

Next ==
    \/ Tick
    \/ RemoveContest
    \/ \E k \in Pages : Expire(k)
    \/ \E r \in Requests : Ask(r) \/ Step(r) \/ Abort(r)

Fairness ==
    /\ \A r \in Requests : WF_vars(Step(r))
    /\ \A k \in Pages : WF_vars(Expire(k))

Spec == Init /\ [][Next]_vars
FairSpec == Spec /\ Fairness
-----------------------------------------------------------------------------
(* The properties *)

PageRanks(k) == {n \in 1 .. Cardinality(OnBoard) : (n - 1) \div k.perPage = k.page - 1}

\* The page shows the participants of its ranks, in order, and the number of all.
Fresh(k) ==
    LET v == cached[k] IN
    /\ v.total = Cardinality(OnBoard)
    /\ Len(v.data) = Cardinality(PageRanks(k))
    /\ {v.data[i].rank : i \in DOMAIN v.data} = PageRanks(k)
    /\ \E s \in Rankings : \A i \in DOMAIN v.data :
        LET e == v.data[i] IN
        /\ i > 1 => v.data[i - 1].rank < e.rank
        /\ e.user = s[e.rank]
        /\ [score |-> e.score, at |-> e.at] = board[e.user]

Settled(k) ==
    /\ cached[k] # None
    /\ k \notin late \cup lost
    /\ \A r \in Requests : k \notin Pending(r)

\* A cached page is the page of the current ranking, unless a submit has still
\* to delete it or died before, or the page was stored after a submit that its
\* queries, or one of them, did not see (cached and busted on write).
PagesFreshUnlessRaced == \A k \in Pages : Settled(k) => Fresh(k)

NoTies == \A u, v \in OnBoard : u = v \/ Before(u, v) \/ Before(v, u)

Listed(k) == {cached[k].data[i].user : i \in DOMAIN cached[k].data}

\* Paging through the leaderboard meets every participant exactly once, unless
\* two of them are tied in score and second: nothing orders those.
NobodyLeftOut ==
    \A n \in {k.perPage : k \in Pages} :
        LET book == {k \in Pages : k.perPage = n} IN
        /\ NoTies
        /\ \A k \in book : Settled(k)
        /\ {k.page : k \in book} = 1 .. Cardinality(book)
        /\ Cardinality(OnBoard) <= n * Cardinality(book)
        => /\ UNION {Listed(k) : k \in book} = OnBoard
           /\ \A k, l \in book : k # l => Listed(k) \cap Listed(l) = {}

\* Every submission comes to show at its rank: once nobody submits any more all
\* pages are those of the final ranking, whatever raced or died.
RankingShows == <>[](\A k \in Pages : cached[k] # None => Fresh(k))
=============================================================================
