------------------------- MODULE LeaderboardProofs -------------------------
(***************************************************************************)
(* Theorems about the leaderboard and its cached pages, for any number of  *)
(* participants, pages and requests.                                       *)
(***************************************************************************)
EXTENDS Leaderboard, FiniteSetTheorems, SequenceTheorems, TLAPS

-----------------------------------------------------------------------------
(* Arithmetic of pages.                                                    *)

LEMMA ProductGrows ==
    ASSUME NEW p \in Nat, NEW a \in Int, NEW b \in Int, a <= b
    PROVE  p * a <= p * b
<1>1. p * (b - a) \in Nat
  OBVIOUS
<1>2. p * (b - a) = p * b - p * a
  OBVIOUS
<1>3. QED
  BY <1>1, <1>2

LEMMA Quotient ==
    ASSUME NEW p \in Nat \ {0}, NEW q \in Nat, NEW m \in Nat
    PROVE  m \div p = q <=> p * q <= m /\ m < p * q + p
<1> DEFINE d == m \div p
<1>1. d \in Nat /\ p * d <= m /\ m < p * d + p
  OBVIOUS
<1> HIDE DEF d
<1>2. ASSUME p * q <= m, m < p * q + p, d < q PROVE FALSE
  <2>1. p * (d + 1) <= p * q /\ p * (d + 1) = p * d + p
    BY <1>1, <1>2, ProductGrows
  <2>2. QED
    BY <1>1, <1>2, <2>1
<1>3. ASSUME p * q <= m, m < p * q + p, q < d PROVE FALSE
  <2>1. p * (q + 1) <= p * d /\ p * (q + 1) = p * q + p
    BY <1>1, <1>3, ProductGrows
  <2>2. QED
    BY <1>1, <1>3, <2>1
<1>4. QED
  BY <1>1, <1>2, <1>3 DEF d

-----------------------------------------------------------------------------
(* Rankings and the rows of a page.                                        *)

\* A function on 1..n is a sequence of length n.
LEMMA LenIs ==
    ASSUME NEW n \in Nat, NEW f, f = [i \in 1..n |-> f[i]]
    PROVE  Len(f) = n /\ DOMAIN f = 1..n
OBVIOUS

\* A ranking lists everyone on the board once.
LEMMA RankingIs ==
    ASSUME IsFiniteSet(OnBoard), NEW s \in Rankings
    PROVE  /\ Cardinality(OnBoard) \in Nat
           /\ s \in Seq(OnBoard) /\ Len(s) = Cardinality(OnBoard)
           /\ s \in [1..Cardinality(OnBoard) -> OnBoard]
           /\ \A i, j \in 1..Cardinality(OnBoard) : i # j => s[i] # s[j]
           /\ \A u \in OnBoard : \E i \in 1..Cardinality(OnBoard) : s[i] = u
           /\ \A i, j \in 1..Cardinality(OnBoard) : i < j => ~Before(s[j], s[i])
<1> DEFINE N == Cardinality(OnBoard)
<1>1. N \in Nat
  BY FS_CardinalityType
<1>2. /\ s \in [1..N -> OnBoard]
      /\ \A i, j \in 1..N : i # j => s[i] # s[j]
      /\ \A i, j \in DOMAIN s : i < j => ~Before(s[j], s[i])
  BY DEF Rankings, SetToSeqs
<1>3. s \in Injection(1..N, OnBoard)
  BY <1>2 DEF Injection, IsInjective
<1>4. Cardinality(1..N) = N
  BY <1>1, FS_Interval
<1>5. s \in Surjection(1..N, OnBoard)
  BY <1>3, <1>4, FS_Injection
<1>6. \A u \in OnBoard : \E i \in 1..N : s[i] = u
  BY <1>5 DEF Surjection
<1>7. s \in Seq(OnBoard) /\ Len(s) = N
  BY <1>1, <1>2
<1>8. QED
  BY <1>1, <1>2, <1>6, <1>7

Entry == [score : Nat, at : Nat]

\* The last rank of page k, of n participants.
last(n, k) == IF n < offset(k) + k.perPage THEN n ELSE offset(k) + k.perPage

LEMMA OffsetIs ==
    ASSUME NEW k \in Pages
    PROVE  /\ k.page \in Nat \ {0} /\ k.perPage \in Nat \ {0}
           /\ offset(k) \in Nat /\ k = [page |-> k.page, perPage |-> k.perPage]
BY LeaderboardAssumption DEF offset

LEMMA RowsAre ==
    ASSUME NEW S, NEW s \in Seq(S), NEW k \in Pages
    PROVE  LET n == IF last(Len(s), k) > offset(k) THEN last(Len(s), k) - offset(k) ELSE 0 IN
           /\ n \in Nat /\ DOMAIN Rows(s, k) = 1..n
           /\ \A i \in 1..n :
                 /\ offset(k) + i \in 1..Len(s)
                 /\ Rows(s, k)[i] = [user |-> s[offset(k) + i], score |-> board[s[offset(k) + i]].score,
                                     at |-> board[s[offset(k) + i]].at]
<1> DEFINE o == offset(k)
           m == last(Len(s), k)
           n == IF m > o THEN m - o ELSE 0
           on == SubSeq(s, o + 1, m)
<1>1. o \in Nat /\ Len(s) \in Nat /\ k.perPage \in Nat
  BY OffsetIs
<1>2. m \in Nat /\ m <= Len(s)
  BY <1>1 DEF last
<1>3. n \in Nat /\ \A i \in 1..n : o + i \in 1..Len(s) /\ o + i \in (o + 1)..m
  BY <1>1, <1>2
<1>4. /\ DOMAIN on = 1..n /\ \A i \in 1..n : on[i] = s[o + i]
  BY <1>1, <1>2, SubSeqProperties
<1>5. Rows(s, k) = [i \in 1..n |-> [user |-> on[i], score |-> board[on[i]].score,
                                    at |-> board[on[i]].at]]
  BY <1>4 DEF Rows, last
<1> HIDE DEF n, m, o, on
<1>6. QED
  BY <1>3, <1>4, <1>5 DEF n, m, o

LEMMA PageRanksAre ==
    ASSUME IsFiniteSet(OnBoard), NEW k \in Pages
    PROVE  PageRanks(k) = (offset(k) + 1) .. last(Cardinality(OnBoard), k)
<1> DEFINE N == Cardinality(OnBoard)
<1>1. N \in Nat /\ offset(k) \in Nat /\ k.perPage \in Nat \ {0} /\ k.page - 1 \in Nat
  BY FS_CardinalityType, OffsetIs
<1>2. offset(k) = k.perPage * (k.page - 1)
  BY DEF offset
<1>3. ASSUME NEW n \in 1..N
      PROVE  (n - 1) \div k.perPage = k.page - 1 <=> offset(k) <= n - 1 /\ n - 1 < offset(k) + k.perPage
  <2>1. n - 1 \in Nat
    BY <1>1, <1>3
  <2>2. PICK p \in Nat \ {0}, q \in Nat, m \in Nat : p = k.perPage /\ q = k.page - 1 /\ m = n - 1
    BY <1>1, <2>1
  <2>3. m \div p = q <=> p * q <= m /\ m < p * q + p
    BY Quotient
  <2>4. p * q = offset(k)
    BY <1>2, <2>2
  <2>5. QED
    BY <2>2, <2>3, <2>4
<1>4. ASSUME NEW n \in 1..N
      PROVE  n \in PageRanks(k) <=> n \in (offset(k) + 1) .. last(N, k)
  <2>1. n \in Nat /\ n >= 1 /\ n <= N
    BY <1>1, <1>4
  <2>2. n \in PageRanks(k) <=> offset(k) <= n - 1 /\ n - 1 < offset(k) + k.perPage
    BY <1>3, <1>4 DEF PageRanks
  <2>3. QED
    BY <1>1, <2>1, <2>2 DEF last
<1>5. (offset(k) + 1) .. last(N, k) \subseteq 1..N
  BY <1>1 DEF last
<1>6. PageRanks(k) \subseteq 1..N
  BY DEF PageRanks
<1>7. QED
  BY <1>4, <1>5, <1>6

-----------------------------------------------------------------------------
(* A page that is filled from one ranking.                                 *)

Ranked(s, k) ==
    [i \in DOMAIN Rows(s, k) |->
        [user |-> Rows(s, k)[i].user, score |-> Rows(s, k)[i].score,
         at |-> Rows(s, k)[i].at, rank |-> rank(k, i)]]

PageOf(k, v) ==
    \E s \in Rankings : v = [data |-> Ranked(s, k), total |-> Cardinality(OnBoard)]

\* What is on the page at place i.
LEMMA PageShows ==
    ASSUME IsFiniteSet(OnBoard), board \in [Users -> Entry \cup {None}],
           NEW s \in Rankings, NEW k \in Pages
    PROVE  LET N == Cardinality(OnBoard)
               n == IF last(N, k) > offset(k) THEN last(N, k) - offset(k) ELSE 0
           IN  /\ n \in Nat /\ DOMAIN Ranked(s, k) = 1..n /\ Len(Ranked(s, k)) = n
               /\ \A i \in 1..n :
                     LET e == Ranked(s, k)[i]
                     IN  /\ e.rank = offset(k) + i /\ e.rank \in 1..N
                         /\ e.user = s[e.rank] /\ e.user \in OnBoard
                         /\ [score |-> e.score, at |-> e.at] = board[e.user]
<1> DEFINE N == Cardinality(OnBoard)
           n == IF last(N, k) > offset(k) THEN last(N, k) - offset(k) ELSE 0
<1>1. s \in Seq(OnBoard) /\ Len(s) = N
  BY RankingIs
<1>2. n \in Nat /\ DOMAIN Rows(s, k) = 1..n
  BY <1>1, RowsAre
<1>3. DOMAIN Ranked(s, k) = 1..n /\ Len(Ranked(s, k)) = n
  BY <1>2, LenIs DEF Ranked
<1>4. ASSUME NEW i \in 1..n
      PROVE  LET e == Ranked(s, k)[i]
             IN  /\ e.rank = offset(k) + i /\ e.rank \in 1..N
                 /\ e.user = s[e.rank] /\ e.user \in OnBoard
                 /\ [score |-> e.score, at |-> e.at] = board[e.user]
  <2> DEFINE j == offset(k) + i
             e == Ranked(s, k)[i]
  <2>1. /\ j \in 1..N
        /\ Rows(s, k)[i] = [user |-> s[j], score |-> board[s[j]].score, at |-> board[s[j]].at]
    BY <1>1, RowsAre
  <2>2. e = [user |-> s[j], score |-> board[s[j]].score, at |-> board[s[j]].at, rank |-> j]
    BY <1>2, <2>1 DEF Ranked, rank
  <2>3. s[j] \in OnBoard
    BY <1>1, <2>1
  <2>4. board[s[j]] \in Entry
    BY <2>3 DEF OnBoard
  <2>5. [score |-> board[s[j]].score, at |-> board[s[j]].at] = board[s[j]]
    BY <2>4 DEF Entry
  <2> HIDE DEF e, j
  <2>6. QED
    BY <2>1, <2>2, <2>3, <2>5 DEF e, j
<1>5. QED
  BY <1>2, <1>3, <1>4

LEMMA PageIsFresh ==
    ASSUME IsFiniteSet(OnBoard), board \in [Users -> Entry \cup {None}],
           NEW k \in Pages, PageOf(k, cached[k])
    PROVE  Fresh(k)
<1>1. PICK s \in Rankings : cached[k] = [data |-> Ranked(s, k), total |-> Cardinality(OnBoard)]
  BY DEF PageOf
<1> DEFINE N == Cardinality(OnBoard)
           o == offset(k)
           n == IF last(N, k) > o THEN last(N, k) - o ELSE 0
           data == Ranked(s, k)
<1>2. N \in Nat /\ o \in Nat /\ last(N, k) \in Nat
  BY FS_CardinalityType, OffsetIs DEF last
<1>3. /\ n \in Nat /\ DOMAIN data = 1..n /\ Len(data) = n
      /\ \A i \in 1..n :
            /\ data[i].rank = o + i /\ data[i].user = s[data[i].rank]
            /\ [score |-> data[i].score, at |-> data[i].at] = board[data[i].user]
  BY PageShows
<1>4. PageRanks(k) = (o + 1) .. last(N, k)
  BY PageRanksAre
<1>5. cached[k].data = data /\ cached[k].total = N
  BY <1>1
<1> HIDE DEF data, o
<1>6. Cardinality(PageRanks(k)) = n
  <2>1. PICK a \in Int, b \in Int : a = o + 1 /\ b = last(N, k)
    BY <1>2
  <2>2. Cardinality(a..b) = IF a > b THEN 0 ELSE b - a + 1
    BY FS_Interval
  <2>3. Cardinality(PageRanks(k)) = Cardinality(a..b)
    BY <1>4, <2>1
  <2>4. QED
    BY <1>2, <2>1, <2>2, <2>3
<1>7. {data[i].rank : i \in 1..n} = PageRanks(k)
  <2>1. ASSUME NEW j \in PageRanks(k) PROVE \E i \in 1..n : data[i].rank = j
    <3>1. j - o \in 1..n
      BY <1>2, <1>4
    <3>2. data[j - o].rank = o + (j - o)
      BY <1>3, <3>1
    <3>3. o + (j - o) = j
      BY <1>2, <1>4
    <3>4. QED
      BY <3>1, <3>2, <3>3
  <2>2. ASSUME NEW i \in 1..n PROVE data[i].rank \in PageRanks(k)
    <3>1. data[i].rank = o + i
      BY <1>3
    <3>2. o + i \in (o + 1) .. last(N, k)
      BY <1>2
    <3>3. QED
      BY <1>4, <3>1, <3>2
  <2>3. QED
    BY <2>1, <2>2
<1>8. ASSUME NEW i \in 1..n, i > 1 PROVE data[i - 1].rank < data[i].rank
  <2>1. i - 1 \in 1..n
    BY <1>3, <1>8
  <2>2. data[i - 1].rank = o + (i - 1) /\ data[i].rank = o + i
    BY <1>3, <2>1
  <2>3. QED
    BY <1>2, <2>2
<1> HIDE DEF n, N
<1>9. QED
  BY <1>3, <1>5, <1>6, <1>7, <1>8 DEF Fresh, N

-----------------------------------------------------------------------------
(* The inductive invariant.                                                *)

\* The requests that are being served, by what they do.
ReqOk(q) ==
    /\ q.pc \in {"idle", "query", "commit", "bust"}
    /\ q.pc = "query" =>
          /\ q.key \in Pages /\ q.clean \in BOOLEAN
          /\ q = [pc |-> "query", key |-> q.key, rows |-> q.rows, total |-> q.total, clean |-> q.clean]
    /\ q.pc = "commit" => q.user \in Users /\ q.entry \in Entry
    /\ q.pc = "bust" => q \in [pc : {"bust"}, scan : SUBSET Pages, found : SUBSET Pages]

ReqsOk ==
    /\ req = [r \in Requests |-> req[r]]
    /\ \A r \in Requests : ReqOk(req[r])

LType ==
    /\ now \in Nat
    /\ board \in [Users -> Entry \cup {None}]
    /\ IsFiniteSet(OnBoard)
    /\ cached = [k \in Pages |-> cached[k]]
    /\ ReqsOk

\* What a query has found is still so, unless a change has overtaken it.
Current(q) ==
    /\ q.rows # None => \E s \in Rankings : q.rows = Rows(s, q.key)
    /\ q.total \in {None, Cardinality(OnBoard)}

QueryInv == \A r \in Requests : req[r].pc = "query" /\ req[r].clean => Current(req[r])

PagesInv == \A k \in Pages : Settled(k) => PageOf(k, cached[k])

\* Only the board matters to a ranking.
LEMMA BoardKept ==
    ASSUME board' = board
    PROVE  /\ OnBoard' = OnBoard /\ Rankings' = Rankings
           /\ \A q : Current(q)' <=> Current(q)
           /\ \A k, v : PageOf(k, v)' <=> PageOf(k, v)
<1>1. OnBoard' = OnBoard
  BY DEF OnBoard
<1>2. Rankings' = Rankings
  BY <1>1 DEF Rankings, Before
<1>3. ASSUME NEW s, NEW k PROVE Rows(s, k)' = Rows(s, k)
  BY DEF Rows
<1>4. ASSUME NEW s, NEW k PROVE Ranked(s, k)' = Ranked(s, k)
  BY <1>3 DEF Ranked
<1>5. ASSUME NEW q PROVE Current(q)' <=> Current(q)
  BY <1>1, <1>2, <1>3 DEF Current
<1>6. ASSUME NEW k, NEW v PROVE PageOf(k, v)' <=> PageOf(k, v)
  BY <1>1, <1>2, <1>4 DEF PageOf
<1>7. QED
  BY <1>1, <1>2, <1>5, <1>6

LEMMA IdleIs == Idle.pc = "idle" /\ ReqOk(Idle)
BY DEF Idle, ReqOk

LEMMA BustIs ==
    /\ bustLeaderboard.pc = "bust" /\ bustLeaderboard.scan = Pages /\ ReqOk(bustLeaderboard)
BY DEF bustLeaderboard, ReqOk

\* One step of one request.
LEMMA TypeKept ==
    ASSUME LType, NEW r \in Requests, NEW q, ReqOk(q), req' = [req EXCEPT ![r] = q],
           UNCHANGED <<board, now>>, cached' = [k \in Pages |-> cached'[k]]
    PROVE  LType'
<1>1. ReqsOk'
  BY DEF LType, ReqsOk
<1>2. QED
  BY <1>1, BoardKept DEF LType

\* A page that is being filled, with rows x and number y.
Asking(q, x, y) ==
    [pc |-> "query", key |-> q.key, rows |-> x, total |-> y, clean |-> q.clean]

LEMMA OvertakenOver == Overtaken = [r \in Requests |-> Overtaken[r]]
BY DEF Overtaken

LEMMA OvertakenIs ==
    ASSUME LType, NEW r \in Requests
    PROVE  /\ ReqOk(Overtaken[r]) /\ Overtaken[r].pc = req[r].pc
           /\ req[r].pc = "query" /\ Overtaken[r].clean =>
                 Overtaken[r].rows = None /\ Overtaken[r].total = None
           /\ req[r].pc # "query" => Overtaken[r] = req[r]
<1>1. ReqOk(req[r])
  BY DEF LType, ReqsOk
<1>2. CASE req[r].pc = "query" /\ (req[r].rows # None \/ req[r].total # None)
  <2>1. PICK f : f = FALSE /\ Overtaken[r] = [req[r] EXCEPT !.clean = f]
    BY <1>2 DEF Overtaken
  <2> DEFINE q == [req[r] EXCEPT !.clean = f]
  <2>2. PICK k, x, y, c :
            k \in Pages /\ req[r] = [pc |-> "query", key |-> k, rows |-> x, total |-> y, clean |-> c]
    BY <1>1, <1>2 DEF ReqOk
  <2>3. q = [pc |-> "query", key |-> k, rows |-> x, total |-> y, clean |-> f]
    BY <2>2
  <2>4. q = Overtaken[r] /\ q.pc = "query" /\ q.clean = f
    BY <2>1, <2>3
  <2>5. ReqOk(q)
    BY <2>1, <2>2, <2>3 DEF ReqOk
  <2> HIDE DEF q
  <2>6. ReqOk(Overtaken[r])
    BY <2>4, <2>5
  <2>7. Overtaken[r].pc = req[r].pc /\ req[r].pc = "query"
    BY <1>2, <2>4
  <2>8. Overtaken[r].clean = FALSE
    BY <2>1, <2>4
  <2>9. QED
    BY <2>6, <2>7, <2>8, Zenon
<1>3. CASE ~ (req[r].pc = "query" /\ (req[r].rows # None \/ req[r].total # None))
  BY <1>1, <1>3 DEF Overtaken
<1>4. QED
  BY <1>2, <1>3

LEMMA LTypeStep ==
    ASSUME LType, [Next]_vars
    PROVE  LType'
<1> USE DEF ReqsOk
<1>1. cached = [k \in Pages |-> cached[k]] /\ \A r \in Requests : ReqOk(req[r])
  BY DEF LType
<1>2. ASSUME NEW r \in Requests, NEW k \in Pages, GetLeaderboard(r, k) PROVE LType'
  <2> DEFINE q == [pc |-> "query", key |-> k, rows |-> None, total |-> None, clean |-> TRUE]
  <2>1. ReqOk(q)
    BY DEF ReqOk
  <2>2. req' = [req EXCEPT ![r] = q] /\ UNCHANGED <<board, now, cached>>
    BY <1>2 DEF GetLeaderboard
  <2> HIDE DEF q
  <2>3. QED
    BY <1>1, <2>1, <2>2, TypeKept
<1>3. ASSUME NEW r \in Requests, FindRows(r) \/ CountRows(r) PROVE LType'
  <2>1. ReqOk(req[r]) /\ req[r].pc = "query" /\ UNCHANGED <<board, now, cached>>
    BY <1>1, <1>3 DEF FindRows, CountRows
  <2>2. PICK x, y : req' = [req EXCEPT ![r] = Asking(req[r], x, y)]
    <3>1. CASE FindRows(r)
      <4>1. PICK x : req' = [req EXCEPT ![r].rows = x]
        BY <3>1 DEF FindRows
      <4>2. [req[r] EXCEPT !.rows = x] = Asking(req[r], x, req[r].total)
        BY <2>1 DEF ReqOk, Asking
      <4>3. req' = [req EXCEPT ![r] = Asking(req[r], x, req[r].total)]
        BY <4>1, <4>2
      <4>4. QED
        BY <4>3
    <3>2. CASE CountRows(r)
      <4>1. req' = [req EXCEPT ![r].total = Cardinality(OnBoard)]
        BY <3>2 DEF CountRows
      <4>2. [req[r] EXCEPT !.total = Cardinality(OnBoard)]
                = Asking(req[r], req[r].rows, Cardinality(OnBoard))
        BY <2>1 DEF ReqOk, Asking
      <4>3. req' = [req EXCEPT ![r] = Asking(req[r], req[r].rows, Cardinality(OnBoard))]
        BY <4>1, <4>2
      <4>4. QED
        BY <4>3
    <3>3. QED
      BY <1>3, <3>1, <3>2
  <2>3. ReqOk(Asking(req[r], x, y))
    BY <2>1 DEF ReqOk, Asking
  <2>4. QED
    BY <1>1, <2>1, <2>2, <2>3, TypeKept
<1>4. ASSUME NEW r \in Requests, SetPage(r) \/ Abort(r) PROVE LType'
  <2>1. /\ req' = [req EXCEPT ![r] = Idle] /\ UNCHANGED <<board, now>>
        /\ cached' = [k \in Pages |-> cached'[k]]
    BY <1>1, <1>4 DEF SetPage, Abort, Answer
  <2>2. QED
    BY <2>1, IdleIs, TypeKept
<1>5. ASSUME NEW r \in Requests, NEW u \in Users, NEW n \in Scores[u], Submit(r, u, n) PROVE LType'
  <2> DEFINE q == [pc |-> "commit", user |-> u, entry |-> [score |-> n, at |-> now]]
  <2>1. ReqOk(q)
    BY LeaderboardAssumption DEF ReqOk, Entry, LType
  <2>2. req' = [req EXCEPT ![r] = q] /\ UNCHANGED <<board, now, cached>>
    BY <1>5 DEF Submit
  <2> HIDE DEF q
  <2>3. QED
    BY <1>1, <2>1, <2>2, TypeKept
<1>6. ASSUME NEW r \in Requests, Commit(r) PROVE LType'
  <2>1. req[r].user \in Users /\ req[r].entry \in Entry
    BY <1>1, <1>6 DEF Commit, ReqOk
  <2>2. board' \in [Users -> Entry \cup {None}] /\ OnBoard' \subseteq OnBoard \cup {req[r].user}
    BY <1>6, <2>1 DEF Commit, LType, OnBoard
  <2>3. IsFiniteSet(OnBoard')
    <3>1. IsFiniteSet(OnBoard \cup {req[r].user})
      BY FS_AddElement DEF LType
    <3>2. QED
      BY <2>2, <3>1, FS_Subset
  <2>4. ReqsOk'
    BY <1>6, OvertakenIs, BustIs DEF Commit, Overtaken
  <2>5. QED
    BY <1>1, <1>6, <2>2, <2>3, <2>4 DEF Commit, LType
<1>7. ASSUME NEW r \in Requests, NEW k \in Pages, ScanPage(r, k) PROVE LType'
  <2> DEFINE q == [req[r] EXCEPT !.scan = @ \ {k},
                                 !.found = IF cached[k] = None THEN @ ELSE @ \cup {k}]
  <2>1. req[r] \in [pc : {"bust"}, scan : SUBSET Pages, found : SUBSET Pages]
    BY <1>1, <1>7 DEF ScanPage, ReqOk
  <2>2. ReqOk(q)
    BY <2>1 DEF ReqOk
  <2>3. /\ req' = [req EXCEPT ![r] = q] \/ req' = [req EXCEPT ![r] = Idle]
        /\ UNCHANGED <<board, now, cached>>
    BY <1>7 DEF ScanPage, Busting, Answer
  <2> HIDE DEF q
  <2>4. QED
    BY <1>1, <2>2, <2>3, IdleIs, TypeKept
<1>8. ASSUME NEW r \in Requests, DeletePages(r) PROVE LType'
  <2> DEFINE q == [req[r] EXCEPT !.found = {}]
  <2>1. req[r] \in [pc : {"bust"}, scan : SUBSET Pages, found : SUBSET Pages]
    BY <1>1, <1>8 DEF DeletePages, ReqOk
  <2>2. ReqOk(q)
    BY <2>1 DEF ReqOk
  <2>3. /\ req' = [req EXCEPT ![r] = q] \/ req' = [req EXCEPT ![r] = Idle]
        /\ UNCHANGED <<board, now>> /\ cached' = [k \in Pages |-> cached'[k]]
    BY <1>8 DEF DeletePages, Busting, Answer
  <2> HIDE DEF q
  <2>4. QED
    BY <1>1, <2>2, <2>3, IdleIs, TypeKept
<1>9. CASE RemoveContest
  <2>1. board' \in [Users -> Entry \cup {None}] /\ OnBoard' = {}
    BY <1>9 DEF RemoveContest, OnBoard
  <2>2. ReqsOk'
    BY <1>9, OvertakenIs DEF RemoveContest, Overtaken
  <2>3. QED
    BY <1>1, <1>9, <2>1, <2>2, FS_EmptySet DEF RemoveContest, LType
<1>10. CASE Tick \/ (\E k \in Pages : Expire(k)) \/ UNCHANGED vars
  <2>1. UNCHANGED <<board, req>> /\ now' \in Nat /\ cached' = [k \in Pages |-> cached'[k]]
    BY <1>1, <1>10 DEF Tick, Expire, vars, LType
  <2>2. QED
    BY <1>1, <2>1, BoardKept DEF LType
<1>11. QED
  BY <1>2, <1>3, <1>4, <1>5, <1>6, <1>7, <1>8, <1>9, <1>10 DEF Next, Ask, Step

-----------------------------------------------------------------------------
(* Queries.                                                                *)

LEMMA QueryKept ==
    ASSUME LType, QueryInv, board' = board, NEW r \in Requests, NEW q,
           req' = [req EXCEPT ![r] = q], q.pc = "query" /\ q.clean => Current(q)
    PROVE  QueryInv'
<1> SUFFICES ASSUME NEW t \in Requests, (req[t].pc = "query")', (req[t].clean)'
             PROVE  Current(req[t])'
  BY DEF QueryInv
<1>1. PICK p : p = req'[t]
  OBVIOUS
<1>2. p.pc = "query" /\ p.clean
  BY <1>1
<1>3. Current(p)
  <2>1. CASE t = r
    <3>1. p = q
      BY <1>1, <2>1 DEF LType, ReqsOk
    <3>2. QED
      BY <1>2, <3>1
  <2>2. CASE t # r
    <3>1. p = req[t]
      BY <1>1, <2>2 DEF LType, ReqsOk
    <3>2. QED
      BY <1>2, <3>1 DEF QueryInv
  <2>3. QED
    BY <2>1, <2>2
<1>4. Current(p)'
  BY <1>3, BoardKept
<1>5. QED
  BY <1>1, <1>4 DEF Current

LEMMA OvertakenQueries ==
    ASSUME LType, \A r \in Requests : req'[r] \in {Overtaken[r], bustLeaderboard}
    PROVE  QueryInv'
<1> SUFFICES ASSUME NEW t \in Requests, (req[t].pc = "query")', (req[t].clean)'
             PROVE  Current(req[t])'
  BY DEF QueryInv
<1>1. req'[t] = Overtaken[t]
  BY BustIs
<1>2. req[t].pc = "query" /\ Overtaken[t].clean
  BY <1>1, OvertakenIs
<1>3. req'[t].rows = None /\ req'[t].total = None
  BY <1>1, <1>2, OvertakenIs
<1>4. QED
  BY <1>3 DEF Current

LEMMA QueryStep ==
    ASSUME LType, QueryInv, [Next]_vars
    PROVE  QueryInv'
<1>1. \A r \in Requests : ReqOk(req[r])
  BY DEF LType, ReqsOk
<1>2. ASSUME NEW r \in Requests, NEW k \in Pages, GetLeaderboard(r, k) PROVE QueryInv'
  <2> DEFINE q == [pc |-> "query", key |-> k, rows |-> None, total |-> None, clean |-> TRUE]
  <2>1. q.rows = None /\ q.total = None
    OBVIOUS
  <2>2. req' = [req EXCEPT ![r] = q] /\ board' = board
    BY <1>2 DEF GetLeaderboard
  <2> HIDE DEF q
  <2>3. Current(q)
    BY <2>1 DEF Current
  <2>4. QED
    BY <2>2, <2>3, QueryKept
<1>3. ASSUME NEW r \in Requests, FindRows(r) PROVE QueryInv'
  <2>1. PICK s \in Rankings : req' = [req EXCEPT ![r].rows = Rows(s, req[r].key)]
    BY <1>3 DEF FindRows
  <2>2. ReqOk(req[r]) /\ req[r].pc = "query" /\ board' = board
    BY <1>1, <1>3 DEF FindRows
  <2> DEFINE x == Rows(s, req[r].key)
             q == Asking(req[r], x, req[r].total)
  <2>3. [req[r] EXCEPT !.rows = x] = q
    BY <2>2 DEF ReqOk, Asking
  <2>4. req' = [req EXCEPT ![r] = q]
    BY <2>1, <2>3
  <2>5. q.rows = Rows(s, q.key) /\ q.total = req[r].total /\ q.clean = req[r].clean
    BY DEF Asking
  <2> HIDE DEF q
  <2>6. ASSUME q.clean PROVE Current(q)
    <3>1. Current(req[r])
      BY <2>2, <2>5, <2>6 DEF QueryInv
    <3>2. QED
      BY <2>5, <3>1 DEF Current
  <2>7. QED
    BY <2>2, <2>4, <2>6, QueryKept
<1>4. ASSUME NEW r \in Requests, CountRows(r) PROVE QueryInv'
  <2>1. ReqOk(req[r]) /\ req[r].pc = "query" /\ board' = board
    BY <1>1, <1>4 DEF CountRows
  <2> DEFINE q == Asking(req[r], req[r].rows, Cardinality(OnBoard))
  <2>2. [req[r] EXCEPT !.total = Cardinality(OnBoard)] = q
    BY <2>1 DEF ReqOk, Asking
  <2>3. req' = [req EXCEPT ![r] = q]
    BY <1>4, <2>2 DEF CountRows
  <2>4. /\ q.rows = req[r].rows /\ q.key = req[r].key
        /\ q.total = Cardinality(OnBoard) /\ q.clean = req[r].clean
    BY DEF Asking
  <2> HIDE DEF q
  <2>5. ASSUME q.clean PROVE Current(q)
    <3>1. Current(req[r])
      BY <2>1, <2>4, <2>5 DEF QueryInv
    <3>2. QED
      BY <2>4, <3>1 DEF Current
  <2>6. QED
    BY <2>1, <2>3, <2>5, QueryKept
<1>5. ASSUME NEW r \in Requests, NEW u \in Users, NEW n \in Scores[u], Submit(r, u, n) PROVE QueryInv'
  <2> DEFINE q == [pc |-> "commit", user |-> u, entry |-> [score |-> n, at |-> now]]
  <2>1. q.pc # "query"
    OBVIOUS
  <2>2. req' = [req EXCEPT ![r] = q] /\ board' = board
    BY <1>5 DEF Submit
  <2> HIDE DEF q
  <2>3. QED
    BY <2>1, <2>2, QueryKept
<1>6. ASSUME NEW r \in Requests, Commit(r) PROVE QueryInv'
  <2>1. \A t \in Requests : req'[t] \in {Overtaken[t], bustLeaderboard}
    BY <1>6, OvertakenOver DEF Commit
  <2>2. QED
    BY <2>1, OvertakenQueries
<1>7. ASSUME NEW r \in Requests,
             (\E k \in Pages : ScanPage(r, k)) \/ DeletePages(r) \/ SetPage(r) \/ Abort(r)
      PROVE  QueryInv'
  <2>1. PICK q : req' = [req EXCEPT ![r] = q] /\ q.pc # "query" /\ board' = board
    <3>1. ASSUME NEW k \in Pages, ScanPage(r, k)
          PROVE  \E q : req' = [req EXCEPT ![r] = q] /\ q.pc # "query" /\ board' = board
      <4> DEFINE q == [req[r] EXCEPT !.scan = @ \ {k},
                                     !.found = IF cached[k] = None THEN @ ELSE @ \cup {k}]
      <4>1. req[r] \in [pc : {"bust"}, scan : SUBSET Pages, found : SUBSET Pages]
        BY <1>1, <3>1 DEF ScanPage, ReqOk
      <4>2. q.pc # "query"
        BY <4>1
      <4>3. /\ req' = [req EXCEPT ![r] = q] \/ req' = [req EXCEPT ![r] = Idle]
            /\ board' = board
        BY <3>1 DEF ScanPage, Busting, Answer
      <4> HIDE DEF q
      <4>4. QED
        BY <4>2, <4>3, IdleIs
    <3>2. ASSUME DeletePages(r)
          PROVE  \E q : req' = [req EXCEPT ![r] = q] /\ q.pc # "query" /\ board' = board
      <4> DEFINE q == [req[r] EXCEPT !.found = {}]
      <4>1. req[r] \in [pc : {"bust"}, scan : SUBSET Pages, found : SUBSET Pages]
        BY <1>1, <3>2 DEF DeletePages, ReqOk
      <4>2. q.pc # "query"
        BY <4>1
      <4>3. /\ req' = [req EXCEPT ![r] = q] \/ req' = [req EXCEPT ![r] = Idle]
            /\ board' = board
        BY <3>2 DEF DeletePages, Busting, Answer
      <4> HIDE DEF q
      <4>4. QED
        BY <4>2, <4>3, IdleIs
    <3>3. ASSUME SetPage(r) \/ Abort(r)
          PROVE  \E q : req' = [req EXCEPT ![r] = q] /\ q.pc # "query" /\ board' = board
      <4>1. req' = [req EXCEPT ![r] = Idle] /\ board' = board
        BY <3>3 DEF SetPage, Abort, Answer
      <4>2. QED
        BY <4>1, IdleIs
    <3>4. QED
      BY <1>7, <3>1, <3>2, <3>3
  <2>2. QED
    BY <2>1, QueryKept
<1>8. CASE RemoveContest
  <2>1. \A t \in Requests : req'[t] \in {Overtaken[t], bustLeaderboard}
    BY <1>8, OvertakenOver DEF RemoveContest
  <2>2. QED
    BY <2>1, OvertakenQueries
<1>9. CASE Tick \/ (\E k \in Pages : Expire(k)) \/ UNCHANGED vars
  <2>1. board' = board /\ req' = req
    BY <1>9 DEF Tick, Expire, vars
  <2>2. \A q : Current(q)' <=> Current(q)
    BY <2>1, BoardKept
  <2> SUFFICES ASSUME NEW t \in Requests, (req[t].pc = "query")', (req[t].clean)'
               PROVE  Current(req[t])'
    BY DEF QueryInv
  <2>3. PICK p : p = req[t] /\ p = req'[t]
    BY <2>1
  <2>4. Current(p)
    BY <2>1, <2>3 DEF QueryInv
  <2>5. Current(p)'
    BY <2>2, <2>4
  <2>6. QED
    BY <2>3, <2>5 DEF Current
<1>10. QED
  BY <1>2, <1>3, <1>4, <1>5, <1>6, <1>7, <1>8, <1>9 DEF Next, Ask, Step

-----------------------------------------------------------------------------
(* Pages.                                                                  *)

\* The pages a request has still to delete.
Due(q) == IF q.pc = "bust" THEN q.scan \cup q.found ELSE {}

\* A page that a step of one request leaves as it was, deletes, makes due for
\* deletion or fills from the current ranking.
LEMMA PagesKept ==
    ASSUME LType, PagesInv, board' = board, NEW r \in Requests, NEW q,
           req' = [req EXCEPT ![r] = q],
           \A k \in Pages :
              \/ /\ cached'[k] = cached[k]
                 /\ k \in late => k \in late'
                 /\ k \in lost => k \in lost'
                 /\ k \in Due(req[r]) => k \in lost' \cup Due(q)
              \/ cached'[k] = None
              \/ k \in late' \cup lost'
              \/ PageOf(k, cached'[k])
    PROVE  PagesInv'
<1> SUFFICES ASSUME NEW k \in Pages, Settled(k)' PROVE PageOf(k, cached[k])'
  BY DEF PagesInv
<1>1. PICK v : v = cached'[k]
  OBVIOUS
<1>2. v # None /\ k \notin late' \cup lost' /\ \A t \in Requests : k \notin Due(req'[t])
  BY <1>1 DEF Settled, Pending, Due
<1>3. req'[r] = q /\ \A t \in Requests : t # r => req'[t] = req[t]
  BY DEF LType, ReqsOk
<1>4. PageOf(k, v)
  <2>1. CASE /\ cached'[k] = cached[k]
             /\ k \in late => k \in late'
             /\ k \in lost => k \in lost'
             /\ k \in Due(req[r]) => k \in lost' \cup Due(q)
    <3>1. \A t \in Requests : k \notin Due(req[t])
      BY <1>2, <1>3, <2>1
    <3>2. Settled(k)
      BY <1>1, <1>2, <2>1, <3>1 DEF Settled, Pending, Due
    <3>3. v = cached[k]
      BY <1>1, <2>1
    <3>4. QED
      BY <3>2, <3>3 DEF PagesInv
  <2>2. CASE PageOf(k, cached'[k])
    BY <1>1, <2>2
  <2>3. QED
    BY <1>1, <1>2, <2>1, <2>2
<1>5. PageOf(k, v)'
  BY <1>4, BoardKept
<1>6. QED
  BY <1>1, <1>5 DEF PageOf

\* A query that nothing has overtaken fills its page from the current ranking.
LEMMA PageIsSet ==
    ASSUME LType, QueryInv, NEW r \in Requests, req[r].pc = "query",
           req[r].rows # None, req[r].total # None, req[r].clean
    PROVE  req[r].key \in Pages /\ PageOf(req[r].key, Value(r))
<1>1. req[r].key \in Pages
  BY DEF LType, ReqsOk, ReqOk
<1>2. Current(req[r])
  BY DEF QueryInv
<1>3. PICK s \in Rankings : req[r].rows = Rows(s, req[r].key)
  BY <1>2 DEF Current
<1>4. req[r].total = Cardinality(OnBoard)
  BY <1>2 DEF Current
<1>5. Value(r) = [data |-> Ranked(s, req[r].key), total |-> Cardinality(OnBoard)]
  BY <1>3, <1>4 DEF Value, Ranked
<1>6. QED
  BY <1>1, <1>5 DEF PageOf

LEMMA PagesStep ==
    ASSUME LType, QueryInv, PagesInv, [Next]_vars
    PROVE  PagesInv'
<1>1. /\ \A r \in Requests : ReqOk(req[r])
      /\ cached = [k \in Pages |-> cached[k]]
  BY DEF LType, ReqsOk
<1>2. ASSUME NEW r \in Requests, NEW q, req' = [req EXCEPT ![r] = q],
             req[r].pc # "bust", UNCHANGED <<board, cached, late, lost>>
      PROVE  PagesInv'
  <2>1. Due(req[r]) = {}
    BY <1>2 DEF Due
  <2>2. QED
    BY <1>2, <2>1, PagesKept
<1>3. ASSUME NEW r \in Requests, NEW k \in Pages, GetLeaderboard(r, k) PROVE PagesInv'
  <2> DEFINE q == [pc |-> "query", key |-> k, rows |-> None, total |-> None, clean |-> TRUE]
  <2>1. /\ req' = [req EXCEPT ![r] = q] /\ req[r].pc # "bust"
        /\ UNCHANGED <<board, cached, late, lost>>
    BY <1>3, IdleIs DEF GetLeaderboard
  <2> HIDE DEF q
  <2>2. QED
    BY <1>2, <2>1
<1>4. ASSUME NEW r \in Requests, FindRows(r) \/ CountRows(r) PROVE PagesInv'
  <2>1. PICK q : req' = [req EXCEPT ![r] = q]
    BY <1>4 DEF FindRows, CountRows
  <2>2. req[r].pc # "bust" /\ UNCHANGED <<board, cached, late, lost>>
    BY <1>4 DEF FindRows, CountRows
  <2>3. QED
    BY <1>2, <2>1, <2>2
<1>5. ASSUME NEW r \in Requests, NEW u \in Users, NEW n \in Scores[u], Submit(r, u, n) PROVE PagesInv'
  <2> DEFINE q == [pc |-> "commit", user |-> u, entry |-> [score |-> n, at |-> now]]
  <2>1. /\ req' = [req EXCEPT ![r] = q] /\ req[r].pc # "bust"
        /\ UNCHANGED <<board, cached, late, lost>>
    BY <1>5, IdleIs DEF Submit
  <2> HIDE DEF q
  <2>2. QED
    BY <1>2, <2>1
<1>6. ASSUME NEW r \in Requests, SetPage(r) PROVE PagesInv'
  <2> DEFINE key == req[r].key
  <2>1. /\ req' = [req EXCEPT ![r] = Idle] /\ board' = board
        /\ req[r].pc = "query" /\ req[r].rows # None /\ req[r].total # None
        /\ cached' = [cached EXCEPT ![key] = Value(r)]
        /\ late' = IF req[r].clean THEN late \ {key} ELSE late \cup {key}
        /\ lost' = lost \ {key}
    BY <1>6 DEF SetPage, Answer
  <2>2. Due(req[r]) = {}
    BY <2>1 DEF Due
  <2>3. key \in Pages
    BY <1>1, <2>1 DEF ReqOk
  <2>4. \A k \in Pages : k # key =>
            /\ cached'[k] = cached[k] /\ (k \in late => k \in late') /\ (k \in lost => k \in lost')
    BY <1>1, <2>1
  <2>5. key \in late' \/ PageOf(key, cached'[key])
    <3>1. CASE req[r].clean
      <4>1. PageOf(key, Value(r))
        BY <2>1, <3>1, PageIsSet
      <4>2. cached'[key] = Value(r)
        BY <1>1, <2>1, <2>3
      <4>3. QED
        BY <4>1, <4>2
    <3>2. CASE ~req[r].clean
      BY <2>1, <3>2
    <3>3. QED
      BY <3>1, <3>2
  <2> HIDE DEF key
  <2>6. \A k \in Pages :
           \/ /\ cached'[k] = cached[k]
              /\ k \in late => k \in late'
              /\ k \in lost => k \in lost'
              /\ k \notin Due(req[r])
           \/ k \in late' \cup lost'
           \/ PageOf(k, cached'[k])
    BY <2>2, <2>4, <2>5
  <2>7. req' = [req EXCEPT ![r] = Idle] /\ board' = board
    BY <2>1
  <2>8. QED
    BY <2>6, <2>7, PagesKept
<1>7. ASSUME NEW r \in Requests, Commit(r) PROVE PagesInv'
  <2>1. req'[r] = bustLeaderboard
    BY <1>7, OvertakenOver DEF Commit
  <2>2. \A k \in Pages : ~Settled(k)'
    BY <2>1, BustIs DEF Settled, Pending
  <2>3. QED
    BY <2>2 DEF PagesInv
<1>8. ASSUME NEW r \in Requests, NEW k \in Pages, ScanPage(r, k) PROVE PagesInv'
  <2> DEFINE q == [req[r] EXCEPT !.scan = @ \ {k},
                                 !.found = IF cached[k] = None THEN @ ELSE @ \cup {k}]
  <2>1. req[r] \in [pc : {"bust"}, scan : SUBSET Pages, found : SUBSET Pages]
    BY <1>1, <1>8 DEF ScanPage, ReqOk
  <2>2. /\ q.pc = "bust" /\ q.scan = req[r].scan \ {k}
        /\ q.found = IF cached[k] = None THEN req[r].found ELSE req[r].found \cup {k}
    BY <2>1
  <2>3. UNCHANGED <<board, cached, late, lost>>
    BY <1>8 DEF ScanPage
  <2>4. \/ req' = [req EXCEPT ![r] = q]
        \/ q.scan \cup q.found = {} /\ req' = [req EXCEPT ![r] = Idle]
    BY <1>8 DEF ScanPage, Busting, Answer
  <2> HIDE DEF q
  <2>5. PICK p : req' = [req EXCEPT ![r] = p] /\ Due(p) = q.scan \cup q.found
    BY <2>2, <2>4, IdleIs DEF Due
  <2>6. \A l \in Pages : l \in Due(req[r]) => cached[l] = None \/ l \in Due(p)
    BY <2>1, <2>2, <2>5 DEF Due
  <2>7. QED
    BY <2>3, <2>5, <2>6, PagesKept
<1>9. ASSUME NEW r \in Requests, DeletePages(r) PROVE PagesInv'
  <2> DEFINE q == [req[r] EXCEPT !.found = {}]
  <2>1. PICK F : F = req[r].found /\ Due(req[r]) = F
    BY <1>9 DEF DeletePages, Due
  <2>2. /\ cached' = [k \in Pages |-> IF k \in F THEN None ELSE cached[k]]
        /\ late' = late \ F /\ lost' = lost \ F /\ board' = board
    BY <1>9, <2>1 DEF DeletePages
  <2>3. PICK p : req' = [req EXCEPT ![r] = p]
    BY <1>9 DEF DeletePages, Busting, Answer
  <2>4. QED
    BY <2>1, <2>2, <2>3, PagesKept
<1>10. ASSUME NEW r \in Requests, Abort(r) PROVE PagesInv'
  <2>1. /\ req' = [req EXCEPT ![r] = Idle] /\ lost' = lost \cup Due(req[r])
        /\ UNCHANGED <<board, cached, late>>
    BY <1>10 DEF Abort, Answer, Pending, Due
  <2>2. QED
    BY <2>1, PagesKept
<1>11. CASE RemoveContest
  <2>1. \A k \in Pages : ~Settled(k)'
    BY <1>11 DEF RemoveContest, Settled
  <2>2. QED
    BY <2>1 DEF PagesInv
<1>12. CASE Tick \/ (\E k \in Pages : Expire(k)) \/ UNCHANGED vars
  <2> SUFFICES ASSUME NEW k \in Pages, Settled(k)' PROVE PageOf(k, cached[k])'
    BY DEF PagesInv
  <2>1. board' = board /\ req' = req
    BY <1>12 DEF Tick, Expire, vars
  <2>2. PICK v : v = cached'[k]
    OBVIOUS
  <2>3. cached'[k] = cached[k] /\ (k \in late => k \in late') /\ (k \in lost => k \in lost')
    BY <1>1, <1>12 DEF Tick, Expire, vars, Settled
  <2>4. Settled(k)
    BY <2>1, <2>3 DEF Settled, Pending
  <2>5. PageOf(k, v)
    BY <2>2, <2>3, <2>4 DEF PagesInv
  <2>6. PageOf(k, v)'
    BY <2>1, <2>5, BoardKept
  <2>7. QED
    BY <2>2, <2>6 DEF PageOf
<1>13. QED
  BY <1>3, <1>4, <1>5, <1>6, <1>7, <1>8, <1>9, <1>10, <1>11, <1>12 DEF Next, Ask, Step

-----------------------------------------------------------------------------
(* The theorems.                                                           *)

LInv == LType /\ QueryInv /\ PagesInv

LEMMA LInvInit == Init => LInv
<1> SUFFICES ASSUME Init PROVE LInv
  OBVIOUS
<1>1. OnBoard = {}
  BY DEF Init, OnBoard
<1>2. \A r \in Requests : req[r] = Idle
  BY DEF Init
<1>3. LType
  <2>1. ReqsOk
    BY <1>2, IdleIs DEF Init, ReqsOk
  <2>2. QED
    BY <1>1, <2>1, FS_EmptySet DEF Init, LType
<1>4. QueryInv
  BY <1>2, IdleIs DEF QueryInv
<1>5. PagesInv
  BY DEF Init, PagesInv, Settled
<1>6. QED
  BY <1>3, <1>4, <1>5 DEF LInv

LEMMA LeaderboardInv == Spec => []LInv
<1>1. LInv /\ [Next]_vars => LInv'
  BY LTypeStep, QueryStep, PagesStep DEF LInv
<1>2. QED
  BY <1>1, LInvInit, PTL DEF Spec

\* A cached page shows the participants of its ranks in the current ranking,
\* with their scores and times, and the number of all, unless a delete of it is
\* still under way, died with its request, or overtook the queries of the page.
THEOREM CachedPagesAreFresh == Spec => []PagesFreshUnlessRaced
<1>1. LInv => PagesFreshUnlessRaced
  BY PageIsFresh DEF LInv, LType, PagesInv, PagesFreshUnlessRaced
<1>2. QED
  BY <1>1, LeaderboardInv, PTL

-----------------------------------------------------------------------------
(* Paging through the whole ranking.                                       *)

\* Without ties, a rank counts those who come before.
LEMMA RankCounts ==
    ASSUME IsFiniteSet(OnBoard), board \in [Users -> Entry \cup {None}], NoTies,
           NEW s \in Rankings, NEW i \in 1..Cardinality(OnBoard)
    PROVE  Cardinality({v \in OnBoard : Before(v, s[i])}) = i - 1
<1> DEFINE N == Cardinality(OnBoard)
           B == {v \in OnBoard : Before(v, s[i])}
           f == [j \in 1..(i - 1) |-> s[j]]
<1>1. /\ N \in Nat /\ \A j \in 1..N : s[j] \in OnBoard
      /\ \A j, l \in 1..N : j # l => s[j] # s[l]
      /\ \A u \in OnBoard : \E j \in 1..N : s[j] = u
      /\ \A j, l \in 1..N : j < l => ~Before(s[l], s[j])
  BY RankingIs
<1>2. i \in Nat /\ i >= 1 /\ i <= N /\ 1..(i - 1) \subseteq 1..N
  BY <1>1
<1>3. ~Before(s[i], s[i])
  <2>1. board[s[i]] \in Entry
    BY <1>1 DEF OnBoard
  <2>2. QED
    BY <2>1 DEF Before, Entry
<1>4. ASSUME NEW j \in 1..(i - 1) PROVE s[j] \in B
  <2>1. j \in 1..N /\ j < i
    BY <1>2
  <2>2. s[j] \in OnBoard /\ s[i] \in OnBoard /\ s[j] # s[i] /\ ~Before(s[i], s[j])
    BY <1>1, <2>1
  <2>3. QED
    BY <2>2 DEF NoTies
<1>5. ASSUME NEW v \in B PROVE \E j \in 1..(i - 1) : s[j] = v
  <2>1. PICK j \in 1..N : s[j] = v
    BY <1>1
  <2>2. j # i /\ ~(i < j)
    BY <1>1, <1>3, <2>1
  <2>3. j \in 1..(i - 1)
    BY <1>2, <2>2
  <2>4. QED
    BY <2>1, <2>3
<1>6. f \in Bijection(1..(i - 1), B)
  <2>1. f \in [1..(i - 1) -> B]
    BY <1>4
  <2>2. \A j, l \in 1..(i - 1) : f[j] = f[l] => j = l
    BY <1>1, <1>2
  <2>3. \A v \in B : \E j \in 1..(i - 1) : f[j] = v
    BY <1>5
  <2> HIDE DEF f, B
  <2>4. QED
    BY <2>1, <2>2, <2>3 DEF Bijection, Injection, Surjection, IsInjective
<1> HIDE DEF B, f
<1>7. PICK a \in Int, b \in Int : a = 1 /\ b = i - 1
  BY <1>2
<1>8. IsFiniteSet(a..b) /\ Cardinality(a..b) = i - 1
  BY <1>2, <1>7, FS_Interval
<1>9. Cardinality(B) = Cardinality(a..b)
  BY <1>6, <1>7, <1>8, FS_Bijection DEF ExistsBijection
<1>10. QED
  BY <1>8, <1>9 DEF B

\* Without ties there is one ranking.
LEMMA OneRanking ==
    ASSUME IsFiniteSet(OnBoard), board \in [Users -> Entry \cup {None}], NoTies,
           NEW s \in Rankings, NEW t \in Rankings, NEW i \in 1..Cardinality(OnBoard)
    PROVE  s[i] = t[i]
<1> DEFINE N == Cardinality(OnBoard)
<1>1. N \in Nat /\ s[i] \in OnBoard
  BY RankingIs
<1>2. PICK j \in 1..N : t[j] = s[i]
  BY <1>1, RankingIs
<1>3. Cardinality({v \in OnBoard : Before(v, s[i])}) = i - 1
  BY RankCounts
<1>4. Cardinality({v \in OnBoard : Before(v, t[j])}) = j - 1
  BY RankCounts
<1>5. i - 1 = j - 1
  BY <1>2, <1>3, <1>4
<1>6. i = j
  BY <1>1, <1>5
<1>7. QED
  BY <1>2, <1>6

\* A page lists the users of its ranks.
LEMMA ListedAre ==
    ASSUME IsFiniteSet(OnBoard), board \in [Users -> Entry \cup {None}], NoTies,
           NEW s \in Rankings, NEW k \in Pages, PageOf(k, cached[k])
    PROVE  Listed(k) = {s[i] : i \in PageRanks(k)}
<1> DEFINE N == Cardinality(OnBoard)
           o == offset(k)
           n == IF last(N, k) > o THEN last(N, k) - o ELSE 0
<1>1. PICK t \in Rankings : cached[k] = [data |-> Ranked(t, k), total |-> Cardinality(OnBoard)]
  BY DEF PageOf
<1>2. PICK data : data = Ranked(t, k) /\ cached[k].data = data
  BY <1>1
<1>3. /\ n \in Nat /\ DOMAIN data = 1..n
      /\ \A i \in 1..n : data[i].rank = o + i /\ data[i].rank \in 1..N /\ data[i].user = t[data[i].rank]
  <2>1. /\ n \in Nat /\ DOMAIN Ranked(t, k) = 1..n
        /\ \A i \in 1..n : /\ Ranked(t, k)[i].rank = o + i /\ Ranked(t, k)[i].rank \in 1..N
                           /\ Ranked(t, k)[i].user = t[Ranked(t, k)[i].rank]
    BY PageShows
  <2> HIDE DEF n, o, N
  <2>2. QED
    BY <1>2, <2>1
<1>4. N \in Nat /\ o \in Nat /\ last(N, k) \in Nat
  BY FS_CardinalityType, OffsetIs DEF last
<1>5. PageRanks(k) = (o + 1) .. last(N, k)
  BY PageRanksAre
<1> HIDE DEF o, N
<1>6. ASSUME NEW i \in 1..n PROVE o + i \in PageRanks(k) /\ data[i].user = s[o + i]
  <2>1. o + i \in PageRanks(k)
    BY <1>3, <1>4, <1>5
  <2>2. data[i].user = t[o + i] /\ o + i \in 1..N
    BY <1>3
  <2>3. s[o + i] = t[o + i]
    BY <2>2, OneRanking DEF N
  <2>4. QED
    BY <2>1, <2>2, <2>3
<1>7. ASSUME NEW j \in PageRanks(k) PROVE \E i \in 1..n : data[i].user = s[j]
  <2>1. j - o \in 1..n /\ o + (j - o) = j
    BY <1>4, <1>5
  <2>2. data[j - o].user = s[o + (j - o)]
    BY <1>6, <2>1
  <2>3. QED
    BY <2>1, <2>2
<1> HIDE DEF n
<1>8. Listed(k) = {data[i].user : i \in 1..n}
  BY <1>2, <1>3 DEF Listed
<1>9. QED
  BY <1>6, <1>7, <1>8

\* Whoever pages through the leaderboard, at any size of page, meets every
\* participant exactly once, unless two are tied in score and second.
THEOREM PagingLeavesNobodyOut == Spec => []NobodyLeftOut
<1>1. ASSUME LInv PROVE NobodyLeftOut
  <2> SUFFICES ASSUME NEW n \in {k.perPage : k \in Pages}, NoTies,
                      \A k \in {k \in Pages : k.perPage = n} : Settled(k),
                      {k.page : k \in {k \in Pages : k.perPage = n}}
                          = 1 .. Cardinality({k \in Pages : k.perPage = n}),
                      Cardinality(OnBoard) <= n * Cardinality({k \in Pages : k.perPage = n})
               PROVE  /\ UNION {Listed(k) : k \in {k \in Pages : k.perPage = n}} = OnBoard
                      /\ \A k, l \in {k \in Pages : k.perPage = n} : k # l => Listed(k) \cap Listed(l) = {}
    BY DEF NobodyLeftOut
  <2> DEFINE book == {k \in Pages : k.perPage = n}
             N == Cardinality(OnBoard)
  <2>1. /\ IsFiniteSet(OnBoard) /\ board \in [Users -> Entry \cup {None}]
        /\ \A k \in book : PageOf(k, cached[k])
    BY <1>1 DEF LInv, LType, PagesInv
  <2>2. PICK k0 \in book : TRUE
    OBVIOUS
  <2>3. PICK s : s \in Rankings
    BY <2>1, <2>2 DEF PageOf
  <2>4. /\ N \in Nat /\ \A i \in 1..N : s[i] \in OnBoard
        /\ \A i, j \in 1..N : i # j => s[i] # s[j]
        /\ \A u \in OnBoard : \E i \in 1..N : s[i] = u
    BY <2>1, <2>3, RankingIs
  <2>5. \A k \in book : Listed(k) = {s[i] : i \in PageRanks(k)}
    BY <2>1, <2>3, ListedAre
  <2>6. n \in Nat \ {0}
    BY <2>2, OffsetIs
  <2>7. PICK c \in Nat : c = Cardinality(book) /\ {k.page : k \in book} = 1..c /\ N <= n * c
    <3>1. IsFiniteSet(book)
      BY LeaderboardAssumption, FS_Subset
    <3>2. QED
      BY <3>1, FS_CardinalityType
  <2>8. \A k \in book : /\ k \in Pages /\ k.page \in 1..c
                        /\ PageRanks(k) = {i \in 1..N : (i - 1) \div n = k.page - 1}
    BY <2>7 DEF PageRanks
  <2>9. \A k, l \in book : k.page = l.page => k = l
    <3>1. \A k \in book : k = [page |-> k.page, perPage |-> n]
      BY OffsetIs
    <3>2. QED
      BY <3>1
  <2>10. ASSUME NEW i \in 1..N PROVE \E k \in book : i \in PageRanks(k)
    <3>1. PICK m \in Nat : m = i - 1 /\ m < N
      BY <2>4
    <3>2. PICK d \in Nat : d = m \div n
      BY <2>6, <3>1
    <3>3. n * d <= m
      BY <2>6, <3>2, Quotient
    <3>4. d < c
      <4>1. ASSUME c <= d PROVE FALSE
        <5>1. PICK p \in Nat : p = n
          BY <2>6
        <5>2. p * c <= p * d
          BY <4>1, ProductGrows
        <5>3. p * c \in Nat /\ p * d \in Nat
          OBVIOUS
        <5>4. QED
          BY <2>4, <2>7, <3>1, <3>3, <5>1, <5>2, <5>3
      <4>2. QED
        BY <4>1
    <3>5. d + 1 \in 1..c
      BY <3>4
    <3>6. PICK k \in book : k.page = d + 1
      BY <2>7, <3>5
    <3>7. k.page - 1 = d
      BY <3>6
    <3>8. QED
      BY <2>8, <3>1, <3>2, <3>6, <3>7
  <2>11. ASSUME NEW k \in book, NEW l \in book, NEW i \in PageRanks(k), i \in PageRanks(l)
         PROVE  k = l
    <3>1. k.page - 1 = l.page - 1 /\ k.page \in Nat /\ l.page \in Nat
      BY <2>8, <2>11
    <3>2. QED
      BY <2>9, <3>1
  <2>12. \A k \in book : PageRanks(k) \subseteq 1..N
    BY <2>8
  <2> HIDE DEF book, N
  <2>13. UNION {Listed(k) : k \in book} = OnBoard
    <3>1. ASSUME NEW u \in OnBoard PROVE \E k \in book : u \in Listed(k)
      BY <2>4, <2>5, <2>10
    <3>2. \A k \in book : Listed(k) \subseteq OnBoard
      BY <2>4, <2>5, <2>12
    <3>3. QED
      BY <3>1, <3>2
  <2>14. ASSUME NEW k \in book, NEW l \in book, k # l PROVE Listed(k) \cap Listed(l) = {}
    <3> SUFFICES ASSUME NEW u \in Listed(k), u \in Listed(l) PROVE FALSE
      OBVIOUS
    <3>1. PICK i \in PageRanks(k) : s[i] = u
      BY <2>5
    <3>2. PICK j \in PageRanks(l) : s[j] = u
      BY <2>5
    <3>3. i = j
      BY <2>4, <2>12, <3>1, <3>2
    <3>4. QED
      BY <2>11, <2>14, <3>3
  <2>15. QED
    BY <2>13, <2>14 DEF book
<1>2. QED
  BY <1>1, LeaderboardInv, PTL
=============================================================================
