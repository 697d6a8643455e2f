---------------------------- MODULE RequestGate ----------------------------
(***************************************************************************)
(* What stands before every handler: the rate limiter, the token, the role *)
(* of the token; and the two handlers that change what the gate goes by,   *)
(* the role of a user and the points of a policy.                          *)
(*                                                                         *)
(* The gate is that of the global policy and one client address.  The      *)
(* processes of the service share MySQL and Redis; policies and limiters   *)
(* are in the memory of each.  The counter is a fixed window that becomes  *)
(* a block when it overruns (rate-limiter-flexible).                       *)
(***************************************************************************)
EXTENDS Naturals, FiniteSets

CONSTANTS
    Users,
    Seeded,     \* those who are administrators from the start
    Processes,
    Requests,   \* slots for requests that are being served (a bound)
    Default,    \* the points of DEFAULT_POLICIES
    Points,     \* the points a policy may have
    Posts,      \* the bodies posted to change the policy
    Window,     \* durationSec
    BlockTime,  \* blockSec
    Life,       \* lifetime of a token
    MaxTime,    \* bound on the clock
    MaxAsks,    \* bound on the requests that arrive
    MaxRestarts,\* bound on restarts
    None

ASSUME RequestGateAssumption ==
    /\ Seeded \subseteq Users
    /\ Seeded # {}
    /\ Default \in Points
    /\ Points \subseteq Nat \ {0}
    /\ Posts \subseteq [points : Points \cup {None}, enabled : BOOLEAN \cup {None}]
    /\ Window \in Nat \ {0}
    /\ BlockTime \in Nat \ {0}
    /\ Life \in Nat \ {0}
    /\ MaxTime \in Nat
    /\ MaxAsks \in Nat
    /\ MaxRestarts \in Nat
    /\ None \notin Points \cup 0 .. MaxTime
    /\ None \notin BOOLEAN

VARIABLES
    now,       \* the clock
    role,      \* the column role of the table users
    tokens,    \* the tokens issued
    policy,    \* the row of the policy: its points, and if it is enabled
    runtime,   \* per process, the points of RateLimitPolicyService
    limiter,   \* per process, the points of the limiter, None before its first use
    counter,   \* in Redis: points consumed and expiry, None without a key
    req,       \* the requests being served
    asked,     \* number of requests that arrived
    restarts,  \* number of restarts
    passed,    \* history: requests let through in the life of the counter
    used,      \* history: the points of the limiters that counted or blocked in it
    lastAdmin, \* history: when a user was last an administrator, None if never
    orphaned   \* history: someone no longer an administrator changed a role

vars == <<now, role, tokens, policy, runtime, limiter, counter, req, asked, restarts,
          passed, used, lastAdmin, orphaned>>
accounts == <<role, tokens, lastAdmin, orphaned, asked>>
limits == <<policy, runtime, limiter, counter, restarts, passed, used>>
policies == <<policy, runtime, limiter, restarts>>

Roles == {"NORMAL", "ADMIN"}
Token == [user : Users, role : Roles, exp : Nat, lag : Nat]
Idle == [pc |-> "idle"]

\* What a client asks for.
Asks ==
    [kind : {"login"}, user : Users] \cup
    [kind : {"updateRole"}, token : tokens, target : Users, role : Roles] \cup
    [kind : {"updatePolicy"}, token : tokens, post : Posts]

Init ==
    /\ now = 0
    /\ role = [u \in Users |-> IF u \in Seeded THEN "ADMIN" ELSE "NORMAL"]
    /\ tokens = {}
    /\ policy = [points |-> Default, enabled |-> TRUE]
    /\ runtime = [p \in Processes |-> Default]
    /\ limiter = [p \in Processes |-> None]
    /\ counter = None
    /\ req = [r \in Requests |-> Idle]
    /\ asked = 0
    /\ restarts = 0
    /\ passed = 0
    /\ used = {}
    /\ lastAdmin = [u \in Users |-> IF u \in Seeded THEN 0 ELSE None]
    /\ orphaned = FALSE

TypeOK ==
    /\ now \in 0 .. MaxTime
    /\ role \in [Users -> Roles]
    /\ tokens \subseteq Token
    /\ policy \in [points : Points, enabled : BOOLEAN]
    /\ runtime \in [Processes -> Points]
    /\ limiter \in [Processes -> Points \cup {None}]
    /\ counter = None \/ (counter.n \in Nat \ {0} /\ counter.until > now)
    /\ \A r \in Requests : req[r].pc \in
        {"idle", "consume", "block", "enter", "findUser", "issueToken",
         "findTarget", "saveRole", "findPolicy", "savePolicy", "upsert"}
    /\ asked \in 0 .. MaxAsks
    /\ restarts \in 0 .. MaxRestarts
    /\ passed \in Nat
    /\ used \subseteq Points
    /\ lastAdmin \in [Users -> 0 .. MaxTime \cup {None}]
    /\ orphaned \in BOOLEAN

-----------------------------------------------------------------------------
(* The limiter *)

Answer(r) == req' = [req EXCEPT ![r] = Idle]
Goto(r, pc) == req' = [req EXCEPT ![r].pc = pc]
Handle(r, pc) ==
    req' = [req EXCEPT ![r] = [pc |-> pc, process |-> req[r].process,
                               ask |-> req[r].ask, entered |-> now]]

Arrive(r, p, ask) ==
    /\ req[r] = Idle
    /\ asked < MaxAsks
    /\ asked' = asked + 1
    /\ req' = [req EXCEPT ![r] = [pc |-> "consume", process |-> p, ask |-> ask]]
    /\ UNCHANGED <<now, role, tokens, lastAdmin, orphaned, limits>>

\* The key is incremented, and created with the window's expiry, in one call.
consume(p) ==
    IF counter = None THEN [n |-> 1, until |-> now + Window]
    ELSE [counter EXCEPT !.n = @ + 1]

\* getLimiter makes the limiter of a policy once.
getLimiter(p) == IF limiter[p] = None THEN runtime[p] ELSE limiter[p]

\* Mutant: the catch answers as if the request had been allowed.
ConsumeAllowing(r) ==
    /\ req[r].pc = "consume"
    /\ LET p == req[r].process IN
        /\ limiter' = [limiter EXCEPT ![p] = getLimiter(p)]
        /\ counter' = consume(p)
        /\ passed' = (IF counter = None THEN 0 ELSE passed) + 1
        /\ used' = (IF counter = None THEN {} ELSE used) \cup {getLimiter(p)}
    /\ Goto(r, "enter")
    /\ UNCHANGED <<now, accounts, policy, runtime, restarts>>

Consume(r) ==
    /\ req[r].pc = "consume"
    /\ LET p == req[r].process
           points == getLimiter(p)
           n == consume(p).n IN
        /\ limiter' = [limiter EXCEPT ![p] = points]
        /\ counter' = consume(p)
        /\ passed' = (IF counter = None THEN 0 ELSE passed) + (IF n <= points THEN 1 ELSE 0)
        /\ used' = (IF counter = None THEN {} ELSE used) \cup {points}
        /\ IF n <= points THEN Goto(r, "enter")
           ELSE IF n = points + 1
           THEN req' = [req EXCEPT ![r] = [pc |-> "block", process |-> p, points |-> points]]
           ELSE Answer(r)
    /\ UNCHANGED <<now, accounts, policy, runtime, restarts>>

\* The first request too many turns the window into a block; then it is 429.
Block(r) ==
    /\ req[r].pc = "block"
    /\ counter' = [n |-> req[r].points + 1, until |-> now + BlockTime]
    /\ used' = used \cup {req[r].points}
    /\ Answer(r)
    /\ UNCHANGED <<now, accounts, policies, passed>>
-----------------------------------------------------------------------------
(* The token, the role, and the first step of the handler *)

\* Mutant: verifyToken ignores the expiry.
authRequiredForever(t) == t \in tokens

authRequired(t) == t \in tokens /\ now < t.exp

\* Mutant: administrators may change their own role.
mayUpdateRoleOf(t, target) == t.role = "ADMIN"

mayUpdateRole(t, target) == t.role = "ADMIN" /\ t.user # target

Enter(r) ==
    /\ req[r].pc = "enter"
    /\ LET a == req[r].ask IN
        CASE a.kind = "login" -> Goto(r, "findUser")
          [] a.kind = "updateRole" ->
                IF authRequired(a.token) /\ mayUpdateRole(a.token, a.target)
                THEN Handle(r, "findTarget") ELSE Answer(r)
          [] a.kind = "updatePolicy" ->
                IF authRequired(a.token) /\ a.token.role = "ADMIN"
                THEN Handle(r, "findPolicy") ELSE Answer(r)
    /\ UNCHANGED <<now, accounts, limits>>
-----------------------------------------------------------------------------
(* The handlers *)

\* verifyCredentials reads the user last; the token is signed afterwards.
FindUser(r) ==
    /\ req[r].pc = "findUser"
    /\ req' = [req EXCEPT ![r] = [pc |-> "issueToken", process |-> req[r].process,
        user |-> req[r].ask.user, role |-> role[req[r].ask.user], at |-> now]]
    /\ UNCHANGED <<now, accounts, limits>>

IssueToken(r) ==
    /\ req[r].pc = "issueToken"
    /\ tokens' = tokens \cup
        {[user |-> req[r].user, role |-> req[r].role, exp |-> now + Life, lag |-> now - req[r].at]}
    /\ Answer(r)
    /\ UNCHANGED <<now, role, lastAdmin, orphaned, asked, limits>>

\* The UPDATE is left out when the row loaded before it has the role already.
FindTarget(r) ==
    /\ req[r].pc = "findTarget"
    /\ IF role[req[r].ask.target] = req[r].ask.role THEN Answer(r) ELSE Goto(r, "saveRole")
    /\ UNCHANGED <<now, accounts, limits>>

SaveRole(r) ==
    /\ req[r].pc = "saveRole"
    /\ LET a == req[r].ask IN
        /\ role' = [role EXCEPT ![a.target] = a.role]
        /\ orphaned' = (orphaned \/ role[a.token.user] # "ADMIN")
        /\ lastAdmin' = IF a.role = "ADMIN" THEN [lastAdmin EXCEPT ![a.target] = now] ELSE lastAdmin
    /\ Answer(r)
    /\ UNCHANGED <<now, tokens, asked, limits>>

\* Mutant: the payload has points that were not posted.
UpdatedUnposted(row, post) ==
    [points |-> post.points, enabled |-> IF post.enabled = None THEN row.enabled ELSE post.enabled]

\* The row as it will be answered and handed to the runtime.
Updated(row, post) == [f \in {"points", "enabled"} |-> IF post[f] = None THEN row[f] ELSE post[f]]

FindPolicy(r) ==
    /\ req[r].pc = "findPolicy"
    /\ req' = [req EXCEPT ![r] = [pc |-> "savePolicy", process |-> req[r].process,
        found |-> policy, updated |-> Updated(policy, req[r].ask.post)]]
    /\ UNCHANGED <<now, accounts, limits>>

\* entity.update writes the columns that differ from those it loaded.
SavePolicy(r) ==
    /\ req[r].pc = "savePolicy"
    /\ policy' = [f \in {"points", "enabled"} |->
        IF req[r].updated[f] = req[r].found[f] THEN policy[f] ELSE req[r].updated[f]]
    /\ IF req[r].updated.enabled THEN Goto(r, "upsert") ELSE Answer(r)
    /\ UNCHANGED <<now, accounts, runtime, limiter, counter, restarts, passed, used>>

\* Only the process that served the request learns of the change.
Upsert(r) ==
    /\ req[r].pc = "upsert"
    /\ runtime' = [runtime EXCEPT ![req[r].process] = req[r].updated.points]
    /\ Answer(r)
    /\ UNCHANGED <<now, accounts, policy, limiter, counter, restarts, passed, used>>
-----------------------------------------------------------------------------
(* The environment *)

\* loadIntoRuntime leaves the defaults when the policy is disabled, or when the
\* database does not answer.
Restart(p) ==
    /\ restarts < MaxRestarts
    /\ restarts' = restarts + 1
    /\ \E points \in {Default} \cup IF policy.enabled THEN {policy.points} ELSE {} :
        runtime' = [runtime EXCEPT ![p] = points]
    /\ limiter' = [limiter EXCEPT ![p] = None]
    /\ req' = [r \in Requests |->
        IF req[r].pc # "idle" /\ req[r].process = p THEN Idle ELSE req[r]]
    /\ UNCHANGED <<now, accounts, policy, counter, passed, used>>

Expired == counter # None /\ counter.until = now + 1

Tick ==
    /\ now < MaxTime
    /\ now' = now + 1
    /\ counter' = IF Expired THEN None ELSE counter
    /\ lastAdmin' = [u \in Users |-> IF role[u] = "ADMIN" THEN now + 1 ELSE lastAdmin[u]]
    /\ UNCHANGED <<role, tokens, orphaned, asked, policies, passed, used, req>>

Next ==
    \/ Tick
    \/ \E p \in Processes : Restart(p)
    \/ \E r \in Requests :
        \/ \E p \in Processes, ask \in Asks : Arrive(r, p, ask)
        \/ Consume(r) \/ Block(r) \/ Enter(r)
        \/ FindUser(r) \/ IssueToken(r)
        \/ FindTarget(r) \/ SaveRole(r)
        \/ FindPolicy(r) \/ SavePolicy(r) \/ Upsert(r)

Spec == Init /\ [][Next]_vars
-----------------------------------------------------------------------------
(* The properties *)

\* In the life of a counter no more requests pass than the policy has points,
\* over all processes, their restarts and the race of the block with the end
\* of the window, as long as the limiters that count and block agree on them.
WindowBudget == \A n \in used : used = {n} => passed <= n

\* Administrators cannot lock everybody out: the last one goes only when a
\* role is changed by someone who is no longer an administrator, with a token
\* or a request that is older than the demotion.
AdminRemains == orphaned \/ \E u \in Users : role[u] = "ADMIN"

\* The gate goes by the role in the token: a demotion takes hold when the
\* tokens issued before it have expired, and a login that had read the old role
\* at that time adds no more than the time it took.
DemotionTakesHold ==
    \A r \in Requests : req[r].pc \in {"findTarget", "saveRole", "findPolicy"} =>
        LET t == req[r].ask.token IN
        /\ lastAdmin[t.user] # None
        /\ req[r].entered < lastAdmin[t.user] + Life + t.lag

\* A policy is tunable without a redeploy: a request is judged by the points
\* its process has been given last.
PolicyTakesEffect ==
    [][\A r \in Requests : Consume(r) =>
        limiter'[req[r].process] = runtime[req[r].process]]_vars
=============================================================================
