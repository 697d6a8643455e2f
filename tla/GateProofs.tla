------------------------------ MODULE GateProofs ------------------------------
(***************************************************************************)
(* Theorems about RequestGate, for every value of its constants.           *)
(***************************************************************************)
EXTENDS RequestGate, TLAPS

-----------------------------------------------------------------------------
(* Type correctness: what a request holds, by the step it is at.           *)

Login == [kind : {"login"}, user : Users]
RoleChange == [kind : {"updateRole"}, token : Token, target : Users, role : Roles]
PolicyChange == [kind : {"updatePolicy"}, token : Token, post : Posts]
Ask == Login \cup RoleChange \cup PolicyChange
Policy == [points : Points, enabled : BOOLEAN]

Judged == [pc : {"consume", "enter"}, process : Processes, ask : Ask]
Blocking == [pc : {"block"}, process : Processes, points : Points]
LoggingIn == [pc : {"findUser"}, process : Processes, ask : Login]
Issuing == [pc : {"issueToken"}, process : Processes, user : Users, role : Roles, at : Nat]
Promoting == [pc : {"findTarget", "saveRole"}, process : Processes, ask : RoleChange, entered : Nat]
Tuning == [pc : {"findPolicy"}, process : Processes, ask : PolicyChange, entered : Nat]
Tuned == [pc : {"savePolicy", "upsert"}, process : Processes, found : Policy, updated : Policy]
Request == {Idle} \cup Judged \cup Blocking \cup LoggingIn \cup Issuing
              \cup Promoting \cup Tuning \cup Tuned

\* A user was read before the token is signed.
Timely(q, t) == q.pc = "issueToken" => q.at <= t

Counter == [n : Nat \ {0}, until : Nat]
CounterOK == counter = None \/ (counter \in Counter /\ counter.until > now)

ReqOK == req \in [Requests -> Request] /\ \A r \in Requests : Timely(req[r], now)

Data ==
    /\ now \in 0 .. MaxTime
    /\ role \in [Users -> Roles]
    /\ tokens \subseteq Token
    /\ policy \in Policy
    /\ runtime \in [Processes -> Points]
    /\ limiter \in [Processes -> Points \cup {None}]
    /\ asked \in 0 .. MaxAsks
    /\ restarts \in 0 .. MaxRestarts
    /\ passed \in Nat
    /\ used \subseteq Points
    /\ lastAdmin \in [Users -> 0 .. MaxTime \cup {None}]
    /\ orphaned \in BOOLEAN

Typed == Data /\ CounterOK /\ ReqOK

LEMMA Shapes ==
    ASSUME NEW q \in Request
    PROVE  /\ q.pc \in {"consume", "enter"} => q \in Judged
           /\ q.pc = "block" => q \in Blocking
           /\ q.pc = "findUser" => q \in LoggingIn
           /\ q.pc = "issueToken" => q \in Issuing
           /\ q.pc \in {"findTarget", "saveRole"} => q \in Promoting
           /\ q.pc = "findPolicy" => q \in Tuning
           /\ q.pc \in {"savePolicy", "upsert"} => q \in Tuned
           /\ q.pc \in {"idle", "consume", "block", "enter", "findUser", "issueToken",
                        "findTarget", "saveRole", "findPolicy", "savePolicy", "upsert"}
BY DEF Request, Idle, Judged, Blocking, LoggingIn, Issuing, Promoting, Tuning, Tuned

LEMMA AskShapes ==
    ASSUME NEW a \in Ask
    PROVE  /\ a.kind = "login" => a \in Login
           /\ a.kind = "updateRole" => a \in RoleChange
           /\ a.kind = "updatePolicy" => a \in PolicyChange
           /\ a.kind \in {"login", "updateRole", "updatePolicy"}
BY DEF Ask, Login, RoleChange, PolicyChange

LEMMA IdleShape == Idle \in Request /\ \A t : Timely(Idle, t)
BY DEF Request, Idle, Timely

\* Only the new value of req[r] has to be typed.
LEMMA ReqStep ==
    ASSUME ReqOK, NEW r \in Requests, NEW q \in Request, Timely(q, now'),
           req' = [req EXCEPT ![r] = q], now' = now
    PROVE  ReqOK'
BY DEF ReqOK

LEMMA AnswerStep ==
    ASSUME ReqOK, NEW r \in Requests, Answer(r), now' = now
    PROVE  ReqOK'
BY IdleShape, ReqStep DEF Answer

LEMMA TypedInit == Init => Typed
<1> SUFFICES ASSUME Init PROVE Typed
  OBVIOUS
<1>1. Data
  <2>1. policy \in Policy
    BY RequestGateAssumption DEF Init, Policy
  <2>2. now \in 0 .. MaxTime /\ asked \in 0 .. MaxAsks /\ restarts \in 0 .. MaxRestarts
    BY RequestGateAssumption DEF Init
  <2>3. lastAdmin \in [Users -> 0 .. MaxTime \cup {None}]
    BY RequestGateAssumption DEF Init
  <2>4. QED
    BY <2>1, <2>2, <2>3, RequestGateAssumption DEF Init, Data, Roles
<1>2. CounterOK
  BY DEF Init, CounterOK
<1>3. ReqOK
  BY IdleShape DEF Init, ReqOK
<1>4. QED
  BY <1>1, <1>2, <1>3 DEF Typed

LEMMA UpdatedPolicy ==
    ASSUME NEW p \in Policy, NEW post \in Posts
    PROVE  Updated(p, post) \in Policy
<1>1. post \in [points : Points \cup {None}, enabled : BOOLEAN \cup {None}]
  BY RequestGateAssumption
<1>2. /\ Updated(p, post) = [f \in {"points", "enabled"} |-> Updated(p, post)[f]]
      /\ Updated(p, post)["points"] \in Points
      /\ Updated(p, post)["enabled"] \in BOOLEAN
  BY <1>1 DEF Updated, Policy
<1>3. QED
  BY <1>2 DEF Policy

LEMMA TypedStep == Typed /\ [Next]_vars => Typed'
<1> SUFFICES ASSUME Typed, [Next]_vars PROVE Typed'
  OBVIOUS
<1>0. Data /\ CounterOK /\ ReqOK
  BY DEF Typed
<1>1. ASSUME NEW r \in Requests, NEW p \in Processes, NEW ask \in Asks, Arrive(r, p, ask)
      PROVE  Typed'
  <2> DEFINE q == [pc |-> "consume", process |-> p, ask |-> ask]
  <2>1. ask \in Ask
    BY <1>0 DEF Data, Asks, Ask, Login, RoleChange, PolicyChange
  <2>2. q \in Request /\ Timely(q, now')
    BY <2>1 DEF Request, Judged, Timely
  <2>3. ReqOK'
    BY <1>0, <1>1, <2>2, ReqStep DEF Arrive
  <2>4. Data' /\ CounterOK'
    BY <1>0, <1>1, RequestGateAssumption DEF Arrive, Data, CounterOK, limits
  <2>5. QED
    BY <2>3, <2>4 DEF Typed
<1>2. ASSUME NEW r \in Requests, Consume(r) PROVE Typed'
  <2> DEFINE p == req[r].process
             points == getLimiter(p)
  <2>1. req[r] \in Judged
    BY <1>0, <1>2, Shapes DEF Consume, ReqOK
  <2>2. p \in Processes /\ points \in Points
    BY <1>0, <2>1 DEF Judged, getLimiter, Data
  <2>3. consume(p) \in Counter /\ consume(p).until > now
    BY <1>0, RequestGateAssumption DEF consume, CounterOK, Counter, Data
  <2>4. counter' = consume(p) /\ now' = now
    BY <1>2 DEF Consume
  <2>5. CounterOK'
    BY <2>3, <2>4 DEF CounterOK
  <2>6. ReqOK'
    <3>1. CASE Goto(r, "enter")
      <4>1. [req[r] EXCEPT !.pc = "enter"] \in Judged
        BY <2>1 DEF Judged
      <4>2. [req[r] EXCEPT !.pc = "enter"] \in Request
        BY <4>1 DEF Request
      <4>3. Timely([req[r] EXCEPT !.pc = "enter"], now')
        BY <4>1 DEF Judged, Timely
      <4>4. QED
        BY <1>0, <2>4, <3>1, <4>2, <4>3, ReqStep DEF Goto
    <3>2. CASE req' = [req EXCEPT ![r] = [pc |-> "block", process |-> p, points |-> points]]
      <4>1. [pc |-> "block", process |-> p, points |-> points] \in Request
        BY <2>2 DEF Request, Blocking
      <4>2. Timely([pc |-> "block", process |-> p, points |-> points], now')
        BY DEF Timely
      <4>3. QED
        BY <1>0, <2>4, <3>2, <4>1, <4>2, ReqStep
    <3>3. CASE Answer(r)
      BY <1>0, <2>4, <3>3, AnswerStep
    <3>4. QED
      BY <1>2, <3>1, <3>2, <3>3 DEF Consume
  <2>7. Data'
    BY <1>0, <1>2, <2>2 DEF Consume, Data, accounts
  <2>8. QED
    BY <2>5, <2>6, <2>7 DEF Typed
<1>3. ASSUME NEW r \in Requests, Block(r) PROVE Typed'
  <2>1. req[r] \in Blocking
    BY <1>0, <1>3, Shapes DEF Block, ReqOK
  <2>2. req[r].points \in Points
    BY <2>1 DEF Blocking
  <2>3. ReqOK'
    BY <1>0, <1>3, AnswerStep DEF Block
  <2>4. CounterOK'
    <3>0. now \in Nat /\ req[r].points \in Nat \ {0} /\ BlockTime \in Nat \ {0}
      <4>1. now \in Nat
        BY <1>0, RequestGateAssumption DEF Data
      <4>2. Points \subseteq Nat \ {0} /\ BlockTime \in Nat \ {0}
        BY RequestGateAssumption
      <4>3. QED
        BY <2>2, <4>1, <4>2
    <3>1. req[r].points + 1 \in Nat \ {0} /\ now + BlockTime \in Nat /\ now + BlockTime > now
      BY <3>0
    <3>2. counter' = [n |-> req[r].points + 1, until |-> now + BlockTime] /\ now' = now
      BY <1>3 DEF Block
    <3>3. QED
      BY <3>1, <3>2 DEF CounterOK, Counter
  <2>5. Data'
    BY <1>0, <1>3, <2>2 DEF Block, Data, accounts, policies
  <2>6. QED
    BY <2>3, <2>4, <2>5 DEF Typed
<1>4. ASSUME NEW r \in Requests, Enter(r) PROVE Typed'
  <2>1. req[r] \in Judged
    BY <1>0, <1>4, Shapes DEF Enter, ReqOK
  <2> DEFINE a == req[r].ask
  <2>2. a \in Ask /\ req[r].process \in Processes /\ now \in Nat
    BY <1>0, <2>1, RequestGateAssumption DEF Judged, Data
  <2>3. ReqOK'
    <3>1. CASE a.kind = "login"
      <4> DEFINE q == [req[r] EXCEPT !.pc = "findUser"]
      <4>1. q \in LoggingIn
        BY <2>1, <2>2, <3>1, AskShapes DEF Judged, LoggingIn
      <4>2. q \in Request /\ Timely(q, now')
        BY <4>1 DEF Request, LoggingIn, Timely
      <4>3. req' = [req EXCEPT ![r] = q]
        BY <1>4, <3>1 DEF Enter, Goto
      <4>4. QED
        BY <1>0, <1>4, <4>2, <4>3, ReqStep DEF Enter
    <3>2. CASE a.kind = "updateRole"
      <4> DEFINE q == [pc |-> "findTarget", process |-> req[r].process, ask |-> a, entered |-> now]
      <4>1. q \in Promoting
        BY <2>2, <3>2, AskShapes DEF Promoting
      <4>2. q \in Request /\ Timely(q, now')
        BY <4>1 DEF Request, Timely
      <4>3. req' = [req EXCEPT ![r] = q] \/ Answer(r)
        BY <1>4, <3>2 DEF Enter, Handle
      <4>4. QED
        BY <1>0, <1>4, <4>2, <4>3, ReqStep, AnswerStep DEF Enter
    <3>3. CASE a.kind = "updatePolicy"
      <4> DEFINE q == [pc |-> "findPolicy", process |-> req[r].process, ask |-> a, entered |-> now]
      <4>1. q \in Tuning
        BY <2>2, <3>3, AskShapes DEF Tuning
      <4>2. q \in Request /\ Timely(q, now')
        BY <4>1 DEF Request, Timely
      <4>3. req' = [req EXCEPT ![r] = q] \/ Answer(r)
        BY <1>4, <3>3 DEF Enter, Handle
      <4>4. QED
        BY <1>0, <1>4, <4>2, <4>3, ReqStep, AnswerStep DEF Enter
    <3>4. QED
      BY <2>2, <3>1, <3>2, <3>3, AskShapes
  <2>4. Data' /\ CounterOK'
    BY <1>0, <1>4 DEF Enter, Data, CounterOK, accounts, limits
  <2>5. QED
    BY <2>3, <2>4 DEF Typed
<1>5. ASSUME NEW r \in Requests, FindUser(r) PROVE Typed'
  <2>1. req[r] \in LoggingIn
    BY <1>0, <1>5, Shapes DEF FindUser, ReqOK
  <2> DEFINE q == [pc |-> "issueToken", process |-> req[r].process,
                   user |-> req[r].ask.user, role |-> role[req[r].ask.user], at |-> now]
  <2>2. q \in Issuing
    BY <1>0, <2>1, RequestGateAssumption DEF LoggingIn, Login, Issuing, Data
  <2>3. q \in Request /\ Timely(q, now')
    BY <1>0, <1>5, <2>2, RequestGateAssumption DEF Request, Timely, FindUser, Data
  <2>4. ReqOK'
    BY <1>0, <1>5, <2>3, ReqStep DEF FindUser
  <2>5. Data' /\ CounterOK'
    BY <1>0, <1>5 DEF FindUser, Data, CounterOK, accounts, limits
  <2>6. QED
    BY <2>4, <2>5 DEF Typed
<1>6. ASSUME NEW r \in Requests, IssueToken(r) PROVE Typed'
  <2>1. req[r] \in Issuing /\ req[r].at <= now
    BY <1>0, <1>6, Shapes DEF IssueToken, ReqOK, Timely
  <2>2. [user |-> req[r].user, role |-> req[r].role, exp |-> now + Life, lag |-> now - req[r].at]
            \in Token
    BY <1>0, <2>1, RequestGateAssumption DEF Issuing, Token, Data
  <2>3. ReqOK'
    BY <1>0, <1>6, AnswerStep DEF IssueToken
  <2>4. Data' /\ CounterOK'
    BY <1>0, <1>6, <2>2 DEF IssueToken, Data, CounterOK, limits
  <2>5. QED
    BY <2>3, <2>4 DEF Typed
<1>7. ASSUME NEW r \in Requests, FindTarget(r) PROVE Typed'
  <2>1. req[r] \in Promoting
    BY <1>0, <1>7, Shapes DEF FindTarget, ReqOK
  <2> DEFINE q == [req[r] EXCEPT !.pc = "saveRole"]
  <2>2. q \in Promoting
    BY <2>1 DEF Promoting
  <2>3. q \in Request /\ Timely(q, now')
    BY <2>1, <2>2 DEF Request, Timely, Promoting
  <2>4. ReqOK'
    BY <1>0, <1>7, <2>3, ReqStep, AnswerStep DEF FindTarget, Goto
  <2>5. Data' /\ CounterOK'
    BY <1>0, <1>7 DEF FindTarget, Data, CounterOK, accounts, limits
  <2>6. QED
    BY <2>4, <2>5 DEF Typed
<1>8. ASSUME NEW r \in Requests, SaveRole(r) PROVE Typed'
  <2>1. req[r] \in Promoting
    BY <1>0, <1>8, Shapes DEF SaveRole, ReqOK
  <2>2. req[r].ask.target \in Users /\ req[r].ask.role \in Roles
    BY <2>1 DEF Promoting, RoleChange
  <2>3. ReqOK'
    BY <1>0, <1>8, AnswerStep DEF SaveRole
  <2>4. Data' /\ CounterOK'
    BY <1>0, <1>8, <2>2 DEF SaveRole, Data, CounterOK, limits
  <2>5. QED
    BY <2>3, <2>4 DEF Typed
<1>9. ASSUME NEW r \in Requests, FindPolicy(r) PROVE Typed'
  <2>1. req[r] \in Tuning
    BY <1>0, <1>9, Shapes DEF FindPolicy, ReqOK
  <2> DEFINE q == [pc |-> "savePolicy", process |-> req[r].process,
                   found |-> policy, updated |-> Updated(policy, req[r].ask.post)]
  <2>2. q \in Tuned
    BY <1>0, <2>1, UpdatedPolicy DEF Tuning, PolicyChange, Tuned, Data
  <2>3. q \in Request /\ Timely(q, now')
    BY <2>2 DEF Request, Timely
  <2>4. ReqOK'
    BY <1>0, <1>9, <2>3, ReqStep DEF FindPolicy
  <2>5. Data' /\ CounterOK'
    BY <1>0, <1>9 DEF FindPolicy, Data, CounterOK, accounts, limits
  <2>6. QED
    BY <2>4, <2>5 DEF Typed
<1>10. ASSUME NEW r \in Requests, SavePolicy(r) PROVE Typed'
  <2>1. req[r] \in Tuned
    BY <1>0, <1>10, Shapes DEF SavePolicy, ReqOK
  <2> DEFINE q == [req[r] EXCEPT !.pc = "upsert"]
  <2>2. q \in Tuned
    BY <2>1 DEF Tuned
  <2>3. q \in Request /\ Timely(q, now')
    BY <2>1, <2>2 DEF Request, Timely, Tuned
  <2>4. ReqOK'
    BY <1>0, <1>10, <2>3, ReqStep, AnswerStep DEF SavePolicy, Goto
  <2>5. policy' \in Policy
    <3>1. /\ policy' = [f \in {"points", "enabled"} |-> policy'[f]]
          /\ policy'["points"] \in Points
          /\ policy'["enabled"] \in BOOLEAN
      BY <1>0, <1>10, <2>1 DEF SavePolicy, Tuned, Policy, Data
    <3>2. QED
      BY <3>1 DEF Policy
  <2>6. Data' /\ CounterOK'
    BY <1>0, <1>10, <2>5 DEF SavePolicy, Data, CounterOK, accounts
  <2>7. QED
    BY <2>4, <2>6 DEF Typed
<1>11. ASSUME NEW r \in Requests, Upsert(r) PROVE Typed'
  <2>1. req[r] \in Tuned
    BY <1>0, <1>11, Shapes DEF Upsert, ReqOK
  <2>2. req[r].process \in Processes /\ req[r].updated.points \in Points
    BY <2>1 DEF Tuned, Policy
  <2>3. ReqOK'
    BY <1>0, <1>11, AnswerStep DEF Upsert
  <2>4. Data' /\ CounterOK'
    BY <1>0, <1>11, <2>2 DEF Upsert, Data, CounterOK, accounts
  <2>5. QED
    BY <2>3, <2>4 DEF Typed
<1>12. ASSUME NEW p \in Processes, Restart(p) PROVE Typed'
  <2>1. ReqOK'
    BY <1>0, <1>12, IdleShape DEF Restart, ReqOK
  <2>2. runtime' \in [Processes -> Points]
    BY <1>0, <1>12, RequestGateAssumption DEF Restart, Data, Policy
  <2>3. Data' /\ CounterOK'
    BY <1>0, <1>12, <2>2, RequestGateAssumption DEF Restart, Data, CounterOK, accounts
  <2>4. QED
    BY <2>1, <2>3 DEF Typed
<1>13. ASSUME Tick PROVE Typed'
  <2>1. now' \in 0 .. MaxTime /\ now' = now + 1 /\ now \in Nat
    BY <1>0, <1>13, RequestGateAssumption DEF Tick, Data
  <2>2. ReqOK'
    <3>1. ASSUME NEW r \in Requests PROVE Timely(req[r], now')
      <4>1. req[r].pc = "issueToken" => req[r].at \in Nat /\ req[r].at <= now
        BY <1>0, Shapes DEF ReqOK, Timely, Issuing
      <4>2. QED
        BY <2>1, <4>1 DEF Timely
    <3>2. QED
      BY <1>0, <1>13, <3>1 DEF Tick, ReqOK
  <2>3. CounterOK'
    <3>1. CASE Expired
      BY <1>13, <3>1 DEF Tick, CounterOK
    <3>2. CASE counter = None
      BY <1>13, <3>2 DEF Tick, CounterOK
    <3>3. CASE ~ Expired /\ counter # None
      BY <1>0, <1>13, <2>1, <3>3 DEF Tick, CounterOK, Counter, Expired
    <3>4. QED
      BY <3>1, <3>2, <3>3
  <2>4. lastAdmin' \in [Users -> 0 .. MaxTime \cup {None}]
    BY <1>0, <1>13, <2>1 DEF Tick, Data
  <2>5. Data'
    BY <1>0, <1>13, <2>1, <2>4 DEF Tick, Data, policies
  <2>6. QED
    BY <2>2, <2>3, <2>5 DEF Typed
<1>14. CASE UNCHANGED vars
  BY <1>0, <1>14 DEF vars, Typed, Data, CounterOK, ReqOK
<1>15. QED
  BY <1>1, <1>2, <1>3, <1>4, <1>5, <1>6, <1>7, <1>8, <1>9, <1>10, <1>11, <1>12, <1>13, <1>14
  DEF Next

\* Users, tokens, policies, counters and requests are well typed, and a counter
\* that is in Redis has not expired.
THEOREM TypeCorrect == Spec => []TypeOK
<1>1. Typed => TypeOK
  <2> SUFFICES ASSUME Typed PROVE TypeOK
    OBVIOUS
  <2>1. \A r \in Requests : req[r].pc \in
            {"idle", "consume", "block", "enter", "findUser", "issueToken",
             "findTarget", "saveRole", "findPolicy", "savePolicy", "upsert"}
    BY Shapes DEF Typed, ReqOK
  <2>2. counter = None \/ (counter.n \in Nat \ {0} /\ counter.until > now)
    BY DEF Typed, CounterOK, Counter
  <2>3. QED
    BY <2>1, <2>2 DEF TypeOK, Typed, Data, Policy
<1>2. QED
  BY TypedInit, TypedStep, <1>1, PTL DEF Spec

-----------------------------------------------------------------------------
(* The limiter.                                                            *)

\* Where all limiters that counted or blocked have the same points, the counter
\* has seen every request that passed: those are at most its value.
Budget ==
    /\ used = {} => passed = 0
    /\ \A n \in used : used = {n} =>
        passed <= n /\ (counter # None => passed <= counter.n)

LEMMA BudgetInit == Init => Budget
BY DEF Init, Budget

LEMMA BudgetStep == Typed /\ Budget /\ [Next]_vars => Budget'
<1> SUFFICES ASSUME Typed, Budget, [Next]_vars PROVE Budget'
  OBVIOUS
<1>0. Data /\ CounterOK /\ ReqOK
  BY DEF Typed
<1>1. ASSUME NEW r \in Requests, Consume(r) PROVE Budget'
  <2> DEFINE p == req[r].process
             points == getLimiter(p)
             n == consume(p).n
  <2>1. req[r] \in Judged
    BY <1>0, <1>1, Shapes DEF Consume, ReqOK
  <2>2. points \in Points /\ points \in Nat \ {0} /\ passed \in Nat
    BY <1>0, <2>1, RequestGateAssumption DEF Judged, getLimiter, Data
  <2>3. /\ counter'.n = n
        /\ passed' = (IF counter = None THEN 0 ELSE passed) + (IF n <= points THEN 1 ELSE 0)
        /\ used' = (IF counter = None THEN {} ELSE used) \cup {points}
    BY <1>1 DEF Consume
  <2>4. CASE counter = None
    <3>1. n = 1
      BY <2>4 DEF consume
    <3>2. QED
      BY <2>2, <2>3, <2>4, <3>1 DEF Budget
  <2>5. CASE counter # None
    <3>1. counter.n \in Nat /\ n = counter.n + 1
      BY <1>0, <2>5 DEF CounterOK, Counter, consume
    <3>2. ASSUME NEW m \in used', used' = {m} PROVE passed' <= m /\ passed' <= counter'.n
      <4>1. m = points /\ (used = {} \/ used = {m})
        BY <2>3, <2>5, <3>2
      <4>2. passed <= m /\ passed <= counter.n
        BY <2>2, <2>5, <3>1, <4>1 DEF Budget
      <4>3. QED
        BY <2>2, <2>3, <2>5, <3>1, <4>1, <4>2
    <3>3. QED
      BY <2>3, <3>2 DEF Budget
  <2>6. QED
    BY <2>4, <2>5
<1>2. ASSUME NEW r \in Requests, Block(r) PROVE Budget'
  <2>1. req[r] \in Blocking
    BY <1>0, <1>2, Shapes DEF Block, ReqOK
  <2> DEFINE points == req[r].points
  <2>2. points \in Nat /\ passed \in Nat
    BY <1>0, <2>1, RequestGateAssumption DEF Blocking, Data
  <2>3. counter'.n = points + 1 /\ used' = used \cup {points} /\ passed' = passed
    BY <1>2 DEF Block
  <2>4. ASSUME NEW m \in used', used' = {m} PROVE passed' <= m /\ passed' <= counter'.n
    <3>1. m = points /\ (used = {} \/ used = {m})
      BY <2>3, <2>4
    <3>2. QED
      BY <2>2, <2>3, <3>1 DEF Budget
  <2>5. QED
    BY <2>3, <2>4 DEF Budget
<1>3. CASE Tick
  BY <1>3 DEF Tick, Budget, policies
<1>4. CASE UNCHANGED <<counter, passed, used>>
  BY <1>4 DEF Budget
<1>5. QED
  BY <1>1, <1>2, <1>3, <1>4
  DEF Next, vars, Arrive, Enter, FindUser, IssueToken, FindTarget, SaveRole, FindPolicy,
      SavePolicy, Upsert, Restart, limits

\* No window lets more requests pass than the limiters of the processes have
\* points, whatever number of processes count in it, restart or block.
THEOREM BudgetHolds == Spec => []WindowBudget
<1>1. Budget => WindowBudget
  BY DEF Budget, WindowBudget
<1>2. QED
  BY TypedInit, TypedStep, BudgetInit, BudgetStep, <1>1, PTL DEF Spec

-----------------------------------------------------------------------------
(* The roles.                                                              *)

\* Nobody is let in to change the own role.
OfAnother(q) == q.pc \in {"findTarget", "saveRole"} => q.ask.token.user # q.ask.target
OthersOnly == \A r \in Requests : OfAnother(req[r])

LEMMA OthersOnlyStep == Typed /\ OthersOnly /\ [Next]_vars => OthersOnly'
<1> SUFFICES ASSUME Typed, OthersOnly, [Next]_vars PROVE OthersOnly'
  OBVIOUS
<1>0. ReqOK
  BY DEF Typed
<1>1. ASSUME NEW r \in Requests, NEW q, OfAnother(q), req' = [req EXCEPT ![r] = q]
      PROVE  OthersOnly'
  BY <1>0, <1>1 DEF OthersOnly, ReqOK
<1>2. OfAnother(Idle)
  BY DEF OfAnother, Idle
<1>3. ASSUME NEW r \in Requests, Answer(r) PROVE OthersOnly'
  BY <1>1, <1>2, <1>3 DEF Answer
<1>4. ASSUME NEW r \in Requests, NEW pc, pc \notin {"findTarget", "saveRole"},
             req[r] \in Request \ {Idle}, Goto(r, pc)
      PROVE  OthersOnly'
  <2>1. [req[r] EXCEPT !.pc = pc].pc = pc
    BY <1>4 DEF Request, Judged, Blocking, LoggingIn, Issuing, Promoting, Tuning, Tuned
  <2>2. OfAnother([req[r] EXCEPT !.pc = pc])
    BY <1>4, <2>1 DEF OfAnother
  <2>3. QED
    BY <1>1, <1>4, <2>2 DEF Goto
<1>5. ASSUME NEW r \in Requests, Enter(r) PROVE OthersOnly'
  <2>1. req[r] \in Judged /\ req[r] \in Request \ {Idle}
    BY <1>0, <1>5, Shapes DEF Enter, ReqOK, Idle
  <2>2. req[r].ask \in Ask
    BY <2>1 DEF Judged
  <2>3. CASE req[r].ask.kind = "login"
    BY <1>4, <1>5, <2>1, <2>3 DEF Enter
  <2>4. CASE req[r].ask.kind = "updateRole"
    <3> DEFINE q == [pc |-> "findTarget", process |-> req[r].process,
                     ask |-> req[r].ask, entered |-> now]
    <3>1. Answer(r) \/ (OfAnother(q) /\ req' = [req EXCEPT ![r] = q])
      BY <1>5, <2>4 DEF Enter, Handle, mayUpdateRole, OfAnother
    <3>2. QED
      BY <1>1, <1>3, <3>1
  <2>5. CASE req[r].ask.kind = "updatePolicy"
    <3> DEFINE q == [pc |-> "findPolicy", process |-> req[r].process,
                     ask |-> req[r].ask, entered |-> now]
    <3>1. Answer(r) \/ req' = [req EXCEPT ![r] = q]
      BY <1>5, <2>5 DEF Enter, Handle
    <3>2. OfAnother(q)
      BY DEF OfAnother
    <3>3. QED
      BY <1>1, <1>3, <3>1, <3>2
  <2>6. QED
    BY <2>2, <2>3, <2>4, <2>5, AskShapes
<1>6. ASSUME NEW r \in Requests, NEW p \in Processes, NEW ask \in Asks, Arrive(r, p, ask)
      PROVE  OthersOnly'
  BY <1>1, <1>6 DEF Arrive, OfAnother
<1>7. ASSUME NEW r \in Requests, Consume(r) PROVE OthersOnly'
  <2>1. req[r] \in Request \ {Idle}
    BY <1>0, <1>7 DEF Consume, ReqOK, Idle
  <2>2. \A p, points : OfAnother([pc |-> "block", process |-> p, points |-> points])
    BY DEF OfAnother
  <2>3. QED
    BY <1>1, <1>3, <1>4, <1>7, <2>1, <2>2 DEF Consume
<1>8. ASSUME NEW r \in Requests, FindUser(r) PROVE OthersOnly'
  BY <1>1, <1>8 DEF FindUser, OfAnother
<1>9. ASSUME NEW r \in Requests, FindTarget(r) PROVE OthersOnly'
  <2>1. req[r] \in Promoting
    BY <1>0, <1>9, Shapes DEF FindTarget, ReqOK
  <2>2. OfAnother([req[r] EXCEPT !.pc = "saveRole"])
    BY <1>9, <2>1 DEF OfAnother, OthersOnly, Promoting, FindTarget
  <2>3. QED
    BY <1>1, <1>3, <1>9, <2>2 DEF FindTarget, Goto
<1>10. ASSUME NEW r \in Requests, FindPolicy(r) PROVE OthersOnly'
  BY <1>1, <1>10 DEF FindPolicy, OfAnother
<1>11. ASSUME NEW r \in Requests, SavePolicy(r) PROVE OthersOnly'
  <2>1. req[r] \in Request \ {Idle}
    BY <1>0, <1>11 DEF SavePolicy, ReqOK, Idle
  <2>2. QED
    BY <1>3, <1>4, <1>11, <2>1 DEF SavePolicy
<1>12. ASSUME NEW p \in Processes, Restart(p) PROVE OthersOnly'
  BY <1>0, <1>2, <1>12 DEF Restart, OthersOnly, ReqOK
<1>13. CASE Tick \/ UNCHANGED vars
  BY <1>13 DEF Tick, vars, OthersOnly
<1>14. QED
  BY <1>3, <1>5, <1>6, <1>7, <1>8, <1>9, <1>10, <1>11, <1>12, <1>13
  DEF Next, Block, IssueToken, SaveRole, Upsert

LEMMA RemainsStep == Typed /\ OthersOnly /\ AdminRemains /\ [Next]_vars => AdminRemains'
<1> SUFFICES ASSUME Typed, OthersOnly, AdminRemains, [Next]_vars PROVE AdminRemains'
  OBVIOUS
<1>0. Data /\ ReqOK
  BY DEF Typed
<1>1. ASSUME NEW r \in Requests, SaveRole(r) PROVE AdminRemains'
  <2> DEFINE a == req[r].ask
  <2>1. req[r] \in Promoting
    BY <1>0, <1>1, Shapes DEF SaveRole, ReqOK
  <2>2. a.token.user \in Users /\ a.target \in Users /\ a.token.user # a.target
    BY <1>1, <2>1 DEF Promoting, RoleChange, Token, SaveRole, OthersOnly, OfAnother
  <2>3. CASE role[a.token.user] = "ADMIN"
    <3>1. role'[a.token.user] = "ADMIN"
      BY <1>0, <1>1, <2>2, <2>3 DEF SaveRole, Data
    <3>2. QED
      BY <2>2, <3>1 DEF AdminRemains
  <2>4. CASE role[a.token.user] # "ADMIN"
    BY <1>1, <2>4 DEF SaveRole, AdminRemains
  <2>5. QED
    BY <2>3, <2>4
<1>2. CASE UNCHANGED <<role, orphaned>>
  BY <1>2 DEF AdminRemains
<1>3. QED
  BY <1>1, <1>2
  DEF Next, vars, Tick, Arrive, Consume, Block, Enter, FindUser, IssueToken, FindTarget,
      FindPolicy, SavePolicy, Upsert, Restart, accounts

\* The last administrator goes only when a role is changed by someone who is no
\* longer an administrator: two administrators cannot demote each other unless
\* the one is served with the role that the other has just taken.
THEOREM AnAdminRemains == Spec => []AdminRemains
<1>1. Init => OthersOnly /\ AdminRemains
  BY RequestGateAssumption DEF Init, OthersOnly, OfAnother, Idle, AdminRemains
<1>2. QED
  BY TypedInit, TypedStep, <1>1, OthersOnlyStep, RemainsStep, PTL DEF Spec

-----------------------------------------------------------------------------
(* The tokens.                                                             *)

\* An administrator is one now; a token with that role was issued to someone who
\* was one when the user was read; who is let in holds such a token.
Remembered ==
    \A u \in Users :
        /\ role[u] = "ADMIN" => lastAdmin[u] = now
        /\ lastAdmin[u] # None => lastAdmin[u] <= now

Deserved(t, last) ==
    t.role = "ADMIN" => last[t.user] # None /\ t.exp <= last[t.user] + Life + t.lag

Justified(q, last, issued) ==
    /\ q.pc = "issueToken" /\ q.role = "ADMIN" => last[q.user] # None /\ q.at <= last[q.user]
    /\ q.pc \in {"findTarget", "saveRole", "findPolicy"} =>
        q.ask.token \in issued /\ q.ask.token.role = "ADMIN" /\ q.entered < q.ask.token.exp

TokensDeserved == \A t \in tokens : Deserved(t, lastAdmin)
RequestsJustified == \A r \in Requests : Justified(req[r], lastAdmin, tokens)
Lasting == Remembered /\ TokensDeserved /\ RequestsJustified

Later ==
    \A u \in Users :
        lastAdmin[u] # None => lastAdmin'[u] # None /\ lastAdmin[u] <= lastAdmin'[u]

LEMMA TimesAreNumbers ==
    ASSUME Data
    PROVE  /\ now \in Nat /\ now # None
           /\ \A u \in Users : lastAdmin[u] # None => lastAdmin[u] \in Nat
<1>1. now \in 0 .. MaxTime /\ \A u \in Users : lastAdmin[u] \in 0 .. MaxTime \cup {None}
  BY DEF Data
<1>2. MaxTime \in Nat /\ None \notin 0 .. MaxTime
  BY RequestGateAssumption
<1>3. QED
  BY <1>1, <1>2

\* The last time as an administrator only grows.
LEMMA LaterStep ==
    ASSUME Typed, Typed', Remembered, [Next]_vars
    PROVE  Later /\ Remembered'
<1>0. /\ Data /\ Data' /\ ReqOK /\ now \in Nat /\ now # None
      /\ \A u \in Users : lastAdmin[u] # None => lastAdmin[u] \in Nat
  BY TimesAreNumbers DEF Typed
<1>1. ASSUME NEW r \in Requests, SaveRole(r) PROVE Later /\ Remembered'
  <2>1. req[r] \in Promoting
    BY <1>0, <1>1, Shapes DEF SaveRole, ReqOK
  <2> DEFINE a == req[r].ask
  <2>2. a.target \in Users /\ a.role \in Roles
    BY <2>1 DEF Promoting, RoleChange
  <2>3. /\ now' = now
        /\ role' = [role EXCEPT ![a.target] = a.role]
        /\ lastAdmin' = IF a.role = "ADMIN" THEN [lastAdmin EXCEPT ![a.target] = now] ELSE lastAdmin
    BY <1>1 DEF SaveRole
  <2>4. ASSUME NEW u \in Users
        PROVE  /\ lastAdmin[u] # None => lastAdmin'[u] # None /\ lastAdmin[u] <= lastAdmin'[u]
               /\ role'[u] = "ADMIN" => lastAdmin'[u] = now'
               /\ lastAdmin'[u] # None => lastAdmin'[u] <= now'
    <3>1. CASE u = a.target /\ a.role = "ADMIN"
      <4>1. lastAdmin'[u] = now
        BY <1>0, <2>3, <3>1 DEF Data
      <4>2. QED
        BY <1>0, <2>3, <4>1 DEF Remembered
    <3>2. CASE u = a.target /\ a.role # "ADMIN"
      BY <1>0, <2>3, <3>2 DEF Remembered, Data
    <3>3. CASE u # a.target
      <4>1. lastAdmin'[u] = lastAdmin[u] /\ role'[u] = role[u]
        BY <1>0, <2>3, <3>3 DEF Data
      <4>2. QED
        BY <1>0, <2>3, <4>1 DEF Remembered
    <3>4. QED
      BY <3>1, <3>2, <3>3
  <2>5. QED
    BY <2>4 DEF Later, Remembered
<1>2. CASE Tick
  <2>1. /\ now' = now + 1 /\ role' = role
        /\ \A u \in Users : lastAdmin'[u] = IF role[u] = "ADMIN" THEN now + 1 ELSE lastAdmin[u]
    BY <1>2 DEF Tick
  <2>2. now' # None
    BY <1>0, RequestGateAssumption DEF Data
  <2>3. QED
    BY <1>0, <2>1, <2>2 DEF Remembered, Later
<1>3. CASE UNCHANGED <<now, role, lastAdmin>>
  BY <1>0, <1>3 DEF Remembered, Later
<1>4. QED
  BY <1>1, <1>2, <1>3
  DEF Next, vars, Arrive, Consume, Block, Enter, FindUser, IssueToken, FindTarget,
      FindPolicy, SavePolicy, Upsert, Restart, accounts

\* What holds of a token or of a request still holds when time has passed.
LEMMA StillDeserved ==
    ASSUME Typed, Typed', Later, NEW t \in Token, Deserved(t, lastAdmin)
    PROVE  Deserved(t, lastAdmin')
<1>1. t.user \in Users /\ t.exp \in Nat /\ t.lag \in Nat /\ Life \in Nat
  BY RequestGateAssumption DEF Token
<1>2. /\ lastAdmin[t.user] # None => lastAdmin[t.user] \in Nat
      /\ lastAdmin'[t.user] # None => lastAdmin'[t.user] \in Nat
  BY <1>1, TimesAreNumbers DEF Typed, Data
<1>3. QED
  BY <1>1, <1>2 DEF Deserved, Later

LEMMA StillJustified ==
    ASSUME Typed, Typed', Later, tokens \subseteq tokens', NEW q \in Request,
           Justified(q, lastAdmin, tokens)
    PROVE  Justified(q, lastAdmin', tokens')
<1>1. CASE q.pc = "issueToken"
  <2>1. q.user \in Users /\ q.at \in Nat
    BY <1>1, Shapes DEF Issuing
  <2>2. /\ lastAdmin[q.user] # None => lastAdmin[q.user] \in Nat
        /\ lastAdmin'[q.user] # None => lastAdmin'[q.user] \in Nat
    BY <2>1, TimesAreNumbers DEF Typed, Data
  <2>3. QED
    BY <1>1, <2>1, <2>2 DEF Justified, Later
<1>2. CASE q.pc # "issueToken"
  BY <1>2 DEF Justified
<1>3. QED
  BY <1>1, <1>2

LEMMA JustifiedStep ==
    ASSUME Typed, Typed', Later, RequestsJustified, tokens \subseteq tokens',
           NEW r \in Requests, NEW q, Justified(q, lastAdmin', tokens'),
           req' = [req EXCEPT ![r] = q]
    PROVE  RequestsJustified'
<1>1. \A s \in Requests : req[s] \in Request /\ Justified(req[s], lastAdmin, tokens)
  BY DEF Typed, ReqOK, RequestsJustified
<1>2. \A s \in Requests : req'[s] = IF s = r THEN q ELSE req[s]
  BY DEF Typed, ReqOK
<1>3. QED
  BY <1>1, <1>2, StillJustified DEF RequestsJustified

LEMMA NothingToJustify ==
    ASSUME NEW q, q.pc \notin {"issueToken", "findTarget", "saveRole", "findPolicy"}
    PROVE  \A last, issued : Justified(q, last, issued)
BY DEF Justified

LEMMA AnswerJustified ==
    ASSUME Typed, Typed', Later, RequestsJustified, tokens \subseteq tokens',
           NEW r \in Requests, Answer(r)
    PROVE  RequestsJustified'
<1>1. Justified(Idle, lastAdmin', tokens')
  BY DEF Idle, Justified
<1>2. QED
  BY <1>1, JustifiedStep DEF Answer

LEMMA RequestsJustifiedStep ==
    ASSUME Typed, Typed', Lasting, Later, [Next]_vars
    PROVE  RequestsJustified' /\ tokens \subseteq tokens'
<1>0. RequestsJustified /\ TokensDeserved /\ Remembered /\ ReqOK /\ Data /\ now \in Nat
  BY TimesAreNumbers DEF Lasting, Typed
<1>1. tokens \subseteq tokens'
  BY DEF Next, vars, Tick, Arrive, Consume, Block, Enter, FindUser, IssueToken, FindTarget,
      SaveRole, FindPolicy, SavePolicy, Upsert, Restart, accounts
<1>2. ASSUME NEW r \in Requests, Answer(r) PROVE RequestsJustified'
  BY <1>0, <1>1, <1>2, AnswerJustified
<1>3. ASSUME NEW r \in Requests, NEW q, Justified(q, lastAdmin', tokens'),
             req' = [req EXCEPT ![r] = q]
      PROVE  RequestsJustified'
  BY <1>0, <1>1, <1>3, JustifiedStep
<1>4. ASSUME NEW r \in Requests, NEW p \in Processes, NEW ask \in Asks, Arrive(r, p, ask)
      PROVE  RequestsJustified'
  <2>1. Justified([pc |-> "consume", process |-> p, ask |-> ask], lastAdmin', tokens')
    BY NothingToJustify
  <2>2. QED
    BY <1>3, <1>4, <2>1 DEF Arrive
<1>5. ASSUME NEW r \in Requests, Consume(r) PROVE RequestsJustified'
  <2>1. req[r] \in Judged
    BY <1>0, <1>5, Shapes DEF Consume, ReqOK
  <2>2. [req[r] EXCEPT !.pc = "enter"].pc = "enter"
    BY <2>1 DEF Judged
  <2>3. Justified([req[r] EXCEPT !.pc = "enter"], lastAdmin', tokens')
    BY <2>2, NothingToJustify
  <2>4. \A p, points :
            Justified([pc |-> "block", process |-> p, points |-> points], lastAdmin', tokens')
    BY DEF Justified
  <2>5. QED
    BY <1>2, <1>3, <1>5, <2>3, <2>4 DEF Consume, Goto
<1>6. ASSUME NEW r \in Requests, Enter(r) PROVE RequestsJustified'
  <2>1. req[r] \in Judged
    BY <1>0, <1>6, Shapes DEF Enter, ReqOK
  <2> DEFINE a == req[r].ask
  <2>2. a \in Ask /\ tokens' = tokens
    BY <1>6, <2>1 DEF Judged, Enter, accounts
  <2>3. CASE a.kind = "login"
    <3>1. [req[r] EXCEPT !.pc = "findUser"].pc = "findUser"
      BY <2>1 DEF Judged
    <3>2. Justified([req[r] EXCEPT !.pc = "findUser"], lastAdmin', tokens')
      BY <3>1, NothingToJustify
    <3>3. QED
      BY <1>3, <1>6, <2>3, <3>2 DEF Enter, Goto
  <2>4. CASE a.kind = "updateRole"
    <3> DEFINE q == [pc |-> "findTarget", process |-> req[r].process, ask |-> a, entered |-> now]
    <3>1. Answer(r) \/ (/\ req' = [req EXCEPT ![r] = q]
                        /\ a.token \in tokens /\ now < a.token.exp /\ a.token.role = "ADMIN")
      BY <1>6, <2>4 DEF Enter, Handle, mayUpdateRole, authRequired
    <3>2. CASE Answer(r)
      BY <1>2, <3>2
    <3>3. CASE ~ Answer(r)
      <4>1. Justified(q, lastAdmin', tokens')
        BY <2>2, <3>1, <3>3 DEF Justified
      <4>2. QED
        BY <1>3, <3>1, <3>3, <4>1
    <3>4. QED
      BY <3>2, <3>3
  <2>5. CASE a.kind = "updatePolicy"
    <3> DEFINE q == [pc |-> "findPolicy", process |-> req[r].process, ask |-> a, entered |-> now]
    <3>1. Answer(r) \/ (/\ req' = [req EXCEPT ![r] = q]
                        /\ a.token \in tokens /\ now < a.token.exp /\ a.token.role = "ADMIN")
      BY <1>6, <2>5 DEF Enter, Handle, authRequired
    <3>2. CASE Answer(r)
      BY <1>2, <3>2
    <3>3. CASE ~ Answer(r)
      <4>1. Justified(q, lastAdmin', tokens')
        BY <2>2, <3>1, <3>3 DEF Justified
      <4>2. QED
        BY <1>3, <3>1, <3>3, <4>1
    <3>4. QED
      BY <3>2, <3>3
  <2>6. QED
    BY <2>2, <2>3, <2>4, <2>5, AskShapes
<1>7. ASSUME NEW r \in Requests, FindUser(r) PROVE RequestsJustified'
  <2>1. req[r] \in LoggingIn
    BY <1>0, <1>7, Shapes DEF FindUser, ReqOK
  <2> DEFINE u == req[r].ask.user
             q == [pc |-> "issueToken", process |-> req[r].process,
                   user |-> u, role |-> role[u], at |-> now]
  <2>2. u \in Users /\ lastAdmin' = lastAdmin /\ now # None
    BY <1>0, <1>7, <2>1, TimesAreNumbers DEF LoggingIn, Login, FindUser, accounts
  <2>3. role[u] = "ADMIN" => lastAdmin'[u] # None /\ now <= lastAdmin'[u]
    BY <1>0, <2>2 DEF Remembered
  <2>4. Justified(q, lastAdmin', tokens')
    BY <2>3 DEF Justified
  <2>5. QED
    BY <1>3, <1>7, <2>4 DEF FindUser
<1>8. ASSUME NEW r \in Requests, FindTarget(r) PROVE RequestsJustified'
  <2>1. req[r] \in Promoting /\ Justified(req[r], lastAdmin, tokens) /\ tokens' = tokens
    BY <1>0, <1>8, Shapes DEF FindTarget, ReqOK, RequestsJustified, accounts
  <2>2. Justified([req[r] EXCEPT !.pc = "saveRole"], lastAdmin', tokens')
    BY <2>1 DEF Promoting, Justified
  <2>3. QED
    BY <1>2, <1>3, <1>8, <2>2 DEF FindTarget, Goto
<1>9. ASSUME NEW r \in Requests, FindPolicy(r) PROVE RequestsJustified'
  <2> DEFINE q == [pc |-> "savePolicy", process |-> req[r].process,
                   found |-> policy, updated |-> Updated(policy, req[r].ask.post)]
  <2>1. Justified(q, lastAdmin', tokens')
    BY DEF Justified
  <2>2. QED
    BY <1>3, <1>9, <2>1 DEF FindPolicy
<1>10. ASSUME NEW r \in Requests, SavePolicy(r) PROVE RequestsJustified'
  <2>1. req[r] \in Tuned
    BY <1>0, <1>10, Shapes DEF SavePolicy, ReqOK
  <2>2. [req[r] EXCEPT !.pc = "upsert"].pc = "upsert"
    BY <2>1 DEF Tuned
  <2>3. Justified([req[r] EXCEPT !.pc = "upsert"], lastAdmin', tokens')
    BY <2>2, NothingToJustify
  <2>4. QED
    BY <1>2, <1>3, <1>10, <2>3 DEF SavePolicy, Goto
<1>11. ASSUME NEW p \in Processes, Restart(p) PROVE RequestsJustified'
  <2>1. \A s \in Requests : req[s] \in Request /\ Justified(req[s], lastAdmin, tokens)
    BY <1>0 DEF ReqOK, RequestsJustified
  <2>2. \A s \in Requests : req'[s] = Idle \/ req'[s] = req[s]
    BY <1>11 DEF Restart
  <2>3. Justified(Idle, lastAdmin', tokens')
    BY DEF Idle, Justified
  <2>4. QED
    BY <1>1, <2>1, <2>2, <2>3, StillJustified DEF RequestsJustified
<1>12. CASE Tick \/ UNCHANGED vars
  <2>1. \A s \in Requests : req[s] \in Request /\ Justified(req[s], lastAdmin, tokens)
    BY <1>0 DEF ReqOK, RequestsJustified
  <2>2. req' = req
    BY <1>12 DEF Tick, vars
  <2>3. QED
    BY <1>1, <2>1, <2>2, StillJustified DEF RequestsJustified
<1>13. RequestsJustified'
  BY <1>2, <1>4, <1>5, <1>6, <1>7, <1>8, <1>9, <1>10, <1>11, <1>12
  DEF Next, Block, IssueToken, SaveRole, Upsert
<1>14. QED
  BY <1>1, <1>13

LEMMA TokensDeservedStep ==
    ASSUME Typed, Typed', Lasting, Later, [Next]_vars
    PROVE  TokensDeserved'
<1>1. \A t \in tokens : t \in Token /\ Deserved(t, lastAdmin)
  BY DEF Typed, Data, Lasting, TokensDeserved
<1>2. \A t \in tokens : Deserved(t, lastAdmin')
  BY <1>1, StillDeserved
<1>3. ASSUME NEW r \in Requests, IssueToken(r) PROVE TokensDeserved'
  <2> DEFINE q == req[r]
             new == [user |-> q.user, role |-> q.role, exp |-> now + Life, lag |-> now - q.at]
  <2>1. q \in Issuing /\ q.pc = "issueToken" /\ q.at <= now
    BY <1>3, Shapes DEF IssueToken, Typed, ReqOK, Timely
  <2>2. q.user \in Users /\ q.at \in Nat /\ now \in Nat /\ Life \in Nat
    BY <2>1, TimesAreNumbers, RequestGateAssumption DEF Issuing, Typed
  <2>3. q.role = "ADMIN" => lastAdmin[q.user] # None /\ q.at <= lastAdmin[q.user]
    BY <2>1 DEF Lasting, RequestsJustified, Justified
  <2>4. lastAdmin[q.user] # None => lastAdmin[q.user] \in Nat
    BY <2>2, TimesAreNumbers DEF Typed
  <2>5. Deserved(new, lastAdmin)
    BY <2>2, <2>3, <2>4 DEF Deserved
  <2>6. tokens' = tokens \cup {new} /\ lastAdmin' = lastAdmin
    BY <1>3 DEF IssueToken
  <2>7. QED
    BY <1>1, <2>5, <2>6 DEF TokensDeserved
<1>4. CASE tokens' = tokens
  BY <1>2, <1>4 DEF TokensDeserved
<1>5. QED
  BY <1>3, <1>4
  DEF Next, vars, Tick, Arrive, Consume, Block, Enter, FindUser, FindTarget, SaveRole,
      FindPolicy, SavePolicy, Upsert, Restart, accounts

LEMMA LastingInit == Init => Lasting
BY RequestGateAssumption
DEF Init, Lasting, Remembered, TokensDeserved, RequestsJustified, Justified, Idle

LEMMA LastingStep == Typed /\ Typed' /\ Lasting /\ [Next]_vars => Lasting'
<1> SUFFICES ASSUME Typed, Typed', Lasting, [Next]_vars PROVE Lasting'
  OBVIOUS
<1>1. Later /\ Remembered'
  BY LaterStep DEF Lasting
<1>2. QED
  BY <1>1, RequestsJustifiedStep, TokensDeservedStep DEF Lasting

\* Nobody is let in to a handler of the administrators later than the lifetime of
\* a token after the last time they were one, but for the time a login took
\* between reading the role and signing the token.
THEOREM DemotionHolds == Spec => []DemotionTakesHold
<1>1. Typed /\ Lasting => DemotionTakesHold
  <2> SUFFICES ASSUME Typed, Lasting, NEW r \in Requests,
                      req[r].pc \in {"findTarget", "saveRole", "findPolicy"}
               PROVE  LET t == req[r].ask.token IN
                        /\ lastAdmin[t.user] # None
                        /\ req[r].entered < lastAdmin[t.user] + Life + t.lag
    BY DEF DemotionTakesHold
  <2> DEFINE t == req[r].ask.token
  <2>1. req[r] \in Promoting \cup Tuning
    BY Shapes DEF Typed, ReqOK
  <2>2. t \in Token /\ req[r].entered \in Nat
    BY <2>1 DEF Promoting, RoleChange, Tuning, PolicyChange
  <2>3. t \in tokens /\ t.role = "ADMIN" /\ req[r].entered < t.exp
    BY DEF Lasting, RequestsJustified, Justified
  <2>4. lastAdmin[t.user] # None /\ t.exp <= lastAdmin[t.user] + Life + t.lag
    BY <2>3 DEF Lasting, TokensDeserved, Deserved
  <2>5. lastAdmin[t.user] \in Nat /\ t.exp \in Nat /\ t.lag \in Nat /\ Life \in Nat
    BY <2>2, <2>4, TimesAreNumbers, RequestGateAssumption DEF Typed, Token
  <2>6. QED
    BY <2>2, <2>3, <2>4, <2>5
<1>2. QED
  BY TypedInit, TypedStep, LastingInit, LastingStep, <1>1, PTL DEF Spec
=============================================================================
