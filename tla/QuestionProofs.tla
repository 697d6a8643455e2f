---------------------------- MODULE QuestionProofs ----------------------------
(***************************************************************************)
(* Theorems about QuestionAuthoring, for every value of its constants.     *)
(***************************************************************************)
EXTENDS QuestionAuthoring, FiniteSetTheorems, TLAPS

-----------------------------------------------------------------------------
(* Type correctness.                                                       *)

\* What a suspended request holds, by the call it waits for.
Shape(q, t, c, ids) ==
    /\ q.pc # "idle" => c
    /\ q.pc = "begin" /\ q.op # "add" => q.option \in ids
    /\ q.pc = "begin" => q.op # None
    /\ q.pc = "write" => q.op = "update" /\ q.option \in ids /\ q.view \in OptionSet
    /\ q.pc = "commit" => q.op # None /\ q.option \in ids /\ t # None
    /\ q.op \in {"add", "update"} => q.correct \in BOOLEAN

QInv == TypeOK /\ \A r \in Requests : Shape(req[r], type, created, used)

LEMMA IdleType == Idle \in Request /\ \A t, c, ids : Shape(Idle, t, c, ids)
BY ConstantsAssumption DEF Idle, Request, Ops, Shape

\* Only the new value of req[r] has to be typed when no row changes.
LEMMA RequestStep ==
    ASSUME QInv, NEW r \in Requests, NEW q \in Request, Shape(q, type', created', used'),
           req' = [req EXCEPT ![r] = q], used \subseteq used', used' \subseteq OptionIds,
           UNCHANGED <<type, created, options>>
    PROVE  QInv'
BY DEF QInv, TypeOK, Shape, Rows

LEMMA AnswerStep ==
    ASSUME QInv, NEW r \in Requests, Answer(r), UNCHANGED <<type, created, options, used>>
    PROVE  QInv'
<1>1. used \subseteq used' /\ used' \subseteq OptionIds
  BY DEF QInv, TypeOK
<1>2. QED
  BY <1>1, IdleType, RequestStep DEF Answer

LEMMA ValidatedStep ==
    ASSUME QInv, NEW r \in Requests, NEW o \in OptionIds, NEW view, Validated(r, o, view),
           req[r].pc # "idle", req[r].op # None, type # None, o \in used',
           used \subseteq used', used' \subseteq OptionIds,
           UNCHANGED <<type, created, options>>
    PROVE  QInv'
<1> DEFINE q == [req[r] EXCEPT !.pc = "commit", !.option = o]
<1>0. req[r] \in Request /\ Shape(req[r], type, created, used)
  BY DEF QInv, TypeOK
<1>1. q \in Request
  BY <1>0 DEF Request, Ops
<1>2. Shape(q, type', created', used')
  BY <1>0 DEF Request, Ops, Shape
<1>3. CASE isValidOptionSet(type, view)
  <2>1. req' = [req EXCEPT ![r] = q]
    BY <1>3 DEF Validated
  <2>2. QED
    BY <1>1, <1>2, <2>1, RequestStep
<1>4. CASE ~ isValidOptionSet(type, view)
  BY <1>4, IdleType, RequestStep DEF Validated, Answer
<1>5. QED
  BY <1>3, <1>4

LEMMA QInvInit == Init => QInv
<1> SUFFICES ASSUME Init PROVE QInv
  OBVIOUS
<1>1. options \in OptionSet /\ Rows(options) = {}
  BY DEF Init, OptionSet, NoOptions, Rows
<1>2. type = None /\ created \in BOOLEAN /\ used \in SUBSET OptionIds
  BY DEF Init
<1>3. req \in [Requests -> Request]
  BY IdleType DEF Init
<1>4. QED
  BY <1>1, <1>2, <1>3, IdleType DEF Init, QInv, TypeOK

LEMMA QInvStep == QInv /\ [Next]_vars => QInv'
<1> SUFFICES ASSUME QInv, [Next]_vars PROVE QInv'
  OBVIOUS
<1>1. ASSUME NEW r \in Requests, NEW t \in Types, NEW opts \in OptionSet,
             CreateQuestion(r, t, opts)
      PROVE  QInv'
  <2>1. \A s \in Requests : req[s].pc = "idle"
    BY <1>1 DEF CreateQuestion, QInv, Shape
  <2>2. TypeOK'
    BY <1>1, ConstantsAssumption DEF CreateQuestion, QInv, TypeOK, Rows
  <2>3. QED
    BY <1>1, <2>1, <2>2 DEF CreateQuestion, QInv, Shape
<1>2. ASSUME NEW r \in Requests, RemoveQuestion(r) PROVE QInv'
  <2>1. TypeOK'
    BY <1>2 DEF RemoveQuestion, QInv, TypeOK, OptionSet, NoOptions, Rows
  <2>2. QED
    BY <1>2, <2>1 DEF RemoveQuestion, QInv, Shape
<1>3. ASSUME NEW r \in Requests, NEW c \in BOOLEAN, AddOption(r, c) PROVE QInv'
  <2> DEFINE q == [Idle EXCEPT !.pc = "begin", !.op = "add", !.correct = c]
  <2>1. q \in Request
    BY DEF Idle, Request, Ops
  <2>2. Shape(q, type', created', used')
    BY <1>3, ConstantsAssumption DEF AddOption, Idle, Shape, Ops, QInv, TypeOK
  <2>3. used \subseteq used' /\ used' \subseteq OptionIds
    BY <1>3 DEF AddOption, QInv, TypeOK
  <2>4. QED
    BY <1>3, <2>1, <2>2, <2>3, RequestStep DEF AddOption
<1>4. ASSUME NEW r \in Requests, NEW o \in OptionIds, NEW c \in BOOLEAN, UpdateOption(r, o, c)
      PROVE  QInv'
  <2> DEFINE q == [Idle EXCEPT !.pc = "begin", !.op = "update", !.option = o, !.correct = c]
  <2>0. o \in used /\ type # None
    BY <1>4 DEF UpdateOption, QInv, TypeOK, Rows
  <2>1. q \in Request
    BY DEF Idle, Request, Ops
  <2>2. Shape(q, type', created', used')
    BY <1>4, <2>0, ConstantsAssumption DEF UpdateOption, Idle, Shape, Ops, QInv, TypeOK
  <2>3. used \subseteq used' /\ used' \subseteq OptionIds
    BY <1>4 DEF UpdateOption, QInv, TypeOK
  <2>4. QED
    BY <1>4, <2>1, <2>2, <2>3, RequestStep DEF UpdateOption
<1>5. ASSUME NEW r \in Requests, NEW o \in OptionIds, RemoveOption(r, o) PROVE QInv'
  <2> DEFINE q == [Idle EXCEPT !.pc = "begin", !.op = "remove", !.option = o]
  <2>0. o \in used /\ type # None
    BY <1>5 DEF RemoveOption, QInv, TypeOK, Rows
  <2>1. q \in Request
    BY DEF Idle, Request, Ops
  <2>2. Shape(q, type', created', used')
    BY <1>5, <2>0, ConstantsAssumption DEF RemoveOption, Idle, Shape, Ops, QInv, TypeOK
  <2>3. used \subseteq used' /\ used' \subseteq OptionIds
    BY <1>5 DEF RemoveOption, QInv, TypeOK
  <2>4. QED
    BY <1>5, <2>1, <2>2, <2>3, RequestStep DEF RemoveOption
<1>6. ASSUME NEW r \in Requests, InsertOption(r) PROVE QInv'
  <2>1. CASE type = None
    BY <1>6, <2>1, AnswerStep DEF InsertOption
  <2>2. CASE type # None
    <3>1. PICK o \in OptionIds \ used :
              /\ used' = used \cup {o}
              /\ Validated(r, o, [options EXCEPT ![o] = req[r].correct])
      BY <1>6, <2>2 DEF InsertOption
    <3>2. req[r].pc # "idle" /\ req[r].op # None
      BY <1>6 DEF InsertOption, QInv, Shape
    <3>3. used' \subseteq OptionIds /\ UNCHANGED <<type, created, options>>
      BY <1>6, <3>1 DEF InsertOption, QInv, TypeOK
    <3>4. QED
      BY <2>2, <3>1, <3>2, <3>3, ValidatedStep
  <2>3. QED
    BY <2>1, <2>2
<1>7. ASSUME NEW r \in Requests, DestroyOption(r) PROVE QInv'
  <2> DEFINE o == req[r].option
  <2>1. CASE options[o] = None
    BY <1>7, <2>1, AnswerStep DEF DestroyOption
  <2>2. CASE options[o] # None
    <3>1. Shape(req[r], type, created, used) /\ req[r].pc = "begin" /\ req[r].op = "remove"
      BY <1>7 DEF DestroyOption, QInv
    <3>2. o \in used /\ o \in OptionIds
      BY <3>1 DEF Shape, QInv, TypeOK
    <3>3. type # None
      BY <2>2, <3>2 DEF QInv, TypeOK, Rows
    <3>4. UNCHANGED <<type, created, options, used>> /\ used \subseteq OptionIds
      BY <1>7 DEF DestroyOption, QInv, TypeOK
    <3>5. Validated(r, o, [options EXCEPT ![o] = None])
      BY <1>7, <2>2 DEF DestroyOption
    <3>6. QED
      BY <3>1, <3>2, <3>3, <3>4, <3>5, ValidatedStep, ConstantsAssumption DEF Shape
  <2>3. QED
    BY <2>1, <2>2
<1>8. ASSUME NEW r \in Requests, ReadOption(r) PROVE QInv'
  <2> DEFINE o == req[r].option
             q == [req[r] EXCEPT !.pc = "write", !.view = options]
  <2>1. CASE options[o] \in {None, req[r].correct}
    BY <1>8, <2>1, AnswerStep DEF ReadOption
  <2>2. CASE options[o] \notin {None, req[r].correct}
    <3>1. req[r] \in Request /\ Shape(req[r], type, created, used) /\ req[r].pc = "begin" /\ req[r].op = "update"
      BY <1>8 DEF ReadOption, QInv, TypeOK
    <3>2. q \in Request
      BY <3>1 DEF Request, Ops, QInv, TypeOK
    <3>3. Shape(q, type', created', used')
      BY <1>8, <3>1, ConstantsAssumption DEF ReadOption, Request, Ops, Shape, QInv, TypeOK
    <3>4. used \subseteq used' /\ used' \subseteq OptionIds
      BY <1>8 DEF ReadOption, QInv, TypeOK
    <3>5. req' = [req EXCEPT ![r] = q]
      BY <1>8, <2>2 DEF ReadOption
    <3>6. QED
      BY <1>8, <3>2, <3>3, <3>4, <3>5, RequestStep DEF ReadOption
  <2>3. QED
    BY <2>1, <2>2
<1>9. ASSUME NEW r \in Requests, WriteOption(r) PROVE QInv'
  <2> DEFINE o == req[r].option
  <2>1. CASE options[o] = None
    BY <1>9, <2>1, AnswerStep DEF WriteOption
  <2>2. CASE options[o] # None
    <3>1. Shape(req[r], type, created, used) /\ req[r].pc = "write"
      BY <1>9 DEF WriteOption, QInv
    <3>2. o \in used /\ o \in OptionIds /\ req[r].op = "update"
      BY <3>1 DEF Shape, QInv, TypeOK
    <3>3. type # None
      BY <2>2, <3>2 DEF QInv, TypeOK, Rows
    <3>4. UNCHANGED <<type, created, options, used>> /\ used \subseteq OptionIds
      BY <1>9 DEF WriteOption, QInv, TypeOK
    <3>5. Validated(r, o, [req[r].view EXCEPT ![o] = req[r].correct])
      BY <1>9, <2>2 DEF WriteOption
    <3>6. req[r].op # None
      BY <3>1, ConstantsAssumption DEF Shape, Ops
    <3>7. QED
      BY <3>1, <3>2, <3>3, <3>4, <3>5, <3>6, ValidatedStep
  <2>3. QED
    BY <2>1, <2>2
<1>10. ASSUME NEW r \in Requests, CommitOption(r) PROVE QInv'
  <2> DEFINE o == req[r].option
             v == IF req[r].op = "remove" THEN None ELSE req[r].correct
  <2>1. req[r] \in Request /\ Shape(req[r], type, created, used) /\ req[r].pc = "commit"
    BY <1>10 DEF CommitOption, QInv, TypeOK
  <2>2. o \in used /\ type # None /\ v \in BOOLEAN \cup {None}
    BY <2>1 DEF Shape, Request, Ops
  <2>3. options' = [options EXCEPT ![o] = v] /\ UNCHANGED <<type, created, used>>
    BY <1>10 DEF CommitOption
  <2>4. options' \in OptionSet /\ Rows(options)' \subseteq used
    BY <2>2, <2>3 DEF QInv, TypeOK, OptionSet, Rows
  <2>5. req' = [req EXCEPT ![r] = Idle]
    BY <1>10 DEF CommitOption, Answer
  <2>6. TypeOK'
    BY <2>2, <2>3, <2>4, <2>5, IdleType DEF QInv, TypeOK
  <2>7. ASSUME NEW s \in Requests PROVE Shape(req'[s], type', created', used')
    BY <2>3, <2>5, IdleType DEF QInv, TypeOK, Shape
  <2>8. QED
    BY <2>6, <2>7 DEF QInv
<1>11. ASSUME NEW r \in Requests, Abort(r) PROVE QInv'
  BY <1>11, AnswerStep DEF Abort
<1>12. CASE UNCHANGED vars
  BY <1>12 DEF vars, QInv, TypeOK, Shape, Rows
<1>13. QED
  BY <1>1, <1>2, <1>3, <1>4, <1>5, <1>6, <1>7, <1>8, <1>9, <1>10, <1>11, <1>12
     DEF Next, Arrive, Serve, Refuse

LEMMA QInvCorrect == Spec => []QInv
BY QInvInit, QInvStep, PTL DEF Spec

\* The rows and the requests are well typed, and an option exists only while
\* its question does.
THEOREM TypeCorrect == Spec => []TypeOK
BY QInvCorrect, PTL DEF QInv

-----------------------------------------------------------------------------
(* The key of a question with one correct option.                          *)

LEMMA ValidOneKey ==
    ASSUME NEW t, HasOneKey(t), NEW opts, isValidOptionSet(t, opts)
    PROVE  \E k \in OptionIds : Key(opts) = {k}
<1>1. Cardinality(Key(opts)) = 1
  BY DEF isValidOptionSet
<1>2. Key(opts) \subseteq OptionIds /\ IsFiniteSet(Key(opts))
  BY ConstantsAssumption, FS_Subset DEF Key
<1>3. PICK k : Key(opts) = {k}
  BY <1>1, <1>2, FS_Singleton
<1>4. QED
  BY <1>2, <1>3

\* An option that is not correct yet cannot be made or added as a second key.
LEMMA NoSecondKey ==
    ASSUME NEW t, HasOneKey(t), NEW opts \in OptionSet, NEW k \in OptionIds, Key(opts) = {k},
           NEW o \in OptionIds, opts[o] # TRUE, NEW c \in BOOLEAN,
           isValidOptionSet(t, [opts EXCEPT ![o] = c])
    PROVE  c = FALSE
<1> SUFFICES ASSUME c = TRUE PROVE FALSE
  OBVIOUS
<1> DEFINE n == [opts EXCEPT ![o] = c]
<1>1. o \in Key(n) /\ k \in Key(n) /\ o # k
  BY DEF Key, OptionSet
<1>2. PICK j \in OptionIds : Key(n) = {j}
  BY ValidOneKey
<1>3. QED
  BY <1>1, <1>2

\* The only correct option cannot be removed or made wrong.
LEMMA KeyStays ==
    ASSUME NEW t, HasOneKey(t), NEW opts \in OptionSet, NEW k \in OptionIds, Key(opts) = {k},
           NEW o \in OptionIds, NEW c \in {FALSE, None},
           isValidOptionSet(t, [opts EXCEPT ![o] = c])
    PROVE  opts[o] # TRUE
<1> SUFFICES ASSUME opts[o] = TRUE PROVE FALSE
  OBVIOUS
<1> DEFINE n == [opts EXCEPT ![o] = c]
<1>1. o = k
  BY DEF Key
<1>2. c # TRUE
  BY ConstantsAssumption
<1>3. Key(n) = {}
  BY <1>1, <1>2 DEF Key, OptionSet
<1>4. PICK j \in OptionIds : Key(n) = {j}
  BY ValidOneKey
<1>5. QED
  BY <1>3, <1>4

\* Writing a row that is not the key, with a value that is not correct, keeps
\* the key.
LEMMA SameKey ==
    ASSUME NEW opts \in OptionSet, NEW o \in OptionIds, opts[o] # TRUE, NEW c, c # TRUE
    PROVE  Key([opts EXCEPT ![o] = c]) = Key(opts)
BY DEF Key, OptionSet

\* A request of a question with one key never holds a write that would touch
\* the key: a pending UPDATE will be rejected, a pending commit adds or
\* removes a wrong option.
Harmless(q, t, opts) ==
    HasOneKey(t) =>
        /\ q.pc = "write" =>
              /\ \E k \in OptionIds : Key(q.view) = {k}
              /\ q.view[q.option] \notin {None, q.correct}
        /\ q.pc = "commit" =>
              /\ q.op # "update"
              /\ opts[q.option] # TRUE
              /\ q.op = "add" => q.correct = FALSE

KInv == OneCorrectOption /\ \A r \in Requests : Harmless(req[r], type, options)

LEMMA HarmlessIdle == \A t, opts : Harmless(Idle, t, opts)
BY DEF Harmless, Idle

LEMMA KInvRequest ==
    ASSUME QInv, KInv, NEW r \in Requests, NEW q, Harmless(q, type, options),
           req' = [req EXCEPT ![r] = q], UNCHANGED <<type, options>>
    PROVE  KInv'
<1>1. \A s \in Requests : req'[s] = IF s = r THEN q ELSE req[s]
  BY DEF QInv, TypeOK
<1>2. QED
  BY <1>1 DEF KInv, OneCorrectOption

LEMMA KInvAnswer ==
    ASSUME QInv, KInv, NEW r \in Requests, Answer(r), UNCHANGED <<type, options>>
    PROVE  KInv'
BY KInvRequest, HarmlessIdle DEF Answer

\* The step that moves request r to its commit, when that is harmless.
LEMMA KInvValidated ==
    ASSUME QInv, KInv, NEW r \in Requests, NEW o \in OptionIds, NEW view,
           Validated(r, o, view), UNCHANGED <<type, options>>,
           HasOneKey(type) /\ isValidOptionSet(type, view) =>
               /\ req[r].op # "update"
               /\ options[o] # TRUE
               /\ req[r].op = "add" => req[r].correct = FALSE
    PROVE  KInv'
<1> DEFINE q == [req[r] EXCEPT !.pc = "commit", !.option = o]
<1>1. CASE isValidOptionSet(type, view)
  <2>1. req[r] \in Request
    BY DEF QInv, TypeOK
  <2>2. Harmless(q, type, options)
    BY <1>1, <2>1 DEF Harmless, Request
  <2>3. req' = [req EXCEPT ![r] = q]
    BY <1>1 DEF Validated
  <2>4. QED
    BY <2>2, <2>3, KInvRequest
<1>2. CASE ~ isValidOptionSet(type, view)
  BY <1>2, KInvAnswer DEF Validated
<1>3. QED
  BY <1>1, <1>2

LEMMA KInvInit == Init => KInv
<1> SUFFICES ASSUME Init PROVE KInv
  OBVIOUS
<1>1. ~ HasOneKey(type)
  BY ConstantsAssumption DEF Init, HasOneKey, Types
<1>2. QED
  BY <1>1 DEF Init, KInv, OneCorrectOption, Harmless

LEMMA CommitKeepsKey ==
    ASSUME QInv, KInv, HasOneKey(type), NEW r \in Requests, CommitOption(r)
    PROVE  /\ Key(options') = Key(options)
           /\ \A o \in OptionIds : options[o] # TRUE => options'[o] # TRUE
<1> DEFINE o == req[r].option
           v == IF req[r].op = "remove" THEN None ELSE req[r].correct
<1>1. /\ Shape(req[r], type, created, used) /\ Harmless(req[r], type, options)
      /\ req[r] \in Request /\ req[r].pc = "commit"
  BY DEF CommitOption, QInv, KInv, TypeOK
<1>2. o \in OptionIds /\ options[o] # TRUE
  BY <1>1 DEF Shape, Harmless, QInv, TypeOK
<1>3. v # TRUE
  BY <1>1, ConstantsAssumption DEF Shape, Harmless, Request, Ops
<1>4. options' = [options EXCEPT ![o] = v] /\ options \in OptionSet
  BY DEF CommitOption, QInv, TypeOK
<1>5. QED
  BY <1>2, <1>3, <1>4, SameKey DEF OptionSet

LEMMA KInvStep == QInv /\ KInv /\ [Next]_vars => KInv'
<1> SUFFICES ASSUME QInv, KInv, [Next]_vars PROVE KInv'
  OBVIOUS
<1>1. ASSUME NEW r \in Requests, NEW t \in Types, NEW opts \in OptionSet,
             CreateQuestion(r, t, opts)
      PROVE  KInv'
  <2>1. \A s \in Requests : req[s].pc = "idle"
    BY <1>1 DEF CreateQuestion, QInv, Shape
  <2>2. OneCorrectOption'
    BY <1>1, ValidOneKey DEF CreateQuestion, OneCorrectOption
  <2>3. QED
    BY <1>1, <2>1, <2>2 DEF CreateQuestion, KInv, Harmless
<1>2. ASSUME NEW r \in Requests, RemoveQuestion(r) PROVE KInv'
  <2>1. ~ HasOneKey(type')
    BY <1>2, ConstantsAssumption DEF RemoveQuestion, HasOneKey, Types
  <2>2. QED
    BY <2>1 DEF KInv, OneCorrectOption, Harmless
<1>3. ASSUME NEW r \in Requests, NEW c \in BOOLEAN, AddOption(r, c) PROVE KInv'
  <2> DEFINE q == [Idle EXCEPT !.pc = "begin", !.op = "add", !.correct = c]
  <2>1. Harmless(q, type, options)
    BY DEF Harmless, Idle
  <2>2. QED
    BY <1>3, <2>1, KInvRequest DEF AddOption
<1>4. ASSUME NEW r \in Requests, NEW o \in OptionIds, NEW c \in BOOLEAN, UpdateOption(r, o, c)
      PROVE  KInv'
  <2> DEFINE q == [Idle EXCEPT !.pc = "begin", !.op = "update", !.option = o, !.correct = c]
  <2>1. Harmless(q, type, options)
    BY DEF Harmless, Idle
  <2>2. QED
    BY <1>4, <2>1, KInvRequest DEF UpdateOption
<1>5. ASSUME NEW r \in Requests, NEW o \in OptionIds, RemoveOption(r, o) PROVE KInv'
  <2> DEFINE q == [Idle EXCEPT !.pc = "begin", !.op = "remove", !.option = o]
  <2>1. Harmless(q, type, options)
    BY DEF Harmless, Idle
  <2>2. QED
    BY <1>5, <2>1, KInvRequest DEF RemoveOption
<1>6. ASSUME NEW r \in Requests, InsertOption(r) PROVE KInv'
  <2>1. CASE type = None
    BY <1>6, <2>1, KInvAnswer DEF InsertOption
  <2>2. CASE type # None
    <3>1. PICK o \in OptionIds \ used : Validated(r, o, [options EXCEPT ![o] = req[r].correct])
      BY <1>6, <2>2 DEF InsertOption
    <3>2. /\ Shape(req[r], type, created, used)
          /\ req[r].op = "add" /\ req[r].correct \in BOOLEAN
      BY <1>6 DEF InsertOption, QInv, Shape
    <3>3. options \in OptionSet /\ options[o] # TRUE
      BY <3>1, ConstantsAssumption DEF QInv, TypeOK, Rows
    <3>4. HasOneKey(type) => \E k \in OptionIds : Key(options) = {k}
      BY DEF KInv, OneCorrectOption
    <3>5. HasOneKey(type) /\ isValidOptionSet(type, [options EXCEPT ![o] = req[r].correct])
              => req[r].correct = FALSE
      BY <3>2, <3>3, <3>4, NoSecondKey
    <3>6. req[r].op # "update" /\ UNCHANGED <<type, options>>
      BY <1>6, <3>2 DEF InsertOption
    <3>7. QED
      BY <3>1, <3>3, <3>5, <3>6, KInvValidated
  <2>3. QED
    BY <2>1, <2>2
<1>7. ASSUME NEW r \in Requests, DestroyOption(r) PROVE KInv'
  <2> DEFINE o == req[r].option
  <2>1. CASE options[o] = None
    BY <1>7, <2>1, KInvAnswer DEF DestroyOption
  <2>2. CASE options[o] # None
    <3>1. Shape(req[r], type, created, used) /\ req[r].pc = "begin" /\ req[r].op = "remove"
      BY <1>7 DEF DestroyOption, QInv
    <3>2. o \in OptionIds /\ options \in OptionSet
      BY <3>1 DEF Shape, QInv, TypeOK
    <3>3. HasOneKey(type) => \E k \in OptionIds : Key(options) = {k}
      BY DEF KInv, OneCorrectOption
    <3>4. HasOneKey(type) /\ isValidOptionSet(type, [options EXCEPT ![o] = None])
              => options[o] # TRUE
      BY <3>2, <3>3, KeyStays
    <3>5. Validated(r, o, [options EXCEPT ![o] = None]) /\ UNCHANGED <<type, options>>
      BY <1>7, <2>2 DEF DestroyOption
    <3>6. QED
      BY <3>1, <3>2, <3>4, <3>5, KInvValidated
  <2>3. QED
    BY <2>1, <2>2
<1>8. ASSUME NEW r \in Requests, ReadOption(r) PROVE KInv'
  <2> DEFINE o == req[r].option
             q == [req[r] EXCEPT !.pc = "write", !.view = options]
  <2>1. CASE options[o] \in {None, req[r].correct}
    BY <1>8, <2>1, KInvAnswer DEF ReadOption
  <2>2. CASE options[o] \notin {None, req[r].correct}
    <3>1. req[r] \in Request
      BY DEF QInv, TypeOK
    <3>2. /\ q.pc = "write" /\ q.view = options
          /\ q.option = o /\ q.correct = req[r].correct
      BY <3>1 DEF Request
    <3>3. HasOneKey(type) => \E k \in OptionIds : Key(options) = {k}
      BY DEF KInv, OneCorrectOption
    <3>4. Harmless(q, type, options)
      BY <2>2, <3>2, <3>3 DEF Harmless
    <3>5. QED
      BY <1>8, <2>2, <3>4, KInvRequest DEF ReadOption
  <2>3. QED
    BY <2>1, <2>2
<1>9. ASSUME NEW r \in Requests, WriteOption(r) PROVE KInv'
  <2> DEFINE o == req[r].option
             view == req[r].view
             c == req[r].correct
  <2>1. CASE options[o] = None
    BY <1>9, <2>1, KInvAnswer DEF WriteOption
  <2>2. CASE options[o] # None
    <3>1. Shape(req[r], type, created, used) /\ Harmless(req[r], type, options)
      BY DEF QInv, KInv
    <3>2. o \in OptionIds /\ view \in OptionSet /\ c \in BOOLEAN
      BY <1>9, <3>1 DEF WriteOption, Shape, QInv, TypeOK
    <3>3. ASSUME HasOneKey(type), isValidOptionSet(type, [view EXCEPT ![o] = c]) PROVE FALSE
      <4>1. PICK k \in OptionIds : Key(view) = {k}
        BY <1>9, <3>1, <3>3 DEF WriteOption, Harmless
      <4>2. view[o] \notin {None, c}
        BY <1>9, <3>1, <3>3 DEF WriteOption, Harmless
      <4>3. CASE c = FALSE
        <5>1. view[o] # TRUE
          BY <3>2, <3>3, <4>1, <4>3, KeyStays
        <5>2. view[o] \in BOOLEAN \cup {None}
          BY <3>2 DEF OptionSet
        <5>3. QED
          BY <4>2, <4>3, <5>1, <5>2
      <4>4. CASE c = TRUE
        <5>1. view[o] # TRUE
          BY <4>2, <4>4
        <5>2. c = FALSE
          BY <3>2, <3>3, <4>1, <5>1, NoSecondKey
        <5>3. QED
          BY <4>4, <5>2
      <4>5. QED
        BY <3>2, <4>3, <4>4
    <3>4. Validated(r, o, [view EXCEPT ![o] = c]) /\ UNCHANGED <<type, options>>
      BY <1>9, <2>2 DEF WriteOption
    <3>5. QED
      BY <3>2, <3>3, <3>4, KInvValidated
  <2>3. QED
    BY <2>1, <2>2
<1>10. ASSUME NEW r \in Requests, CommitOption(r) PROVE KInv'
  <2>1. CASE HasOneKey(type)
    <3>1. Key(options') = Key(options)
      BY <1>10, <2>1, CommitKeepsKey
    <3>2. \A o \in OptionIds : options[o] # TRUE => options'[o] # TRUE
      BY <1>10, <2>1, CommitKeepsKey
    <3>3. type' = type /\ req' = [req EXCEPT ![r] = Idle]
      BY <1>10 DEF CommitOption, Answer
    <3>4. OneCorrectOption'
      BY <3>1, <3>3 DEF KInv, OneCorrectOption
    <3>5. ASSUME NEW s \in Requests PROVE Harmless(req'[s], type', options')
      <4>1. CASE s = r
        BY <3>3, <4>1, HarmlessIdle DEF QInv, TypeOK
      <4>2. CASE s # r
        <5>1. req'[s] = req[s]
          BY <3>3, <4>2 DEF QInv, TypeOK
        <5>2. Harmless(req[s], type, options) /\ Shape(req[s], type, created, used)
          BY DEF KInv, QInv
        <5>3. req[s].pc = "commit" => req[s].option \in OptionIds
          BY <5>2 DEF Shape, QInv, TypeOK
        <5>4. QED
          BY <3>2, <3>3, <5>1, <5>2, <5>3 DEF Harmless
      <4>3. QED
        BY <4>1, <4>2
    <3>6. QED
      BY <3>4, <3>5 DEF KInv
  <2>2. CASE ~ HasOneKey(type)
    BY <1>10, <2>2 DEF CommitOption, KInv, OneCorrectOption, Harmless
  <2>3. QED
    BY <2>1, <2>2
<1>11. ASSUME NEW r \in Requests, Abort(r) PROVE KInv'
  BY <1>11, KInvAnswer DEF Abort
<1>12. CASE UNCHANGED vars
  BY <1>12 DEF vars, KInv, OneCorrectOption
<1>13. QED
  BY <1>1, <1>2, <1>3, <1>4, <1>5, <1>6, <1>7, <1>8, <1>9, <1>10, <1>11, <1>12
     DEF Next, Arrive, Serve, Refuse

LEMMA KInvCorrect == Spec => [](QInv /\ KInv)
BY QInvCorrect, KInvInit, KInvStep, PTL DEF Spec

\* Every stored single-select or true/false question has exactly one correct
\* option, although the option sets of overlapping transactions may cross.
THEOREM OneKey == Spec => []OneCorrectOption
BY KInvCorrect, PTL DEF KInv

KeyFixed == HasOneKey(type) /\ type' # None => Key(options') = Key(options)

LEMMA KeyFixedStep == QInv /\ KInv /\ [Next]_vars => [KeyFixed]_vars
<1> SUFFICES ASSUME QInv, KInv, Next, HasOneKey(type), type' # None
             PROVE  Key(options') = Key(options)
  BY DEF KeyFixed
<1>1. created
  BY ConstantsAssumption DEF QInv, TypeOK, HasOneKey, Types
<1>2. ASSUME NEW r \in Requests, CommitOption(r) PROVE Key(options') = Key(options)
  BY <1>2, CommitKeepsKey
<1>3. CASE UNCHANGED options
  BY <1>3
<1>4. QED
  BY <1>1, <1>2, <1>3
     DEF Next, Arrive, Serve, Refuse, CreateQuestion, RemoveQuestion, AddOption, UpdateOption,
         RemoveOption, InsertOption, DestroyOption, ReadOption, WriteOption, Abort, vars

\* No sequence of option requests changes which option of a single-select or
\* true/false question is correct.
THEOREM KeyIsFixed == Spec => SingleKeyIsFixed
<1>1. Spec => [][KeyFixed]_vars
  BY KInvCorrect, KeyFixedStep, PTL DEF Spec
<1>2. QED
  BY <1>1 DEF SingleKeyIsFixed, KeyFixed

-----------------------------------------------------------------------------
(* Requests that do not overlap.                                           *)

\* The options once request q has committed.
After(q, opts) ==
    [opts EXCEPT ![q.option] = IF q.op = "remove" THEN None ELSE q.correct]

\* The snapshot of the only request in flight is not stale, and what it is
\* about to commit has been validated.
Fresh(q, t, opts) ==
    /\ q.pc = "write" => q.view = opts
    /\ q.pc = "commit" => isValidOptionSet(t, After(q, opts))

VInv ==
    /\ StoredSetsAreValid
    /\ \A r, s \in Requests : req[r].pc # "idle" /\ req[s].pc # "idle" => r = s
    /\ \A r \in Requests : Fresh(req[r], type, options)

LEMMA VInvRequest ==
    ASSUME QInv, VInv, NEW r \in Requests, NEW q, Fresh(q, type, options),
           \A s \in Requests : s # r => req[s].pc = "idle",
           req' = [req EXCEPT ![r] = q], UNCHANGED <<type, options>>
    PROVE  VInv'
<1>1. \A s \in Requests : req'[s] = IF s = r THEN q ELSE req[s]
  BY DEF QInv, TypeOK
<1>2. QED
  BY <1>1 DEF VInv, StoredSetsAreValid

LEMMA VInvAnswer ==
    ASSUME QInv, VInv, NEW r \in Requests, Answer(r), UNCHANGED <<type, options>>
    PROVE  VInv'
<1>1. \A s \in Requests : req'[s] = IF s = r THEN Idle ELSE req[s]
  BY DEF QInv, TypeOK, Answer
<1>2. \A t, opts : Fresh(Idle, t, opts)
  BY DEF Fresh, Idle
<1>3. QED
  BY <1>1, <1>2 DEF VInv, StoredSetsAreValid, Idle

LEMMA VInvValidated ==
    ASSUME QInv, VInv, NEW r \in Requests, NEW o, NEW view,
           Validated(r, o, view), UNCHANGED <<type, options>>, req[r].pc # "idle",
           view = [options EXCEPT ![o] = IF req[r].op = "remove" THEN None ELSE req[r].correct]
    PROVE  VInv'
<1> DEFINE q == [req[r] EXCEPT !.pc = "commit", !.option = o]
<1>1. CASE isValidOptionSet(type, view)
  <2>1. req[r] \in Request
    BY DEF QInv, TypeOK
  <2>2. q.pc = "commit" /\ q.option = o /\ q.op = req[r].op /\ q.correct = req[r].correct
    BY <2>1 DEF Request
  <2>3. After(q, options) = view
    BY <2>2 DEF After
  <2>4. Fresh(q, type, options)
    BY <1>1, <2>2, <2>3 DEF Fresh
  <2>5. req' = [req EXCEPT ![r] = q]
    BY <1>1 DEF Validated
  <2>6. \A s \in Requests : s # r => req[s].pc = "idle"
    BY DEF VInv
  <2>7. QED
    BY <2>4, <2>5, <2>6, VInvRequest
<1>2. CASE ~ isValidOptionSet(type, view)
  BY <1>2, VInvAnswer DEF Validated
<1>3. QED
  BY <1>1, <1>2

LEMMA VInvInit == Init => VInv
BY DEF Init, VInv, StoredSetsAreValid, Fresh, Idle

LEMMA VInvStep ==
    ASSUME Overlap = FALSE
    PROVE  QInv /\ VInv /\ [Next]_vars => VInv'
<1> SUFFICES ASSUME QInv, VInv, [Next]_vars PROVE VInv'
  OBVIOUS
<1>1. ASSUME NEW r \in Requests, MayBegin(r) PROVE \A s \in Requests : req[s].pc = "idle"
  BY <1>1 DEF MayBegin
<1>2. ASSUME NEW r \in Requests, NEW t \in Types, NEW opts \in OptionSet,
             CreateQuestion(r, t, opts)
      PROVE  VInv'
  BY <1>1, <1>2 DEF CreateQuestion, VInv, StoredSetsAreValid, Fresh
<1>3. ASSUME NEW r \in Requests, RemoveQuestion(r) PROVE VInv'
  BY <1>1, <1>3 DEF RemoveQuestion, VInv, StoredSetsAreValid, Fresh
<1>4. ASSUME NEW r \in Requests, NEW q, MayBegin(r), q.pc = "begin",
             req' = [req EXCEPT ![r] = q], UNCHANGED <<type, options>>
      PROVE  VInv'
  <2>1. Fresh(q, type, options)
    BY <1>4 DEF Fresh
  <2>2. QED
    BY <1>1, <1>4, <2>1, VInvRequest
<1>5. ASSUME NEW r \in Requests, NEW c \in BOOLEAN, AddOption(r, c) PROVE VInv'
  <2> DEFINE q == [Idle EXCEPT !.pc = "begin", !.op = "add", !.correct = c]
  <2>1. q.pc = "begin"
    BY DEF Idle
  <2>2. MayBegin(r) /\ req' = [req EXCEPT ![r] = q] /\ UNCHANGED <<type, options>>
    BY <1>5 DEF AddOption
  <2>3. QED
    BY <1>4, <2>1, <2>2
<1>6. ASSUME NEW r \in Requests, NEW o \in OptionIds, NEW c \in BOOLEAN, UpdateOption(r, o, c)
      PROVE  VInv'
  <2> DEFINE q == [Idle EXCEPT !.pc = "begin", !.op = "update", !.option = o, !.correct = c]
  <2>1. q.pc = "begin"
    BY DEF Idle
  <2>2. MayBegin(r) /\ req' = [req EXCEPT ![r] = q] /\ UNCHANGED <<type, options>>
    BY <1>6 DEF UpdateOption
  <2>3. QED
    BY <1>4, <2>1, <2>2
<1>7. ASSUME NEW r \in Requests, NEW o \in OptionIds, RemoveOption(r, o) PROVE VInv'
  <2> DEFINE q == [Idle EXCEPT !.pc = "begin", !.op = "remove", !.option = o]
  <2>1. q.pc = "begin"
    BY DEF Idle
  <2>2. MayBegin(r) /\ req' = [req EXCEPT ![r] = q] /\ UNCHANGED <<type, options>>
    BY <1>7 DEF RemoveOption
  <2>3. QED
    BY <1>4, <2>1, <2>2
<1>8. ASSUME NEW r \in Requests, InsertOption(r) PROVE VInv'
  <2>1. CASE type = None
    BY <1>8, <2>1, VInvAnswer DEF InsertOption
  <2>2. CASE type # None
    <3>1. PICK o \in OptionIds \ used : Validated(r, o, [options EXCEPT ![o] = req[r].correct])
      BY <1>8, <2>2 DEF InsertOption
    <3>2. req[r].op # "remove" /\ req[r].pc # "idle" /\ UNCHANGED <<type, options>>
      BY <1>8 DEF InsertOption
    <3>3. QED
      BY <3>1, <3>2, VInvValidated
  <2>3. QED
    BY <2>1, <2>2
<1>9. ASSUME NEW r \in Requests, DestroyOption(r) PROVE VInv'
  <2> DEFINE o == req[r].option
  <2>1. CASE options[o] = None
    BY <1>9, <2>1, VInvAnswer DEF DestroyOption
  <2>2. CASE options[o] # None
    <3>1. Validated(r, o, [options EXCEPT ![o] = None]) /\ UNCHANGED <<type, options>>
      BY <1>9, <2>2 DEF DestroyOption
    <3>2. req[r].op = "remove" /\ req[r].pc # "idle"
      BY <1>9 DEF DestroyOption
    <3>3. QED
      BY <3>1, <3>2, VInvValidated
  <2>3. QED
    BY <2>1, <2>2
<1>10. ASSUME NEW r \in Requests, ReadOption(r) PROVE VInv'
  <2> DEFINE q == [req[r] EXCEPT !.pc = "write", !.view = options]
  <2>1. CASE options[req[r].option] \in {None, req[r].correct}
    BY <1>10, <2>1, VInvAnswer DEF ReadOption
  <2>2. CASE options[req[r].option] \notin {None, req[r].correct}
    <3>1. req[r] \in Request
      BY DEF QInv, TypeOK
    <3>2. Fresh(q, type, options)
      BY <3>1 DEF Fresh, Request
    <3>3. \A s \in Requests : s # r => req[s].pc = "idle"
      BY <1>10 DEF ReadOption, VInv
    <3>4. QED
      BY <1>10, <2>2, <3>2, <3>3, VInvRequest DEF ReadOption
  <2>3. QED
    BY <2>1, <2>2
<1>11. ASSUME NEW r \in Requests, WriteOption(r) PROVE VInv'
  <2> DEFINE o == req[r].option
  <2>1. CASE options[o] = None
    BY <1>11, <2>1, VInvAnswer DEF WriteOption
  <2>2. CASE options[o] # None
    <3>1. req[r].view = options /\ req[r].pc # "idle"
      BY <1>11 DEF WriteOption, VInv, Fresh
    <3>2. req[r].op = "update"
      BY <1>11 DEF WriteOption, QInv, Shape
    <3>3. Validated(r, o, [options EXCEPT ![o] = req[r].correct]) /\ UNCHANGED <<type, options>>
      BY <1>11, <2>2, <3>1 DEF WriteOption
    <3>4. QED
      BY <3>1, <3>2, <3>3, VInvValidated
  <2>3. QED
    BY <2>1, <2>2
<1>12. ASSUME NEW r \in Requests, CommitOption(r) PROVE VInv'
  <2>1. options' = After(req[r], options) /\ type' = type
    BY <1>12 DEF CommitOption, After
  <2>2. isValidOptionSet(type, After(req[r], options))
    BY <1>12 DEF CommitOption, VInv, Fresh
  <2>3. \A s \in Requests : req'[s].pc = "idle"
    BY <1>12 DEF CommitOption, Answer, VInv, QInv, TypeOK, Idle
  <2>4. QED
    BY <2>1, <2>2, <2>3 DEF VInv, StoredSetsAreValid, Fresh
<1>13. ASSUME NEW r \in Requests, Abort(r) PROVE VInv'
  BY <1>13, VInvAnswer DEF Abort
<1>14. CASE UNCHANGED vars
  BY <1>14 DEF vars, VInv, StoredSetsAreValid
<1>15. QED
  BY <1>2, <1>3, <1>5, <1>6, <1>7, <1>8, <1>9, <1>10, <1>11, <1>12, <1>13, <1>14
     DEF Next, Arrive, Serve, Refuse

\* When the requests of administrators do not overlap, every stored option
\* set is one that its type allows.
THEOREM SetsValid ==
    ASSUME Overlap = FALSE
    PROVE  Spec => []StoredSetsAreValid
<1>1. QInv /\ VInv /\ [Next]_vars => VInv'
  BY VInvStep
<1>2. Spec => []VInv
  BY <1>1, QInvCorrect, VInvInit, PTL DEF Spec
<1>3. QED
  BY <1>2, PTL DEF VInv
=============================================================================
