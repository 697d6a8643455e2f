--------------------------- MODULE QuestionAuthoring ---------------------------
(***************************************************************************)
(* The question service for one question: administrators create it, add,   *)
(* update and remove its options, and delete it.                           *)
(*                                                                         *)
(* Every change of an option is a transaction that writes one row, reads   *)
(* the options of the question as its snapshot shows them (REPEATABLE      *)
(* READ: committed rows and its own write, no write of others) and rolls   *)
(* back when the option set is not one its type allows.  The row it wrote  *)
(* stays locked until it commits, which is a step of its own: this is      *)
(* where two transactions, each valid on its own snapshot, cross.          *)
(***************************************************************************)
EXTENDS Naturals, FiniteSets

CONSTANTS
    OptionIds,  \* ids an option may be given, each at most once
    Requests,   \* slots for requests that are being served
    Overlap,    \* whether administrators' requests may overlap
    None        \* the absent value

VARIABLES
    type,     \* the type of the question, None before it is created or once deleted
    created,  \* whether the question was created
    options,  \* is_correct of each option, None where there is no row
    used,     \* the ids given so far
    req       \* the requests being served

vars == <<type, created, options, used, req>>

Types == {"SINGLE_SELECT", "TRUE_FALSE", "MULTI_SELECT"}

OptionSet == [OptionIds -> BOOLEAN \cup {None}]

NoOptions == [o \in OptionIds |-> None]

Rows(opts) == {o \in OptionIds : opts[o] # None}

Key(opts) == {o \in OptionIds : opts[o] = TRUE}

HasOneKey(t) == t \in {"SINGLE_SELECT", "TRUE_FALSE"}

\* Mutant: a single-select may have more than one correct option.
isValidOptionSetLax(t, opts) ==
    /\ Cardinality(Rows(opts)) >= 2
    /\ Cardinality(Key(opts)) >= 1
    /\ t = "TRUE_FALSE" => Cardinality(Rows(opts)) = 2

isValidOptionSet(t, opts) ==
    /\ Cardinality(Rows(opts)) >= 2
    /\ Cardinality(Key(opts)) >= 1
    /\ HasOneKey(t) => Cardinality(Key(opts)) = 1
    /\ t = "TRUE_FALSE" => Cardinality(Rows(opts)) = 2

\* A request for an option is between two calls: about to begin its
\* transaction, about to send the UPDATE with the snapshot it validates, or
\* about to commit.
Idle == [pc |-> "idle", op |-> None, option |-> None, correct |-> None, view |-> None]

Ops == {"add", "update", "remove"}

Request == [pc : {"idle", "begin", "write", "commit"},
            op : Ops \cup {None},
            option : OptionIds \cup {None},
            correct : BOOLEAN \cup {None},
            view : OptionSet \cup {None}]

ASSUME ConstantsAssumption ==
    /\ IsFiniteSet(OptionIds)
    /\ Overlap \in BOOLEAN
    /\ None \notin OptionIds \cup BOOLEAN \cup OptionSet \cup Types \cup Ops

TypeOK ==
    /\ type \in Types \cup {None}
    /\ created \in BOOLEAN
    /\ options \in OptionSet
    /\ used \in SUBSET OptionIds
    /\ Rows(options) \subseteq used
    /\ req \in [Requests -> Request]
    /\ type = None => Rows(options) = {}
    /\ type # None => created

Init ==
    /\ type = None
    /\ created = FALSE
    /\ options = NoOptions
    /\ used = {}
    /\ req = [r \in Requests |-> Idle]

-----------------------------------------------------------------------------
Answer(r) == req' = [req EXCEPT ![r] = Idle]

MayBegin(r) ==
    /\ req[r].pc = "idle"
    /\ Overlap \/ \A s \in Requests : req[s].pc = "idle"

\* The row lock of a transaction that has written and not yet committed.
Locked(o) == \E r \in Requests : req[r].pc = "commit" /\ req[r].option = o

\* A request that finds no question or option, or posts an invalid set.
Refuse(r) ==
    /\ MayBegin(r)
    /\ UNCHANGED vars

\* The question and its options are inserted in one transaction.
CreateQuestion(r, t, opts) ==
    /\ MayBegin(r)
    /\ ~ created
    /\ isValidOptionSet(t, opts)
    /\ type' = t
    /\ created' = TRUE
    /\ options' = opts
    /\ used' = Rows(opts)
    /\ UNCHANGED req

\* Mutant: the options are not deleted with their question.
RemoveQuestionOnly(r) ==
    /\ MayBegin(r)
    /\ type # None
    /\ \A s \in Requests : req[s].pc # "commit"
    /\ type' = None
    /\ UNCHANGED <<created, options, used, req>>

\* The cascade waits for the rows and for the foreign key that open
\* transactions have locked.
RemoveQuestion(r) ==
    /\ MayBegin(r)
    /\ type # None
    /\ \A s \in Requests : req[s].pc # "commit"
    /\ type' = None
    /\ options' = NoOptions
    /\ UNCHANGED <<created, used, req>>

\* requireQuestion found the question.
AddOption(r, c) ==
    /\ MayBegin(r)
    /\ type # None
    /\ req' = [req EXCEPT ![r] = [Idle EXCEPT !.pc = "begin", !.op = "add", !.correct = c]]
    /\ UNCHANGED <<type, created, options, used>>

\* requireOption and requireQuestion found the option and its question.
UpdateOption(r, o, c) ==
    /\ MayBegin(r)
    /\ options[o] # None
    /\ req' = [req EXCEPT ![r] = [Idle EXCEPT !.pc = "begin", !.op = "update",
                                              !.option = o, !.correct = c]]
    /\ UNCHANGED <<type, created, options, used>>

RemoveOption(r, o) ==
    /\ MayBegin(r)
    /\ options[o] # None
    /\ req' = [req EXCEPT ![r] = [Idle EXCEPT !.pc = "begin", !.op = "remove", !.option = o]]
    /\ UNCHANGED <<type, created, options, used>>

\* assertValidOptionSet on the snapshot of request r, after its write.
Validated(r, o, view) ==
    IF isValidOptionSet(type, view)
    THEN req' = [req EXCEPT ![r].pc = "commit", ![r].option = o]
    ELSE Answer(r)

\* The INSERT fails on its foreign key when the question is gone.
InsertOption(r) ==
    /\ req[r].pc = "begin" /\ req[r].op = "add"
    /\ \/ /\ type = None
          /\ Answer(r)
          /\ UNCHANGED used
       \/ /\ type # None
          /\ \E o \in OptionIds \ used :
                /\ used' = used \cup {o}
                /\ Validated(r, o, [options EXCEPT ![o] = req[r].correct])
    /\ UNCHANGED <<type, created, options>>

\* Mutant: the option set is validated before the row is destroyed.
DestroyValidatedBefore(r) ==
    LET o == req[r].option IN
    /\ req[r].pc = "begin" /\ req[r].op = "remove"
    /\ ~ Locked(o)
    /\ IF options[o] = None THEN Answer(r) ELSE Validated(r, o, options)
    /\ UNCHANGED <<type, created, options, used>>

DestroyOption(r) ==
    LET o == req[r].option IN
    /\ req[r].pc = "begin" /\ req[r].op = "remove"
    /\ ~ Locked(o)
    /\ IF options[o] = None
       THEN Answer(r)
       ELSE Validated(r, o, [options EXCEPT ![o] = None])
    /\ UNCHANGED <<type, created, options, used>>

\* BaseDAO.update reads the row first, which fixes the snapshot.  When the
\* option is gone, or is_correct is as posted already, nothing is written.
ReadOption(r) ==
    LET o == req[r].option IN
    /\ req[r].pc = "begin" /\ req[r].op = "update"
    /\ IF options[o] \in {None, req[r].correct}
       THEN Answer(r)
       ELSE req' = [req EXCEPT ![r].pc = "write", ![r].view = options]
    /\ UNCHANGED <<type, created, options, used>>

\* The UPDATE of a row that was deleted since the snapshot writes nothing.
WriteOption(r) ==
    LET o == req[r].option IN
    /\ req[r].pc = "write"
    /\ ~ Locked(o)
    /\ IF options[o] = None
       THEN Answer(r)
       ELSE Validated(r, o, [req[r].view EXCEPT ![o] = req[r].correct])
    /\ UNCHANGED <<type, created, options, used>>

CommitOption(r) ==
    /\ req[r].pc = "commit"
    /\ options' = [options EXCEPT ![req[r].option] =
                       IF req[r].op = "remove" THEN None ELSE req[r].correct]
    /\ Answer(r)
    /\ UNCHANGED <<type, created, used>>

\* A call that fails, a lock wait that times out or a crash rolls back.
Abort(r) ==
    /\ req[r].pc # "idle"
    /\ Answer(r)
    /\ UNCHANGED <<type, created, options, used>>

Arrive(r) ==
    \/ \E t \in Types, opts \in OptionSet : CreateQuestion(r, t, opts)
    \/ RemoveQuestion(r)
    \/ \E c \in BOOLEAN : AddOption(r, c)
    \/ \E o \in OptionIds, c \in BOOLEAN : UpdateOption(r, o, c)
    \/ \E o \in OptionIds : RemoveOption(r, o)
    \/ Refuse(r)

Serve(r) ==
    \/ InsertOption(r) \/ DestroyOption(r) \/ ReadOption(r) \/ WriteOption(r)
    \/ CommitOption(r)
    \/ Abort(r)

Next == \E r \in Requests : Arrive(r) \/ Serve(r)

Spec == Init /\ [][Next]_vars

-----------------------------------------------------------------------------
\* An administrator cannot change which option of a single-select or
\* true/false question is correct, by any sequence of overlapping option
\* requests: every step on the way is an option set the rule rejects.
SingleKeyIsFixed ==
    [][HasOneKey(type) /\ type' # None => Key(options') = Key(options)]_vars

\* A stored single-select or true/false question has exactly one correct
\* option, even where the sets of two overlapping transactions cross.
OneCorrectOption ==
    HasOneKey(type) => \E o \in OptionIds : Key(options) = {o}

\* When requests do not overlap every stored option set keeps its rule.
StoredSetsAreValid == type # None => isValidOptionSet(type, options)
=============================================================================
