---------------------------- MODULE AdminConsole ----------------------------
(***************************************************************************)
(* The pages of an administrator in the same tab: the admin panel with its *)
(* two lists, the page of one contest, and the dialogs of the overlay.     *)
(* A dialog is closed over the contest it was opened for, not over the     *)
(* page the tab shows when it is saved.                                    *)
(***************************************************************************)
EXTENDS Browser

VARIABLES
    made,     \* at the server: the number of contests created so far
    kept,     \* of how many the cached page of 50 is the first page, None without one
    listed,   \* of how many the admin panel shows the first page, None for an error
    lapses    \* history: how the cache fell behind since a create last cleared it

avars == <<vars, made, kept, listed, lapses>>

Editors == {"editContest", "editQuestion", "editOption", "addOption"}
Adders == {"addQuestion", "createPrize"}

\* The pages of Browser leave the console's state alone.
Unrelated == UNCHANGED <<made, kept, listed, lapses>>

OnContestPage == app.page = "adminContest" /\ app.view = "ready"
-----------------------------------------------------------------------------
(* The admin panel *)

\* What other clients do to the cached list: an entry expires or is cleared, a
\* reader stores the rows it has read, which may be older than the last clearing.
CacheMoves ==
    /\ \/ kept' = None /\ UNCHANGED lapses
       \/ \E n \in 0..made :
             /\ kept' = n
             /\ lapses' = IF n = made THEN lapses ELSE lapses \cup {"store"}
    /\ UNCHANGED <<vars, made, listed>>

\* What GET /contests answers with: the cached page, or else one of the rows.
Served == IF kept = None THEN made ELSE kept

\* loadAdminContests and loadAdminUsers start together; each fills the element
\* it found when it started, with what the server answered.  Rows that were read
\* are cached, unless that fails.
ListsRead(s) ==
    /\ Answered(s, "lists")
    /\ "contests" \in call[s].parts /\ call[s].seen = None
    /\ call' = [call EXCEPT ![s].seen = Served]
    /\ kept' \in {kept, Served}
    /\ UNCHANGED <<loc, app, token, me, quiz, entry, made, listed, lapses>>

ListsAnswer(s) ==
    /\ Answered(s, "lists")
    /\ \E p \in call[s].parts :
          LET rest == call[s].parts \ {p}
          IN  /\ p = "contests" => call[s].seen # None
              /\ call' = [call EXCEPT ![s] =
                     IF rest = {} THEN Idle ELSE [@ EXCEPT !.parts = rest]]
              /\ app' = IF rest = {} THEN [app EXCEPT !.wait = @ \ {s}] ELSE app
              /\ listed' \in IF p = "contests" /\ s \in app.wait
                            THEN {call[s].seen, None} ELSE {listed}
    /\ UNCHANGED <<loc, token, me, quiz, entry, made, kept, lapses>>

\* A list is loaded again, into the admin panel if the tab still shows it.
Reload(s, part) ==
    /\ call' = [call EXCEPT ![s] = [kind |-> "lists", parts |-> {part}, seen |-> None]]
    /\ app' = IF app.page = "admin" THEN [app EXCEPT !.wait = @ \cup {s}] ELSE app
    /\ UNCHANGED <<loc, quiz>>

updateUserRole ==
    /\ app.page = "admin"
    /\ ActsOnPage
    /\ call' = [call EXCEPT ![Slot] = [kind |-> "role"]]
    /\ UNCHANGED <<loc, app, token, me, quiz, dialog, entry>>

RoleAnswer(s) ==
    /\ Answered(s, "role")
    /\ Ends(s) \/ Reload(s, "users")
    /\ UNCHANGED <<token, me, entry, made, kept, listed, lapses>>
-----------------------------------------------------------------------------
(* Dialogs *)

Opens(kind, c) ==
    /\ ActsOnPage
    /\ dialog' = [kind |-> kind, id |-> c]
    /\ UNCHANGED <<loc, app, token, me, quiz, call, entry>>

showModal ==
    \/ app.page = "admin" /\ Opens("createContest", None)
    \/ OnContestPage /\ \E k \in Adders : Opens(k, app.id)

openEditContestModal == OnContestPage /\ Opens("editContest", app.id)
openEditQuestionModal == OnContestPage /\ Opens("editQuestion", app.id)
openEditOptionModal == OnContestPage /\ Opens("editOption", app.id)
openAddOptionModal == OnContestPage /\ Opens("addOption", app.id)

closeModal ==
    /\ dialog # None
    /\ Acts
    /\ dialog' = None
    /\ UNCHANGED <<loc, app, token, me, quiz, call, entry>>

\* The form is read and posted; a form that is not filled in is only a toast.
SaveDialog ==
    /\ dialog # None
    /\ Acts
    /\ call' = [call EXCEPT ![Slot] =
           [kind |-> "dialog", op |-> dialog.kind, id |-> dialog.id]]
    /\ UNCHANGED <<loc, app, token, me, quiz, dialog, entry>>

\* renderAdminContestPage called directly: no spinner, no look at the location.
RenderContest(s) ==
    LET page == renderAdminContestPage(call[s].id, me)
    IN  /\ call' = [call EXCEPT ![s] = page.call]
        /\ app' = IF page.call = Idle THEN page.screen ELSE app
        /\ UNCHANGED <<loc, quiz>>

Saved(s, ops) == call[s].kind = "dialog" /\ call[s].op \in ops

Refused(s) == Ends(s) /\ UNCHANGED dialog

\* An edit closes whatever dialog is open by then and renders its contest.
EditorAnswer(s) ==
    /\ Saved(s, Editors)
    /\ \/ dialog' = None /\ RenderContest(s)
       \/ Refused(s)
    /\ UNCHANGED <<token, me, entry, clicks, hurry, made, kept, listed, lapses>>

\* A new question or prize renders its contest on any page of a contest.
AdderAnswer(s) ==
    /\ Saved(s, Adders)
    /\ \/ /\ dialog' = None
          /\ IF loc.page = "adminContest" THEN RenderContest(s) ELSE Ends(s)
       \/ Refused(s)
    /\ UNCHANGED <<token, me, entry, clicks, hurry, made, kept, listed, lapses>>

\* Mutant: the cached lists are left alone.
CreatedUncleared == made' = made + 1 /\ UNCHANGED kept /\ lapses' = {}

\* At the server: the INSERT, then the clearing of the cached lists.
Created == made' = made + 1 /\ kept' = None /\ lapses' = {}

\* A create that is answered with an error came to nothing, lost its answer, or
\* failed to clear the cached lists.
CreateFailed ==
    \/ UNCHANGED <<made, kept, lapses>>
    \/ Created
    \/ /\ made' = made + 1
       /\ UNCHANGED kept
       /\ lapses' = IF kept = None THEN lapses ELSE lapses \cup {"clearing"}

\* Mutant: nothing is loaded again after a create.
CreateAnswerOnly(s) ==
    /\ Saved(s, {"createContest"})
    /\ \/ dialog' = None /\ Created
       \/ UNCHANGED dialog /\ CreateFailed
    /\ Ends(s)
    /\ UNCHANGED <<token, me, entry, clicks, hurry, listed>>

\* The list is loaded again whether or not the contest was created.
CreateAnswer(s) ==
    /\ Saved(s, {"createContest"})
    /\ \/ dialog' = None /\ Created
       \/ UNCHANGED dialog /\ CreateFailed
    /\ Reload(s, "contests")
    /\ UNCHANGED <<token, me, entry, clicks, hurry, listed>>
-----------------------------------------------------------------------------
(* The page of one contest *)

\* Mutant: an error of one of the three calls is not shown.
AdminContestUncaught(s) ==
    /\ Answered(s, "adminContest")
    /\ Paints(s, Screen("adminContest", call[s].id, "ready")) \/ Ends(s)
    /\ UNCHANGED <<token, me, entry, made, kept, listed, lapses>>

AdminContestAnswer(s) ==
    /\ Answered(s, "adminContest")
    /\ \E v \in {"ready", "error"} : Paints(s, Screen("adminContest", call[s].id, v))
    /\ UNCHANGED <<token, me, entry, made, kept, listed, lapses>>

\* Delete a question, an option or a prize, once the user has confirmed.
deletePart ==
    /\ OnContestPage
    /\ ActsOnPage
    /\ call' = [call EXCEPT ![Slot] = [kind |-> "remove", id |-> app.id]]
    /\ UNCHANGED <<loc, app, token, me, quiz, dialog, entry>>

DeletePartAnswer(s) ==
    /\ Answered(s, "remove")
    /\ RenderContest(s) \/ Ends(s)
    /\ UNCHANGED <<token, me, entry, made, kept, listed, lapses>>

deleteContest ==
    /\ OnContestPage
    /\ ActsOnPage
    /\ call' = [call EXCEPT ![Slot] = [kind |-> "deleteContest", id |-> app.id]]
    /\ UNCHANGED <<loc, app, token, me, quiz, dialog, entry>>

\* Mutant: the panel is rendered without going to its location.
DeleteContestInPlace(s) ==
    /\ Answered(s, "deleteContest")
    /\ \/ LET page == renderAdminPage(s, me)
          IN  /\ call' = [call EXCEPT ![s] = page.call]
              /\ app' = page.screen
              /\ UNCHANGED <<loc, quiz>>
       \/ Ends(s)
    /\ UNCHANGED <<token, me, entry, made, kept, listed, lapses>>

DeleteContestAnswer(s) ==
    /\ Answered(s, "deleteContest")
    /\ renderCurrentRoute(At("admin"), s, token, me) \/ Ends(s)
    /\ UNCHANGED <<token, me, entry, made, kept, listed, lapses>>
-----------------------------------------------------------------------------
AInit == Init /\ made = 0 /\ kept = None /\ listed = 0 /\ lapses = {}

Administers ==
    \/ updateUserRole
    \/ showModal
    \/ openEditContestModal
    \/ openEditQuestionModal
    \/ openEditOptionModal
    \/ openAddOptionModal
    \/ closeModal
    \/ SaveDialog
    \/ deletePart
    \/ deleteContest

AAnswers(s) ==
    \/ Answers(s) /\ Unrelated
    \/ ListsRead(s)
    \/ ListsAnswer(s)
    \/ RoleAnswer(s)
    \/ EditorAnswer(s)
    \/ AdderAnswer(s)
    \/ CreateAnswer(s)
    \/ AdminContestAnswer(s)
    \/ DeletePartAnswer(s)
    \/ DeleteContestAnswer(s)

ANext ==
    \/ Acting /\ Unrelated
    \/ Administers /\ Unrelated
    \/ \E s \in Calls : AAnswers(s)
    \/ CacheMoves

ASpec == AInit /\ [][ANext]_avars

AFairSpec == ASpec /\ \A s \in Calls : WF_avars(AAnswers(s))
-----------------------------------------------------------------------------
(* Properties *)

\* A dialog edits the contest that is on the screen, unless the user left its
\* page by Back, which keeps the overlay, or while something was in flight.
DialogOverItsPage ==
    dialog # None /\ "page" \notin hurry =>
        IF dialog.kind = "createContest" THEN app.page = "admin"
        ELSE app.page = "adminContest" /\ app.id = dialog.id

\* The admin panel ends up with the first page of the contests with every one that
\* was created here, whatever was in the cache before.  Not if the user created one
\* while the list was being loaded, or left while it was being created: the older
\* answer may come last.  And not if the cache fell behind by a clearing that failed
\* or a late store.
ListIsCurrent ==
    app.page = "admin" /\ app.wait = {} /\ {"page", "list"} \cap hurry = {} /\ lapses = {}
    /\ (\A s \in Calls : ~Saved(s, {"createContest"})) => listed \in {made, None}
=============================================================================
