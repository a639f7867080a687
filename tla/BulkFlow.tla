------------------------------- MODULE BulkFlow -------------------------------
(***************************************************************************)
(* A bulk action on the orders page, from the tick boxes to the toast: the *)
(* selection that outlives pages and filters, the action bar, the confirm  *)
(* dialog with its POST, and the jobs it starts, followed by JobToasts.    *)
(*                                                                         *)
(* The dialog covers the page for the pointer only: nothing keeps the      *)
(* keyboard in it, so that the selection can be changed behind it.  An     *)
(* action is told apart from none; a POST and the job it makes have one    *)
(* name.  MaxActs bounds the user's acts, MaxLeaves how often the page is  *)
(* left.                                                                   *)
(***************************************************************************)
EXTENDS JobToasts

CONSTANTS Ids, Pages,  \* the orders, and what a page of the list shows of them
          BULK_MAX_BATCH, MaxActs, MaxLeaves

ASSUME SelectionAssumption ==
    /\ IsFiniteSet(Ids) /\ Pages \subseteq SUBSET Ids /\ None \notin Jobs
    /\ BULK_MAX_BATCH \in Nat /\ MaxActs \in Nat /\ MaxLeaves \in Nat

VARIABLES
    onPage,    \* the orders page is mounted
    pageIds,   \* the rows it shows
    selected,  \* the selection
    pending,   \* pendingAction is set
    busy,      \* the POST the dialog on screen waits for, or None
    post,      \* where each POST is
    body,      \* body[j]: the ids it sent
    mine,      \* the POSTs sent from the page as it is mounted now
    acts, leaves,
    \* history
    seen,      \* the selection the dialog was opened for
    behind     \* the page was used behind the dialog

screen == <<onPage, pageIds, selected, pending, busy, seen, behind>>
posts == <<post, body, mine>>
flowVars == <<screen, posts, acts, leaves>>
vars == <<jobVars, flowVars>>

FlowTypeOK ==
    /\ JobsTypeOK
    /\ onPage \in BOOLEAN /\ pageIds \in Pages /\ selected \subseteq Ids
    /\ pending \in BOOLEAN /\ busy \in Jobs \cup {None}
    /\ post \in [Jobs -> {"unused", "sent", "accepted", "answered", "failed"}]
    /\ body \in [Jobs -> SUBSET Ids] /\ mine \subseteq Jobs
    /\ acts \in 0 .. MaxActs /\ leaves \in 0 .. MaxLeaves
    /\ seen \subseteq Ids /\ behind \in BOOLEAN

FlowInit ==
        /\ JobsInit
        /\ onPage = TRUE /\ pageIds \in Pages /\ selected = {}
        /\ pending = FALSE /\ busy = None
        /\ post = [j \in Jobs |-> "unused"] /\ body = [j \in Jobs |-> {}] /\ mine = {}
        /\ acts = 0 /\ leaves = 0
        /\ seen = {} /\ behind = FALSE

-----------------------------------------------------------------------------
(* The page.                                                               *)

(* The bar and its dialog are there only while something is selected;      *)
(* pendingAction is the bar's, and stays.                                  *)
Bar == onPage /\ selected # {}
Dialog == Bar /\ pending

Act == /\ onPage /\ acts < MaxActs /\ acts' = acts + 1
       /\ behind' = (behind \/ Dialog)

(* The dialog loses its mutation when it is unmounted, and the mutation    *)
(* goes on.                                                                *)
Select(S) ==
    /\ selected' = S
    /\ busy' = IF S = {} THEN None ELSE busy
    /\ UNCHANGED <<onPage, pageIds, pending, seen, posts, leaves, jobVars>>

ToggleRow ==
    \E i \in pageIds : Act /\ Select(IF i \in selected THEN selected \ {i} ELSE selected \cup {i})

(* The head's box: all rows of the page, or none once all are selected.    *)
allOnPageSelected == pageIds \subseteq selected
ToggleHeader ==
    /\ pageIds # {} /\ Act
    /\ Select(IF allOnPageSelected THEN selected \ pageIds ELSE selected \cup pageIds)

ClearSelection == Bar /\ Act /\ Select({})

TurnPage ==
    /\ Act /\ pageIds' \in Pages \ {pageIds}
    /\ UNCHANGED <<onPage, selected, pending, busy, seen, posts, leaves, jobVars>>

overCap == Cardinality(selected) > BULK_MAX_BATCH

(* Approve, Reject or Flag.                                                *)
OpenDialog ==
    /\ Bar /\ ~overCap /\ Act
    /\ pending' = TRUE /\ seen' = selected
    /\ UNCHANGED <<onPage, pageIds, selected, busy, posts, leaves, jobVars>>

-----------------------------------------------------------------------------
(* The dialog.                                                             *)

Closable_Always == TRUE
Closable == busy = None

(* Escape, the backdrop or Cancel: none of them while the POST is pending. *)
CloseDialog ==
    /\ Dialog /\ Closable
    /\ pending' = FALSE
    /\ UNCHANGED <<onPage, pageIds, selected, busy, seen, behind, posts, acts, leaves, jobVars>>

Disabled_WhenEmpty == selected = {} \/ overCap
Disabled == busy # None \/ selected = {} \/ overCap

Confirm(j) ==
    /\ Dialog /\ ~Disabled
    /\ post[j] = "unused"
    /\ post' = [post EXCEPT ![j] = "sent"]
    /\ body' = [body EXCEPT ![j] = selected]
    /\ mine' = mine \cup {j} /\ busy' = j
    /\ UNCHANGED <<onPage, pageIds, selected, pending, seen, behind, acts, leaves, jobVars>>

Accept(j) ==
    /\ post[j] = "sent"
    /\ post' = [post EXCEPT ![j] = "accepted"]
    /\ job' = [job EXCEPT ![j] = "processing"]
    /\ UNCHANGED <<toastVars, streamVars, settled, overturned, failures, screen,
                   body, mine, acts, leaves>>

(* onSuccess: the dialog closes, the selection is cleared and the job gets *)
(* its toast; of a page that is gone nothing is left to change.            *)
PostAnswered(j) ==
    /\ post[j] = "accepted"
    /\ post' = [post EXCEPT ![j] = "answered"]
    /\ IF j \in mine
       THEN /\ pending' = FALSE /\ selected' = {} /\ busy' = None
            /\ Mount(j) /\ UNCHANGED serverVars
       ELSE UNCHANGED <<pending, selected, busy, jobVars>>
    /\ UNCHANGED <<onPage, pageIds, seen, behind, body, mine, acts, leaves>>

(* Refused, or the answer is lost: the dialog stays, with the error.       *)
PostFails(j) ==
    /\ post[j] \in {"sent", "accepted"}
    /\ failures < MaxFailures /\ failures' = failures + 1
    /\ post' = [post EXCEPT ![j] = "failed"]
    /\ busy' = IF busy = j THEN None ELSE busy
    /\ UNCHANGED <<toastVars, streamVars, serverVars, onPage, pageIds, selected, pending,
                   seen, behind, body, mine, acts, leaves>>

-----------------------------------------------------------------------------
(* The page is left, by the browser's Back too, and comes back empty.      *)
LeaveOrders ==
    /\ onPage /\ leaves < MaxLeaves /\ leaves' = leaves + 1
    /\ onPage' = FALSE /\ selected' = {} /\ pending' = FALSE /\ busy' = None /\ mine' = {}
    /\ behind' = FALSE
    /\ Unmount(active)
    /\ UNCHANGED <<pageIds, seen, post, body, acts>>

Return ==
    /\ ~onPage /\ onPage' = TRUE
    /\ UNCHANGED <<pageIds, selected, pending, busy, seen, behind, posts, acts, leaves, jobVars>>

FollowJobs == (\E j \in Jobs : ToastStep(j)) \/ Connect \/ Drop

FlowNext ==
    \/ ToggleRow \/ ToggleHeader \/ ClearSelection \/ TurnPage
    \/ OpenDialog \/ CloseDialog
    \/ \E j \in Jobs : Confirm(j) \/ Accept(j) \/ PostAnswered(j) \/ PostFails(j)
    \/ LeaveOrders \/ Return
    \/ FollowJobs /\ UNCHANGED flowVars

FlowSpec == FlowInit /\ [][FlowNext]_vars

-----------------------------------------------------------------------------
InFlight == {j \in mine : post[j] \in {"sent", "accepted"}}

(* What is confirmed is what the dialog was opened for, within the cap,    *)
(* and it is confirmed once: no second POST can be sent while one is       *)
(* pending, and no selection of another page of the list gets into it.     *)
(* Not so once the keyboard was used behind the dialog.                    *)
SubmittedAsSeen ==
    behind \/ \A j \in InFlight : /\ InFlight = {j}
                                  /\ body[j] = seen /\ Cardinality(body[j]) \in 1 .. BULK_MAX_BATCH

(* The answer to a POST takes nothing from the selection that was not      *)
(* submitted; with the keyboard behind the dialog ticks made while it was  *)
(* pending are lost, and not submitted either.                             *)
SelectionNotLost ==
    [][\A j \in Jobs : post[j] = "accepted" /\ post'[j] = "answered" =>
          behind \/ selected \ selected' \subseteq body[j]]_vars
==============================================================================
