----------------------------- MODULE OfflineDrafts -----------------------------
(***************************************************************************)
(* The expense form and the offline draft queue of the PWA                 *)
(* (src/static/js/app.js): handleExpenseSubmit, the IndexedDB store of     *)
(* drafts, syncAllPendingDrafts and syncSingleDraft.  JavaScript tasks     *)
(* interleave at every await.  The server's submit endpoint takes no       *)
(* idempotency key: each request it processes is a new approval request.   *)
(* The network loses requests and responses, the browser's storage can     *)
(* fail, and the page can be closed.                                       *)
(***************************************************************************)
EXTENDS Naturals, FiniteSets

CONSTANTS
  Expenses,    \* what users enter, each once
  Syncs,       \* sync tasks that may run at the same time
  MaxCopies    \* bound: requests the server takes for one expense

VARIABLES
  online,      \* state.isOnline
  form,        \* progress of handleExpenseSubmit for each expense
  drafts,      \* the object store expense_drafts
  shown,       \* state.offlineDrafts, the copy the buttons work on
  tasks,       \* running syncs: drafts left and the one in hand
  server,      \* approval requests created, per expense
  discarded,   \* history: drafts the user discarded
  doubtful     \* history: expenses with a lost answer or two syncs at once

draftVars ==
  <<online, form, drafts, shown, tasks, server, discarded, doubtful>>

-----------------------------------------------------------------------------

NoTask == [at |-> "idle"]

DraftsInit ==
  /\ online \in BOOLEAN
  /\ form = [e \in Expenses |-> "blank"]
  /\ drafts = {}
  /\ shown = {}
  /\ tasks = [s \in Syncs |-> NoTask]
  /\ server = [e \in Expenses |-> 0]
  /\ discarded = {}
  /\ doubtful = {}

InHand(s) ==
  IF tasks[s].at \in {"send", "delete"} THEN tasks[s].left \cup {tasks[s].draft} ELSE {}

\* The server takes the request of e.
Take(e) ==
  /\ server[e] < MaxCopies
  /\ server' = [server EXCEPT ![e] = @ + 1]

-----------------------------------------------------------------------------
(* The form *)

\* Offline: the payload is saved as a draft.  Online: it is sent.
SubmitForm(e) ==
  /\ form[e] = "blank"
  /\ form' = [form EXCEPT ![e] = IF online THEN "sending" ELSE "saving"]
  /\ UNCHANGED <<online, drafts, shown, tasks, server, discarded, doubtful>>

FormSent(e) ==
  /\ form[e] = "sending"
  /\ Take(e)
  /\ form' = [form EXCEPT ![e] = "done"]
  /\ UNCHANGED <<online, drafts, shown, tasks, discarded, doubtful>>

\* The catch branch: the server refused, or the request never arrived, or
\* only the response was lost.
FormFailed(e) ==
  /\ form[e] = "sending"
  /\ form' = [form EXCEPT ![e] = "saving"]
  /\ \/ UNCHANGED <<server, doubtful>>
     \/ Take(e) /\ doubtful' = doubtful \cup {e}
  /\ UNCHANGED <<online, drafts, shown, tasks, discarded>>

SaveDraft(e) ==
  /\ form[e] = "saving"
  /\ drafts' = drafts \cup {e}
  /\ form' = [form EXCEPT ![e] = "done"]
  /\ UNCHANGED <<online, shown, tasks, server, discarded, doubtful>>

\* The browser refuses the write and the handler ends with a rejected promise.
SaveFails(e) ==
  /\ form[e] = "saving"
  /\ form' = [form EXCEPT ![e] = "abandoned"]
  /\ UNCHANGED <<online, drafts, shown, tasks, server, discarded, doubtful>>

-----------------------------------------------------------------------------
(* Synchronisation *)

\* Both syncs work through drafts they read before: the whole store, or one
\* entry of the list on the screen.
WorkOn(s, batch) ==
  /\ \E e \in batch :
       tasks' = [tasks EXCEPT ![s] =
         [at |-> "send", draft |-> e, left |-> batch \ {e}]]
  /\ doubtful' = doubtful
       \cup {e \in batch : e \notin drafts \/ \E r \in Syncs : e \in InHand(r)}

\* syncAllPendingDrafts, from its buttons, up to the await of the store.
SyncAll(s) ==
  /\ tasks[s] = NoTask
  /\ online
  /\ tasks' = [tasks EXCEPT ![s] = [at |-> "list"]]
  /\ UNCHANGED <<online, form, drafts, shown, server, discarded, doubtful>>

\* Without drafts, and after a failed read (answered with none), nothing is done.
ListDrafts(s) ==
  /\ tasks[s].at = "list"
  /\ \/ WorkOn(s, drafts)
     \/ /\ tasks' = [tasks EXCEPT ![s] = NoTask]
        /\ UNCHANGED doubtful
  /\ UNCHANGED <<online, form, drafts, shown, server, discarded>>

SyncSingle(s) ==
  /\ tasks[s] = NoTask
  /\ \E e \in shown : WorkOn(s, {e})
  /\ UNCHANGED <<online, form, drafts, shown, server, discarded>>

\* The rest of the loop: the next draft, or the end.
NextDraft(s) ==
  \/ /\ tasks[s].left = {}
     /\ tasks' = [tasks EXCEPT ![s] = NoTask]
  \/ \E e \in tasks[s].left :
       tasks' = [tasks EXCEPT ![s] =
         [at |-> "send", draft |-> e, left |-> tasks[s].left \ {e}]]

SyncSent(s) ==
  /\ tasks[s].at = "send"
  /\ Take(tasks[s].draft)
  /\ tasks' = [tasks EXCEPT ![s].at = "delete"]
  /\ UNCHANGED <<online, form, drafts, shown, discarded, doubtful>>

\* Mutant: the draft is deleted whether or not the submission succeeded.
SyncFailedDeletes(s) ==
  /\ tasks[s].at = "send"
  /\ NextDraft(s)
  /\ drafts' = drafts \ {tasks[s].draft}
  /\ UNCHANGED <<online, form, shown, server, discarded, doubtful>>

\* The catch branch: the draft stays for a later sync.
SyncFailed(s) ==
  /\ tasks[s].at = "send"
  /\ NextDraft(s)
  /\ \/ UNCHANGED <<server, doubtful>>
     \/ Take(tasks[s].draft) /\ doubtful' = doubtful \cup {tasks[s].draft}
  /\ UNCHANGED <<online, form, drafts, shown, discarded>>

\* Mutant: the draft is kept after it was submitted.
SyncKeeps(s) ==
  /\ tasks[s].at = "delete"
  /\ NextDraft(s)
  /\ UNCHANGED <<online, form, drafts, shown, server, discarded, doubtful>>

\* deleteOfflineDraft, once the server has answered.
SyncDelete(s) ==
  /\ tasks[s].at = "delete"
  /\ drafts' = drafts \ {tasks[s].draft}
  /\ NextDraft(s)
  /\ UNCHANGED <<online, form, shown, server, discarded, doubtful>>

\* The browser refuses the deletion: the catch branch goes on.
DeleteFails(s) ==
  /\ tasks[s].at = "delete"
  /\ NextDraft(s)
  /\ doubtful' = doubtful \cup {tasks[s].draft}
  /\ UNCHANGED <<online, form, drafts, shown, server, discarded>>

-----------------------------------------------------------------------------
(* The page *)

\* loadOfflineDrafts runs on its own after every save and delete; a failed
\* read shows none.
LoadDrafts ==
  /\ shown' \in {drafts, {}}
  /\ shown' # shown
  /\ UNCHANGED <<online, form, drafts, tasks, server, discarded, doubtful>>

DiscardDraft(e) ==
  /\ e \in shown
  /\ drafts' = drafts \ {e}
  /\ discarded' = discarded \cup {e}
  /\ UNCHANGED <<online, form, shown, tasks, server, doubtful>>

\* The online event, whose handler starts a sync.
GoOnline(s) ==
  /\ ~online
  /\ tasks[s] = NoTask
  /\ online' = TRUE
  /\ tasks' = [tasks EXCEPT ![s] = [at |-> "list"]]
  /\ UNCHANGED <<form, drafts, shown, server, discarded, doubtful>>

GoOffline ==
  /\ online
  /\ online' = FALSE
  /\ UNCHANGED <<form, drafts, shown, tasks, server, discarded, doubtful>>

\* The page is closed and opened again: tasks and forms end where they are;
\* a sync that had its answer but had not deleted the draft leaves a doubt.
ClosePage ==
  /\ tasks' = [s \in Syncs |-> NoTask]
  /\ form' = [e \in Expenses |->
       IF form[e] \in {"sending", "saving"} THEN "abandoned" ELSE form[e]]
  /\ doubtful' = doubtful
       \cup {tasks[s].draft : s \in {r \in Syncs : tasks[r].at = "delete"}}
  /\ shown' = {}
  /\ UNCHANGED <<online, drafts, server, discarded>>

DraftsNext ==
  \/ \E e \in Expenses :
       SubmitForm(e) \/ FormSent(e) \/ FormFailed(e) \/ SaveDraft(e)
         \/ SaveFails(e) \/ DiscardDraft(e)
  \/ \E s \in Syncs :
       GoOnline(s) \/ SyncAll(s) \/ ListDrafts(s) \/ SyncSingle(s) \/ SyncSent(s)
         \/ SyncFailed(s) \/ SyncDelete(s) \/ DeleteFails(s)
  \/ LoadDrafts
  \/ GoOffline
  \/ ClosePage

DraftsSpec == DraftsInit /\ [][DraftsNext]_draftVars

-----------------------------------------------------------------------------
(* Properties *)

\* An expense whose form handler finished is at the server, or is a draft
\* that a later sync will send, unless the user discarded it.
SubmissionKept ==
  \A e \in Expenses :
    form[e] = "done" => server[e] > 0 \/ e \in drafts \cup discarded

\* The server holds an expense at most once unless an answer was lost, the
\* draft could not be deleted, the page was closed between answer and
\* deletion, or two syncs (or a button on an outdated list) had the same
\* draft in hand.
SubmittedOnce == \A e \in Expenses : server[e] > 1 => e \in doubtful

=============================================================================
