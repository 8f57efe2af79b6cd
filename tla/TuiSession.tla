---------------------------- MODULE TuiSession ----------------------------
(***************************************************************************)
(* The event loop of the terminal front end (forensis-tui/src/main.rs) and *)
(* the thread that investigates an image for it.  Every turn of the loop   *)
(* first looks into the slot the thread answers through and then handles   *)
(* at most one key, in the current mode.                                   *)
(***************************************************************************)
EXTENDS Integers, Sequences, FiniteSets

CONSTANTS Images,        \* evidence sources the user may select
          Supported,     \* those whose investigation yields a forensic model
          Candidates,    \* Candidates[image][filter]: recoverable objects, a row a name
          None,          \* Option::None
          MaxResults,    \* bound on the recoveries tried in one session
          Panics         \* TRUE: the investigating thread may panic

Filters == {"Normal", "Deleted", "All"}

ASSUME TuiAssumption ==
  /\ None \notin Images
  /\ Supported \subseteq Images
  /\ Candidates \in [Images -> [Filters -> Seq([id : Nat, name : Nat])]]
  /\ MaxResults \in Nat
  /\ Panics \in BOOLEAN

VARIABLES phase,    \* "poll": about to look for an answer; "key": reading input
          mode,     \* AppState::source_mode
          focus,    \* AppState::focus
          browser,  \* AppState::browser is Some
          result,   \* the image of AppState::result
          recovery, \* AppState::recovery
          pending,  \* the image of AppState::pending_investigation
          thread,   \* the investigating thread
          slot,     \* PendingInvestigation::result
          confirm,  \* AppState::confirm_exit
          app       \* "running", "quitting" once run_app returns, "exited"

ui == <<mode, focus, browser>>
work == <<result, recovery>>
investigation == <<pending, thread, slot>>
sessionVars == <<phase, ui, work, investigation, confirm, app>>

RecoveryModes == {"Recovery", "RecoveryDetails", "RecoverySave"}
Modes == {"Selecting", "Browsing", "Inspecting", "RecoveryCategory"} \cup RecoveryModes

NoRecovery == [image |-> None]

(* A name is its place in the order of lower-case names. *)
Item(object) == [id |-> object.id, name |-> object.name,
                 status |-> "Pending", resultIndex |-> 0]
Items(image, filter) ==
  [k \in DOMAIN Candidates[image][filter] |-> Item(Candidates[image][filter][k])]

NewRecovery(image, filter) ==
  [image |-> image, filter |-> filter, candidates |-> Items(image, filter),
   selectedIds |-> {}, results |-> << >>, selected |-> 1,
   outputDir |-> "none", saved |-> FALSE]

SessionInit ==
  /\ phase = "poll"
  /\ browser = FALSE
  /\ recovery = NoRecovery
  /\ pending = None /\ thread = "none" /\ slot = "empty"
  /\ confirm = FALSE
  /\ app = "running"
  /\ \/ mode = "Selecting" /\ focus = "Sources" /\ result = None
     \/ mode = "Inspecting" /\ focus = "Filesystem" /\ result \in Images

-----------------------------------------------------------------------------
(* The investigating thread.                                               *)

Investigate ==
  /\ thread = "running"
  /\ thread' = "finished"
  /\ slot' \in {"ok", "err"}
  /\ UNCHANGED <<phase, ui, work, pending, confirm, app>>

(* A panic ends the thread with the slot still empty. *)
InvestigatorPanics ==
  /\ Panics
  /\ thread = "running"
  /\ thread' = "finished"
  /\ UNCHANGED <<phase, ui, work, pending, slot, confirm, app>>

-----------------------------------------------------------------------------
(* The first half of a turn: take the answer, if there is one.             *)

(* Mutant: the mode is left alone. *)
LoadResult_KeepsMode(image) ==
  /\ result' = image
  /\ focus' = "Filesystem"
  /\ browser' = FALSE
  /\ recovery' = NoRecovery
  /\ UNCHANGED mode

(* Mutant: the running recovery survives. *)
LoadResult_KeepsRecovery(image) ==
  /\ result' = image
  /\ mode' = "Inspecting"
  /\ focus' = "Filesystem"
  /\ browser' = FALSE
  /\ UNCHANGED recovery

LoadResult(image) ==
  /\ result' = image
  /\ mode' = "Inspecting"
  /\ focus' = "Filesystem"
  /\ browser' = FALSE
  /\ recovery' = NoRecovery

(* Mutant: a failed investigation is not taken out of the slot. *)
Poll_IgnoresErrors ==
  /\ app = "running" /\ phase = "poll"
  /\ phase' = "key"
  /\ IF pending # None /\ slot = "ok"
       THEN /\ pending' = None /\ thread' = "none" /\ slot' = "empty"
            /\ LoadResult(pending)
       ELSE UNCHANGED <<ui, work, investigation>>
  /\ UNCHANGED <<confirm, app>>

Poll ==
  /\ app = "running" /\ phase = "poll"
  /\ phase' = "key"
  /\ IF pending # None /\ slot # "empty"
       THEN /\ pending' = None /\ thread' = "none" /\ slot' = "empty"
            /\ IF slot = "ok" THEN LoadResult(pending) ELSE UNCHANGED <<ui, work>>
       ELSE UNCHANGED <<ui, work, investigation>>
  /\ UNCHANGED <<confirm, app>>

-----------------------------------------------------------------------------
(* The second half: one key.                                               *)

Reading == app = "running" /\ phase = "key"
Done == phase' = "poll"
Key(modes) == Reading /\ ~confirm /\ mode \in modes /\ Done

(* No event within 250 ms, or a key without effect. *)
NoKey == /\ Reading /\ Done
         /\ UNCHANGED <<ui, work, investigation, confirm, app>>

RequestExit ==
  /\ Key(Modes)
  /\ confirm' = TRUE
  /\ UNCHANGED <<ui, work, investigation, app>>

DeclineExit ==
  /\ Reading /\ confirm /\ Done
  /\ confirm' = FALSE
  /\ UNCHANGED <<ui, work, investigation, app>>

ConfirmExit ==
  /\ Reading /\ confirm /\ Done
  /\ app' = "quitting"
  /\ UNCHANGED <<ui, work, investigation, confirm>>

(* Dropping the application state joins a thread that still runs. *)
Exit ==
  /\ app = "quitting"
  /\ thread # "running"
  /\ app' = "exited"
  /\ UNCHANGED <<phase, ui, work, investigation, confirm>>

(* The handlers that touch the file system return its errors, which end    *)
(* run_app without a question.                                             *)
HandlerError ==
  /\ \/ Key({"Selecting", "Browsing"})
     \/ Key({"Inspecting"}) /\ focus = "Sources"
     \/ Key({"Recovery"}) /\ recovery.selectedIds # {}
     \/ Key({"RecoverySave"})
  /\ app' = "quitting"
  /\ UNCHANGED <<ui, work, investigation, confirm>>

(* Sources. *)
ChoosingSource == \/ Key({"Selecting"})
                  \/ Key({"Inspecting"}) /\ focus = "Sources"

OpenBrowser ==
  /\ ChoosingSource
  /\ browser' = TRUE
  /\ mode' = "Browsing"
  /\ UNCHANGED <<focus, work, investigation, confirm, app>>

(* Mutant: a new investigation replaces the running one. *)
StartInvestigation_Replaces(image) ==
  /\ ChoosingSource \/ Key({"Browsing"})
  /\ pending' = image /\ thread' = "running" /\ slot' = "empty"
  /\ UNCHANGED <<ui, work, confirm, app>>

(* "Investigation already in progress": one at a time. *)
StartInvestigation(image) ==
  /\ ChoosingSource \/ Key({"Browsing"})
  /\ pending = None
  /\ pending' = image /\ thread' = "running" /\ slot' = "empty"
  /\ UNCHANGED <<ui, work, confirm, app>>

(* An investigation that is still running is not abandoned with it. *)
ClearInspection ==
  /\ Key({"Selecting", "Inspecting"})
  /\ result' = None /\ recovery' = NoRecovery
  /\ mode' = "Selecting" /\ focus' = "Sources"
  /\ UNCHANGED <<browser, investigation, confirm, app>>

LeaveBrowser ==
  /\ Key({"Browsing"})
  /\ browser' = FALSE
  /\ mode' = "Selecting" /\ focus' = "Sources"
  /\ UNCHANGED <<work, investigation, confirm, app>>

(* Inspection. *)
ToggleFocus ==
  /\ Key({"Inspecting"})
  /\ focus' = IF focus = "Sources" THEN "Filesystem" ELSE "Sources"
  /\ UNCHANGED <<mode, browser, work, investigation, confirm, app>>

OpenCategory ==
  /\ Key({"Inspecting"})
  /\ mode' = "RecoveryCategory"
  /\ UNCHANGED <<focus, browser, work, investigation, confirm, app>>

LeaveCategory ==
  /\ Key({"RecoveryCategory"})
  /\ mode' = "Inspecting"
  /\ UNCHANGED <<focus, browser, work, investigation, confirm, app>>

StartRecovery(filter) ==
  /\ Key({"RecoveryCategory"})
  /\ result \in Supported
  /\ recovery' = NewRecovery(result, filter)
  /\ mode' = "Recovery" /\ focus' = "Filesystem"
  /\ UNCHANGED <<browser, result, investigation, confirm, app>>

-----------------------------------------------------------------------------
(* Recovery.                                                               *)

RecoveryKey(modes) == Key(modes) /\ recovery # NoRecovery
OnlyRecovery == UNCHANGED <<ui, result, investigation, confirm, app>>

MoveCursor ==
  /\ RecoveryKey({"Recovery", "RecoveryDetails"})
  /\ \E k \in {recovery.selected - 1, recovery.selected + 1} \cap DOMAIN recovery.candidates :
       recovery' = [recovery EXCEPT !.selected = k]
  /\ OnlyRecovery

OnItem == recovery.selected \in DOMAIN recovery.candidates
SelectedItem == recovery.candidates[recovery.selected]
CandidateIds == {recovery.candidates[k].id : k \in DOMAIN recovery.candidates}

ToggleSelected ==
  /\ RecoveryKey({"Recovery"}) /\ OnItem
  /\ LET id == SelectedItem.id IN
       recovery' = [recovery EXCEPT !.selectedIds =
                      IF id \in @ THEN @ \ {id} ELSE @ \cup {id}]
  /\ OnlyRecovery

SelectAll ==
  /\ RecoveryKey({"Recovery"})
  /\ recovery' = [recovery EXCEPT !.selectedIds = CandidateIds]
  /\ OnlyRecovery

NextFilter == [Deleted |-> "Normal", Normal |-> "All", All |-> "Deleted"]

(* The results gathered so far stay, the candidates forget theirs. *)
CycleFilter ==
  /\ RecoveryKey({"Recovery"})
  /\ LET filter == NextFilter[recovery.filter] IN
       recovery' = [recovery EXCEPT !.filter = filter,
                                    !.candidates = Items(result, filter),
                                    !.selectedIds = {}, !.selected = 1]
  /\ OnlyRecovery

(* A stable sort by status and then by name. *)
Rank == [Recovered |-> 0, Failed |-> 1, Pending |-> 2]
RowsBefore(rows, j) ==
  {i \in DOMAIN rows :
     LET a == rows[i]
         b == rows[j]
     IN  \/ Rank[a.status] < Rank[b.status]
         \/ /\ Rank[a.status] = Rank[b.status]
            /\ a.name < b.name \/ (a.name = b.name /\ i < j)}
Sorted(rows) ==
  [k \in DOMAIN rows |->
     rows[CHOOSE j \in DOMAIN rows : 1 + Cardinality(RowsBefore(rows, j)) = k]]

(* Every selected object is tried, in the order of a hash set.  A file or  *)
(* a failure is a result; an engine or write error is none and leaves the  *)
(* object selected and pending.                                            *)
Answers == UNION {[S -> BOOLEAN] : S \in SUBSET recovery.selectedIds}

(* Mutant: the index counts from the latest recovery. *)
ResultIndex_OfBatch(old, order, id) == CHOOSE k \in DOMAIN order : order[k] = id

ResultIndex(old, order, id) == Len(old) + CHOOSE k \in DOMAIN order : order[k] = id

Orders(S) == {o \in [1..Cardinality(S) -> S] : \A x \in S : \E k \in DOMAIN o : o[k] = x}

(* An object with several names has several rows; the first takes the      *)
(* outcome.                                                                *)
IsFirstRow(rows, k) == \A j \in DOMAIN rows : rows[j].id = rows[k].id => k <= j

ResultsOf(ok, order) == [k \in DOMAIN order |-> [id |-> order[k], ok |-> ok[order[k]]]]

Updated(rows, old, order, ok) ==
  [k \in DOMAIN rows |->
     IF rows[k].id \in DOMAIN ok /\ IsFirstRow(rows, k)
       THEN [rows[k] EXCEPT !.status = IF ok[rows[k].id] THEN "Recovered" ELSE "Failed",
                            !.resultIndex = ResultIndex(old, order, rows[k].id)]
       ELSE rows[k]]

ExecuteSelected ==
  /\ RecoveryKey({"Recovery"})
  /\ recovery.selectedIds # {}
  /\ \E ok \in Answers : \E order \in Orders(DOMAIN ok) :
       /\ Len(recovery.results) + Len(order) <= MaxResults
       /\ recovery' = [recovery EXCEPT
            !.results = @ \o ResultsOf(ok, order),
            !.candidates = Sorted(Updated(@, recovery.results, order, ok)),
            !.selectedIds = @ \ DOMAIN ok,
            !.outputDir = "working"]
  /\ OnlyRecovery

OpenDetails ==
  /\ RecoveryKey({"Recovery"}) /\ OnItem
  /\ SelectedItem.status # "Pending"
  /\ mode' = "RecoveryDetails"
  /\ UNCHANGED <<focus, browser, work, investigation, confirm, app>>

OpenSave ==
  /\ RecoveryKey({"Recovery"})
  /\ mode' = "RecoverySave"
  /\ UNCHANGED <<focus, browser, work, investigation, confirm, app>>

BackToRecovery ==
  /\ Key({"RecoveryDetails", "RecoverySave"})
  /\ mode' = "Recovery"
  /\ UNCHANGED <<focus, browser, work, investigation, confirm, app>>

LeaveRecovery ==
  /\ Key({"Recovery"})
  /\ recovery' = NoRecovery
  /\ mode' = "Inspecting" /\ focus' = "Filesystem"
  /\ UNCHANGED <<browser, result, investigation, confirm, app>>

(* The final directory of a ticket exists from the first save on; a second *)
(* save is refused and the mode stays.                                     *)
SaveWork ==
  /\ RecoveryKey({"RecoverySave"})
  /\ IF recovery.saved
       THEN UNCHANGED <<mode, recovery>>
       ELSE /\ recovery' = [recovery EXCEPT !.outputDir = "final", !.saved = TRUE]
            /\ mode' = "Recovery"
  /\ UNCHANGED <<focus, browser, result, investigation, confirm, app>>

Handle == \/ RequestExit \/ DeclineExit \/ ConfirmExit \/ HandlerError
          \/ OpenBrowser \/ LeaveBrowser \/ ClearInspection
          \/ \E image \in Images : StartInvestigation(image)
          \/ ToggleFocus \/ OpenCategory \/ LeaveCategory
          \/ \E filter \in Filters : StartRecovery(filter)
          \/ MoveCursor \/ ToggleSelected \/ SelectAll \/ CycleFilter
          \/ ExecuteSelected \/ OpenDetails \/ OpenSave \/ BackToRecovery
          \/ LeaveRecovery \/ SaveWork

SessionNext == \/ Investigate \/ InvestigatorPanics
               \/ Poll \/ NoKey \/ Handle
               \/ Exit

SessionSpec == SessionInit /\ [][SessionNext]_sessionVars

(* The loop turns for ever: a turn waits at most 250 ms for a key.  The    *)
(* thread runs on its own, and joining it returns once it has ended.       *)
FairSpec == /\ SessionSpec
            /\ WF_sessionVars(Poll)
            /\ WF_sessionVars(NoKey \/ Handle)
            /\ WF_sessionVars(Investigate)
            /\ WF_sessionVars(Exit)

-----------------------------------------------------------------------------
Row == [id : Nat, name : Nat, status : {"Pending", "Recovered", "Failed"}, resultIndex : Nat]
RecoveryState ==
  [image : Images, filter : Filters, candidates : Seq(Row), selectedIds : SUBSET Nat,
   results : Seq([id : Nat, ok : BOOLEAN]), selected : Nat,
   outputDir : {"none", "working", "final"}, saved : BOOLEAN]

SessionTypeOK ==
  /\ phase \in {"poll", "key"}
  /\ mode \in Modes
  /\ focus \in {"Sources", "Filesystem"}
  /\ browser \in BOOLEAN
  /\ result \in Images \cup {None}
  /\ pending \in Images \cup {None}
  /\ thread \in {"none", "running", "finished"}
  /\ slot \in {"empty", "ok", "err"}
  /\ confirm \in BOOLEAN
  /\ app \in {"running", "quitting", "exited"}
  /\ recovery # NoRecovery =>
       /\ recovery \in RecoveryState
       /\ IF recovery.candidates = << >> THEN recovery.selected = 1
            ELSE recovery.selected \in DOMAIN recovery.candidates

(* A mode always finds the state it works on: the recovery modes and no    *)
(* other have a recovery, inspecting modes have a result, browsing has a   *)
(* browser, whatever arrives from the thread in between (load_result,      *)
(* clear_inspection).                                                      *)
ModeHasItsState ==
  /\ mode \in RecoveryModes <=> recovery # NoRecovery
  /\ mode \in RecoveryModes \cup {"Inspecting", "RecoveryCategory"} => result # None
  /\ mode = "Browsing" <=> browser

(* Candidates are recovered from the image they were listed from, even     *)
(* when another investigation ends while the user selects: recovery of     *)
(* object ids against another image would extract other evidence.          *)
RecoveryBelongsToResult ==
  recovery # NoRecovery => recovery.image = result

(* The thread is accounted for: it runs or has an answer in the slot only  *)
(* while an investigation is pending, so no answer is taken for another    *)
(* request.                                                                *)
AnswerBelongsToRequest ==
  pending = None => thread = "none" /\ slot = "empty"

(* The row of a recovered or failed object leads to the result of exactly  *)
(* that object, after any number of recoveries and re-sortings             *)
(* (execute_selected_recovery, sort_results).                              *)
RowsShowTheirResult ==
  recovery # NoRecovery =>
    \A k \in DOMAIN recovery.candidates :
      LET row == recovery.candidates[k] IN
        IF row.status = "Pending" THEN row.resultIndex = 0
        ELSE /\ row.resultIndex \in DOMAIN recovery.results
             /\ recovery.results[row.resultIndex]
                  = [id |-> row.id, ok |-> row.status = "Recovered"]

(* The selection never outlives the list it was made on. *)
SelectionIsListed ==
  recovery # NoRecovery => recovery.selectedIds \subseteq CandidateIds

(* What the recovery screen shows is what the session holds: every row     *)
(* leads to the outcome of its own object, and what is marked is listed.   *)
ViewShowsItsResult == RowsShowTheirResult /\ SelectionIsListed

(* An accepted investigation is not replaced or forgotten: it stays        *)
(* pending until its own answer is taken.                                  *)
AcceptedIsAnswered ==
  [][pending # None /\ pending' # pending
       => pending' = None /\ slot # "empty" /\ (slot = "ok" => result' = pending)]_sessionVars

(* Every accepted investigation is answered, unless its thread panicked    *)
(* (the slot then stays empty for ever) or the application ends.           *)
Panicked == thread = "finished" /\ slot = "empty"
InvestigationEnds ==
  pending # None ~> (pending = None \/ Panicked \/ app = "exited")

(* Quitting never hangs: it waits for the thread and then ends. *)
QuitEnds == app = "quitting" ~> app = "exited"

(* The event loop never waits for ever: not for an investigation it has    *)
(* accepted, and not when the user quits while one is running.             *)
LoopEnds == InvestigationEnds /\ QuitEnds
=============================================================================
