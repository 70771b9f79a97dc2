--------------------------------- MODULE Gui ---------------------------------
(***************************************************************************)
(* The graphical program (presentation/app.cpp): the frame loop of the UI  *)
(* thread, the catalog thread that loads, saves and imports one job at a   *)
(* time, and the thread that tokenizes the sample under the editor.        *)
(*                                                                         *)
(* A frame is a sequence of steps between which the other threads run: it  *)
(* takes the catalog thread's result, hands the mouse or the keyboard to   *)
(* at most one enabled control, takes the tokenizer's result, hands over a *)
(* sample whose debounce has ended, and draws the open dialog, where the   *)
(* user may act once more.  The dialogs are modal.  The catalog file is    *)
(* atomic, as Catalog shows of the code behind it, and nobody else changes *)
(* it here; the generator is a stub that starts, runs and ends.  Tokenizing *)
(* maps a text to a text (Renderer and PrepCache show how); the values of  *)
(* an item's test case go the same way as its sample and are left out.     *)
(* Indices count from zero as in the code.                                 *)
(***************************************************************************)
EXTENDS SampleIds, FiniteSets

CONSTANTS
  AsTokens,    \* what tokenizing makes of a text; doing it again may differ
  Samples,     \* what a user may type; "" is the empty editor
  Contents,    \* what the file may hold at first
  Imported,    \* the samples of the CSV file at hand, <<>> for a bad one
  Queries,     \* search texts; "" finds everything
  None,
  MaxItems, MaxClicks, MaxFaults   \* bounds: items, what the user does, faults

Texts == DOMAIN AsTokens

\* The lists of a catalog, and what the catalog thread answers.
Lists == Seq([id : [zeros : Nat, value : Int], sample : Texts])
Answers == [ok : BOOLEAN, replace : BOOLEAN, items : Lists, selected : Nat \cup {None}]

ASSUME GuiAssumption ==
  /\ AsTokens \in [Texts -> Texts]
  /\ "" \in Queries /\ "" \notin Samples /\ Samples \cup {""} \subseteq Texts
  /\ Contents \subseteq Lists /\ Imported \in Seq(Texts) /\ None \notin Answers
  /\ MaxItems \in Nat /\ MaxClicks \in Nat /\ MaxFaults \in Nat

VARIABLES
  file,      \* the catalog file
  view,      \* catalog_items_, selected_log_, filtered_indices_, search, rotate
  job,       \* catalog_loading_, and the catalog thread: what it does, where it is
  result,    \* pending_catalog_result_
  ready,     \* catalog_result_ready_
  editor,    \* the dialog that is open and the editor's fields
  tok,       \* what the UI and the tokenizer share
  worker,    \* the tokenizer thread
  ui,        \* the step of the frame
  gen,       \* the generator, the state the UI last saw, and a due refresh
  trace,     \* history: faults, and what the properties need to know
  clicks     \* how often the user has acted

vars == <<file, view, job, result, ready, editor, tok, worker, ui, gen, trace, clicks>>

Entry(id, sample) == [id |-> id, sample |-> sample]

\* tokenize_and_cache, of an item and of every item of a list.
tokenize(item) == [item EXCEPT !.sample = AsTokens[@]]
tokenized(items) == [i \in DOMAIN items |-> tokenize(items[i])]

\* rebuild_filter: the indices that match, and a selection among them if any.
matches(item, query) == query = "" \/ item.sample = query

rebuild_filter(v) ==
  LET found == {i \in 0..Len(v.items) - 1 : matches(v.items[i + 1], v.query)}
  IN  [v EXCEPT !.filtered = found,
                !.selected = IF found # {} /\ @ \notin found THEN Min(found) ELSE @]

clamp(index, items) == IF items = <<>> THEN 0 ELSE Min({index, Len(items) - 1})

visible_catalog_index ==
  IF view.items = <<>> THEN 0
  ELSE IF view.rotate /\ view.filtered # {} THEN Min(view.filtered)
  ELSE clamp(view.selected, view.items)

NoJob == [loading |-> FALSE, kind |-> "none", at |-> "none", items |-> <<>>]
Job(kind, items) == [loading |-> TRUE, kind |-> kind, at |-> "work", items |-> items]

Init ==
  /\ file \in Contents
  /\ view = [items |-> <<>>, selected |-> 0, filtered |-> {}, query |-> "", rotate |-> TRUE]
  /\ job = Job("load", <<>>)          \* request_catalog_load before the loop
  /\ result = None /\ ready = FALSE
  /\ editor = [popup |-> "none", is_new |-> FALSE, index |-> 0, sample |-> "",
               tokenized |-> None, revision |-> 0, pending |-> FALSE, delete |-> 0]
  /\ tok = [busy |-> FALSE, ready |-> FALSE, request |-> None, result |-> None]
  /\ worker = [at |-> "wait", work |-> None, newer |-> FALSE]
  /\ ui = "frame"
  /\ gen = [state |-> "idle", seen |-> "idle", due |-> TRUE]
  /\ trace = [faults |-> 0, apart |-> TRUE, overtaken |-> FALSE, error |-> FALSE]
  /\ clicks = 0

Frame(from, to) == ui = from /\ ui' = to

\* A fault is a failing disk, a bad file or an exception; they are counted.
Fault == trace.faults < MaxFaults

-----------------------------------------------------------------------------
(* The catalog thread.                                                     *)

Answer(ok, replace, items, selected) ==
  [ok |-> ok, replace |-> replace, items |-> items, selected |-> selected]

Finished(answer, apart) ==
  /\ result' = answer
  /\ job' = [job EXCEPT !.at = "ready"]
  /\ trace' = [trace EXCEPT !.apart = apart, !.faults = IF answer.ok THEN @ ELSE @ + 1]
  /\ UNCHANGED <<view, ready, editor, tok, worker, ui, gen>>

\* What is loaded is tokenized; the file keeps what it holds.
RunLoad ==
  /\ job.kind = "load" /\ job.at = "work"
  /\ \/ /\ validate_ids(file)
        /\ Finished(Answer(TRUE, TRUE, tokenized(file), None), FALSE)
     \/ /\ validate_ids(file) => Fault
        /\ Finished(Answer(FALSE, TRUE, <<>>, None), TRUE)
  /\ UNCHANGED file

\* What is saved is tokenized; the window keeps what it holds.
RunSave ==
  /\ job.kind = "save" /\ job.at = "work"
  /\ \/ /\ validate_ids(job.items)
        /\ file' = tokenized(job.items)
        /\ Finished(Answer(TRUE, FALSE, <<>>, None), FALSE)
     \/ /\ validate_ids(job.items) => Fault
        /\ UNCHANGED file
        /\ Finished(Answer(FALSE, FALSE, <<>>, None), TRUE)

\* The items at the time of the request, and one new one per sample; the
\* save tokenizes them all, the new ones again.
RunImport ==
  /\ job.kind = "import" /\ job.at = "work"
  /\ LET add(list, sample) == Append(list, tokenize(Entry(next_id(list), sample)))
         all == FoldLeft(add, job.items, Imported)
         fits == /\ Imported # <<>> /\ validate_ids(job.items)
                 /\ \A i \in DOMAIN all : all[i].id.value <= MaxId
     IN  \/ /\ fits
            /\ file' = tokenized(all)
            /\ Finished(Answer(TRUE, TRUE, all, Len(job.items)), FALSE)
         \/ /\ fits => Fault
            /\ UNCHANGED file
            /\ Finished(Answer(FALSE, TRUE, <<>>, None), TRUE)

JobReady ==
  /\ job.at = "ready"
  /\ ready' = TRUE
  /\ job' = [job EXCEPT !.at = "done"]
  /\ UNCHANGED <<file, view, result, editor, tok, worker, ui, gen, trace>>

\* catalog_loading_ is cleared last; a join waits for no more than that.
JobDone ==
  /\ job.at = "done"
  /\ job' = NoJob
  /\ UNCHANGED <<file, view, result, ready, editor, tok, worker, ui, gen, trace>>

CatalogThread == RunLoad \/ RunSave \/ RunImport \/ JobReady \/ JobDone

-----------------------------------------------------------------------------
(* A frame begins: apply_catalog_result and refresh_stats.                 *)

applied(v, r) ==
  rebuild_filter([v EXCEPT
    !.items = r.items,
    !.selected = IF r.selected # None /\ r.selected < Len(r.items)
                 THEN r.selected ELSE clamp(@, r.items)])

\* The snapshot is taken again when it is due, and now and then.
refresh_stats ==
  \E fresh \in BOOLEAN :
    /\ gen.due => fresh
    /\ gen' = IF fresh THEN [gen EXCEPT !.seen = gen.state, !.due = FALSE] ELSE gen

\* A save of the list that is replaced here is overtaken: it goes on.
apply_catalog_result ==
  /\ Frame("frame", "select")
  /\ ready' = FALSE
  /\ IF ready /\ result # None
     THEN /\ view' = IF result.ok /\ result.replace THEN applied(view, result) ELSE view
          /\ result' = None
          /\ trace' = [trace EXCEPT
               !.error = ~ result.ok,
               !.overtaken = IF result.ok /\ result.replace
                             THEN job.kind = "save" /\ job.at = "work" ELSE @]
     ELSE UNCHANGED <<view, result, trace>>
  /\ refresh_stats
  /\ UNCHANGED <<file, job, editor, tok, worker>>

-----------------------------------------------------------------------------
(* The controls of the main window, disabled under a dialog; those of the  *)
(* configuration also while a test is seen to run.                         *)

Nothing == Frame("select", "take") /\ UNCHANGED <<file, view, job, result, ready, editor, tok, worker, gen, trace>>

Configuring == ui = "select" /\ editor.popup = "none" /\ gen.seen = "idle"

\* Mutant: the buttons stay enabled.
CatalogButtonAlways == Configuring /\ ui' = "take"

\* The buttons that the catalog thread's work disables.
CatalogButton == Configuring /\ ~ job.loading /\ ui' = "take"

\* request_catalog_load, request_catalog_save, request_sample_log_import:
\* no second job while one is running, only an error.  A save writes the list
\* of the window.
Request(kind, items) ==
  /\ IF job.loading
     THEN /\ trace' = [trace EXCEPT !.error = @ \/ kind # "load"]
          /\ UNCHANGED job
     ELSE /\ job' = Job(kind, items)
          /\ trace' = [trace EXCEPT !.overtaken = @ /\ kind # "save", !.apart = TRUE,
                                    !.error = @ /\ kind # "import"]
  /\ UNCHANGED <<result, ready>>

Refresh ==
  /\ CatalogButton
  /\ Request("load", <<>>)
  /\ UNCHANGED <<file, view, editor, tok, worker, gen>>

\* mark_editor_sample_changed: what was tokenized belongs to the past.
changed(e) ==
  [e EXCEPT !.revision = @ + 1, !.tokenized = None, !.pending = (e.sample # "")]

open_new_catalog_editor ==
  /\ CatalogButton
  /\ editor' = changed([editor EXCEPT !.popup = "edit", !.is_new = TRUE,
                                      !.index = Len(view.items), !.sample = ""])
  /\ UNCHANGED <<file, view, job, result, ready, tok, worker, gen, trace>>

open_selected_catalog_editor ==
  /\ CatalogButton /\ view.items # <<>>
  /\ LET i == visible_catalog_index
     IN  editor' = changed([editor EXCEPT !.popup = "edit", !.is_new = FALSE, !.index = i,
                                          !.sample = view.items[i + 1].sample])
  /\ UNCHANGED <<file, view, job, result, ready, tok, worker, gen, trace>>

AskDelete ==
  /\ CatalogButton /\ view.items # <<>>
  /\ editor' = [editor EXCEPT !.popup = "delete", !.delete = visible_catalog_index]
  /\ UNCHANGED <<file, view, job, result, ready, tok, worker, gen, trace>>

open_sample_log_import ==
  /\ CatalogButton
  /\ editor' = [editor EXCEPT !.popup = "import"]
  /\ UNCHANGED <<file, view, job, result, ready, tok, worker, gen, trace>>

\* The search box, the rotation check box and the list of logs.
Select ==
  /\ Configuring /\ ui' = "take"
  /\ \/ \E q \in Queries : view' = rebuild_filter([view EXCEPT !.query = q])
     \/ view' = [view EXCEPT !.rotate = ~ @]
     \/ /\ ~ view.rotate /\ view.items # <<>>
        /\ \E i \in view.filtered : view' = [view EXCEPT !.selected = i]
  /\ UNCHANGED <<file, job, result, ready, editor, tok, worker, gen, trace>>

\* start_test: what is wrong with the fields throws and is shown.
templates ==
  IF view.rotate THEN {view.items[i + 1] : i \in view.filtered}
  ELSE {view.items[view.selected + 1]}

start_test ==
  /\ ui = "select" /\ editor.popup = "none" /\ gen.seen = "idle" /\ ui' = "take"
  /\ \/ /\ view.items # <<>> /\ templates # {}
        /\ gen' = [gen EXCEPT !.state = "active", !.due = TRUE]
        /\ trace' = [trace EXCEPT !.error = FALSE]
     \/ /\ trace' = [trace EXCEPT !.error = TRUE]
        /\ UNCHANGED gen
  /\ UNCHANGED <<file, view, job, result, ready, editor, tok, worker>>

request_stop ==
  /\ ui = "select" /\ editor.popup = "none" /\ gen.seen # "idle" /\ ui' = "take"
  /\ gen' = [gen EXCEPT !.state = IF @ = "active" THEN "stopping" ELSE @, !.due = TRUE]
  /\ UNCHANGED <<file, view, job, result, ready, editor, tok, worker, trace>>

\* External: the generator's own threads.
GeneratorEnds ==
  /\ gen.state # "idle"
  /\ gen' = [gen EXCEPT !.state = "idle"]
  /\ UNCHANGED <<file, view, job, result, ready, editor, tok, worker, ui, trace>>

-----------------------------------------------------------------------------
(* The editor and its tokenizer.                                           *)

\* apply_editor_tokenization_result, first the flag and then the lock.
TakeFlag ==
  /\ Frame("take", IF tok.ready THEN "lock" ELSE "queue")
  /\ tok' = [tok EXCEPT !.ready = FALSE]
  /\ UNCHANGED <<file, view, job, result, ready, editor, worker, gen, trace>>

\* Mutant: every answer is taken for the newest.
is_any(r) == r # None

is_newest(r) ==
  r # None /\ r.revision = editor.revision /\ r.source = editor.sample

apply_editor_tokenization_result ==
  /\ Frame("lock", "queue")
  /\ tok' = [tok EXCEPT !.result = None]
  /\ IF is_newest(tok.result)
     THEN /\ editor' = [editor EXCEPT !.tokenized = IF tok.result.ok THEN tok.result.item ELSE @]
          /\ trace' = [trace EXCEPT !.error = @ \/ ~ tok.result.ok]
     ELSE UNCHANGED <<editor, trace>>
  /\ UNCHANGED <<file, view, job, result, ready, worker, gen>>

\* queue_editor_tokenization once the debounce has ended.  The request is
\* handed over under the lock; the busy flag and the notification come after.
queue_editor_tokenization ==
  /\ editor.pending
  /\ Frame("queue", "flag")
  /\ LET base == IF ~ editor.is_new /\ editor.index < Len(view.items)
                 THEN view.items[editor.index + 1] ELSE Entry(Id(4, 0), "")
     IN  tok' = [tok EXCEPT !.request =
           [revision |-> editor.revision, source |-> editor.sample,
            item |-> [base EXCEPT !.sample = editor.sample]]]
  /\ editor' = [editor EXCEPT !.pending = FALSE]
  /\ UNCHANGED <<file, view, job, result, ready, worker, gen, trace>>

NotDue ==
  /\ Frame("queue", "popup")
  /\ UNCHANGED <<file, view, job, result, ready, editor, tok, worker, gen, trace>>

\* Mutant: nobody wakes the tokenizer.
RaiseFlagOnly ==
  /\ Frame("flag", "popup")
  /\ tok' = [tok EXCEPT !.busy = TRUE]
  /\ UNCHANGED <<file, view, job, result, ready, editor, worker, gen, trace>>

RaiseFlag ==
  /\ Frame("flag", "popup")
  /\ tok' = [tok EXCEPT !.busy = TRUE]
  /\ worker' = [worker EXCEPT !.at = IF @ = "asleep" THEN "wait" ELSE @]
  /\ UNCHANGED <<file, view, job, result, ready, editor, gen, trace>>

Stopping == ui \in {"join", "ended"}

\* run_editor_tokenizer: the wait holds the lock while it looks.
TokenizerWaits ==
  /\ worker.at = "wait"
  /\ IF Stopping
     THEN worker' = [worker EXCEPT !.at = "ended"] /\ UNCHANGED tok
     ELSE IF tok.request = None
     THEN worker' = [worker EXCEPT !.at = "asleep"] /\ UNCHANGED tok
     ELSE /\ worker' = [worker EXCEPT !.at = "work", !.work = tok.request]
          /\ tok' = [tok EXCEPT !.request = None]
  /\ UNCHANGED <<file, view, job, result, ready, editor, ui, gen, trace>>

\* catalog_service_.tokenize, which may throw; then the answer under the lock.
TokenizerAnswers ==
  /\ worker.at = "work"
  /\ \E ok \in BOOLEAN :
       /\ ok \/ Fault
       /\ tok' = [tok EXCEPT !.result = [revision |-> worker.work.revision, ok |-> ok,
                    source |-> worker.work.source, item |-> tokenize(worker.work.item)]]
       /\ trace' = [trace EXCEPT !.faults = IF ok THEN @ ELSE @ + 1]
  /\ worker' = [at |-> "ready", work |-> None, newer |-> tok.request # None]
  /\ UNCHANGED <<file, view, job, result, ready, editor, ui, gen>>

TokenizerReady ==
  /\ worker.at = "ready"
  /\ tok' = [tok EXCEPT !.ready = TRUE]
  /\ worker' = [worker EXCEPT !.at = "settle"]
  /\ UNCHANGED <<file, view, job, result, ready, editor, ui, gen, trace>>

TokenizerSettles ==
  /\ worker.at = "settle"
  /\ tok' = [tok EXCEPT !.busy = worker.newer]
  /\ worker' = [worker EXCEPT !.at = "wait", !.newer = FALSE]
  /\ UNCHANGED <<file, view, job, result, ready, editor, ui, gen, trace>>

Tokenizer == TokenizerWaits \/ TokenizerAnswers \/ TokenizerReady \/ TokenizerSettles

-----------------------------------------------------------------------------
(* The open dialog, and the end of the frame.                              *)

EndFrame ==
  /\ Frame("popup", "frame")
  /\ UNCHANGED <<file, view, job, result, ready, editor, tok, worker, gen, trace>>

Edit ==
  /\ editor.popup = "edit"
  /\ Frame("popup", "frame")
  /\ \E s \in Samples \cup {""} : editor' = changed([editor EXCEPT !.sample = s])
  /\ UNCHANGED <<file, view, job, result, ready, tok, worker, gen, trace>>

Cancel ==
  /\ editor.popup # "none"
  /\ Frame("popup", "frame")
  /\ editor' = [editor EXCEPT !.popup = "none"]
  /\ UNCHANGED <<file, view, job, result, ready, tok, worker, gen, trace>>

\* The save button is there for a tokenized sample and an idle catalog.
SaveEnabled ==
  /\ editor.popup = "edit" /\ editor.sample # ""
  /\ ~ editor.pending /\ ~ tok.busy /\ editor.tokenized # None
  /\ ~ job.loading

Saving(v) ==
  /\ view' = rebuild_filter(v)
  /\ Request("save", v.items)
  /\ editor' = [editor EXCEPT !.popup = "none"]

save_catalog_editor ==
  /\ SaveEnabled
  /\ Frame("popup", "frame")
  /\ \/ /\ editor.is_new /\ Len(view.items) < MaxItems /\ id_available(view.items)
        /\ Saving([view EXCEPT
             !.items = Append(@, [editor.tokenized EXCEPT !.id = next_id(view.items)]),
             !.selected = Len(view.items)])
     \/ /\ ~ editor.is_new
        /\ Saving(IF editor.index < Len(view.items)
                  THEN [view EXCEPT !.items[editor.index + 1] = editor.tokenized,
                                    !.selected = editor.index]
                  ELSE view)
  /\ UNCHANGED <<file, tok, worker, gen>>

\* next_id throws out of the frame: run() ends without stopping anything,
\* and the destructor goes on from there.
SaveThrows ==
  /\ SaveEnabled /\ editor.is_new /\ ~ id_available(view.items)
  /\ Frame("popup", "join")
  /\ worker' = [worker EXCEPT !.at = IF @ = "asleep" THEN "wait" ELSE @]
  /\ UNCHANGED <<file, view, job, result, ready, editor, tok, gen, trace>>

\* Mutant: the selection may stay behind the last item.
without_stale(v, index) == [v EXCEPT !.items = RemoveAt(@, index + 1)]

without(v, index) ==
  LET fewer == RemoveAt(v.items, index + 1)
  IN  [v EXCEPT !.items = fewer, !.selected = clamp(index, fewer)]

delete_selected_catalog_item ==
  /\ editor.popup = "delete"
  /\ Frame("popup", "frame")
  /\ IF editor.delete < Len(view.items)
     THEN Saving(without(view, editor.delete))
     ELSE /\ editor' = [editor EXCEPT !.popup = "none"]
          /\ UNCHANGED <<view, job, result, ready, trace>>
  /\ UNCHANGED <<file, tok, worker, gen>>

ConfirmImport ==
  /\ editor.popup = "import" /\ ~ job.loading
  /\ Len(view.items) + Len(Imported) <= MaxItems
  /\ Frame("popup", "frame")
  /\ Request("import", view.items)
  /\ editor' = [editor EXCEPT !.popup = "none"]
  /\ UNCHANGED <<file, view, tok, worker, gen>>

-----------------------------------------------------------------------------
(* The end: the loop stops the generator, ~App wakes and joins the threads.*)

Close ==
  /\ Frame("frame", "join")
  /\ gen' = [gen EXCEPT !.state = "idle"]
  /\ worker' = [worker EXCEPT !.at = IF @ = "asleep" THEN "wait" ELSE @]
  /\ UNCHANGED <<file, view, job, result, ready, editor, tok, trace>>

Join ==
  /\ Frame("join", "ended")
  /\ worker.at = "ended" /\ job.at = "none"
  /\ gen' = [gen EXCEPT !.state = "idle"]
  /\ UNCHANGED <<file, view, job, result, ready, editor, tok, worker, trace>>

-----------------------------------------------------------------------------

Click ==
  \/ Refresh \/ open_new_catalog_editor \/ open_selected_catalog_editor \/ AskDelete
  \/ open_sample_log_import \/ Select \/ start_test \/ request_stop

Dialog ==
  \/ Edit \/ Cancel \/ save_catalog_editor \/ SaveThrows
  \/ delete_selected_catalog_item \/ ConfirmImport

FrameStep ==
  \/ apply_catalog_result \/ Nothing \/ TakeFlag \/ apply_editor_tokenization_result
  \/ queue_editor_tokenization \/ NotDue \/ RaiseFlag \/ EndFrame \/ Join

User == (Click \/ Dialog) /\ clicks < MaxClicks /\ clicks' = clicks + 1

Next ==
  \/ User
  \/ FrameStep /\ UNCHANGED clicks
  \/ Close /\ UNCHANGED clicks
  \/ CatalogThread /\ UNCHANGED clicks
  \/ Tokenizer /\ UNCHANGED clicks
  \/ GeneratorEnds /\ UNCHANGED clicks

Spec == Init /\ [][Next]_vars

(***************************************************************************)
(* The frame loop goes on, the threads run, and a debounce that started    *)
(* ends: NotDue does not win for ever over the hand-over.                  *)
(***************************************************************************)
Fairness ==
  /\ WF_vars(FrameStep /\ UNCHANGED clicks)
  /\ SF_vars(queue_editor_tokenization /\ UNCHANGED clicks)
  /\ WF_vars(CatalogThread /\ UNCHANGED clicks)
  /\ WF_vars(Tokenizer /\ UNCHANGED clicks)

FairSpec == Spec /\ Fairness

-----------------------------------------------------------------------------

Quiet == ~ job.loading /\ ~ ready /\ job.at = "none"

(***************************************************************************)
(* README.md: "only the newest changed version is applied".  What the      *)
(* editor can save is the tokenized form of the text it shows, whatever    *)
(* answers to earlier texts are still on their way.                        *)
(***************************************************************************)
NewestApplied ==
  editor.tokenized # None => editor.tokenized.sample = AsTokens[editor.sample]

(***************************************************************************)
(* The unchecked indices of app.cpp (the selected log in the list and in   *)
(* start_test, the filtered ones) stay inside the catalog through reloads  *)
(* that bring fewer items, deletions and imports.                          *)
(***************************************************************************)
IndexesInRange ==
  /\ view.items # <<>> => view.selected < Len(view.items)
  /\ \A i \in view.filtered : i < Len(view.items)
  /\ view.items # <<>> /\ view.filtered # {} => view.selected \in view.filtered

(***************************************************************************)
(* When the catalog thread is idle and the last job did not fail, the      *)
(* window and the file hold the same logs but for tokenizing: the window   *)
(* shows the tokenized form of what was loaded, or the file holds that of  *)
(* what was saved or imported.  The busy flag keeps edits and jobs from    *)
(* working on two versions; it does not cover a result that waits for its  *)
(* frame.  When that replaces the list while a save of the earlier list    *)
(* goes on, the two differ until the next result or save.                  *)
(***************************************************************************)
Agree(shown, saved) == shown = tokenized(saved) \/ saved = tokenized(shown)

ShownIsSaved ==
  Quiet /\ ~ trace.apart /\ ~ trace.overtaken => Agree(view.items, file)

(***************************************************************************)
(* A sample in the open editor is answered in the end: tokenized, refused  *)
(* with an error, emptied or left.  No notification is lost between the    *)
(* hand-over and the tokenizer's wait.                                     *)
(***************************************************************************)
Unanswered ==
  /\ ~ Stopping /\ editor.popup = "edit"
  /\ editor.sample # "" /\ editor.tokenized = None

EditorAnswered == Unanswered ~> (~ Unanswered \/ trace.error)

(***************************************************************************)
(* README.md: "check the preview and the cache-ready state in the editor,  *)
(* then save".  A sample that is tokenized can be saved in the end, unless *)
(* it is changed or the dialog is left.                                    *)
(***************************************************************************)
Tokenized == ~ Stopping /\ editor.popup = "edit" /\ editor.tokenized # None

SaveBecomesPossible == Tokenized ~> (SaveEnabled \/ ~ Tokenized)
=============================================================================
