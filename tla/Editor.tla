-------------------------------- MODULE Editor --------------------------------
(* The project page of the frontend and the drafts it edits: the load effect, the
   debounced autosave with its optimistic version, the reload after a conflict,
   the undo and redo stacks, solver jobs and their results
   (routes/projects/[id]/+page.svelte, lib/state/project.svelte.ts,
   lib/debounce.ts), against PUT /projects/<id>/document.

   The page is one thread: a handler, a timer or the continuation of a fetch
   runs to its next await and the effects it triggers run behind it, so each is
   one action.  Requests and answers overtake each other.

   A document is told apart by the project it was made for, its settings and net
   edits ("notes"), its parts and its layout. *)
EXTENDS Naturals, Sequences, SequencesExt

CONSTANTS
  Projects,
  Perfboards,  \* the projects on a perfboard, the others are breadboards
  Parts,       \* Parts[p]: the parts project p may have
  Spots,       \* poses of a placed part
  Notes,       \* settings and net edits that this page makes
  OtherNotes,  \* OtherNotes[p]: edits of p that others make
  Home,        \* the project that is opened first
  NoDocument, NoLayout, NoSave, NoJob,
  STACK_CAP,
  Slots,       \* bound: 1..n, saves on the wire at once
  MaxActs,     \* bound: what the user does
  FaultKinds   \* what may go wrong, once each: "save", "load"

AllParts == UNION {Parts[p] : p \in Projects}
AllNotes == Notes \cup UNION {OtherNotes[p] : p \in Projects}
Layouts == UNION {[ps -> Spots] : ps \in SUBSET AllParts}
Document ==
  [made : Projects, notes : SUBSET AllNotes, parts : SUBSET AllParts, layout : Layouts]
Draft == [version : Nat, doc : Document]
Save ==
  [to : Projects, doc : Document, base : Nat, page : {"this", "left"},
   step : {"sent", "ok", "conflict", "broken"}]

ASSUME EditorAssumption ==
  /\ Perfboards \subseteq Projects /\ Home \in Projects
  /\ DOMAIN Parts = Projects /\ DOMAIN OtherNotes = Projects
  /\ Spots # {}
  /\ NoDocument \notin Document /\ NoLayout \notin Layouts /\ NoSave \notin Save
  /\ Slots \subseteq Nat \ {0} /\ Slots # {}
  /\ STACK_CAP \in Nat \ {0} /\ MaxActs \in Nat

VARIABLES
  server,         \* server[p]: draft_version and document of the projects row
  elsewhere,      \* elsewhere[p]: the notes of others saved so far
  open,           \* params.id
  document, draftVersion, undoStack, redoStack, currentLayout,
  job,            \* the project and parts the tracked job was created for
  load,           \* the load effect: its step and the draft it has read
  loadError,      \* loadError is not null
  lastSaved,      \* lastSavedJson
  saveState,      \* with the reason saveError gives
  timer,          \* the debounced save is pending
  saves,          \* saves[i]: a save that is not answered yet
  leftTimers,     \* pending debounced saves of pages that were left
  left,           \* history: what was pending when a project was left
  acts, faults

historyVars == <<undoStack, redoStack, currentLayout>>
leftVars == <<leftTimers, left>>
pageVars == <<open, document, draftVersion, historyVars, job, load, loadError,
              lastSaved, saveState, timer, saves, leftTimers, left>>
vars == <<server, elsewhere, open, document, draftVersion, undoStack, redoStack,
          currentLayout, job, load, loadError, lastSaved, saveState, timer, saves,
          leftTimers, left, acts, faults>>

TypeOK ==
  /\ server \in [Projects -> Draft]
  /\ elsewhere \in [Projects -> SUBSET AllNotes]
  /\ open \in Projects
  /\ document \in Document \cup {NoDocument}
  /\ draftVersion \in Nat
  /\ undoStack \in Seq(Layouts) /\ redoStack \in Seq(Layouts)
  /\ Len(undoStack) <= STACK_CAP /\ Len(redoStack) <= STACK_CAP
  /\ currentLayout \in Layouts \cup {NoLayout}
  /\ job \in [of : Projects, parts : SUBSET AllParts] \cup {NoJob}
  /\ load \in [step : {"no", "asked"}] \cup [step : {"read"}, draft : Draft]
  /\ loadError \in BOOLEAN
  /\ lastSaved \in Document \cup {NoDocument}
  /\ saveState \in {"idle", "saving", "saved", "conflict", "failed"}
  /\ timer \in BOOLEAN
  /\ saves \in [Slots -> Save \cup {NoSave}]
  /\ leftTimers \in Nat /\ left \subseteq {"timer", "save"}
  /\ acts \in 0..MaxActs
  /\ faults \subseteq FaultKinds

\* Every part of a new project is placed, all on one spot.
Fresh(p) ==
  [made |-> p, notes |-> {}, parts |-> Parts[p],
   layout |-> [x \in Parts[p] |-> CHOOSE s \in Spots : TRUE]]

Init ==
  /\ server = [p \in Projects |-> [version |-> 1, doc |-> Fresh(p)]]
  /\ elsewhere = [p \in Projects |-> {}]
  /\ open = Home
  /\ document = NoDocument /\ draftVersion = 1
  /\ undoStack = <<>> /\ redoStack = <<>> /\ currentLayout = NoLayout
  /\ job = NoJob
  /\ load = [step |-> "asked"] /\ loadError = FALSE
  /\ lastSaved = NoDocument /\ saveState = "idle"
  /\ timer = FALSE
  /\ saves = [i \in Slots |-> NoSave]
  /\ leftTimers = 0 /\ left = {}
  /\ acts = 0 /\ faults = {}

Fault(k) ==
  /\ k \in FaultKinds \ faults
  /\ faults' = faults \cup {k}

Act ==
  /\ acts < MaxActs
  /\ acts' = acts + 1

isLoading == load.step # "no"

\* Mutation of AutosaveEffect: it does not wait for the load.
AutosaveEffectAlways ==
  timer' = (timer \/ (document' # NoDocument /\ document' # lastSaved'))

\* The autosave effect, after a step that changed something it depends on: a
\* document that is not the one last saved restarts the debounce timer.
AutosaveEffect ==
  timer' = (timer \/ (document' # NoDocument /\ load'.step = "no" /\ document' # lastSaved'))

-----------------------------------------------------------------------------
(* The undo and redo stacks *)

\* Mutation of Capped: the stacks have no limit.
CappedNot(s) == s

Capped(s) == IF Len(s) > STACK_CAP THEN Tail(s) ELSE s

\* Mutation of pushUndo: what was redoable stays.
pushUndoKeepsRedo(layout) ==
  /\ undoStack' = IF currentLayout = NoLayout THEN undoStack
                  ELSE Capped(Append(undoStack, currentLayout))
  /\ currentLayout' = layout
  /\ UNCHANGED redoStack

pushUndo(layout) ==
  /\ undoStack' = IF currentLayout = NoLayout THEN undoStack
                  ELSE Capped(Append(undoStack, currentLayout))
  /\ currentLayout' = layout
  /\ redoStack' = <<>>

\* undo: the newest layout of undoStack becomes current.
undo ==
  /\ undoStack # <<>> /\ currentLayout # NoLayout
  /\ undoStack' = Front(undoStack)
  /\ redoStack' = Capped(Append(redoStack, currentLayout))
  /\ currentLayout' = Last(undoStack)

redo ==
  /\ redoStack # <<>> /\ currentLayout # NoLayout
  /\ redoStack' = Front(redoStack)
  /\ undoStack' = Capped(Append(undoStack, currentLayout))
  /\ currentLayout' = Last(redoStack)

\* handleUndo, handleRedo: the document takes the layout that is current now.
ShowCurrent ==
  document' = IF document = NoDocument THEN document
              ELSE [document EXCEPT !.layout = currentLayout']

-----------------------------------------------------------------------------
(* What the user does.  The canvas and the panels are there once the project is
   loaded; the keyboard, the toolbar and the job ribbon are there always. *)

CanEdit == document # NoDocument /\ ~isLoading /\ ~loadError

\* Move, rotate, lock or delete a placement, draw or delete a jumper.
EditLayout(l) ==
  /\ CanEdit /\ Act
  /\ DOMAIN l \subseteq DOMAIN document.layout
  /\ pushUndo(l)
  /\ document' = [document EXCEPT !.layout = l]
  /\ UNCHANGED <<server, elsewhere, open, draftVersion, job, load, loadError, lastSaved,
                 saveState, saves, leftVars, faults>>
  /\ AutosaveEffect

\* applySchematic: the netlist is derived anew and the layout pruned to its parts.
EditSchematic(ps) ==
  /\ CanEdit /\ Act /\ ps # document.parts
  /\ document' = [document EXCEPT !.parts = ps,
                                  !.layout = Restrict(@, ps \cap DOMAIN @)]
  /\ UNCHANGED <<server, elsewhere, open, draftVersion, historyVars, job, load, loadError,
                 lastSaved, saveState, saves, leftVars, faults>>
  /\ AutosaveEffect

\* A change of the settings, of a net, or of the drawing only.
EditNotes(n) ==
  /\ CanEdit /\ Act /\ n \notin document.notes
  /\ document' = [document EXCEPT !.notes = @ \cup {n}]
  /\ UNCHANGED <<server, elsewhere, open, draftVersion, historyVars, job, load, loadError,
                 lastSaved, saveState, saves, leftVars, faults>>
  /\ AutosaveEffect

handleUndo ==
  /\ Act
  /\ undo /\ ShowCurrent
  /\ UNCHANGED <<server, elsewhere, open, draftVersion, job, load, loadError, lastSaved,
                 saveState, saves, leftVars, faults>>
  /\ AutosaveEffect

handleRedo ==
  /\ Act
  /\ redo /\ ShowCurrent
  /\ UNCHANGED <<server, elsewhere, open, draftVersion, job, load, loadError, lastSaved,
                 saveState, saves, leftVars, faults>>
  /\ AutosaveEffect

\* startOperation: POST /projects/<id>/jobs freezes the draft the server has.
startOperation ==
  /\ document # NoDocument /\ document.parts # {} /\ Act
  /\ job' = [of |-> open, parts |-> server[open].doc.parts]
  /\ UNCHANGED <<server, elsewhere, open, document, draftVersion, historyVars, load,
                 loadError, lastSaved, saveState, timer, saves, leftVars, faults>>

\* onApplySolverResult: a layout of the parts the job has seen.  A trace layout
\* replaces the placements without the undo stack.
onApplySolverResult(l) ==
  /\ job # NoJob /\ Act
  /\ DOMAIN l = job.parts
  /\ IF job.of \in Perfboards THEN UNCHANGED historyVars ELSE pushUndo(l)
  /\ document' = IF document = NoDocument THEN document ELSE [document EXCEPT !.layout = l]
  /\ job' = NoJob
  /\ UNCHANGED <<server, elsewhere, open, draftVersion, load, loadError, lastSaved,
                 saveState, saves, leftVars, faults>>
  /\ AutosaveEffect

\* The list of projects is opened, and from there project p.  The store is a module
\* of its own and keeps its contents; the page is a new one.  A save that the timer
\* of the page that is left had pending goes on pending, unless it is made while
\* the list is shown: it names no project then and fails.
OpenFromList(p) ==
  /\ leftTimers' \in 0..IF timer THEN leftTimers + 1 ELSE leftTimers
  /\ timer' = FALSE
  /\ saves' = [i \in Slots |->
                 IF saves[i] = NoSave THEN NoSave ELSE [saves[i] EXCEPT !.page = "left"]]
  /\ lastSaved' = NoDocument /\ saveState' = "idle"

\* The browser's history leads from one project to another: the page stays.
StayOnPage(p) ==
  /\ p # open
  /\ UNCHANGED <<leftTimers, saves, lastSaved, saveState>>
  /\ AutosaveEffect

OpenProject(p) ==
  /\ Act
  /\ open' = p
  /\ load' = [step |-> "asked"] /\ loadError' = FALSE
  /\ left' = left \cup (IF timer THEN {"timer"} ELSE {})
                  \cup (IF \E i \in Slots : saves[i] # NoSave THEN {"save"} ELSE {})
  /\ UNCHANGED <<server, elsewhere, document, draftVersion, historyVars, job, faults>>
  /\ OpenFromList(p) \/ StayOnPage(p)

-----------------------------------------------------------------------------
(* Loading *)

\* GET /projects/<id> is answered; the board and the footprints follow.
ReadProject ==
  /\ load.step = "asked"
  /\ load' = [step |-> "read", draft |-> server[open]]
  /\ UNCHANGED <<server, elsewhere, open, document, draftVersion, historyVars, job,
                 loadError, lastSaved, saveState, timer, saves, leftVars, acts, faults>>

\* The rest of load().
FinishLoad ==
  /\ load.step = "read"
  /\ document' = load.draft.doc
  /\ draftVersion' = load.draft.version
  /\ lastSaved' = load.draft.doc
  /\ saveState' = "idle"
  /\ loadError' = FALSE
  /\ IF open \in Perfboards THEN UNCHANGED historyVars ELSE pushUndo(load.draft.doc.layout)
  /\ load' = [step |-> "no"]
  /\ UNCHANGED <<server, elsewhere, open, job, saves, leftVars, acts, faults>>
  /\ AutosaveEffect

FailLoad ==
  /\ isLoading
  /\ Fault("load")
  /\ load' = [step |-> "no"]
  /\ loadError' = TRUE
  /\ UNCHANGED <<document, lastSaved>>
  /\ UNCHANGED <<server, elsewhere, open, draftVersion, historyVars, job, saveState, saves,
                 leftVars, acts>>
  /\ AutosaveEffect

-----------------------------------------------------------------------------
(* Saving *)

\* The first free slot of the wire.
Slot(i) == saves[i] = NoSave /\ \A k \in Slots : k < i => saves[k] # NoSave

\* What saveDocument sends.
Sent(page) ==
  [to |-> open, doc |-> document, base |-> draftVersion, page |-> page, step |-> "sent"]

\* Mutation of SaveDocument: a save is skipped while another one is on the wire.
SaveDocumentAlone ==
  /\ timer
  /\ timer' = FALSE
  /\ IF \E i \in Slots : saves[i] # NoSave
     THEN UNCHANGED <<saves, saveState>>
     ELSE /\ saves' = [saves EXCEPT ![1] =
                         Sent("this")]
          /\ saveState' = "saving"
  /\ UNCHANGED <<server, elsewhere, open, document, draftVersion, historyVars, job, load,
                 loadError, lastSaved, leftVars, acts, faults>>

\* The timer fires: saveDocument, up to its await.
SaveDocument ==
  /\ timer
  /\ timer' = FALSE
  /\ \E i \in Slots :
       /\ Slot(i)
       /\ saves' = [saves EXCEPT ![i] =
                      Sent("this")]
  /\ saveState' = "saving"
  /\ UNCHANGED <<server, elsewhere, open, document, draftVersion, historyVars, job, load,
                 loadError, lastSaved, leftVars, acts, faults>>

\* The timer of a page that was left fires: saveDocument of that page, for the
\* project that is open by now.
SaveDocumentLeft ==
  /\ leftTimers > 0
  /\ leftTimers' = leftTimers - 1
  /\ \E i \in Slots : Slot(i) /\ saves' = [saves EXCEPT ![i] = Sent("left")]
  /\ UNCHANGED <<server, elsewhere, open, document, draftVersion, historyVars, job, load,
                 loadError, lastSaved, saveState, timer, left, acts, faults>>

\* PUT /projects/<id>/document, one UPDATE with the version in its WHERE clause.
UpdateDocument(i) ==
  /\ saves[i] # NoSave /\ saves[i].step = "sent"
  /\ LET save == saves[i]
     IN IF server[save.to].version = save.base
        THEN /\ server' = [server EXCEPT ![save.to] =
                             [version |-> save.base + 1, doc |-> save.doc]]
             /\ saves' = [saves EXCEPT ![i].step = "ok"]
        ELSE saves' = [saves EXCEPT ![i].step = "conflict"] /\ UNCHANGED server
  /\ UNCHANGED <<elsewhere, open, document, draftVersion, historyVars, job, load, loadError,
                 lastSaved, saveState, timer, leftVars, acts, faults>>

\* The request or its answer is lost.
LoseSave(i) ==
  /\ saves[i] # NoSave /\ saves[i].step \in {"sent", "ok", "conflict"}
  /\ Fault("save")
  /\ saves' = [saves EXCEPT ![i].step = "broken"]
  /\ UNCHANGED <<server, elsewhere, open, document, draftVersion, historyVars, job, load,
                 loadError, lastSaved, saveState, timer, leftVars, acts>>

\* saveDocument after its await, the answer is 200.
SaveOk(i) ==
  /\ saves[i] # NoSave /\ saves[i].page = "this" /\ saves[i].step = "ok"
  /\ saves' = [saves EXCEPT ![i] = NoSave]
  /\ draftVersion' = saves[i].base + 1
  /\ lastSaved' = saves[i].doc
  /\ saveState' = "saved"
  /\ UNCHANGED <<document, load>>
  /\ UNCHANGED <<server, elsewhere, open, historyVars, job, loadError, leftVars, acts, faults>>
  /\ IF lastSaved' = lastSaved THEN UNCHANGED timer ELSE AutosaveEffect

\* Mutation of SaveConflict: the page takes the newer version and saves again.
SaveConflictAdopts(i) ==
  /\ saves[i] # NoSave /\ saves[i].page = "this" /\ saves[i].step = "conflict"
  /\ saves' = [saves EXCEPT ![i] = NoSave]
  /\ saveState' = "conflict"
  /\ draftVersion' = server[open].version
  /\ timer' = TRUE
  /\ UNCHANGED <<server, elsewhere, open, document, historyVars, job, load, loadError,
                 lastSaved, leftVars, acts, faults>>

\* Mutation of SaveConflict: the conflict is reported and nothing is loaded.
SaveConflictStays(i) ==
  /\ saves[i] # NoSave /\ saves[i].page = "this" /\ saves[i].step = "conflict"
  /\ saves' = [saves EXCEPT ![i] = NoSave]
  /\ saveState' = "conflict"
  /\ UNCHANGED <<server, elsewhere, open, document, draftVersion, historyVars, job, load,
                 loadError, lastSaved, timer, leftVars, acts, faults>>

\* The answer is 409: the load effect starts again, whatever it was doing.
SaveConflict(i) ==
  /\ saves[i] # NoSave /\ saves[i].page = "this" /\ saves[i].step = "conflict"
  /\ saves' = [saves EXCEPT ![i] = NoSave]
  /\ saveState' = "conflict"
  /\ load' = [step |-> "asked"] /\ loadError' = FALSE
  /\ UNCHANGED <<server, elsewhere, open, document, draftVersion, historyVars, job,
                 lastSaved, timer, leftVars, acts, faults>>

\* Anything else.
SaveFailed(i) ==
  /\ saves[i] # NoSave /\ saves[i].page = "this" /\ saves[i].step = "broken"
  /\ saves' = [saves EXCEPT ![i] = NoSave]
  /\ saveState' = "failed"
  /\ UNCHANGED <<server, elsewhere, open, document, draftVersion, historyVars, job, load,
                 loadError, lastSaved, timer, leftVars, acts, faults>>

\* A page that was left gets its answer: of what it sets, only the version is not
\* its own, and a conflict has it load nothing.
AnswerLeft(i) ==
  /\ saves[i] # NoSave /\ saves[i].page = "left" /\ saves[i].step # "sent"
  /\ saves' = [saves EXCEPT ![i] = NoSave]
  /\ draftVersion' = IF saves[i].step = "ok" THEN saves[i].base + 1 ELSE draftVersion
  /\ UNCHANGED <<server, elsewhere, open, document, historyVars, job, load, loadError,
                 lastSaved, saveState, timer, leftVars, acts, faults>>

\* Somebody else loads the project and saves an edit of their own.
SaveElsewhere(p, n) ==
  /\ n \in OtherNotes[p] \ elsewhere[p]
  /\ elsewhere' = [elsewhere EXCEPT ![p] = @ \cup {n}]
  /\ server' = [server EXCEPT ![p].version = @ + 1, ![p].doc.notes = @ \cup {n}]
  /\ UNCHANGED <<pageVars, acts, faults>>

-----------------------------------------------------------------------------
User ==
  \/ \E l \in Layouts : EditLayout(l) \/ onApplySolverResult(l)
  \/ \E ps \in SUBSET Parts[open] : EditSchematic(ps)
  \/ \E n \in Notes : EditNotes(n)
  \/ handleUndo \/ handleRedo \/ startOperation
  \/ \E p \in Projects : OpenProject(p)

Loading == ReadProject \/ FinishLoad
Saving(i) ==
  UpdateDocument(i) \/ SaveOk(i) \/ SaveConflict(i) \/ SaveFailed(i) \/ AnswerLeft(i)

Next ==
  \/ User \/ Loading \/ FailLoad \/ SaveDocument \/ SaveDocumentLeft
  \/ \E i \in Slots : Saving(i) \/ LoseSave(i)
  \/ \E p \in Projects, n \in AllNotes : SaveElsewhere(p, n)

Spec == Init /\ [][Next]_vars

\* Timers fire, and every request is answered: with an error if need be.
Fairness ==
  /\ WF_vars(Loading) /\ WF_vars(SaveDocument) /\ WF_vars(SaveDocumentLeft)
  /\ \A i \in Slots : WF_vars(Saving(i))

FairSpec == Spec /\ Fairness

-----------------------------------------------------------------------------
(* Properties *)

\* Nothing of this page is pending.
Quiet ==
  ~timer /\ ~isLoading /\ \A i \in Slots : saves[i] # NoSave => saves[i].page = "left"

\* What others have saved is not undone by the autosave, whatever order loads, saves
\* and answers take: the version a save carries is never newer than the document it
\* was made from, as far as other people's edits go.  This ends when a load has
\* failed, and when a project was left with a save pending or on the wire: its answer
\* then sets the version that goes with the next project's document.
ElsewhereKept ==
  "load" \notin faults /\ left = {} =>
    \A p \in Projects : elsewhere[p] \subseteq server[p].doc.notes

\* One project's document is not saved into another: a page that goes on to another
\* project while the store still holds the last one's document, and answers that come
\* late, do not make it happen.  It does happen once a load has failed, as the page
\* is not loading any more, and once a project was left with a timer pending, as the
\* timer fires for the project that is open then; the versions of young projects are
\* alike.
OwnDocumentSaved ==
  "load" \notin faults /\ "timer" \notin left =>
    \A p \in Projects : server[p].doc.made = p

\* While no request fails, nothing is pending only when the document on screen is
\* the one the page takes for saved, and then it does not say otherwise.
NothingUnsavedWhenQuiet ==
  faults = {} /\ Quiet => document = lastSaved /\ saveState \in {"idle", "saved"}

\* An edit is eventually saved or replaced by what the server has.  A save that
\* fails breaks this, and not even the message stays: when the answer to an
\* earlier save of the last saved document comes behind it, the page says "Saved".
EditsSettle ==
  (document # lastSaved) ~> (document = lastSaved \/ faults # {})

\* Undo and redo are a place in one list of layouts.
History == INSTANCE UndoHistory WITH
  Limit <- STACK_CAP,
  entries <- IF currentLayout = NoLayout THEN <<>>
             ELSE undoStack \o <<currentLayout>> \o Reverse(redoStack),
  cursor <- IF currentLayout = NoLayout THEN 0 ELSE Len(undoStack) + 1

ImplementsHistory == History!Spec

=============================================================================
