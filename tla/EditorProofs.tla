----------------------------- MODULE EditorProofs -----------------------------
(* Proofs about Editor: any projects, parts, notes, stack limits, and any number of saves
   on the wire and of acts of the user. *)
EXTENDS Editor, SequenceTheorems, TLAPS

-----------------------------------------------------------------------------
(* The inductive invariant *)

\* What has a version of project p, with these notes, knows what others had saved by then.
\* While p is at this version that is all they have saved.
UpToDate(p, version, notes) ==
  /\ version <= server[p].version
  /\ version = server[p].version => elsewhere[p] \subseteq notes

\* The store holds a document of the project that draftVersion belongs to.
PageInv ==
  document # NoDocument => UpToDate(document.made, draftVersion, document.notes)

\* The autosave runs and edits are made only when that is the project that is open.
OpenInv ==
  timer \/ load.step = "no" => document # NoDocument /\ document.made = open

\* The draft that was read is one of the open project, and even if an answer that arrives
\* later makes the version of the page newer, it has the notes of that version.
LoadInv ==
  load.step = "read" =>
    /\ load.draft.doc.made = open
    /\ UpToDate(open, load.draft.version, load.draft.doc.notes)
    /\ document # NoDocument /\ document.made = open =>
         UpToDate(open, draftVersion, load.draft.doc.notes)

\* The version that a save has, or will have given the page when it is answered.
GivesVersion(save) == IF save.step = "ok" THEN save.base + 1 ELSE save.base

\* A save is of the open project; the version it gives suits the document and the draft
\* that the page has meanwhile, as well as its own document while it is not yet stored.
SaveInv ==
  \A i \in Slots :
    saves[i] # NoSave =>
      /\ document # NoDocument /\ document.made = open
      /\ saves[i].to = open /\ saves[i].doc.made = open
      /\ saves[i].step = "sent" => UpToDate(open, saves[i].base, saves[i].doc.notes)
      /\ saves[i].step \in {"sent", "ok"} =>
           /\ UpToDate(open, GivesVersion(saves[i]), document.notes)
           /\ load.step = "read" => UpToDate(open, GivesVersion(saves[i]), load.draft.doc.notes)

WireInv == ElsewhereKept /\ OwnDocumentSaved /\ PageInv /\ OpenInv /\ LoadInv /\ SaveInv

\* A pending save finds a document, and that of a page that was left is recorded.
Pending ==
  /\ timer => document # NoDocument
  /\ leftTimers > 0 => document # NoDocument /\ "timer" \in left

\* No load has failed, and nothing was pending when a project was left.
Undisturbed == "load" \notin faults /\ left = {}

\* A page that has nothing to load shows a document.
ShownInv == "load" \notin faults /\ load.step = "no" => document # NoDocument

IInv == TypeOK /\ Pending /\ ShownInv /\ (Undisturbed => WireInv)

-----------------------------------------------------------------------------
(* Types *)

\* A stack within its limit, and one more on top of it, cut to the limit.
Stack == {s \in Seq(Layouts) : Len(s) <= STACK_CAP}

LEMMA CappedStack ==
  ASSUME NEW s \in Stack, NEW l \in Layouts
  PROVE  Capped(Append(s, l)) \in Stack
BY EditorAssumption DEF Stack, Capped

\* Front and Last of a stack.
LEMMA FrontLast ==
  ASSUME NEW s \in Seq(Layouts), s # <<>>
  PROVE  /\ Len(s) \in Nat \ {0} /\ Last(s) = s[Len(s)] /\ Last(s) \in Layouts
         /\ Front(s) \in Seq(Layouts) /\ Len(Front(s)) = Len(s) - 1
         /\ \A i \in 1..Len(s) - 1 : Front(s)[i] = s[i]
<1>1. Len(s) \in Nat \ {0}
  OBVIOUS
<1> DEFINE n == Len(s) - 1
<1>2. n \in Nat /\ n < Len(s)
  BY <1>1
<1>3. \A i \in 1..n : s[i] \in Layouts
  BY <1>1, <1>2, ElementOfSeq
<1> HIDE DEF n
<1>4. SubSeq(s, 1, n) \in Seq(Layouts) /\ Len(SubSeq(s, 1, n)) = n /\ \A i \in 1..n : SubSeq(s, 1, n)[i] = s[i]
  BY <1>2, <1>3, SubSeqProperties
<1>5. Front(s) = SubSeq(s, 1, n)
  BY DEF n, Front
<1>6. Last(s) = s[Len(s)] /\ s[Len(s)] \in Layouts
  BY <1>1, ElementOfSeq DEF Last
<1> QED
  BY <1>1, <1>4, <1>5, <1>6 DEF n

LEMMA RestStack ==
  ASSUME NEW s \in Stack, s # <<>>
  PROVE  Front(s) \in Stack /\ Last(s) \in Layouts
<1>1. s \in Seq(Layouts) /\ Len(s) <= STACK_CAP
  BY DEF Stack
<1> QED
  BY <1>1, FrontLast, EditorAssumption DEF Stack

HistoryType == undoStack \in Stack /\ redoStack \in Stack /\ currentLayout \in Layouts \cup {NoLayout}

\* A document keeps its type when its layout is replaced.
LEMMA LayoutReplaced ==
  ASSUME NEW d \in Document, NEW l \in Layouts
  PROVE  [d EXCEPT !.layout = l] \in Document
BY DEF Document

\* A layout cut to some of its parts is one.
LEMMA LayoutCut ==
  ASSUME NEW l \in Layouts, NEW ps
  PROVE  Restrict(l, ps \cap DOMAIN l) \in Layouts
<1>1. PICK qs \in SUBSET AllParts : l \in [qs -> Spots]
  BY DEF Layouts
<1>2. Restrict(l, ps \cap DOMAIN l) \in [ps \cap qs -> Spots]
  BY <1>1 DEF Restrict
<1> QED
  BY <1>2 DEF Layouts

LEMMA FreshType ==
  ASSUME NEW p \in Projects
  PROVE  Fresh(p) \in Document /\ Fresh(p).made = p
<1>1. [x \in Parts[p] |-> CHOOSE s \in Spots : TRUE] \in [Parts[p] -> Spots]
  BY EditorAssumption
<1>2. Parts[p] \subseteq AllParts
  BY EditorAssumption DEF AllParts
<1> QED
  BY <1>1, <1>2 DEF Fresh, Document, Layouts

LEMMA InitInv == Init => IInv
<1> SUFFICES ASSUME Init
             PROVE  IInv
  OBVIOUS
<1>1. server \in [Projects -> Draft] /\ \A p \in Projects : server[p].doc.made = p
  BY FreshType DEF Init, Draft
<1>2. undoStack \in Seq(Layouts) /\ redoStack \in Seq(Layouts) /\ Len(undoStack) = 0 /\ Len(redoStack) = 0
  BY DEF Init
<1>3. load \in [step : {"no", "asked"}] /\ load.step = "asked"
  BY DEF Init
<1>4. loadError \in BOOLEAN /\ timer \in BOOLEAN /\ ~timer
  BY DEF Init
<1>5. saves \in [Slots -> {NoSave}] /\ acts \in 0..MaxActs /\ faults = {}
  BY EditorAssumption DEF Init
<1>6. TypeOK
  BY <1>1, <1>2, <1>3, <1>4, <1>5, EditorAssumption DEF Init, TypeOK
<1> QED
  BY <1>1, <1>3, <1>4, <1>5, <1>6 DEF Init, IInv, Pending, ShownInv, WireInv, ElsewhereKept, OwnDocumentSaved, PageInv, OpenInv, LoadInv, SaveInv

\* pushUndo, undo and redo keep the stacks within their limit.
LEMMA PushUndoType ==
  ASSUME HistoryType, NEW l \in Layouts, pushUndo(l)
  PROVE  HistoryType' /\ currentLayout' = l
<1>1. undoStack' \in Stack
  BY CappedStack DEF HistoryType, pushUndo
<1>2. <<>> \in Stack
  BY EditorAssumption DEF Stack
<1> QED
  BY <1>1, <1>2 DEF HistoryType, pushUndo

LEMMA UndoRedoType ==
  ASSUME HistoryType, undo \/ redo
  PROVE  HistoryType' /\ currentLayout' \in Layouts
<1>1. currentLayout \in Layouts
  BY DEF HistoryType, undo, redo
<1>2. CASE undo
  BY <1>1, <1>2, CappedStack, RestStack DEF HistoryType, undo
<1>3. CASE redo
  BY <1>1, <1>3, CappedStack, RestStack DEF HistoryType, redo
<1> QED
  BY <1>2, <1>3

\* The types without the stacks.
PlainType ==
  /\ server \in [Projects -> Draft]
  /\ elsewhere \in [Projects -> SUBSET AllNotes]
  /\ open \in Projects
  /\ document \in Document \cup {NoDocument}
  /\ draftVersion \in Nat
  /\ job \in [of : Projects, parts : SUBSET AllParts] \cup {NoJob}
  /\ load \in [step : {"no", "asked"}] \cup [step : {"read"}, draft : Draft]
  /\ lastSaved \in Document \cup {NoDocument}
  /\ saveState \in {"idle", "saving", "saved", "conflict", "failed"}
  /\ saves \in [Slots -> Save \cup {NoSave}]
  /\ leftTimers \in Nat /\ left \subseteq {"timer", "save"}
  /\ acts \in 0..MaxActs
  /\ faults \subseteq FaultKinds
Flags == loadError \in BOOLEAN /\ timer \in BOOLEAN /\ Pending

LEMMA TypeParts == HistoryType /\ PlainType /\ Flags <=> TypeOK /\ Pending
<1>1. HistoryType <=> /\ undoStack \in Seq(Layouts) /\ redoStack \in Seq(Layouts)
                      /\ Len(undoStack) <= STACK_CAP /\ Len(redoStack) <= STACK_CAP
                      /\ currentLayout \in Layouts \cup {NoLayout}
  BY DEF HistoryType, Stack
<1> QED
  BY <1>1, Zenon DEF TypeOK, PlainType, Flags

LEMMA EffectType ==
  ASSUME Flags, AutosaveEffect, document # NoDocument => document' # NoDocument, UNCHANGED leftVars
  PROVE  timer' \in BOOLEAN /\ Pending'
BY DEF Flags, Pending, AutosaveEffect, leftVars

\* A document changed in one field.
LEMMA DocumentChanged ==
  ASSUME NEW d \in Document
  PROVE  /\ d # NoDocument /\ d.made \in Projects /\ d.notes \subseteq AllNotes
         /\ \A l \in Layouts : LET e == [d EXCEPT !.layout = l]
                               IN e \in Document /\ e # NoDocument /\ e.made = d.made /\ e.notes = d.notes
         /\ \A n \in Notes : LET e == [d EXCEPT !.notes = @ \cup {n}]
                             IN e \in Document /\ e # NoDocument /\ e.made = d.made /\ d.notes \subseteq e.notes
         /\ \A ps \in SUBSET AllParts :
              LET e == [d EXCEPT !.parts = ps, !.layout = Restrict(@, ps \cap DOMAIN @)]
              IN e \in Document /\ e # NoDocument /\ e.made = d.made /\ e.notes = d.notes
<1>1. \A e \in Document : e # NoDocument
  BY EditorAssumption
<1>2. d.layout \in Layouts
  BY DEF Document
<1>3. \A ps : Restrict(d.layout, ps \cap DOMAIN d.layout) \in Layouts
  BY <1>2, LayoutCut
<1>4. ASSUME NEW l \in Layouts
      PROVE  LET e == [d EXCEPT !.layout = l]
             IN e \in Document /\ e # NoDocument /\ e.made = d.made /\ e.notes = d.notes
  BY <1>1 DEF Document
<1>5. ASSUME NEW n \in Notes
      PROVE  LET e == [d EXCEPT !.notes = @ \cup {n}]
             IN e \in Document /\ e # NoDocument /\ e.made = d.made /\ d.notes \subseteq e.notes
  BY <1>1 DEF Document, AllNotes
<1>6. ASSUME NEW ps \in SUBSET AllParts
      PROVE  LET e == [d EXCEPT !.parts = ps, !.layout = Restrict(@, ps \cap DOMAIN @)]
             IN e \in Document /\ e # NoDocument /\ e.made = d.made /\ e.notes = d.notes
  BY <1>1, <1>3 DEF Document
<1> QED
  BY <1>1, <1>4, <1>5, <1>6 DEF Document

\* What the user does to the document: it is of the same project, with no fewer notes.
Edits == 
  \/ \E l \in Layouts : EditLayout(l) \/ onApplySolverResult(l)
  \/ \E ps \in SUBSET Parts[open] : EditSchematic(ps)
  \/ \E n \in Notes : EditNotes(n)
  \/ handleUndo \/ handleRedo

LEMMA EditsKeep ==
  ASSUME TypeOK, Edits
  PROVE  /\ document' \in Document \cup {NoDocument}
         /\ document = NoDocument => document' = NoDocument
         /\ document # NoDocument =>
              document' # NoDocument /\ document'.made = document.made /\ document.notes \subseteq document'.notes
         /\ HistoryType'
         /\ UNCHANGED <<server, elsewhere, open, draftVersion, load, loadError, lastSaved, saveState, saves, leftVars, faults>>
         /\ job' \in {job, NoJob} /\ acts' \in 0..MaxActs
         /\ AutosaveEffect
<1>1. HistoryType
  BY TypeParts DEF TypeOK, HistoryType, Stack
<1>2. UNCHANGED historyVars => HistoryType'
  BY <1>1 DEF HistoryType, historyVars
<1>3. Act => acts' \in 0..MaxActs
  BY EditorAssumption DEF Act, TypeOK
<1>4. document # NoDocument => document \in Document
  BY DEF TypeOK
<1>5. ASSUME NEW l \in Layouts, EditLayout(l)
      PROVE  document # NoDocument /\ document' = [document EXCEPT !.layout = l] /\ HistoryType' /\ Act
  BY <1>1, <1>5, PushUndoType DEF EditLayout, CanEdit
<1>6. ASSUME NEW l \in Layouts, onApplySolverResult(l)
      PROVE  /\ document' = IF document = NoDocument THEN document ELSE [document EXCEPT !.layout = l]
             /\ HistoryType' /\ Act
  BY <1>1, <1>2, <1>6, PushUndoType DEF onApplySolverResult
<1>7. ASSUME NEW ps \in SUBSET Parts[open], EditSchematic(ps)
      PROVE  /\ document # NoDocument /\ ps \in SUBSET AllParts
             /\ document' = [document EXCEPT !.parts = ps, !.layout = Restrict(@, ps \cap DOMAIN @)]
             /\ HistoryType' /\ Act
  BY <1>1, <1>2, <1>7, EditorAssumption DEF EditSchematic, CanEdit, AllParts, TypeOK
<1>8. ASSUME NEW n \in Notes, EditNotes(n)
      PROVE  document # NoDocument /\ document' = [document EXCEPT !.notes = @ \cup {n}] /\ HistoryType' /\ Act
  BY <1>1, <1>2, <1>8 DEF EditNotes, CanEdit
<1>9. ASSUME handleUndo \/ handleRedo
      PROVE  \E l \in Layouts :
               /\ document' = IF document = NoDocument THEN document ELSE [document EXCEPT !.layout = l]
               /\ HistoryType' /\ Act
  BY <1>1, <1>9, UndoRedoType DEF handleUndo, handleRedo, ShowCurrent
<1>10. HistoryType' /\ Act
  BY <1>5, <1>6, <1>7, <1>8, <1>9 DEF Edits
<1> DEFINE Kept ==
      /\ document' \in Document \cup {NoDocument}
      /\ document = NoDocument => document' = NoDocument
      /\ document # NoDocument =>
           document' # NoDocument /\ document'.made = document.made /\ document.notes \subseteq document'.notes
<1>11. ASSUME NEW l \in Layouts,
              document' = IF document = NoDocument THEN document ELSE [document EXCEPT !.layout = l]
       PROVE  Kept
  <2>1. CASE document = NoDocument
    BY <1>11, <2>1
  <2>2. CASE document # NoDocument
    BY <1>4, <1>11, <2>2, DocumentChanged
  <2> QED
    BY <2>1, <2>2
<1>13. ASSUME NEW ps \in SUBSET AllParts, document # NoDocument,
              document' = [document EXCEPT !.parts = ps, !.layout = Restrict(@, ps \cap DOMAIN @)]
       PROVE  Kept
  BY <1>4, <1>13, DocumentChanged
<1>14. ASSUME NEW n \in Notes, document # NoDocument,
              document' = [document EXCEPT !.notes = @ \cup {n}]
       PROVE  Kept
  BY <1>4, <1>14, DocumentChanged
<1>15. Kept
  <2>1. ASSUME NEW l \in Layouts, EditLayout(l) \/ onApplySolverResult(l)
        PROVE  Kept
    BY <2>1, <1>5, <1>6, <1>11
  <2>2. ASSUME NEW ps \in SUBSET Parts[open], EditSchematic(ps)
        PROVE  Kept
    BY <2>2, <1>7, <1>13
  <2>3. ASSUME NEW n \in Notes, EditNotes(n)
        PROVE  Kept
    BY <2>3, <1>8, <1>14
  <2>4. CASE handleUndo \/ handleRedo
    BY <2>4, <1>9, <1>11
  <2> QED
    BY <2>1, <2>2, <2>3, <2>4 DEF Edits
<1>12. /\ UNCHANGED <<server, elsewhere, open, draftVersion, load, loadError, lastSaved, saveState, saves, leftVars, faults>>
       /\ job' \in {job, NoJob} /\ AutosaveEffect
  BY DEF Edits, EditLayout, onApplySolverResult, EditSchematic, EditNotes, handleUndo, handleRedo
<1> QED
  BY <1>3, <1>10, <1>12, <1>15

-----------------------------------------------------------------------------
(* Every action preserves the invariant *)

LEMMA TypesAfter ==
  HistoryType' /\ PlainType' /\ Flags' => TypeOK' /\ Pending'
<1>1. HistoryType' <=> /\ undoStack' \in Seq(Layouts) /\ redoStack' \in Seq(Layouts)
                       /\ Len(undoStack') <= STACK_CAP /\ Len(redoStack') <= STACK_CAP
                       /\ currentLayout' \in Layouts \cup {NoLayout}
  BY DEF HistoryType, Stack
<1> QED
  BY <1>1, Zenon DEF TypeOK, PlainType, Flags

LEMMA Fields ==
  ASSUME TypeOK
  PROVE  /\ \A p \in Projects : server[p].version \in Nat /\ server[p].doc \in Document
         /\ draftVersion \in Nat /\ open \in Projects
         /\ document # NoDocument => document \in Document /\ document.made \in Projects
         /\ \A i \in Slots : saves[i] # NoSave =>
              /\ saves[i].to \in Projects /\ saves[i].base \in Nat /\ saves[i].doc \in Document
              /\ saves[i].step \in {"sent", "ok", "conflict", "broken"}
         /\ load.step = "read" => load.draft.version \in Nat /\ load.draft.doc \in Document
BY DEF TypeOK, Draft, Document, Save

LEMMA EditsInv ==
  ASSUME IInv, Edits
  PROVE  IInv'
<1>1. TypeOK /\ HistoryType /\ PlainType /\ Flags
  BY TypeParts DEF IInv
<1>2. TypeOK' /\ Pending'
  <2>1. PlainType' /\ HistoryType'
    BY <1>1, EditsKeep DEF PlainType, leftVars
  <2>2. Flags'
    BY <1>1, EditsKeep, EffectType DEF Flags
  <2> QED
    BY <2>1, <2>2, TypesAfter
<1>3. ASSUME WireInv
      PROVE  WireInv'
  <2>1. ElsewhereKept' /\ OwnDocumentSaved'
    BY <1>1, <1>3, EditsKeep DEF WireInv, ElsewhereKept, OwnDocumentSaved, leftVars
  <2>2. PageInv'
    BY <1>1, <1>3, EditsKeep DEF WireInv, PageInv, UpToDate
  <2>3. OpenInv'
    BY <1>1, <1>3, EditsKeep DEF WireInv, OpenInv, AutosaveEffect
  <2>4. LoadInv'
    BY <1>1, <1>3, EditsKeep DEF WireInv, LoadInv, UpToDate
  <2>5. SaveInv'
    BY <1>1, <1>3, EditsKeep DEF WireInv, SaveInv, UpToDate, GivesVersion
  <2> QED
    BY <2>1, <2>2, <2>3, <2>4, <2>5 DEF WireInv
<1>4. (Undisturbed' => Undisturbed) /\ ShownInv'
  BY <1>1, EditsKeep DEF IInv, Undisturbed, ShownInv, leftVars
<1> QED
  BY <1>2, <1>3, <1>4 DEF IInv

LEMMA OpenProjectInv ==
  ASSUME IInv, NEW p \in Projects, OpenProject(p)
  PROVE  IInv'
<1>1. TypeOK /\ HistoryType /\ PlainType /\ Flags
  BY TypeParts DEF IInv
<1>2. /\ open' = p /\ load'.step = "asked" /\ load' \in [step : {"no", "asked"}] /\ loadError' = FALSE
      /\ UNCHANGED <<server, elsewhere, document, draftVersion, historyVars, job, faults>>
  BY DEF OpenProject
<1>3. /\ left' \subseteq {"timer", "save"} /\ left \subseteq left'
      /\ timer => "timer" \in left'
      /\ (\E i \in Slots : saves[i] # NoSave) => "save" \in left'
  BY <1>1 DEF OpenProject, PlainType
<1>4. /\ timer' => timer
      /\ leftTimers' \in Nat /\ (leftTimers' > 0 => timer \/ leftTimers > 0)
      /\ lastSaved' \in {lastSaved, NoDocument} /\ saveState' \in {saveState, "idle"}
      /\ saves' \in [Slots -> Save \cup {NoSave}]
      /\ \A i \in Slots : saves[i] = NoSave => saves'[i] = NoSave
      /\ timer' \in BOOLEAN
  <2>1. CASE OpenFromList(p)
    <3>1. /\ leftTimers' \in 0..IF timer THEN leftTimers + 1 ELSE leftTimers
          /\ saves' = [i \in Slots |->
                         IF saves[i] = NoSave THEN NoSave ELSE [saves[i] EXCEPT !.page = "left"]]
          /\ timer' = FALSE /\ lastSaved' = NoDocument /\ saveState' = "idle"
      BY <2>1 DEF OpenFromList
    <3>2. saves' \in [Slots -> Save \cup {NoSave}]
      BY <1>1, <3>1 DEF PlainType, Save
    <3>3. leftTimers \in Nat /\ timer \in BOOLEAN
      BY <1>1 DEF PlainType, Flags
    <3>4. leftTimers' \in Nat /\ (leftTimers' > 0 => timer \/ leftTimers > 0)
      BY <3>1, <3>3
    <3> QED
      BY <3>1, <3>2, <3>4
  <2>2. CASE StayOnPage(p)
    <3>1. UNCHANGED <<leftTimers, saves, lastSaved, saveState>> /\ timer' = timer
      BY <1>1, <1>2, <2>2 DEF StayOnPage, AutosaveEffect, Flags
    <3> QED
      BY <1>1, <3>1 DEF PlainType, Flags
  <2> QED
    BY <2>1, <2>2 DEF OpenProject
<1>5. TypeOK' /\ Pending'
  <2>1. PlainType'
    BY <1>1, <1>2, <1>3, <1>4, EditorAssumption DEF PlainType, OpenProject, Act
  <2>2. HistoryType'
    BY <1>1, <1>2 DEF HistoryType, historyVars
  <2>3. Flags'
    BY <1>1, <1>2, <1>3, <1>4 DEF Flags, Pending
  <2> QED
    BY <2>1, <2>2, <2>3, TypesAfter
<1>6. ASSUME WireInv, Undisturbed'
      PROVE  WireInv'
  <2>1. ~timer' /\ \A i \in Slots : saves'[i] = NoSave
    BY <1>3, <1>4, <1>6 DEF Undisturbed
  <2>2. left = {} /\ "load" \notin faults
    BY <1>2, <1>3, <1>6 DEF Undisturbed
  <2> QED
    BY <1>2, <1>6, <2>1, <2>2 DEF WireInv, ElsewhereKept, OwnDocumentSaved, PageInv, OpenInv, LoadInv,
       SaveInv, UpToDate
<1>7. (Undisturbed' => Undisturbed) /\ ShownInv'
  BY <1>2, <1>3 DEF Undisturbed, ShownInv
<1> QED
  BY <1>5, <1>6, <1>7 DEF IInv

LEMMA LoadingInv ==
  ASSUME IInv, ReadProject \/ FinishLoad \/ FailLoad
  PROVE  IInv'
<1>1. TypeOK /\ HistoryType /\ PlainType /\ Flags
  BY TypeParts DEF IInv
<1>2. ReadProject => load' = [step |-> "read", draft |-> server[open]] /\ server[open] \in Draft
  BY <1>1 DEF ReadProject, PlainType
<1>3. FinishLoad => /\ load.draft \in Draft /\ load.draft.doc \in Document /\ load.draft.version \in Nat
                    /\ load.draft.doc.layout \in Layouts /\ load.draft.doc # NoDocument
  BY <1>1, EditorAssumption DEF FinishLoad, PlainType, Draft, Document
<1>4. TypeOK' /\ Pending'
  <2>1. PlainType'
    <3>1. ReadProject => PlainType'
      BY <1>1, <1>2 DEF PlainType, ReadProject, leftVars
    <3>2. FinishLoad => PlainType'
      BY <1>1, <1>3 DEF PlainType, FinishLoad, leftVars
    <3>3. FailLoad => PlainType'
      BY <1>1 DEF PlainType, FailLoad, Fault, leftVars
    <3> QED
      BY <3>1, <3>2, <3>3
  <2>2. HistoryType'
    <3>1. FinishLoad => HistoryType'
      BY <1>1, <1>3, PushUndoType DEF FinishLoad, HistoryType, historyVars
    <3> QED
      BY <1>1, <3>1 DEF HistoryType, historyVars, ReadProject, FailLoad
  <2>3. Flags'
    <3>1. ReadProject => Flags'
      BY <1>1 DEF Flags, Pending, ReadProject, leftVars
    <3>2. FinishLoad => Flags'
      BY <1>1, <1>3 DEF Flags, Pending, FinishLoad, AutosaveEffect, leftVars
    <3>3. FailLoad => Flags'
      BY <1>1 DEF Flags, Pending, FailLoad, AutosaveEffect, leftVars
    <3> QED
      BY <3>1, <3>2, <3>3
  <2> QED
    BY <2>1, <2>2, <2>3, TypesAfter
<1>5. ASSUME WireInv, ReadProject, Undisturbed
      PROVE  WireInv'
  <2>1. open \in Projects
    BY <1>1, Fields
  <2>2. UpToDate(open, server[open].version, server[open].doc.notes)
    BY <1>1, <1>5, <2>1, Fields DEF WireInv, ElsewhereKept, UpToDate, Undisturbed, ReadProject
  <2>3. load.step = "asked" /\ load'.step = "read" /\ load'.draft = server[open]
    BY <1>2, <1>5 DEF ReadProject
  <2>4. UNCHANGED <<server, elsewhere, open, document, draftVersion, timer, saves, left, faults>>
    BY <1>5 DEF ReadProject, leftVars
  <2>5. ElsewhereKept' /\ OwnDocumentSaved' /\ PageInv' /\ OpenInv'
    BY <1>5, <2>3, <2>4 DEF WireInv, ElsewhereKept, OwnDocumentSaved, PageInv, OpenInv, UpToDate
  <2>6. server[open].doc.made = open
    BY <1>5, <2>1 DEF WireInv, OwnDocumentSaved, Undisturbed
  <2>7. LoadInv'
    BY <1>5, <2>2, <2>3, <2>4, <2>6 DEF WireInv, PageInv, LoadInv, UpToDate
  <2>8. SaveInv'
    BY <1>5, <2>2, <2>3, <2>4 DEF WireInv, SaveInv, UpToDate, GivesVersion
  <2> QED
    BY <2>5, <2>7, <2>8 DEF WireInv
<1>6. ASSUME WireInv, FinishLoad
      PROVE  WireInv'
  <2>1. load'.step = "no"
    BY <1>6 DEF FinishLoad
  <2>2. document' # NoDocument /\ document'.made = open /\ UNCHANGED <<server, elsewhere, open, saves, left, faults>>
    BY <1>3, <1>6 DEF FinishLoad, leftVars, WireInv, LoadInv
  <2>3. PageInv' /\ OpenInv' /\ LoadInv'
    BY <1>6, <2>1, <2>2 DEF WireInv, PageInv, OpenInv, LoadInv, UpToDate, FinishLoad
  <2>4. SaveInv'
    BY <1>6, <2>1, <2>2 DEF WireInv, SaveInv, UpToDate, GivesVersion, FinishLoad
  <2> QED
    BY <1>6, <2>2, <2>3, <2>4 DEF WireInv, ElsewhereKept, OwnDocumentSaved
<1>7. FailLoad => "load" \in faults'
  BY DEF FailLoad, Fault
<1>8. (ReadProject \/ FinishLoad) /\ Undisturbed' => Undisturbed
  BY DEF Undisturbed, ReadProject, FinishLoad, leftVars
<1>9. ShownInv'
  BY <1>3, <1>7 DEF ShownInv, ReadProject, FinishLoad
<1> QED
  BY <1>4, <1>5, <1>6, <1>7, <1>8, <1>9 DEF IInv, Undisturbed

LEMMA StartInv ==
  ASSUME IInv, startOperation
  PROVE  IInv'
<1>1. TypeOK /\ HistoryType /\ PlainType /\ Flags
  BY TypeParts DEF IInv
<1>2. server[open].doc \in Document
  BY <1>1, Fields
<1>3. job' \in [of : Projects, parts : SUBSET AllParts] /\ acts' \in 0..MaxActs
  BY <1>1, <1>2, EditorAssumption DEF startOperation, Act, PlainType, Document
<1>4. TypeOK' /\ Pending'
  <2>1. PlainType'
    BY <1>1, <1>3 DEF PlainType, startOperation, leftVars
  <2>2. HistoryType' /\ Flags'
    BY <1>1 DEF HistoryType, Flags, Pending, startOperation, historyVars, leftVars
  <2> QED
    BY <2>1, <2>2, TypesAfter
<1>5. WireInv => WireInv'
  BY DEF WireInv, ElsewhereKept, OwnDocumentSaved, PageInv, OpenInv, LoadInv, SaveInv, UpToDate,
     GivesVersion, startOperation, leftVars
<1> QED
  BY <1>4, <1>5 DEF IInv, ShownInv, Undisturbed, startOperation, leftVars

LEMMA SaveDocumentInv ==
  ASSUME IInv, SaveDocument
  PROVE  IInv'
<1>1. TypeOK /\ HistoryType /\ PlainType /\ Flags
  BY TypeParts DEF IInv
<1>2. PICK i \in Slots :
        saves' = [saves EXCEPT ![i] = Sent("this")]
  BY DEF SaveDocument
<1>3. document \in Document /\ document # NoDocument
  BY <1>1 DEF SaveDocument, Flags, Pending, PlainType
<1>4. TypeOK' /\ Pending'
  <2>1. PlainType'
    BY <1>1, <1>2, <1>3 DEF PlainType, SaveDocument, Save, Sent, leftVars
  <2>2. HistoryType' /\ Flags'
    BY <1>1 DEF HistoryType, Flags, Pending, SaveDocument, historyVars, leftVars
  <2> QED
    BY <2>1, <2>2, TypesAfter
<1>5. ASSUME WireInv
      PROVE  WireInv'
  <2>1. document.made = open
    BY <1>5 DEF WireInv, OpenInv, SaveDocument
  <2>2. ElsewhereKept' /\ OwnDocumentSaved' /\ PageInv' /\ OpenInv' /\ LoadInv'
    BY <1>5 DEF WireInv, ElsewhereKept, OwnDocumentSaved, PageInv, OpenInv, LoadInv, UpToDate, SaveDocument, leftVars
  <2>3. ASSUME NEW k \in Slots, k # i
        PROVE  saves'[k] = saves[k]
    BY <1>1, <1>2, <2>3 DEF PlainType
  <2>4. /\ saves'[i].to = open /\ saves'[i].doc = document /\ saves'[i].base = draftVersion
        /\ saves'[i].step = "sent"
    BY <1>1, <1>2 DEF PlainType, Sent
  <2>5. UNCHANGED <<server, elsewhere, open, document, load>>
    BY DEF SaveDocument
  <2>6. SaveInv'
    BY <1>3, <1>5, <2>1, <2>3, <2>4, <2>5 DEF WireInv, PageInv, LoadInv, SaveInv, UpToDate, GivesVersion
  <2> QED
    BY <2>2, <2>6 DEF WireInv
<1> QED
  BY <1>4, <1>5 DEF IInv, ShownInv, Undisturbed, SaveDocument, leftVars

LEMMA SaveDocumentLeftInv ==
  ASSUME IInv, SaveDocumentLeft
  PROVE  IInv'
<1>1. TypeOK /\ HistoryType /\ PlainType /\ Flags
  BY TypeParts DEF IInv
<1>2. PICK i \in Slots : saves' = [saves EXCEPT ![i] = Sent("left")]
  BY DEF SaveDocumentLeft
<1>3. document \in Document /\ document # NoDocument /\ "timer" \in left /\ leftTimers' \in Nat
  BY <1>1 DEF SaveDocumentLeft, Flags, Pending, PlainType
<1>4. TypeOK' /\ Pending'
  <2>1. PlainType'
    BY <1>1, <1>2, <1>3 DEF PlainType, SaveDocumentLeft, Save, Sent
  <2>2. HistoryType' /\ Flags'
    BY <1>1, <1>3 DEF HistoryType, Flags, Pending, SaveDocumentLeft, historyVars
  <2> QED
    BY <2>1, <2>2, TypesAfter
<1>5. ~Undisturbed' /\ ShownInv'
  BY <1>3 DEF IInv, Undisturbed, ShownInv, SaveDocumentLeft
<1> QED
  BY <1>4, <1>5 DEF IInv

\* A save that is over, or has nothing left to give, takes nothing from what holds.
LEMMA OneSaveLess ==
  ASSUME WireInv, NEW i \in Slots,
         \A k \in Slots \ {i} : saves'[k] = saves[k],
         \/ saves'[i] = NoSave
         \/ /\ saves[i] # NoSave /\ saves'[i].step \notin {"sent", "ok"}
            /\ saves'[i].to = saves[i].to /\ saves'[i].doc = saves[i].doc,
         UNCHANGED <<server, elsewhere, open, document, draftVersion, timer, left>>, faults \subseteq faults',
         load' = load \/ load'.step = "asked"
  PROVE  WireInv'
<1>1. ElsewhereKept' /\ OwnDocumentSaved' /\ PageInv' /\ OpenInv' /\ LoadInv'
  BY DEF WireInv, ElsewhereKept, OwnDocumentSaved, PageInv, OpenInv, LoadInv, UpToDate
<1>2. ASSUME NEW k \in Slots \ {i}, saves'[k] # NoSave
      PROVE  /\ saves[k] # NoSave /\ saves'[k] = saves[k] /\ GivesVersion(saves[k])' = GivesVersion(saves[k])
  BY <1>2 DEF GivesVersion
<1>3. SaveInv'
  BY <1>2 DEF WireInv, SaveInv, UpToDate
<1> QED
  BY <1>1, <1>3 DEF WireInv

LEMMA UpdateDocumentInv ==
  ASSUME IInv, NEW i \in Slots, UpdateDocument(i)
  PROVE  IInv'
<1>1. TypeOK /\ HistoryType /\ PlainType /\ Flags
  BY TypeParts DEF IInv
<1> DEFINE save == saves[i]
<1>2. /\ save # NoSave /\ save.step = "sent"
      /\ save.to \in Projects /\ save.base \in Nat /\ save.doc \in Document
  BY <1>1, Fields DEF UpdateDocument
<1>3. CASE /\ server[save.to].version = save.base
           /\ server' = [server EXCEPT ![save.to] = [version |-> save.base + 1, doc |-> save.doc]]
           /\ saves' = [saves EXCEPT ![i].step = "ok"]
  <2>1. TypeOK' /\ Pending'
    <3>1. server' \in [Projects -> Draft]
      BY <1>1, <1>2, <1>3 DEF PlainType, Draft
    <3>2. saves' \in [Slots -> Save \cup {NoSave}]
      BY <1>1, <1>2, <1>3 DEF PlainType, Save
    <3>3. PlainType'
      BY <1>1, <3>1, <3>2 DEF PlainType, UpdateDocument, leftVars
    <3>4. HistoryType' /\ Flags'
      BY <1>1 DEF HistoryType, Flags, Pending, UpdateDocument, historyVars, leftVars
    <3> QED
      BY <3>3, <3>4, TypesAfter
  <2>2. ASSUME WireInv, Undisturbed
        PROVE  WireInv'
    <3>1. /\ save.to = open /\ save.doc.made = open
          /\ elsewhere[open] \subseteq save.doc.notes
          /\ document # NoDocument /\ document.made = open
          /\ elsewhere[open] \subseteq document.notes
          /\ load.step = "read" => elsewhere[open] \subseteq load.draft.doc.notes
      BY <1>2, <1>3, <2>2 DEF WireInv, SaveInv, UpToDate, GivesVersion
    <3>2. /\ server'[open] = [version |-> save.base + 1, doc |-> save.doc]
          /\ \A p \in Projects \ {open} : server'[p] = server[p]
          /\ server[open].version = save.base /\ open \in Projects /\ save.base \in Nat
      BY <1>1, <1>2, <1>3, <3>1 DEF PlainType
    <3>3. UNCHANGED <<elsewhere, open, document, draftVersion, load, timer, left, faults>>
      BY DEF UpdateDocument, leftVars
    <3>4. ElsewhereKept' /\ OwnDocumentSaved'
      BY <2>2, <3>1, <3>2, <3>3 DEF WireInv, ElsewhereKept, OwnDocumentSaved
    <3>5. PageInv' /\ OpenInv'
      BY <1>1, <2>2, <3>1, <3>2, <3>3, Fields DEF WireInv, PageInv, OpenInv, UpToDate
    <3>6. LoadInv'
      BY <1>1, <2>2, <3>1, <3>2, <3>3, Fields DEF WireInv, LoadInv, UpToDate
    <3>7. /\ saves'[i] = [save EXCEPT !.step = "ok"]
          /\ \A k \in Slots \ {i} : saves'[k] = saves[k]
      BY <1>1, <1>3 DEF PlainType
    <3>8. /\ saves'[i].to = open /\ saves'[i].doc = save.doc /\ saves'[i].base = save.base
          /\ saves'[i].step = "ok"
      BY <1>1, <1>2, <3>1, <3>7 DEF PlainType
    <3>9. ASSUME NEW k \in Slots \ {i}, saves[k] # NoSave
          PROVE  /\ saves[k].step = "sent" => saves[k].base \in Nat /\ saves[k].base < save.base + 1
                 /\ saves[k].step \in {"sent", "ok"} => GivesVersion(saves[k]) < save.base + 1
      BY <1>1, <2>2, <3>2, <3>9, Fields DEF WireInv, SaveInv, UpToDate, GivesVersion
    <3>10. SaveInv'
      <4>1. ASSUME NEW k \in Slots \ {i}, saves'[k] # NoSave
            PROVE  /\ document' # NoDocument /\ document'.made = open'
                   /\ saves'[k].to = open' /\ saves'[k].doc.made = open'
                   /\ saves'[k].step = "sent" => UpToDate(open, saves[k].base, saves[k].doc.notes)'
                   /\ saves'[k].step \in {"sent", "ok"} =>
                        /\ UpToDate(open, GivesVersion(saves[k]), document.notes)'
                        /\ load'.step = "read" =>
                             UpToDate(open, GivesVersion(saves[k]), load.draft.doc.notes)'
        <5>1. saves[k] # NoSave /\ saves'[k] = saves[k]
          BY <3>7, <4>1
        <5>2. saves[k].to = open /\ saves[k].doc.made = open
          BY <2>2, <5>1 DEF WireInv, SaveInv
        <5>3. GivesVersion(saves[k])' = GivesVersion(saves[k])
          BY <5>1 DEF GivesVersion
        <5>4. /\ saves[k].base \in Nat
              /\ GivesVersion(saves[k]) \in Nat
          BY <1>1, <5>1, Fields DEF GivesVersion
        <5> QED
          BY <3>1, <3>2, <3>3, <3>9, <5>1, <5>2, <5>3, <5>4 DEF UpToDate
      <4>2. /\ document' # NoDocument /\ document'.made = open'
            /\ saves'[i].to = open' /\ saves'[i].doc.made = open'
            /\ saves'[i].step # "sent"
            /\ UpToDate(open, GivesVersion(saves[i]), document.notes)'
            /\ load'.step = "read" => UpToDate(open, GivesVersion(saves[i]), load.draft.doc.notes)'
        BY <3>1, <3>2, <3>3, <3>8 DEF UpToDate, GivesVersion
      <4> QED
        BY <4>1, <4>2 DEF SaveInv
    <3> QED
      BY <3>4, <3>5, <3>6, <3>10 DEF WireInv
  <2> QED
    BY <2>1, <2>2 DEF IInv, ShownInv, Undisturbed, UpdateDocument, leftVars
<1>4. CASE saves' = [saves EXCEPT ![i].step = "conflict"] /\ UNCHANGED server
  <2>1. TypeOK' /\ Pending'
    <3>1. PlainType'
      BY <1>1, <1>2, <1>4 DEF PlainType, UpdateDocument, Save, leftVars
    <3>2. HistoryType' /\ Flags'
      BY <1>1 DEF HistoryType, Flags, Pending, UpdateDocument, historyVars, leftVars
    <3> QED
      BY <3>1, <3>2, TypesAfter
  <2>2. /\ \A k \in Slots \ {i} : saves'[k] = saves[k]
        /\ saves'[i] = [save EXCEPT !.step = "conflict"]
    BY <1>1, <1>4 DEF PlainType
  <2>3. saves'[i].step = "conflict" /\ saves'[i].to = save.to /\ saves'[i].doc = save.doc
    BY <1>1, <1>2, <2>2 DEF PlainType
  <2>4. WireInv => WireInv'
    BY <1>2, <1>4, <2>2, <2>3, OneSaveLess DEF UpdateDocument, leftVars
  <2> QED
    BY <2>1, <2>4 DEF IInv, ShownInv, Undisturbed, UpdateDocument, leftVars
<1> QED
  BY <1>3, <1>4 DEF UpdateDocument

LEMMA SaveEndsInv ==
  ASSUME IInv, NEW i \in Slots, LoseSave(i) \/ SaveConflict(i) \/ SaveFailed(i)
  PROVE  IInv'
<1>1. TypeOK /\ HistoryType /\ PlainType /\ Flags
  BY TypeParts DEF IInv
<1>2. saves[i] # NoSave /\ saves' \in [Slots -> Save \cup {NoSave}]
  BY <1>1 DEF PlainType, LoseSave, SaveConflict, SaveFailed, Save
<1>3. TypeOK' /\ Pending'
  <2>1. load' = load \/ load' \in [step : {"no", "asked"}]
    BY DEF LoseSave, SaveConflict, SaveFailed
  <2>2. faults' \subseteq FaultKinds /\ faults \subseteq faults'
    BY <1>1 DEF PlainType, LoseSave, SaveConflict, SaveFailed, Fault
  <2>3. PlainType'
    BY <1>1, <1>2, <2>1, <2>2 DEF PlainType, LoseSave, SaveConflict, SaveFailed, leftVars
  <2>4. HistoryType'
    BY <1>1 DEF HistoryType, LoseSave, SaveConflict, SaveFailed, historyVars
  <2>5. Flags'
    <3>1. SaveConflict(i) => Flags'
      <4>1. SaveConflict(i) => loadError' = FALSE /\ UNCHANGED <<timer, document, leftTimers, left>>
        BY DEF SaveConflict, leftVars
      <4> QED
        BY <1>1, <4>1 DEF Flags, Pending
    <3>2. LoseSave(i) \/ SaveFailed(i) => Flags'
      BY <1>1 DEF Flags, Pending, LoseSave, SaveFailed, leftVars
    <3> QED
      BY <3>1, <3>2
  <2> QED
    BY <2>3, <2>4, <2>5, TypesAfter
<1>4. \A k \in Slots \ {i} : saves'[k] = saves[k]
  BY <1>1 DEF PlainType, LoseSave, SaveConflict, SaveFailed
<1>5. \/ saves'[i] = NoSave
      \/ /\ saves'[i].step \notin {"sent", "ok"}
         /\ saves'[i].to = saves[i].to /\ saves'[i].doc = saves[i].doc
  <2>1. CASE LoseSave(i)
    <3>1. saves'[i] = [saves[i] EXCEPT !.step = "broken"]
      BY <1>1, <2>1 DEF PlainType, LoseSave
    <3> QED
      BY <1>1, <1>2, <3>1 DEF PlainType
  <2>2. CASE SaveConflict(i) \/ SaveFailed(i)
    BY <1>1, <2>2 DEF PlainType, SaveConflict, SaveFailed
  <2> QED
    BY <2>1, <2>2
<1>6. /\ UNCHANGED <<server, elsewhere, open, document, draftVersion, timer, left>>
      /\ faults \subseteq faults' /\ (load' = load \/ load'.step = "asked")
  BY DEF LoseSave, SaveConflict, SaveFailed, Fault, leftVars
<1>7. WireInv => WireInv'
  BY <1>2, <1>4, <1>5, <1>6, OneSaveLess
<1> QED
  BY <1>3, <1>6, <1>7 DEF IInv, ShownInv, Undisturbed

LEMMA SaveOkInv ==
  ASSUME IInv, NEW i \in Slots, SaveOk(i) \/ (AnswerLeft(i) /\ saves[i].step = "ok")
  PROVE  IInv'
<1>1. TypeOK /\ HistoryType /\ PlainType /\ Flags
  BY TypeParts DEF IInv
<1>2. /\ saves[i] # NoSave /\ saves[i].step = "ok"
      /\ saves[i].to \in Projects /\ saves[i].base \in Nat /\ saves[i].doc \in Document
  BY <1>1, Fields DEF SaveOk, AnswerLeft
<1>3. /\ saves'[i] = NoSave /\ \A k \in Slots \ {i} : saves'[k] = saves[k]
      /\ UNCHANGED <<server, elsewhere, open, document, load, leftTimers, left, faults>>
      /\ draftVersion' = saves[i].base + 1
  BY <1>1 DEF PlainType, SaveOk, AnswerLeft, leftVars
<1>4. TypeOK' /\ Pending'
  <2>1. PlainType'
    <3>1. lastSaved' \in {lastSaved, saves[i].doc} /\ saveState' \in {saveState, "saved"}
      BY DEF SaveOk, AnswerLeft
    <3>2. saves' = [saves EXCEPT ![i] = NoSave] /\ UNCHANGED <<job, acts>>
      BY DEF SaveOk, AnswerLeft
    <3> QED
      BY <1>1, <1>2, <1>3, <3>1, <3>2 DEF PlainType
  <2>2. HistoryType'
    BY <1>1 DEF HistoryType, SaveOk, AnswerLeft, historyVars
  <2>3. Flags'
    <3>1. loadError' = loadError
      BY DEF SaveOk, AnswerLeft
    <3>2. timer' \in BOOLEAN /\ (timer' => document' # NoDocument)
      <4>1. CASE UNCHANGED timer
        BY <1>1, <1>3, <4>1 DEF Flags, Pending
      <4>2. CASE AutosaveEffect
        BY <1>1, <1>3, <4>2 DEF Flags, Pending, AutosaveEffect
      <4> QED
        BY <4>1, <4>2 DEF SaveOk, AnswerLeft
    <3> QED
      BY <1>1, <1>3, <3>1, <3>2 DEF Flags, Pending
  <2> QED
    BY <2>1, <2>2, <2>3, TypesAfter
<1>5. ASSUME WireInv
      PROVE  WireInv'
  <2>1. /\ document # NoDocument /\ document.made = open
        /\ UpToDate(open, saves[i].base + 1, document.notes)
        /\ load.step = "read" => UpToDate(open, saves[i].base + 1, load.draft.doc.notes)
    BY <1>2, <1>5 DEF WireInv, SaveInv, GivesVersion
  <2>2. ElsewhereKept' /\ OwnDocumentSaved' /\ PageInv'
    BY <1>3, <1>5, <2>1 DEF WireInv, ElsewhereKept, OwnDocumentSaved, PageInv, UpToDate
  <2>3. OpenInv'
    BY <1>3, <2>1 DEF OpenInv
  <2>4. LoadInv'
    BY <1>3, <1>5, <2>1 DEF WireInv, LoadInv, UpToDate
  <2>5. SaveInv'
    BY <1>3, <1>5 DEF WireInv, SaveInv, UpToDate, GivesVersion
  <2> QED
    BY <2>2, <2>3, <2>4, <2>5 DEF WireInv
<1> QED
  BY <1>3, <1>4, <1>5 DEF IInv, ShownInv, Undisturbed

LEMMA AnswerLeftInv ==
  ASSUME IInv, NEW i \in Slots, AnswerLeft(i)
  PROVE  IInv'
<1>1. CASE saves[i].step = "ok"
  BY <1>1, SaveOkInv
<1>2. CASE saves[i].step # "ok"
  <2>1. TypeOK /\ HistoryType /\ PlainType /\ Flags
    BY TypeParts DEF IInv
  <2>2. /\ saves' = [saves EXCEPT ![i] = NoSave]
        /\ UNCHANGED <<server, elsewhere, open, document, draftVersion, historyVars, job, load, loadError,
                       lastSaved, saveState, timer, leftTimers, left, acts, faults>>
    BY <1>2 DEF AnswerLeft, leftVars
  <2>3. TypeOK' /\ Pending'
    <3>1. PlainType' /\ HistoryType'
      BY <2>1, <2>2 DEF PlainType, HistoryType, historyVars
    <3>2. Flags'
      BY <2>1, <2>2 DEF Flags, Pending
    <3> QED
      BY <3>1, <3>2, TypesAfter
  <2>4. saves'[i] = NoSave /\ \A k \in Slots \ {i} : saves'[k] = saves[k]
    BY <2>1, <2>2 DEF PlainType
  <2>5. WireInv => WireInv'
    BY <2>2, <2>4, OneSaveLess
  <2> QED
    BY <2>2, <2>3, <2>5 DEF IInv, ShownInv, Undisturbed
<1> QED
  BY <1>1, <1>2

LEMMA SaveElsewhereInv ==
  ASSUME IInv, NEW p \in Projects, NEW n \in AllNotes, SaveElsewhere(p, n)
  PROVE  IInv'
<1>1. TypeOK /\ HistoryType /\ PlainType /\ Flags
  BY TypeParts DEF IInv
<1>2. UNCHANGED <<open, document, draftVersion, undoStack, redoStack, currentLayout, job, load,
                  loadError, lastSaved, saveState, timer, saves, leftTimers, left, acts, faults>>
  BY DEF SaveElsewhere, pageVars, historyVars
<1>3. /\ server'[p].version = server[p].version + 1 /\ server'[p].doc.made = server[p].doc.made
      /\ server'[p].doc.notes = server[p].doc.notes \cup {n} /\ server'[p] \in Draft
      /\ elsewhere'[p] = elsewhere[p] \cup {n}
      /\ \A q \in Projects \ {p} : server'[q] = server[q] /\ elsewhere'[q] = elsewhere[q]
      /\ DOMAIN server' = Projects /\ elsewhere' \in [Projects -> SUBSET AllNotes]
  <2>1. /\ server[p] \in Draft /\ server[p].doc \in Document
        /\ DOMAIN server = Projects /\ elsewhere \in [Projects -> SUBSET AllNotes]
    BY <1>1 DEF PlainType, Draft
  <2>2. /\ server' = [server EXCEPT ![p].version = @ + 1, ![p].doc.notes = @ \cup {n}]
        /\ elsewhere' = [elsewhere EXCEPT ![p] = @ \cup {n}]
    BY DEF SaveElsewhere
  <2>3. /\ server'[p] = [server[p] EXCEPT !.version = @ + 1, !.doc.notes = @ \cup {n}]
        /\ \A q \in Projects \ {p} : server'[q] = server[q]
        /\ DOMAIN server' = Projects
    BY <2>1, <2>2
  <2>4. /\ elsewhere'[p] = elsewhere[p] \cup {n}
        /\ \A q \in Projects \ {p} : elsewhere'[q] = elsewhere[q]
        /\ elsewhere' \in [Projects -> SUBSET AllNotes]
    BY <2>1, <2>2
  <2> DEFINE d == server[p]  e == [d.doc EXCEPT !.notes = @ \cup {n}]
  <2>5. server'[p] = [version |-> d.version + 1, doc |-> e] /\ d.version \in Nat
    <3>1. d = [version |-> d.version, doc |-> d.doc] /\ d.version \in Nat
      BY <2>1 DEF Draft
    <3> QED
      BY <2>3, <3>1
  <2>6. /\ server'[p].doc.made = server[p].doc.made /\ server'[p].doc \in Document
        /\ server'[p].doc.notes = server[p].doc.notes \cup {n}
    BY <2>1, <2>5 DEF Document
  <2>7. server'[p] \in Draft /\ server'[p].version = server[p].version + 1
    BY <2>5, <2>6 DEF Draft
  <2> QED
    BY <2>3, <2>4, <2>6, <2>7
<1>4. TypeOK' /\ Pending'
  <2>1. server' \in [Projects -> Draft]
    BY <1>1, <1>3 DEF PlainType, SaveElsewhere
  <2>2. PlainType'
    BY <1>1, <1>2, <1>3, <2>1 DEF PlainType
  <2>3. HistoryType' /\ Flags'
    BY <1>1, <1>2 DEF HistoryType, Flags, Pending
  <2> QED
    BY <2>2, <2>3, TypesAfter
<1>5. ASSUME WireInv
      PROVE  WireInv'
  <2>1. ElsewhereKept' /\ OwnDocumentSaved' /\ OpenInv'
    BY <1>2, <1>3, <1>5 DEF WireInv, ElsewhereKept, OwnDocumentSaved, OpenInv
  <2>2. ASSUME NEW q \in Projects, NEW v \in Nat, NEW notes, UpToDate(q, v, notes)
        PROVE  /\ v <= server'[q].version
               /\ v = server'[q].version => elsewhere'[q] \subseteq notes
    BY <1>1, <1>3, <2>2, Fields DEF UpToDate
  <2>3. PageInv' /\ LoadInv'
    BY <1>1, <1>2, <1>5, <2>2, Fields DEF WireInv, PageInv, LoadInv, UpToDate
  <2>4. SaveInv'
    <3>1. ASSUME NEW i \in Slots, saves[i] # NoSave
          PROVE  saves[i].base \in Nat /\ GivesVersion(saves[i]) \in Nat
                 /\ GivesVersion(saves[i])' = GivesVersion(saves[i])
      BY <1>1, <1>2, <3>1, Fields DEF GivesVersion
    <3>2. open \in Projects
      BY <1>1, Fields
    <3> QED
      BY <1>2, <1>5, <2>2, <3>1, <3>2 DEF WireInv, SaveInv, UpToDate
  <2> QED
    BY <2>1, <2>3, <2>4 DEF WireInv
<1> QED
  BY <1>2, <1>4, <1>5 DEF IInv, ShownInv, Undisturbed

-----------------------------------------------------------------------------
(* What follows *)

\* The inductive invariant holds whatever the user, the timer, the wire and others do.
THEOREM Invariant == Spec => []IInv
<1>1. ASSUME IInv, [Next]_vars
      PROVE  IInv'
  <2>1. CASE UNCHANGED vars
    <3>1. UNCHANGED IInv
      BY <2>1 DEF vars, IInv, TypeOK, Pending, ShownInv, Undisturbed, WireInv, ElsewhereKept, OwnDocumentSaved, PageInv, OpenInv,
         LoadInv, SaveInv, UpToDate, GivesVersion
    <3> QED
      BY <1>1, <3>1
  <2>2. CASE User
    BY <1>1, <2>2, EditsInv, StartInv, OpenProjectInv DEF User, Edits
  <2>3. CASE Loading \/ FailLoad \/ SaveDocument \/ SaveDocumentLeft
    BY <1>1, <2>3, LoadingInv, SaveDocumentInv, SaveDocumentLeftInv DEF Loading
  <2>4. CASE \E i \in Slots : Saving(i) \/ LoseSave(i)
    BY <1>1, <2>4, UpdateDocumentInv, SaveOkInv, SaveEndsInv, AnswerLeftInv DEF Saving
  <2>5. CASE \E p \in Projects, n \in AllNotes : SaveElsewhere(p, n)
    BY <1>1, <2>5, SaveElsewhereInv
  <2> QED
    BY <1>1, <2>1, <2>2, <2>3, <2>4, <2>5 DEF Next
<1> QED
  BY <1>1, InitInv, PTL DEF Spec

\* The page's variables, its saves and the drafts keep their types; the stacks of
\* undo and redo keep to their limit.
THEOREM TypeCorrect == Spec => []TypeOK
<1>1. IInv => TypeOK
  BY DEF IInv
<1> QED
  BY <1>1, Invariant, PTL

\* However saves, loads and answers overtake each other, the autosave does not take back what
\* somebody else has saved, as long as no load has failed and no project was left with a save
\* pending or on the wire (saveDocument, load()).
THEOREM ElsewhereStays == Spec => []ElsewhereKept
<1>1. IInv => ElsewhereKept
  BY DEF IInv, WireInv, Undisturbed, ElsewhereKept
<1> QED
  BY <1>1, Invariant, PTL

\* No save carries one project's document to another, and what is on screen while the
\* autosave runs or may be started is the open project's, unless a load has failed or a
\* project was left with the timer pending.
OwnInv ==
  "load" \notin faults /\ "timer" \notin left =>
    /\ OwnDocumentSaved /\ OpenInv
    /\ load.step = "read" => load.draft.doc.made = open
    /\ \A i \in Slots : saves[i] # NoSave => saves[i].doc.made = saves[i].to

LEMMA OwnEdits ==
  ASSUME TypeOK, OwnInv, Edits \/ startOperation
  PROVE  OwnInv'
<1>1. CASE Edits
  <2>1. /\ UNCHANGED <<server, open, load, saves, left, faults>> /\ AutosaveEffect
        /\ document # NoDocument => document' # NoDocument /\ document'.made = document.made
    BY <1>1, EditsKeep DEF leftVars
  <2> QED
    BY <2>1 DEF OwnInv, OwnDocumentSaved, OpenInv, AutosaveEffect
<1>2. CASE startOperation
  BY <1>2 DEF OwnInv, OwnDocumentSaved, OpenInv, startOperation, leftVars
<1> QED
  BY <1>1, <1>2

LEMMA OwnOpen ==
  ASSUME TypeOK, OwnInv, NEW p \in Projects, OpenProject(p)
  PROVE  OwnInv'
<1>1. UNCHANGED <<server, document, faults>> /\ load'.step = "asked"
  BY DEF OpenProject
<1>2. "timer" \notin left' => "timer" \notin left /\ ~timer
  BY DEF OpenProject
<1>3. timer' => timer
  BY <1>1 DEF OpenProject, OpenFromList, StayOnPage, AutosaveEffect, TypeOK
<1>4. ASSUME NEW i \in Slots, saves'[i] # NoSave
      PROVE  saves[i] # NoSave /\ saves'[i].doc = saves[i].doc /\ saves'[i].to = saves[i].to
  <2>1. CASE OpenFromList(p)
    BY <1>4, <2>1 DEF OpenFromList, TypeOK, Save
  <2>2. CASE StayOnPage(p)
    BY <1>4, <2>2 DEF StayOnPage
  <2> QED
    BY <2>1, <2>2 DEF OpenProject
<1> QED
  BY <1>1, <1>2, <1>3, <1>4 DEF OwnInv, OwnDocumentSaved, OpenInv

LEMMA OwnLoading ==
  ASSUME TypeOK, OwnInv, ReadProject \/ FinishLoad \/ FailLoad
  PROVE  OwnInv'
<1>1. CASE ReadProject
  <2>1. /\ UNCHANGED <<server, open, document, timer, saves, left, faults>>
        /\ load' = [step |-> "read", draft |-> server[open]]
    BY <1>1 DEF ReadProject, leftVars
  <2>2. open \in Projects
    BY DEF TypeOK
  <2> QED
    BY <2>1, <2>2 DEF OwnInv, OwnDocumentSaved, OpenInv
<1>2. CASE FinishLoad
  <2>1. /\ UNCHANGED <<server, open, saves, left, faults>>
        /\ load.step = "read" /\ load'.step = "no" /\ document' = load.draft.doc
    BY <1>2 DEF FinishLoad, leftVars
  <2>2. document' # NoDocument
    BY <2>1, EditorAssumption DEF TypeOK, Draft
  <2> QED
    BY <2>1, <2>2 DEF OwnInv, OwnDocumentSaved, OpenInv
<1>3. FailLoad => "load" \in faults'
  BY DEF FailLoad, Fault
<1> QED
  BY <1>1, <1>2, <1>3 DEF OwnInv

LEMMA OwnSaving ==
  ASSUME TypeOK, Pending, OwnInv, SaveDocument \/ SaveDocumentLeft \/ \E i \in Slots : Saving(i) \/ LoseSave(i)
  PROVE  OwnInv'
<1>1. CASE SaveDocument
  <2>1. PICK i \in Slots : saves' = [saves EXCEPT ![i] = Sent("this")]
    BY <1>1 DEF SaveDocument
  <2>2. /\ saves'[i].to = open /\ saves'[i].doc = document
        /\ \A k \in Slots \ {i} : saves'[k] = saves[k]
    BY <2>1 DEF Sent, TypeOK
  <2>3. /\ UNCHANGED <<server, open, document, load, left, faults>> /\ timer /\ ~timer'
    BY <1>1 DEF SaveDocument, leftVars
  <2> QED
    BY <2>2, <2>3 DEF OwnInv, OwnDocumentSaved, OpenInv
<1>2. CASE SaveDocumentLeft
  BY <1>2 DEF OwnInv, Pending, SaveDocumentLeft
<1>3. ASSUME NEW i \in Slots, UpdateDocument(i)
      PROVE  OwnInv'
  <2>1. UNCHANGED <<open, document, load, timer, left, faults>>
    BY <1>3 DEF UpdateDocument, leftVars
  <2>2. saves[i] \in Save /\ saves[i] # NoSave
    BY <1>3 DEF UpdateDocument, TypeOK
  <2>3. /\ saves'[i].to = saves[i].to /\ saves'[i].doc = saves[i].doc
        /\ \A k \in Slots \ {i} : saves'[k] = saves[k]
    BY <1>3, <2>2 DEF UpdateDocument, TypeOK, Save
  <2>4. ASSUME NEW p \in Projects
        PROVE  server'[p] = server[p] \/ (p = saves[i].to /\ server'[p].doc = saves[i].doc)
    BY <1>3, <2>2 DEF UpdateDocument, TypeOK, Save
  <2> QED
    BY <2>1, <2>2, <2>3, <2>4 DEF OwnInv, OwnDocumentSaved, OpenInv
<1>4. ASSUME NEW i \in Slots, LoseSave(i) \/ SaveOk(i) \/ SaveConflict(i) \/ SaveFailed(i) \/ AnswerLeft(i)
      PROVE  OwnInv'
  <2>1. UNCHANGED <<server, open, document, left>> /\ faults \subseteq faults'
    BY <1>4 DEF LoseSave, SaveOk, SaveConflict, SaveFailed, AnswerLeft, Fault, leftVars
  <2>2. load' = load \/ load'.step = "asked"
    BY <1>4 DEF LoseSave, SaveOk, SaveConflict, SaveFailed, AnswerLeft
  <2>3. timer' = timer \/ (AutosaveEffect /\ load' = load)
    BY <1>4 DEF LoseSave, SaveOk, SaveConflict, SaveFailed, AnswerLeft
  <2>4. ASSUME NEW k \in Slots, saves'[k] # NoSave
        PROVE  saves[k] # NoSave /\ saves'[k].doc = saves[k].doc /\ saves'[k].to = saves[k].to
    <3>1. CASE LoseSave(i)
      BY <2>4, <3>1 DEF LoseSave, TypeOK, Save
    <3>2. CASE SaveOk(i) \/ SaveConflict(i) \/ SaveFailed(i) \/ AnswerLeft(i)
      BY <2>4, <3>2 DEF SaveOk, SaveConflict, SaveFailed, AnswerLeft, TypeOK
    <3> QED
      BY <1>4, <3>1, <3>2
  <2> QED
    BY <2>1, <2>2, <2>3, <2>4 DEF OwnInv, OwnDocumentSaved, OpenInv, AutosaveEffect
<1> QED
  BY <1>1, <1>2, <1>3, <1>4 DEF Saving

LEMMA OwnElsewhere ==
  ASSUME TypeOK, OwnInv, NEW p \in Projects, NEW n \in AllNotes, SaveElsewhere(p, n)
  PROVE  OwnInv'
<1>1. UNCHANGED <<open, document, load, timer, saves, left, faults>>
  BY DEF SaveElsewhere, pageVars
<1>2. ASSUME NEW q \in Projects
      PROVE  server'[q].doc.made = server[q].doc.made
  BY DEF SaveElsewhere, TypeOK, Draft, Document
<1> QED
  BY <1>1, <1>2 DEF OwnInv, OwnDocumentSaved, OpenInv

\* Nor does it save one project's document into another, even when a project is left while
\* saves are on the wire, unless a load has failed or the timer was pending then.
THEOREM OwnDocument == Spec => []OwnDocumentSaved
<1>1. Init => OwnInv
  BY FreshType DEF Init, OwnInv, OwnDocumentSaved, OpenInv
<1>2. ASSUME IInv, OwnInv, [Next]_vars
      PROVE  OwnInv'
  <2>1. CASE UNCHANGED vars
    BY <1>2, <2>1 DEF vars, OwnInv, OwnDocumentSaved, OpenInv
  <2>2. TypeOK /\ Pending
    BY <1>2 DEF IInv
  <2>3. CASE User
    BY <1>2, <2>2, <2>3, OwnEdits, OwnOpen DEF User, Edits
  <2>4. CASE Loading \/ FailLoad
    BY <1>2, <2>2, <2>4, OwnLoading DEF Loading
  <2>5. CASE SaveDocument \/ SaveDocumentLeft \/ \E i \in Slots : Saving(i) \/ LoseSave(i)
    BY <1>2, <2>2, <2>5, OwnSaving
  <2>6. CASE \E p \in Projects, n \in AllNotes : SaveElsewhere(p, n)
    BY <1>2, <2>2, <2>6, OwnElsewhere
  <2> QED
    BY <1>2, <2>1, <2>3, <2>4, <2>5, <2>6 DEF Next
<1>3. OwnInv => OwnDocumentSaved
  BY DEF OwnInv, OwnDocumentSaved
<1> QED
  BY <1>1, <1>2, <1>3, Invariant, PTL DEF Spec

-----------------------------------------------------------------------------
(* Nothing unsaved is left behind *)

\* Save i will make the document on screen the last saved one, or have it loaded anew.
Answering(i) ==
  /\ saves[i] # NoSave /\ saves[i].page = "this"
  /\ saves[i].doc = document \/ saves[i].step = "conflict"

\* While no request fails: a document that is not the last saved one is waiting for the
\* timer or for an answer, and what the page says of its saves is true.
QuietInv ==
  faults = {} =>
    /\ \A i \in Slots : saves[i] # NoSave => saves[i].step # "broken"
    /\ saveState # "failed"
    /\ saveState = "conflict" => isLoading
    /\ saveState = "saving" => \E i \in Slots : saves[i] # NoSave /\ saves[i].page = "this"
    /\ load.step = "no" /\ ~timer /\ document # lastSaved => \E i \in Slots : Answering(i)

LEMMA EditsQuiet ==
  ASSUME TypeOK, ShownInv, QuietInv, Edits
  PROVE  QuietInv'
<1>1. /\ UNCHANGED <<load, lastSaved, saveState, saves, leftVars, faults>> /\ AutosaveEffect
      /\ document # NoDocument => document' # NoDocument
  BY EditsKeep
<1>2. faults = {} /\ load.step = "no" => document # NoDocument
  BY DEF ShownInv
<1> QED
  BY <1>1, <1>2 DEF QuietInv, AutosaveEffect, Answering, isLoading

LEMMA OtherStepsQuiet ==
  ASSUME TypeOK, QuietInv, startOperation \/ ReadProject \/ FinishLoad \/ FailLoad
                     \/ \E p \in Projects : OpenProject(p)
  PROVE  QuietInv'
<1>1. startOperation => QuietInv'
  BY DEF QuietInv, Answering, isLoading, startOperation
<1>2. ReadProject => QuietInv'
  BY DEF QuietInv, Answering, isLoading, ReadProject
<1>3. FinishLoad => QuietInv'
  BY DEF QuietInv, Answering, isLoading, FinishLoad
<1>4. FailLoad => QuietInv'
  BY DEF QuietInv, FailLoad, Fault
<1>5. ASSUME NEW p \in Projects, OpenProject(p)
      PROVE  QuietInv'
  <2>1. UNCHANGED faults /\ load'.step = "asked"
    BY <1>5 DEF OpenProject
  <2>2. CASE OpenFromList(p)
    <3>1. saveState' = "idle"
      BY <2>2 DEF OpenFromList
    <3>2. ASSUME NEW i \in Slots, saves'[i] # NoSave
          PROVE  saves[i] # NoSave /\ saves'[i].step = saves[i].step
      BY <2>2, <3>2 DEF OpenFromList, TypeOK, Save
    <3> QED
      BY <2>1, <3>1, <3>2 DEF QuietInv, isLoading
  <2>3. CASE StayOnPage(p)
    BY <2>1, <2>3 DEF StayOnPage, QuietInv, isLoading
  <2> QED
    BY <1>5, <2>2, <2>3 DEF OpenProject
<1> QED
  BY <1>1, <1>2, <1>3, <1>4, <1>5

LEMMA SaveDocumentQuiet ==
  ASSUME IInv, QuietInv, SaveDocument
  PROVE  QuietInv'
<1>1. PICK i \in Slots :
        saves' = [saves EXCEPT ![i] = Sent("this")]
  BY DEF SaveDocument
<1>2. /\ saves'[i] = Sent("this")
      /\ \A k \in Slots \ {i} : saves'[k] = saves[k]
  BY <1>1 DEF IInv, TypeOK
<1>3. UNCHANGED <<document, load, lastSaved, faults>> /\ saveState' = "saving"
  BY DEF SaveDocument, leftVars
<1>4. /\ saves'[i] # NoSave /\ saves'[i].page = "this" /\ saves'[i].doc = document
      /\ saves'[i].step = "sent"
  <2>1. document \in Document /\ open \in Projects /\ draftVersion \in Nat
    BY DEF IInv, Pending, TypeOK, SaveDocument
  <2>2. saves'[i] \in Save
    BY <1>2, <2>1 DEF Save, Sent
  <2> QED
    BY <1>2, <2>2, EditorAssumption DEF Sent
<1>5. QuietInv'
  <2> SUFFICES ASSUME faults = {}
               PROVE  QuietInv'
    BY <1>3 DEF QuietInv
  <2>1. Answering(i)'
    BY <1>3, <1>4 DEF Answering
  <2>2. \A k \in Slots : saves'[k] # NoSave => saves'[k].step # "broken"
    BY <1>2, <1>4 DEF QuietInv
  <2> QED
    BY <1>3, <1>4, <2>1, <2>2 DEF QuietInv
<1> QED
  BY <1>5

LEMMA UpdateDocumentQuiet ==
  ASSUME TypeOK, QuietInv, NEW i \in Slots, UpdateDocument(i)
  PROVE  QuietInv'
<1>1. saves[i] \in Save /\ saves[i] # NoSave
  BY DEF UpdateDocument, TypeOK
<1> DEFINE Stepped(st) == [saves[i] EXCEPT !.step = st]
<1>2. /\ saves'[i] \in Save /\ saves'[i].doc = saves[i].doc /\ saves'[i].page = saves[i].page
      /\ saves'[i].step \in {"ok", "conflict"}
      /\ \A k \in Slots \ {i} : saves'[k] = saves[k]
  <2>1. PICK st \in {"ok", "conflict"} : saves' = [saves EXCEPT ![i].step = st]
    BY DEF UpdateDocument
  <2>2. saves'[i] = Stepped(st) /\ \A k \in Slots \ {i} : saves'[k] = saves[k]
    BY <2>1 DEF TypeOK
  <2>3. /\ Stepped(st) \in Save /\ Stepped(st).doc = saves[i].doc /\ Stepped(st).page = saves[i].page
        /\ Stepped(st).step = st
    BY <1>1 DEF Save
  <2> QED
    BY <2>2, <2>3
<1>3. saves[i].step = "sent" /\ UNCHANGED <<document, load, lastSaved, saveState, timer, faults>>
  BY DEF UpdateDocument, leftVars
<1>4. saves'[i] # NoSave
  BY <1>2, EditorAssumption
<1> QED
  BY <1>1, <1>2, <1>3, <1>4 DEF QuietInv, Answering, isLoading

LEMMA LeftQuiet ==
  ASSUME TypeOK, Pending, QuietInv, SaveDocumentLeft \/ \E i \in Slots : AnswerLeft(i)
  PROVE  QuietInv'
<1>1. CASE SaveDocumentLeft
  <2>1. PICK i \in Slots : saves[i] = NoSave /\ saves' = [saves EXCEPT ![i] = Sent("left")]
    BY <1>1 DEF SaveDocumentLeft, Slot
  <2>2. /\ saves'[i].step = "sent" /\ \A k \in Slots \ {i} : saves'[k] = saves[k]
    BY <2>1 DEF TypeOK, Sent
  <2>3. UNCHANGED <<document, load, lastSaved, saveState, timer, faults>>
    BY <1>1 DEF SaveDocumentLeft
  <2>4. ASSUME NEW k \in Slots, saves[k] # NoSave
        PROVE  saves'[k] = saves[k]
    BY <2>1, <2>2, <2>4
  <2>5. \A k \in Slots : Answering(k) => Answering(k)'
    BY <2>3, <2>4 DEF Answering
  <2>6. faults = {} => \A k \in Slots : saves'[k] # NoSave => saves'[k].step # "broken"
    BY <2>2 DEF QuietInv
  <2> QED
    BY <2>3, <2>4, <2>5, <2>6 DEF QuietInv, isLoading
<1>2. ASSUME NEW i \in Slots, AnswerLeft(i)
      PROVE  QuietInv'
  <2>1. /\ saves'[i] = NoSave /\ saves[i].page = "left" /\ \A k \in Slots \ {i} : saves'[k] = saves[k]
        /\ UNCHANGED <<document, load, lastSaved, saveState, timer, faults>>
    BY <1>2 DEF AnswerLeft, TypeOK
  <2>2. \A k \in Slots : saves[k].page = "this" => saves'[k] = saves[k]
    BY <2>1
  <2>3. \A k \in Slots : Answering(k) => Answering(k)'
    BY <2>1, <2>2 DEF Answering
  <2>4. faults = {} => \A k \in Slots : saves'[k] # NoSave => saves'[k].step # "broken"
    BY <2>1 DEF QuietInv
  <2> QED
    BY <2>1, <2>2, <2>3, <2>4 DEF QuietInv, isLoading
<1> QED
  BY <1>1, <1>2

LEMMA AnsweredQuiet ==
  ASSUME TypeOK, ShownInv, QuietInv, NEW i \in Slots,
         SaveOk(i) \/ SaveConflict(i) \/ SaveFailed(i) \/ LoseSave(i)
  PROVE  QuietInv'
<1>1. ASSUME SaveOk(i)
      PROVE  QuietInv'
  <2>1. /\ saves[i] # NoSave /\ saves[i].step = "ok" /\ saves'[i] = NoSave
        /\ \A k \in Slots \ {i} : saves'[k] = saves[k]
        /\ UNCHANGED <<document, load, faults>>
        /\ lastSaved' = saves[i].doc /\ saveState' = "saved"
        /\ IF lastSaved' = lastSaved THEN UNCHANGED timer ELSE AutosaveEffect
    BY <1>1 DEF SaveOk, TypeOK
  <2>2. ASSUME faults = {}, load.step = "no", ~timer', document # lastSaved'
        PROVE  \E k \in Slots : Answering(k)'
    <3>1. document # NoDocument
      BY <2>1, <2>2 DEF ShownInv
    <3>2. lastSaved' = lastSaved /\ ~timer
      BY <2>1, <2>2, <3>1 DEF AutosaveEffect
    <3>3. PICK k \in Slots : Answering(k)
      BY <2>1, <2>2, <3>2 DEF QuietInv
    <3>4. k # i
      BY <2>1, <2>2, <3>3 DEF Answering
    <3> QED
      BY <2>1, <3>3, <3>4 DEF Answering
  <2> QED
    BY <2>1, <2>2 DEF QuietInv, isLoading
<1>2. ASSUME SaveConflict(i)
      PROVE  QuietInv'
  <2>1. /\ saves'[i] = NoSave /\ \A k \in Slots \ {i} : saves'[k] = saves[k]
        /\ UNCHANGED faults /\ load'.step = "asked" /\ saveState' = "conflict"
    BY <1>2 DEF SaveConflict, TypeOK
  <2> QED
    BY <2>1 DEF QuietInv, isLoading
<1>3. SaveFailed(i) => QuietInv'
  BY DEF QuietInv, SaveFailed
<1>4. LoseSave(i) => faults' # {}
  BY DEF LoseSave, Fault
<1> QED
  BY <1>1, <1>2, <1>3, <1>4 DEF QuietInv

\* While no request fails, nothing is pending only when the document on screen is the one
\* the page takes for saved: no order of edits, timers, answers and reloads leaves an edit
\* with nobody to save it (saveDocument, the autosave and the load effect).
THEOREM NothingUnsaved == Spec => []NothingUnsavedWhenQuiet
<1>1. Init => QuietInv
  BY DEF Init, QuietInv
<1>2. ASSUME IInv, QuietInv, [Next]_vars
      PROVE  QuietInv'
  <2>1. CASE UNCHANGED vars
    BY <1>2, <2>1 DEF vars, QuietInv, Answering, isLoading
  <2> SUFFICES ASSUME Next, faults' = {}, faults = {}
               PROVE  QuietInv'
    <3>1. Next => faults \subseteq faults'
      BY DEF Next, User, Loading, Saving, EditLayout, onApplySolverResult, EditSchematic, EditNotes,
         handleUndo, handleRedo, startOperation, OpenProject, ReadProject, FinishLoad, FailLoad, Fault,
         SaveDocument, SaveDocumentLeft, UpdateDocument, SaveOk, SaveConflict, SaveFailed, AnswerLeft,
         LoseSave, SaveElsewhere, leftVars
    <3> QED
      BY <1>2, <2>1, <3>1 DEF QuietInv
  <2>2. TypeOK /\ Pending /\ ShownInv
    BY <1>2 DEF IInv
  <2>3. CASE User
    BY <1>2, <2>2, <2>3, EditsQuiet, OtherStepsQuiet DEF User, Edits
  <2>4. CASE Loading \/ FailLoad \/ SaveDocument
    BY <1>2, <2>2, <2>4, OtherStepsQuiet, SaveDocumentQuiet DEF Loading
  <2>5. CASE SaveDocumentLeft \/ \E i \in Slots : Saving(i) \/ LoseSave(i)
    BY <1>2, <2>2, <2>5, UpdateDocumentQuiet, AnsweredQuiet, LeftQuiet DEF Saving
  <2>6. CASE \E p \in Projects, n \in AllNotes : SaveElsewhere(p, n)
    BY <1>2, <2>6 DEF SaveElsewhere, pageVars, QuietInv, Answering, isLoading
  <2> QED
    BY <2>3, <2>4, <2>5, <2>6 DEF Next
<1>3. IInv /\ QuietInv => NothingUnsavedWhenQuiet
  <2> SUFFICES ASSUME IInv, QuietInv, faults = {}, Quiet
               PROVE  document = lastSaved /\ saveState \in {"idle", "saved"}
    BY DEF NothingUnsavedWhenQuiet
  <2>1. load.step = "no" /\ ~timer /\ \A i \in Slots : ~Answering(i) /\ (saves[i] # NoSave => saves[i].page = "left")
    BY DEF Quiet, isLoading, Answering
  <2>2. saveState \in {"idle", "saving", "saved", "conflict", "failed"}
    BY DEF IInv, TypeOK
  <2> QED
    BY <2>1, <2>2 DEF QuietInv, isLoading
<1> QED
  BY <1>1, <1>2, <1>3, Invariant, PTL DEF Spec

-----------------------------------------------------------------------------
(* Undo and redo are a place in one list *)

\* The list that UndoHistory has for two stacks and a current layout.
List(u, c, r) == u \o <<c>> \o Reverse(r)

\* Sequence e lists the layouts of u, then c, then those of r from its end.
Lists(e, u, c, r) ==
  /\ e \in Seq(Layouts) /\ Len(e) = Len(u) + 1 + Len(r)
  /\ \A i \in 1..Len(u) : e[i] = u[i]
  /\ e[Len(u) + 1] = c
  /\ \A j \in 1..Len(r) : e[Len(u) + 1 + j] = r[Len(r) + 1 - j]

LEMMA ListElements ==
  ASSUME NEW u \in Seq(Layouts), NEW c \in Layouts, NEW r \in Seq(Layouts)
  PROVE  Lists(List(u, c, r), u, c, r)
<1>1. /\ Reverse(r) \in Seq(Layouts) /\ Len(Reverse(r)) = Len(r)
      /\ \A i \in 1..Len(r) : Reverse(r)[i] = r[Len(r) + 1 - i]
  BY DEF Reverse
<1>2. /\ u \o <<c>> \in Seq(Layouts) /\ Len(u \o <<c>>) = Len(u) + 1
      /\ \A i \in 1..Len(u) : (u \o <<c>>)[i] = u[i]
      /\ (u \o <<c>>)[Len(u) + 1] = c
  BY ConcatProperties
<1>3. ASSUME NEW w \in Seq(Layouts), NEW v \in Seq(Layouts)
      PROVE  /\ w \o v \in Seq(Layouts) /\ Len(w \o v) = Len(w) + Len(v)
             /\ \A i \in 1..Len(w) : (w \o v)[i] = w[i]
             /\ \A j \in 1..Len(v) : (w \o v)[Len(w) + j] = v[j]
  BY ConcatProperties
<1>4. ASSUME NEW w \in Seq(Layouts), NEW v \in Seq(Layouts),
             Len(w) = Len(u) + 1, \A i \in 1..Len(u) : w[i] = u[i], w[Len(u) + 1] = c,
             Len(v) = Len(r), \A i \in 1..Len(r) : v[i] = r[Len(r) + 1 - i]
      PROVE  Lists(w \o v, u, c, r)
  <2>1. Len(u) \in Nat /\ Len(r) \in Nat
    OBVIOUS
  <2>2. \A i \in 1..Len(u) + 1 : (w \o v)[i] = w[i]
    BY <1>3, <1>4
  <2>3. \A j \in 1..Len(r) : (w \o v)[Len(u) + 1 + j] = v[j]
    BY <1>3, <1>4
  <2>4. w \o v \in Seq(Layouts) /\ Len(w \o v) = Len(w) + Len(v)
    BY <1>3
  <2> QED
    BY <1>4, <2>1, <2>2, <2>3, <2>4 DEF Lists
<1> QED
  BY <1>1, <1>2, <1>4 DEF List

\* There is one such sequence.
LEMMA ListUnique ==
  ASSUME NEW u \in Seq(Layouts), NEW c \in Layouts, NEW r \in Seq(Layouts),
         NEW e, Lists(e, u, c, r)
  PROVE  e = List(u, c, r)
<1> DEFINE f == List(u, c, r)
<1>1. Lists(f, u, c, r)
  BY ListElements
<1> HIDE DEF f
<1>2. e \in Seq(Layouts) /\ f \in Seq(Layouts) /\ Len(e) = Len(f) /\ Len(e) = Len(u) + 1 + Len(r)
  BY <1>1 DEF Lists
<1>3. ASSUME NEW i \in 1..Len(e)
      PROVE  e[i] = f[i]
  <2>1. CASE i <= Len(u)
    <3>1. i \in 1..Len(u)
      BY <2>1
    <3> QED
      BY <1>1, <3>1 DEF Lists
  <2>2. CASE i = Len(u) + 1
    BY <1>1, <2>2 DEF Lists
  <2>3. CASE i > Len(u) + 1
    <3>1. /\ i - (Len(u) + 1) \in 1..Len(r)
          /\ Len(u) + 1 + (i - (Len(u) + 1)) = i
      BY <1>2, <2>3
    <3> QED
      BY <1>1, <3>1 DEF Lists
  <2>4. Len(u) \in Nat /\ i \in Nat
    BY <1>2
  <2> QED
    BY <2>1, <2>2, <2>3, <2>4
<1> QED
  BY <1>2, <1>3, SeqEqual DEF f
\* To undo is to move the newest layout of undoStack to redoStack.
LEMMA UndoMoves ==
  ASSUME NEW u \in Seq(Layouts), NEW c \in Layouts, NEW r \in Seq(Layouts), u # <<>>
  PROVE  List(Front(u), Last(u), Append(r, c)) = List(u, c, r)
<1> DEFINE e == List(u, c, r)  w == Front(u)  v == Append(r, c)  n == Len(u)  m == Len(r)
<1>1. Lists(e, u, c, r)
  BY ListElements
<1>2. /\ w \in Seq(Layouts) /\ Len(w) = n - 1 /\ n \in Nat \ {0} /\ m \in Nat
      /\ \A i \in 1..n - 1 : w[i] = u[i]
      /\ Last(u) = u[n] /\ Last(u) \in Layouts
  BY FrontLast
<1>3. /\ v \in Seq(Layouts) /\ Len(v) = m + 1 /\ v[m + 1] = c
      /\ \A i \in 1..m : v[i] = r[i]
  BY AppendProperties
<1> HIDE DEF e, w, v
<1>4. \A i \in 1..Len(w) : e[i] = w[i]
  BY <1>1, <1>2 DEF Lists
<1>5. e[Len(w) + 1] = Last(u)
  BY <1>1, <1>2 DEF Lists
<1>6. ASSUME NEW j \in 1..Len(v)
      PROVE  e[Len(w) + 1 + j] = v[Len(v) + 1 - j]
  <2>1. Len(w) + 1 + j = n + j /\ Len(v) + 1 - j = m + 2 - j
    BY <1>2, <1>3
  <2>2. CASE j = 1
    BY <1>1, <1>2, <1>3, <2>1, <2>2 DEF Lists
  <2>3. CASE j # 1
    <3>1. j - 1 \in 1..m /\ n + j = n + 1 + (j - 1) /\ m + 1 - (j - 1) = m + 2 - j /\ m + 2 - j \in 1..m
      BY <1>2, <1>3, <2>3
    <3>2. e[n + 1 + (j - 1)] = r[m + 1 - (j - 1)]
      BY <1>1, <3>1 DEF Lists
    <3> QED
      BY <1>3, <2>1, <3>1, <3>2
  <2> QED
    BY <2>2, <2>3
<1>7. Len(e) = Len(w) + 1 + Len(v) /\ e \in Seq(Layouts)
  <2>1. Len(e) = n + 1 + m /\ e \in Seq(Layouts)
    BY <1>1 DEF Lists
  <2> HIDE DEF n, m
  <2> QED
    BY <1>2, <1>3, <2>1
<1>8. Lists(e, w, Last(u), v)
  BY <1>4, <1>5, <1>6, <1>7 DEF Lists
<1>9. e = List(w, Last(u), v)
  BY <1>2, <1>3, <1>8, ListUnique
<1> QED
  BY <1>9 DEF e, w, v

\* To redo is to move it back.
LEMMA RedoMoves ==
  ASSUME NEW u \in Seq(Layouts), NEW c \in Layouts, NEW r \in Seq(Layouts), r # <<>>
  PROVE  List(Append(u, c), Last(r), Front(r)) = List(u, c, r)
<1> DEFINE s == Append(u, c)  l == Last(r)  t == Front(r)
<1>1. s \in Seq(Layouts) /\ s # <<>> /\ l \in Layouts /\ t \in Seq(Layouts)
  BY AppendProperties, FrontLast
<1>2. List(Front(s), Last(s), Append(t, l)) = List(s, l, t)
  BY <1>1, UndoMoves
<1>3. Front(s) = u /\ Last(s) = c
  <2>1. /\ Len(s) = Len(u) + 1 /\ s[Len(u) + 1] = c /\ \A i \in 1..Len(u) : s[i] = u[i]
    BY AppendProperties
  <2>2. /\ Last(s) = s[Len(s)] /\ Front(s) \in Seq(Layouts) /\ Len(Front(s)) = Len(s) - 1
        /\ \A i \in 1..Len(s) - 1 : Front(s)[i] = s[i]
    BY <1>1, FrontLast
  <2> HIDE DEF s
  <2>3. Len(u) \in Nat /\ Len(s) - 1 = Len(u)
    BY <2>1
  <2>4. Len(Front(s)) = Len(u) /\ \A i \in 1..Len(u) : Front(s)[i] = u[i]
    BY <2>1, <2>2, <2>3
  <2> QED
    BY <2>1, <2>2, <2>4, SeqEqual
<1>4. Append(t, l) = r
  <2>1. /\ Len(t) = Len(r) - 1 /\ l = r[Len(r)] /\ \A i \in 1..Len(r) - 1 : t[i] = r[i]
        /\ Len(r) \in Nat \ {0}
    BY FrontLast
  <2> HIDE DEF t, l
  <2>2. /\ Append(t, l) \in Seq(Layouts) /\ Len(Append(t, l)) = Len(t) + 1 /\ Append(t, l)[Len(t) + 1] = l
        /\ \A i \in 1..Len(t) : Append(t, l)[i] = t[i]
    BY <1>1, AppendProperties
  <2>3. Len(Append(t, l)) = Len(r)
    BY <2>1, <2>2
  <2>4. ASSUME NEW i \in 1..Len(r)
        PROVE  Append(t, l)[i] = r[i]
    BY <2>1, <2>2
  <2> QED
    BY <2>2, <2>3, <2>4, SeqEqual
<1> QED
  BY <1>2, <1>3, <1>4

\* What pushUndo makes of the list: what is behind the place is dropped, the layout comes
\* behind it, and at the limit the oldest one goes.
LEMMA PushChanges ==
  ASSUME NEW u \in Stack, NEW c \in Layouts, NEW r \in Seq(Layouts), NEW l \in Layouts
  PROVE  /\ List(Capped(Append(u, c)), l, <<>>)
              = History!Newest(Append(SubSeq(List(u, c, r), 1, Len(u) + 1), l))
         /\ Len(List(Capped(Append(u, c)), l, <<>>)) = Len(Capped(Append(u, c))) + 1
<1> DEFINE e == List(u, c, r)  s == Append(u, c)
<1>1. Lists(e, u, c, r) /\ u \in Seq(Layouts)
  BY ListElements DEF Stack
<1>2. /\ s \in Seq(Layouts) /\ Len(s) = Len(u) + 1 /\ s[Len(u) + 1] = c
      /\ \A i \in 1..Len(u) : s[i] = u[i]
  BY <1>1, AppendProperties
<1> HIDE DEF e, s
<1>3. SubSeq(e, 1, Len(u) + 1) = s
  <2>1. Len(u) \in Nat /\ Len(r) \in Nat /\ e \in Seq(Layouts) /\ Len(e) = Len(u) + 1 + Len(r)
    BY <1>1 DEF Lists
  <2>2. \A i \in 1..Len(u) + 1 : e[i] \in Layouts
    BY <2>1, ElementOfSeq
  <2> DEFINE n == Len(u) + 1
  <2>3. n \in Nat
    BY <2>1
  <2> HIDE DEF n
  <2>4. /\ SubSeq(e, 1, n) \in Seq(Layouts) /\ Len(SubSeq(e, 1, n)) = n
        /\ \A i \in 1..n : SubSeq(e, 1, n)[i] = e[i]
    BY <2>2, <2>3, SubSeqProperties DEF n
  <2>5. ASSUME NEW i \in 1..n
        PROVE  e[i] = s[i]
    <3>1. i \in 1..Len(u) \/ i = Len(u) + 1
      BY <2>1 DEF n
    <3> QED
      BY <1>1, <1>2, <3>1 DEF Lists
  <2> QED
    BY <1>2, <2>4, <2>5, SeqEqual DEF n
<1>4. Capped(s) \in Seq(Layouts) /\ s # <<>>
  BY <1>2, HeadTailProperties DEF Capped
<1>5. \A t \in Seq(Layouts) : List(t, l, <<>>) = Append(t, l)
  <2> TAKE t \in Seq(Layouts)
  <2>1. Lists(Append(t, l), t, l, <<>>)
    <3>1. /\ Append(t, l) \in Seq(Layouts) /\ Len(Append(t, l)) = Len(t) + 1 /\ Append(t, l)[Len(t) + 1] = l
          /\ \A i \in 1..Len(t) : Append(t, l)[i] = t[i]
      BY AppendProperties
    <3>2. Len(<<>>) = 0
      OBVIOUS
    <3>3. Len(t) + 1 + Len(<<>>) = Len(t) + 1
      BY <3>2
    <3> QED
      BY <3>1, <3>2, <3>3 DEF Lists
  <2>2. <<>> \in Seq(Layouts)
    OBVIOUS
  <2> QED
    BY <2>1, <2>2, ListUnique
<1>6. History!Newest(Append(s, l)) = Append(Capped(s), l)
  <2>1. Len(Append(s, l)) = Len(s) + 1 /\ Len(s) \in Nat
    BY <1>2, AppendProperties
  <2>2. Len(Append(s, l)) > STACK_CAP + 1 <=> Len(s) > STACK_CAP
    BY <2>1, EditorAssumption
  <2>3. Tail(Append(s, l)) = Append(Tail(s), l)
    <3>1. /\ Append(s, l) \in Seq(Layouts) /\ Append(s, l) # <<>> /\ Append(s, l)[Len(s) + 1] = l
          /\ \A i \in 1..Len(s) : Append(s, l)[i] = s[i]
      BY <1>2, AppendProperties
    <3>2. /\ Tail(s) \in Seq(Layouts) /\ Len(Tail(s)) = Len(s) - 1
          /\ \A i \in 1..Len(s) - 1 : Tail(s)[i] = s[i + 1]
      BY <1>2, <1>4, HeadTailProperties
    <3> DEFINE a == Append(s, l)  b == Tail(s)
    <3> HIDE DEF a, b
    <3>3. /\ Tail(a) \in Seq(Layouts) /\ Len(Tail(a)) = Len(s)
          /\ \A i \in 1..Len(s) : Tail(a)[i] = a[i + 1]
      <4>1. a \in Seq(Layouts) /\ a # <<>> /\ Len(a) - 1 = Len(s)
        BY <2>1, <3>1 DEF a
      <4> QED
        BY <4>1, HeadTailProperties
    <3>4. /\ Append(b, l) \in Seq(Layouts) /\ Len(Append(b, l)) = Len(s) /\ Append(b, l)[Len(s)] = l
          /\ \A i \in 1..Len(s) - 1 : Append(b, l)[i] = b[i]
      <4>1. b \in Seq(Layouts) /\ Len(b) = Len(s) - 1 /\ Len(b) + 1 = Len(s)
        BY <2>1, <3>2 DEF b
      <4> QED
        BY <4>1, AppendProperties
    <3>5. ASSUME NEW i \in 1..Len(s)
          PROVE  Tail(a)[i] = Append(b, l)[i]
      <4>1. CASE i = Len(s)
        BY <2>1, <3>1, <3>3, <3>4, <4>1 DEF a
      <4>2. CASE i # Len(s)
        <5>1. i \in 1..Len(s) - 1 /\ i + 1 \in 1..Len(s)
          BY <2>1, <4>2
        <5> QED
          BY <3>1, <3>2, <3>3, <3>4, <5>1 DEF a, b
      <4> QED
        BY <4>1, <4>2
    <3>6. Tail(a) = Append(b, l)
      BY <3>3, <3>4, <3>5, SeqEqual
    <3> QED
      BY <3>6 DEF a, b
  <2> QED
    BY <2>2, <2>3 DEF History!Newest, Capped
<1>7. Len(Append(Capped(s), l)) = Len(Capped(s)) + 1
  BY <1>4, AppendProperties
<1> QED
  BY <1>3, <1>4, <1>5, <1>6, <1>7 DEF e, s

\* Together the stacks stay within the limit of one, and fill only behind a first layout.
HistoryInv ==
  /\ Len(undoStack) + Len(redoStack) <= STACK_CAP
  /\ currentLayout = NoLayout => undoStack = <<>> /\ redoStack = <<>>

LEMMA PushUndoImplements ==
  ASSUME HistoryType, HistoryInv, NEW l \in Layouts, pushUndo(l)
  PROVE  HistoryInv' /\ History!Change(l)
<1>1. undoStack \in Seq(Layouts) /\ redoStack \in Seq(Layouts)
  BY DEF HistoryType, Stack
<1>2. currentLayout' = l /\ l # NoLayout /\ redoStack' = <<>>
  BY EditorAssumption DEF pushUndo
<1>3. CASE currentLayout = NoLayout
  <2>1. undoStack = <<>> /\ undoStack' = <<>>
    BY <1>3 DEF HistoryInv, pushUndo
  <2>2. List(<<>>, l, <<>>) = <<l>>
    <3>1. Lists(<<l>>, <<>>, l, <<>>)
      BY DEF Lists
    <3>2. <<>> \in Seq(Layouts)
      OBVIOUS
    <3> QED
      BY <3>1, <3>2, ListUnique
  <2>3. SubSeq(<<>>, 1, 0) = <<>> /\ Append(<<>>, l) = <<l>> /\ Len(<<l>>) = 1
    BY SubSeqEmpty
  <2>4. History!Newest(<<l>>) = <<l>>
    BY <2>3, EditorAssumption DEF History!Newest
  <2>5. HistoryInv'
    BY <1>2, <2>1, EditorAssumption DEF HistoryInv
  <2>6. undoStack' \o <<currentLayout'>> \o Reverse(redoStack') = <<l>> /\ Len(undoStack') + 1 = 1
    BY <1>2, <2>1, <2>2 DEF List
  <2>7. History!Newest(Append(SubSeq(<<>>, 1, 0), l)) = <<l>>
    BY <2>3, <2>4
  <2>8. History!Change(l)
    BY <1>2, <1>3, <2>3, <2>6, <2>7 DEF History!Change
  <2> QED
    BY <2>5, <2>8
<1>4. CASE currentLayout # NoLayout
  <2>1. currentLayout \in Layouts /\ undoStack' = Capped(Append(undoStack, currentLayout))
    BY <1>4 DEF HistoryType, pushUndo
  <2>2. undoStack' \in Stack
    BY <2>1, CappedStack DEF HistoryType
  <2>3. HistoryInv'
    <3>1. Len(undoStack') \in Nat /\ Len(undoStack') <= STACK_CAP /\ Len(redoStack') = 0
      BY <1>2, <2>2 DEF Stack
    <3> QED
      BY <1>2, <3>1, EditorAssumption DEF HistoryInv
  <2>4. /\ List(undoStack', l, <<>>)
             = History!Newest(Append(SubSeq(List(undoStack, currentLayout, redoStack), 1, Len(undoStack) + 1), l))
        /\ Len(List(undoStack', l, <<>>)) = Len(undoStack') + 1
    BY <1>1, <2>1, PushChanges DEF HistoryType
  <2> QED
    BY <1>2, <1>4, <2>3, <2>4 DEF History!Change, List
<1> QED
  BY <1>3, <1>4

LEMMA UndoImplements ==
  ASSUME HistoryType, HistoryInv, undo
  PROVE  HistoryInv' /\ History!Undo
<1> DEFINE u == undoStack  c == currentLayout  r == redoStack
<1>1. u \in Seq(Layouts) /\ r \in Seq(Layouts) /\ c \in Layouts /\ c # NoLayout /\ u # <<>>
  BY DEF HistoryType, Stack, undo
<1>2. /\ Len(u) \in Nat \ {0} /\ Last(u) \in Layouts /\ Last(u) # NoLayout
      /\ Len(Front(u)) = Len(u) - 1
  BY <1>1, FrontLast, EditorAssumption
<1>3. Len(Append(r, c)) = Len(r) + 1 /\ Len(r) \in Nat
  BY <1>1, AppendProperties
<1>4. Capped(Append(r, c)) = Append(r, c)
  BY <1>2, <1>3, EditorAssumption DEF HistoryInv, Capped
<1>5. u' = Front(u) /\ r' = Append(r, c) /\ c' = Last(u)
  BY <1>4 DEF undo
<1>6. HistoryInv'
  BY <1>2, <1>3, <1>5 DEF HistoryInv
<1>7. List(u', c', r') = List(u, c, r)
  BY <1>1, <1>5, UndoMoves
<1>8. Len(u) + 1 > 1 /\ Len(u') + 1 = Len(u) + 1 - 1
  BY <1>2, <1>5
<1> QED
  BY <1>1, <1>2, <1>5, <1>6, <1>7, <1>8 DEF History!Undo, List

LEMMA RedoImplements ==
  ASSUME HistoryType, HistoryInv, redo
  PROVE  HistoryInv' /\ History!Redo
<1> DEFINE u == undoStack  c == currentLayout  r == redoStack
<1>1. u \in Seq(Layouts) /\ r \in Seq(Layouts) /\ c \in Layouts /\ c # NoLayout /\ r # <<>>
  BY DEF HistoryType, Stack, redo
<1>2. /\ Len(r) \in Nat \ {0} /\ Last(r) \in Layouts /\ Last(r) # NoLayout
      /\ Len(Front(r)) = Len(r) - 1
  BY <1>1, FrontLast, EditorAssumption
<1>3. Len(Append(u, c)) = Len(u) + 1 /\ Len(u) \in Nat
  BY <1>1, AppendProperties
<1>4. Capped(Append(u, c)) = Append(u, c)
  BY <1>2, <1>3, EditorAssumption DEF HistoryInv, Capped
<1>5. r' = Front(r) /\ u' = Append(u, c) /\ c' = Last(r)
  BY <1>4 DEF redo
<1>6. HistoryInv'
  BY <1>2, <1>3, <1>5 DEF HistoryInv
<1>7. List(u', c', r') = List(u, c, r)
  BY <1>1, <1>5, RedoMoves
<1>8. Len(u) + 1 < Len(List(u, c, r)) /\ Len(u') + 1 = Len(u) + 1 + 1
  <2>1. Len(List(u, c, r)) = Len(u) + 1 + Len(r)
    BY <1>1, ListElements DEF Lists
  <2> QED
    BY <1>2, <1>3, <1>5, <2>1
<1> QED
  BY <1>1, <1>2, <1>5, <1>6, <1>7, <1>8 DEF History!Redo, List

-----------------------------------------------------------------------------
(* The refinement *)

LEMMA EditsImplement ==
  ASSUME HistoryType, HistoryInv, Edits
  PROVE  HistoryInv' /\ (History!Next \/ UNCHANGED History!historyVars)
<1>1. UNCHANGED historyVars => HistoryInv' /\ UNCHANGED History!historyVars
  BY DEF historyVars, HistoryInv, History!historyVars
<1>2. ASSUME NEW l \in Layouts, EditLayout(l) \/ onApplySolverResult(l)
      PROVE  HistoryInv' /\ (History!Next \/ UNCHANGED History!historyVars)
  <2>1. pushUndo(l) \/ UNCHANGED historyVars
    BY <1>2 DEF EditLayout, onApplySolverResult
  <2> QED
    BY <1>1, <2>1, PushUndoImplements DEF History!Next
<1>3. ASSUME NEW ps \in SUBSET Parts[open], EditSchematic(ps)
      PROVE  UNCHANGED historyVars
  BY <1>3 DEF EditSchematic
<1>4. ASSUME NEW n \in Notes, EditNotes(n)
      PROVE  UNCHANGED historyVars
  BY <1>4 DEF EditNotes
<1>5. handleUndo => undo
  BY DEF handleUndo
<1>6. handleRedo => redo
  BY DEF handleRedo
<1> QED
  BY <1>1, <1>2, <1>3, <1>4, <1>5, <1>6, UndoImplements, RedoImplements DEF Edits, History!Next

LEMMA FinishLoadImplements ==
  ASSUME TypeOK, HistoryType, HistoryInv, FinishLoad
  PROVE  HistoryInv' /\ (History!Next \/ UNCHANGED History!historyVars)
<1>1. load.draft.doc.layout \in Layouts
  BY DEF TypeOK, FinishLoad, Draft, Document
<1>2. pushUndo(load.draft.doc.layout) \/ UNCHANGED historyVars
  BY DEF FinishLoad
<1>3. UNCHANGED historyVars => HistoryInv' /\ UNCHANGED History!historyVars
  BY DEF historyVars, HistoryInv, History!historyVars
<1> QED
  BY <1>1, <1>2, <1>3, PushUndoImplements DEF History!Next

\* Editor implements UndoHistory: whatever mixes edits, solver results, loads, undo and
\* redo, the two capped stacks of the store behave as one list with a place in it.
THEOREM UndoRefinement == Spec => ImplementsHistory
<1>1. Init => HistoryInv /\ History!Init
  BY EditorAssumption DEF Init, HistoryInv, History!Init
<1>2. ASSUME IInv, HistoryInv, [Next]_vars
      PROVE  HistoryInv' /\ [History!Next]_History!historyVars
  <2>1. TypeOK /\ HistoryType
    BY <1>2, TypeParts DEF IInv
  <2>2. UNCHANGED historyVars => HistoryInv' /\ UNCHANGED History!historyVars
    BY <1>2 DEF historyVars, HistoryInv, History!historyVars
  <2>3. \/ UNCHANGED historyVars
        \/ Edits
        \/ FinishLoad
    <3>1. User => Edits \/ UNCHANGED historyVars
      BY DEF User, Edits, startOperation, OpenProject
    <3>2. ReadProject \/ FailLoad \/ SaveDocument \/ SaveDocumentLeft => UNCHANGED historyVars
      BY DEF ReadProject, FailLoad, SaveDocument, SaveDocumentLeft
    <3>3. ASSUME NEW i \in Slots, Saving(i) \/ LoseSave(i)
          PROVE  UNCHANGED historyVars
      BY <3>3 DEF Saving, UpdateDocument, SaveOk, SaveConflict, SaveFailed, AnswerLeft, LoseSave
    <3>4. ASSUME NEW p \in Projects, NEW n \in AllNotes, SaveElsewhere(p, n)
          PROVE  UNCHANGED historyVars
      BY <3>4 DEF SaveElsewhere, pageVars
    <3>5. UNCHANGED vars => UNCHANGED historyVars
      BY DEF vars, historyVars
    <3> QED
      BY <1>2, <3>1, <3>2, <3>3, <3>4, <3>5 DEF Next, Loading
  <2> QED
    BY <1>2, <2>1, <2>2, <2>3, EditsImplement, FinishLoadImplements
<1> QED
  BY <1>1, <1>2, Invariant, PTL DEF Spec, ImplementsHistory, History!Spec
=============================================================================
