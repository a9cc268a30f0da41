----------------------------- MODULE UndoHistory -----------------------------
(* What undo and redo promise to the user of the editor: one list of layouts and
   a place in it.  A change goes behind that place and drops what was redoable;
   undo and redo only move; the oldest entries are forgotten at the limit. *)
EXTENDS Naturals, Sequences

CONSTANTS
  Layouts,
  Limit     \* layouts that can be undone (STACK_CAP)

VARIABLES
  entries,  \* the layouts, oldest first
  cursor    \* the one on screen, 0 before the first

historyVars == <<entries, cursor>>

Newest(s) == IF Len(s) > Limit + 1 THEN Tail(s) ELSE s

Init == entries = <<>> /\ cursor = 0

Change(l) ==
  /\ entries' = Newest(Append(SubSeq(entries, 1, cursor), l))
  /\ cursor' = Len(entries')

Undo == cursor > 1 /\ cursor' = cursor - 1 /\ UNCHANGED entries

Redo == cursor < Len(entries) /\ cursor' = cursor + 1 /\ UNCHANGED entries

Next == (\E l \in Layouts : Change(l)) \/ Undo \/ Redo

Spec == Init /\ [][Next]_historyVars
=============================================================================
