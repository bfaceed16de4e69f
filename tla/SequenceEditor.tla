----------------------------- MODULE SequenceEditor -----------------------------
(***************************************************************************)
(* The editor of send sequences, sequence_ui.h, and what sequence.c stores *)
(* of a sequence. What it runs is in SessionSend and PortableTabs.         *)
(*                                                                         *)
(* Every tab may have an editor; all of them change one list of saved      *)
(* sequences, and each shows the list as it was when it last looked. One   *)
(* editor is modelled with all its state; of the others, what they do to   *)
(* the list. A step is a payload that can be built or one that cannot.     *)
(***************************************************************************)
EXTENDS Naturals, Sequences, FiniteSets, SequencesExt

CONSTANTS MaxRows,  \* rows of an editor and steps of a sequence (256)
          MaxSaved, \* saved sequences (100)
          Name      \* names a user gives, "" among them perhaps

SequenceEditorAssumption == {MaxRows, MaxSaved} \subseteq Nat \ {0}

VARIABLE editor

Step == {"builds", "fails"}
Fresh == "builds" \* the empty payload of a new row
\* What is stored is the sequence, or something that does not decode (bound: it was there
\* at the start).
Garbled == [name |-> "?", steps |-> <<>>]
NamesOf(saved) == [i \in DOMAIN saved |-> saved[i].name]

\* open; saved: of the settings; shown, selected: the drop down (0 if it is empty); rows
\* and name: the draft; stale: another editor changed the list after it was shown
Closed(saved) == [open |-> FALSE, saved |-> saved, shown |-> <<>>, selected |-> 0,
                  name |-> "", rows |-> <<>>, stale |-> FALSE]
EditorInit == editor \in {Closed(<<>>), Closed(<<Garbled>>)}

\* tio_sequence_validate()
Valid(s) == s.name # "" /\ Len(s.steps) \in 1..MaxRows /\ \A i \in DOMAIN s.steps : s.steps[i] # "fails"
Decodes(s) == s # Garbled /\ Valid(s)
-----------------------------------------------------------------------------
\* sequence_refresh_saved(): the new list has its first item selected
Refreshed(e, index) == [e EXCEPT !.shown = NamesOf(e.saved), !.stale = FALSE,
                                 !.selected = IF e.saved = <<>> THEN 0 ELSE index]
\* sequence_add_row()
AddRow(rows, step) == IF Len(rows) >= MaxRows THEN rows ELSE Append(rows, step)
Draft(e) == [name |-> e.name, steps |-> e.rows]

\* on_sequences_clicked(), sequence_editor_free()
Open(name) == /\ ~editor.open
              /\ editor' = Refreshed([editor EXCEPT !.open = TRUE, !.name = name, !.rows = <<Fresh>>], 1)
Close == editor.open /\ editor' = Closed(editor.saved)
\* The user names and selects, and changes a row
Rename(name) == editor.open /\ editor' = [editor EXCEPT !.name = name]
Select(i) == editor.open /\ editor' = [editor EXCEPT !.selected = i]
Edit(i, step) == editor.open /\ editor' = [editor EXCEPT !.rows[i] = step]

\* sequence_row_action(): up, down, or away
Move(i, j) == editor.open /\ editor' = [editor EXCEPT !.rows[i] = editor.rows[j], !.rows[j] = editor.rows[i]]
RemoveRow(i) == editor.open /\ editor' = [editor EXCEPT !.rows = RemoveAt(@, i)]
\* sequence_action(): "add" and "new" ("remove" takes the last row)
EditorAdd == editor.open /\ editor' = [editor EXCEPT !.rows = AddRow(@, Fresh)]
EditorNew(name) == editor.open /\ editor' = [editor EXCEPT !.rows = <<Fresh>>, !.name = name]
\* "load": the one that is now in the place of the selected one, if it decodes
Load ==
    /\ editor.open /\ editor.selected \in DOMAIN editor.saved
    /\ Decodes(editor.saved[editor.selected])
    /\ LET s == editor.saved[editor.selected]
       IN editor' = [editor EXCEPT !.name = s.name, !.rows = FoldLeft(AddRow, <<>>, s.steps)]

\* What deleting and saving make of the list; beside these, wrong forms
DeletedUnseen(e, i) == [e EXCEPT !.saved = RemoveAt(@, i)]
Deleted(e, i) == Refreshed([e EXCEPT !.saved = RemoveAt(@, i)], 1)
PlaceAtEnd(saved, name) == Len(saved) + 1
PlaceSelected(saved, name) == IF editor.selected \in DOMAIN saved THEN editor.selected ELSE Len(saved) + 1
Place(saved, name) ==
    LET same == {i \in DOMAIN saved : Decodes(saved[i]) /\ saved[i].name = name}
    IN IF same = {} THEN Len(saved) + 1 ELSE CHOOSE i \in same : \A j \in same : i <= j
SavedAs(saved, s) == [i \in 1..(IF Place(saved, s.name) > Len(saved) THEN Len(saved) + 1 ELSE Len(saved)) |->
                         IF i = Place(saved, s.name) THEN s ELSE saved[i]]
MaySave(saved, s) == Valid(s) /\ (Place(saved, s.name) <= Len(saved) \/ Len(saved) < MaxSaved)

\* "delete" and "save". That they are not written to the disk changes nothing here.
Delete == /\ editor.open /\ editor.selected \in DOMAIN editor.saved
          /\ editor' = Deleted(editor, editor.selected)
Save == LET s == Draft(editor)
        IN /\ editor.open /\ MaySave(editor.saved, s)
           /\ editor' = Refreshed([editor EXCEPT !.saved = SavedAs(@, s)], Place(editor.saved, s.name))
\* Another editor deletes or saves
EditedElsewhere == \/ \E i \in DOMAIN editor.saved :
                          editor' = [editor EXCEPT !.saved = RemoveAt(@, i), !.stale = editor.open]
                   \/ \E name \in Name : LET s == [name |-> name, steps |-> <<Fresh>>]
                         IN /\ MaySave(editor.saved, s)
                            /\ editor' = [editor EXCEPT !.saved = SavedAs(@, s), !.stale = editor.open]

EditorNext == \/ Close \/ EditorAdd \/ Load \/ Delete \/ Save \/ EditedElsewhere
              \/ \E name \in Name : Open(name) \/ Rename(name) \/ EditorNew(name)
              \/ \E i \in DOMAIN editor.shown : Select(i)
              \/ \E i \in DOMAIN editor.rows : \/ RemoveRow(i)
                                               \/ \E j \in DOMAIN editor.rows \ {i} : j \in {i - 1, i + 1} /\ Move(i, j)
                                               \/ \E step \in Step : Edit(i, step)

EditorSpec == EditorInit /\ [][EditorNext]_editor
-----------------------------------------------------------------------------
\* A name finds one sequence: of those that decode no two have the same, whichever
\* editors saved them, and all that were saved decode.
NamesUnique == LET s == editor.saved
               IN /\ \A i, j \in DOMAIN s :
                         Decodes(s[i]) /\ Decodes(s[j]) /\ s[i].name = s[j].name => i = j
                  /\ \A i \in DOMAIN s : Decodes(s[i]) \/ s[i] = Garbled
                  /\ Len(s) <= MaxSaved
\* Load and Delete go by position: it is that of the name the user selected, as long as
\* no other editor changed the list.
SelectsShown == editor.open /\ ~editor.stale => editor.shown = NamesOf(editor.saved)
EditorSound == NamesUnique /\ SelectsShown

\* A sequence leaves the list only as its user asked: saved over by the draft of its own
\* name, or, when the list gets shorter, in the place that is selected, which is the one
\* shown there under its name unless another editor changed the list after it was shown.
\* Then Delete takes whatever moved to that place (sequence_ui.h: sequence_action), and
\* still no other, while Save goes by the name and takes nothing else.
Saves(s) == s.name = editor.name /\ Draft(editor) \in ToSet(editor'.saved)
Deletes(i) == /\ i = editor.selected /\ Len(editor'.saved) < Len(editor.saved)
              /\ editor.stale \/ editor.shown[i] = editor.saved[i].name
OwnStep == editor.open /\ ~editor'.stale
SavedStays == OwnStep => \A i \in DOMAIN editor.saved :
                             \/ editor.saved[i] \in ToSet(editor'.saved)
                             \/ Saves(editor.saved[i]) \/ Deletes(i)
SavedStay == [][SavedStays]_editor
=============================================================================
