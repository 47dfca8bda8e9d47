------------------------------- MODULE Editor -------------------------------
(***************************************************************************)
(* The configuration editor of nq-disk (tools/nq-disk/src/ui/editor.rs):   *)
(* text, cursor, undo and redo, the completion popup, search, and the      *)
(* question asked before unsaved changes are left behind.  A line is a     *)
(* sequence of characters; of the characters, "=" is told apart, the ones  *)
(* typed, and the values that completion offers, each of them one          *)
(* character wide.  Lines and columns count from 1 and 0.                  *)
(***************************************************************************)
EXTENDS Naturals, Sequences, SequencesExt

CONSTANTS
  Typed,        \* characters that are typed
  Values,       \* the values completion knows, in the order it offers them
  Patterns,     \* characters that are searched for
  Valid(_),     \* validate_config_text: the host accepts the text
  UndoLimit,    \* UNDO_LIMIT, 200 in the code
  MaxEdits,     \* keys pressed that push an undo snapshot
  MaxSearches   \* searches begun

ASSUME UndoLimitAssumption == UndoLimit \in Nat \ {0}
ASSUME ValuesAssumption == Values \in Seq(Range(Values))
ASSUME EditBoundsAssumption == MaxEdits \in Nat /\ MaxSearches \in Nat

Equals == "="
Char   == {Equals} \cup Typed \cup Range(Values) \cup Patterns
Text   == Seq(Seq(Char)) \ {<<>>}

VARIABLES
  mode,      \* what the keyboard does: edit, search, prompt; save, quit and discard end it
  lines,     \* the text
  cy, cx,    \* line and column of the cursor
  dirty,     \* the text may differ from the one that was opened
  popup,     \* the completion popup
  errors,    \* the errors of a refused save are shown
  pattern,   \* what was searched for last
  undo, redo, \* snapshots, the latest last
  edits, searches \* how much of each bound is left

editorVars == <<mode, lines, cy, cx, dirty, popup, errors, pattern, undo, redo, edits, searches>>
textVars   == <<lines, cy, cx, dirty, undo, redo, edits>>

NoPopup   == [items |-> <<>>, selected |-> 0]
NoPattern == "none"
Snapshot  == [lines |-> lines, cy |-> cy, cx |-> cx]

InText(t, y, x) == y \in 1..Len(t) /\ x \in 0..Len(t[y])

Snapshots == {s \in [lines : Text, cy : Nat, cx : Nat] : InText(s.lines, s.cy, s.cx)}

\* Types; the cursor is in the text, and no more than UndoLimit changes can be
\* gone back or forth, whatever the keys (editor.rs:462-503, 729-734).
EditorTypeOK ==
  /\ mode \in {"closed", "edit", "search", "prompt", "save", "quit", "discard"}
  /\ lines \in Text /\ InText(lines, cy, cx)
  /\ dirty \in BOOLEAN /\ errors \in BOOLEAN
  /\ popup \in [items : Seq(Range(Values)), selected : Nat]
  /\ popup.selected \in (IF popup.items = <<>> THEN {0} ELSE 1..Len(popup.items))
  /\ pattern \in Patterns \cup {NoPattern}
  /\ undo \in Seq(Snapshots) /\ redo \in Seq(Snapshots)
  /\ Len(undo) + Len(redo) <= UndoLimit
  /\ edits \in 0..MaxEdits /\ searches \in 0..MaxSearches

Blank == <<<<>>>>

EditorInit ==
  /\ mode = "closed" /\ lines = Blank /\ cy = 1 /\ cx = 0
  /\ dirty = FALSE /\ errors = FALSE /\ popup = NoPopup /\ pattern = NoPattern
  /\ undo = <<>> /\ redo = <<>>
  /\ edits \in 0..MaxEdits /\ searches \in 0..MaxSearches

-----------------------------------------------------------------------------
(***************************************************************************)
(* Completion.                                                             *)
(***************************************************************************)

\* Values are offered to the right of "=" and filtered by what stands between
\* it and the cursor: all that begin with nothing, or the one that begins with
\* itself.
Suggestions(before) ==
  IF ~Contains(before, Equals) THEN <<>>
  ELSE LET eq     == SelectInSeq(before, LAMBDA c : c = Equals)
           prefix == SubSeq(before, eq + 1, Len(before))
       IN IF prefix = <<>> THEN Values
          ELSE IF \E v \in Range(Values) : prefix = <<v>> THEN prefix ELSE <<>>

\* refresh_complete: the popup at a place, which keeps the selection it had.
PopupAt(t, y, x, before) ==
  LET items == Suggestions(SubSeq(t[y], 1, x))
  IN IF items = <<>> THEN NoPopup
     ELSE [items |-> items,
           selected |-> IF before = NoPopup THEN 1
                        ELSE IF before.selected > Len(items) THEN Len(items)
                        ELSE before.selected]

Column(t, y, x) == IF x > Len(t[y]) THEN Len(t[y]) ELSE x

-----------------------------------------------------------------------------
(***************************************************************************)
(* Moving about.                                                           *)
(***************************************************************************)

At(y, x) == <<y, Column(lines, y, x)>>
Above(n) == IF cy > n THEN cy - n ELSE 1
Below(n) == IF cy + n <= Len(lines) THEN cy + n ELSE Len(lines)

\* Where each key takes the cursor.
Target ==
  [left  |-> IF cx > 0 THEN <<cy, cx - 1>>
             ELSE IF cy > 1 THEN <<cy - 1, Len(lines[cy - 1])>> ELSE <<cy, cx>>,
   right |-> IF cx < Len(lines[cy]) THEN <<cy, cx + 1>>
             ELSE IF cy < Len(lines) THEN <<cy + 1, 0>> ELSE <<cy, cx>>,
   home  |-> <<cy, 0>>,
   end   |-> <<cy, Len(lines[cy])>>,
   up    |-> At(Above(1), cx),
   down  |-> At(Below(1), cx),
   page_up   |-> At(Above(20), cx),
   page_down |-> At(Below(20), cx)]

Place(where) == cy' = where[1] /\ cx' = where[2]

\* The arrows up and down belong to an open popup; a page key closes it first.
Move ==
  /\ mode = "edit"
  /\ \E key \in DOMAIN Target :
       /\ key \in {"up", "down"} => popup = NoPopup
       /\ Place(Target[key])
       /\ popup' = PopupAt(lines, cy', cx',
                           IF key \in {"page_up", "page_down"} THEN NoPopup ELSE popup)
  /\ UNCHANGED <<mode, lines, dirty, errors, pattern, undo, redo, edits, searches>>

\* An arrow in the popup: to the next item, or at its edge out of it and on to
\* the next line, where no popup is opened.
Choose ==
  /\ mode = "edit" /\ popup # NoPopup
  /\ \E key \in {"up", "down"} :
       LET next == IF key = "up" THEN popup.selected - 1 ELSE popup.selected + 1
       IN IF next \in DOMAIN popup.items
          THEN popup' = [popup EXCEPT !.selected = next] /\ UNCHANGED <<cy, cx>>
          ELSE popup' = NoPopup /\ Place(Target[key])
  /\ UNCHANGED <<mode, lines, dirty, errors, pattern, undo, redo, edits, searches>>

\* F1, Ctrl+Space, Alt+Space, and Tab without a popup.
Complete ==
  /\ mode = "edit"
  /\ popup' = PopupAt(lines, cy, cx, popup)
  /\ UNCHANGED <<mode, errors, pattern, searches, textVars>>

\* Ctrl+W, and in the search line Escape.
BeginSearch ==
  /\ mode = "edit" /\ searches > 0
  /\ mode' = "search" /\ searches' = searches - 1
  /\ UNCHANGED <<popup, errors, pattern, textVars>>

CancelSearch ==
  /\ mode = "search"
  /\ mode' = "edit"
  /\ UNCHANGED <<popup, errors, pattern, searches, textVars>>

\* The line d below the cursor's, the first one being below the last.
LineBelow(d) == (((cy - 1) + d) % Len(lines)) + 1

\* Occurrences of p, each the distance in lines and the column: on the cursor's
\* line behind it only.
Hits(p) ==
  {h \in (0..Len(lines) - 1) \X UNION {0..Len(lines[y]) : y \in 1..Len(lines)} :
     LET line == lines[LineBelow(h[1])]
     IN h[2] < Len(line) /\ line[h[2] + 1] = p /\ (h[1] = 0 => h[2] > cx)}

Before(h, g) == h[1] < g[1] \/ (h[1] = g[1] /\ h[2] < g[2])

Find(p) ==
  IF Hits(p) = {} THEN UNCHANGED <<cy, cx>>
  ELSE LET h == CHOOSE h \in Hits(p) : \A g \in Hits(p) \ {h} : Before(h, g)
       IN Place(<<LineBelow(h[1]), h[2]>>)

\* Enter in the search line, which may be empty and then finds nothing, and
\* Ctrl+N: an open popup stays as it is.
SearchFor ==
  /\ mode = "search"
  /\ pattern' \in Patterns \cup {NoPattern}
  /\ mode' = "edit"
  /\ Find(pattern')
  /\ UNCHANGED <<popup, lines, dirty, errors, undo, redo, edits, searches>>

FindNext ==
  /\ mode = "edit"
  /\ Find(pattern)
  /\ UNCHANGED <<mode, popup, lines, dirty, errors, pattern, undo, redo, edits, searches>>

-----------------------------------------------------------------------------
(***************************************************************************)
(* Changing the text.                                                      *)
(***************************************************************************)

\* Seeded defect: one snapshot more than the limit.
LatestAndOne(h) == IF Len(h) > UndoLimit + 1 THEN Tail(h) ELSE h

Latest(h) == IF Len(h) > UndoLimit THEN Tail(h) ELSE h

\* Seeded defect: what was undone can still be redone after a change.
PushUndoKeepingRedo ==
  /\ undo' = Latest(Append(undo, Snapshot))
  /\ UNCHANGED redo

PushUndo ==
  /\ undo' = Latest(Append(undo, Snapshot))
  /\ redo' = <<>>

\* A key that edits: snapshot first, then the new text and cursor, if there is
\* anything for the key to change, then the popup at the cursor.
Edit(t, y, x, changes) ==
  /\ mode = "edit" /\ edits > 0
  /\ edits' = edits - 1
  /\ PushUndo
  /\ lines' = t /\ cy' = y /\ cx' = x
  /\ dirty' = (dirty \/ changes)
  /\ UNCHANGED <<mode, errors, pattern, searches>>

Type(c) ==
  LET t == [lines EXCEPT ![cy] = InsertAt(@, cx + 1, c)]
  IN Edit(t, cy, cx + 1, TRUE) /\ popup' = PopupAt(t, cy, cx + 1, popup)

\* Line y and the one below it become one.
Joined(y) == RemoveAt([lines EXCEPT ![y] = @ \o lines[y + 1]], y + 1)

Backspace ==
  LET t == IF cx > 0 THEN [lines EXCEPT ![cy] = RemoveAt(@, cx)]
           ELSE IF cy > 1 THEN Joined(cy - 1) ELSE lines
      at == Target.left
  IN Edit(t, at[1], at[2], t # lines) /\ popup' = PopupAt(t, at[1], at[2], popup)

Delete ==
  LET t == IF cx < Len(lines[cy]) THEN [lines EXCEPT ![cy] = RemoveAt(@, cx + 1)]
           ELSE IF cy < Len(lines) THEN Joined(cy) ELSE lines
  IN Edit(t, cy, cx, t # lines) /\ popup' = PopupAt(t, cy, cx, popup)

\* Enter without a popup.
Split ==
  LET line == lines[cy]
      t == InsertAt([lines EXCEPT ![cy] = SubSeq(line, 1, cx)], cy + 1,
                    SubSeq(line, cx + 1, Len(line)))
  IN popup = NoPopup /\ Edit(t, cy + 1, 0, TRUE) /\ popup' = PopupAt(t, cy + 1, 0, popup)

\* Enter or Tab in the popup: all that is behind the first "=" of the line is the
\* value, and is replaced.  A popup left open by a search may hold the values of
\* another line, or be over a line without "=", which is left alone.
Accept ==
  LET line == lines[cy]
      eq   == SelectInSeq(line, LAMBDA c : c = Equals)
      t    == [lines EXCEPT ![cy] = Append(SubSeq(@, 1, eq), popup.items[popup.selected])]
  IN /\ popup # NoPopup /\ popup' = NoPopup
     /\ IF eq = 0 THEN Edit(lines, cy, cx, FALSE)
        ELSE Edit(t, cy, eq, TRUE)

\* Snapshot s takes the place of the text.
Restore(s) ==
  /\ lines' = s.lines
  /\ cy' = (IF s.cy > Len(s.lines) THEN Len(s.lines) ELSE s.cy)
  /\ cx' = Column(s.lines, cy', s.cx)
  /\ dirty' = TRUE
  /\ popup' = PopupAt(s.lines, cy', cx', NoPopup)
  /\ UNCHANGED <<mode, errors, pattern, edits, searches>>

Undo ==
  /\ mode = "edit" /\ undo # <<>>
  /\ redo' = Latest(Append(redo, Snapshot))
  /\ undo' = Front(undo)
  /\ Restore(Last(undo))

Redo ==
  /\ mode = "edit" /\ redo # <<>>
  /\ undo' = Append(undo, Snapshot)
  /\ redo' = Front(redo)
  /\ Restore(Last(redo))

-----------------------------------------------------------------------------
(***************************************************************************)
(* Saving and leaving.                                                     *)
(***************************************************************************)

\* Ctrl+O in the text; S and Ctrl+O at the prompt.
TrySave ==
  /\ mode \in {"edit", "prompt"}
  /\ IF Valid(lines) THEN mode' = "save" /\ dirty' = FALSE /\ errors' = FALSE
     ELSE mode' = "edit" /\ errors' = TRUE /\ UNCHANGED dirty
  /\ UNCHANGED <<lines, cy, cx, popup, pattern, undo, redo, edits, searches>>

\* Seeded defect: whether there is anything to lose is read off the undo stack.
RequestExitByUndo ==
  /\ popup' = NoPopup
  /\ mode' = (IF undo # <<>> THEN "prompt" ELSE "quit")
  /\ UNCHANGED <<errors, pattern, searches, textVars>>

RequestExit ==
  /\ popup' = NoPopup
  /\ mode' = (IF dirty THEN "prompt" ELSE "quit")
  /\ UNCHANGED <<errors, pattern, searches, textVars>>

\* Ctrl+C and Ctrl+X.
Exit == mode = "edit" /\ RequestExit

\* Escape closes the popup, then the list of errors, then the editor.
Escape ==
  /\ mode = "edit"
  /\ CASE popup # NoPopup -> popup' = NoPopup /\ UNCHANGED <<mode, errors, pattern, searches, textVars>>
       [] popup = NoPopup /\ errors ->
            errors' = FALSE /\ UNCHANGED <<mode, popup, pattern, searches, textVars>>
       [] OTHER -> RequestExit

\* D at the prompt.
Discard ==
  /\ mode = "prompt"
  /\ mode' = "discard"
  /\ UNCHANGED <<popup, errors, pattern, searches, textVars>>

\* Escape and C at the prompt.
KeepEditing ==
  /\ mode = "prompt"
  /\ mode' = "edit"
  /\ UNCHANGED <<popup, errors, pattern, searches, textVars>>

\* run_config_editor on a text, and its return.
OpenEditor(t) ==
  /\ mode = "closed"
  /\ mode' = "edit" /\ lines' = t
  /\ UNCHANGED <<cy, cx, dirty, popup, errors, pattern, undo, redo, edits, searches>>

CloseEditor ==
  /\ mode \in {"save", "quit", "discard"}
  /\ mode' = "closed" /\ lines' = Blank /\ cy' = 1 /\ cx' = 0
  /\ dirty' = FALSE /\ errors' = FALSE /\ popup' = NoPopup /\ pattern' = NoPattern
  /\ undo' = <<>> /\ redo' = <<>>
  /\ UNCHANGED <<edits, searches>>

Key ==
  \/ Move \/ Choose \/ Complete
  \/ BeginSearch \/ CancelSearch \/ SearchFor \/ FindNext
  \/ \E c \in Typed : Type(c)
  \/ Backspace \/ Delete \/ Split \/ Accept
  \/ Undo \/ Redo
  \/ TrySave \/ Exit \/ Escape \/ Discard \/ KeepEditing

-----------------------------------------------------------------------------
(***************************************************************************)
(* Properties.                                                             *)
(***************************************************************************)

Versions ==
  LET Texts(h) == [i \in 1..Len(h) |-> h[i].lines]
  IN Texts(undo) \o <<lines>> \o Reverse(Texts(redo))

History ==
  INSTANCE Timeline WITH
    Limit    <- UndoLimit,
    versions <- IF mode = "closed" THEN <<>> ELSE Versions,
    at       <- IF mode = "closed" THEN 0 ELSE Len(undo) + 1

\* The two stacks of snapshots are one line of versions: undo and redo go back
\* and forth on it and come to the text that was there, a change forgets what
\* had been undone, and nothing else moves along it (editor.rs:462-503).
EditorImplementsTimeline == History!Spec

=============================================================================
