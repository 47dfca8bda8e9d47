---------------------------- MODULE EditorProofs -----------------------------
(***************************************************************************)
(* The editor keeps its cursor in the text and its two stacks within the   *)
(* limit, and these are one line of versions: for every text, every set of *)
(* values and every limit.                                                 *)
(***************************************************************************)
EXTENDS Editor, SequenceTheorems, WellFoundedInduction, TLAPS

-----------------------------------------------------------------------------
(***************************************************************************)
(* Sequences and least elements.                                           *)
(***************************************************************************)

\* A set of natural numbers has a least one.
LEMMA Least ==
  ASSUME NEW T, T \subseteq Nat, T # {}
  PROVE  \E x \in T : \A y \in T : x <= y
<1>. DEFINE R == {ss \in Nat \X Nat : ss[1] < ss[2]}
<1>1. IsWellFoundedOn(R, Nat)
  BY NatLessThanWellFounded DEF OpToRel
<1>. HIDE DEF R
<1>2. PICK x \in T : \A y \in T : ~(<<y, x>> \in R)
  BY <1>1, WFMin
<1>3. ASSUME NEW y \in T PROVE x <= y
  <2>1. x \in Nat /\ y \in Nat /\ ~(<<y, x>> \in R)
    BY <1>2
  <2>2. ~(y < x)
    BY <2>1 DEF R
  <2>. QED
    BY <2>1, <2>2
<1>. QED
  BY <1>3

\* A part of a sequence.
LEMMA Part ==
  ASSUME NEW S, NEW s \in Seq(S), NEW m \in 1..(Len(s) + 1), NEW n \in 0..Len(s)
  PROVE  /\ SubSeq(s, m, n) \in Seq(S)
         /\ Len(SubSeq(s, m, n)) = IF m <= n THEN n - m + 1 ELSE 0
         /\ \A i \in 1..(n - m + 1) : SubSeq(s, m, n)[i] = s[m + i - 1]
<1>1. \A i \in m..n : s[i] \in S
  BY ElementOfSeq, LenProperties
<1>2. m \in Int /\ n \in Int
  BY LenProperties
<1>. QED
  BY <1>1, <1>2, SubSeqProperties

\* An element put in at a position.
LEMMA Inserted ==
  ASSUME NEW S, NEW s \in Seq(S), NEW i \in 1..(Len(s) + 1), NEW e \in S
  PROVE  InsertAt(s, i, e) \in Seq(S) /\ Len(InsertAt(s, i, e)) = Len(s) + 1
<1>0. Len(s) \in Nat
  BY LenProperties
<1>1. i - 1 \in 0..Len(s) /\ 1 \in 1..(Len(s) + 1)
  BY <1>0
<1>2. SubSeq(s, 1, i - 1) \in Seq(S) /\ Len(SubSeq(s, 1, i - 1)) = i - 1
  BY <1>0, <1>1, Part
<1>3. SubSeq(s, i, Len(s)) \in Seq(S) /\ Len(SubSeq(s, i, Len(s))) = Len(s) - i + 1
  BY <1>0, Part
<1>4. <<e>> \in Seq(S) /\ Len(<<e>>) = 1
  OBVIOUS
<1>5. SubSeq(s, 1, i - 1) \o <<e>> \in Seq(S) /\ Len(SubSeq(s, 1, i - 1) \o <<e>>) = i
  BY <1>0, <1>2, <1>4, ConcatProperties
<1>. DEFINE front == SubSeq(s, 1, i - 1) \o <<e>>
            back  == SubSeq(s, i, Len(s))
<1>6. InsertAt(s, i, e) = front \o back
  BY DEF InsertAt
<1>7. front \in Seq(S) /\ Len(front) = i /\ back \in Seq(S) /\ Len(back) = Len(s) - i + 1
  BY <1>3, <1>5
<1>. HIDE DEF front, back
<1>8. front \o back \in Seq(S) /\ Len(front \o back) = Len(front) + Len(back)
  BY <1>7, ConcatProperties
<1>. QED
  BY <1>0, <1>6, <1>7, <1>8

\* An element taken out; the ones in front of it stay where they are.
LEMMA Removed ==
  ASSUME NEW S, NEW s \in Seq(S), NEW i \in 1..Len(s)
  PROVE  /\ RemoveAt(s, i) \in Seq(S) /\ Len(RemoveAt(s, i)) = Len(s) - 1
         /\ \A j \in 1..(i - 1) : RemoveAt(s, i)[j] = s[j]
<1>0. Len(s) \in Nat
  BY LenProperties
<1>1. i - 1 \in 0..Len(s) /\ 1 \in 1..(Len(s) + 1) /\ i + 1 \in 1..(Len(s) + 1) /\ Len(s) \in 0..Len(s)
  BY <1>0
<1>2. /\ SubSeq(s, 1, i - 1) \in Seq(S) /\ Len(SubSeq(s, 1, i - 1)) = i - 1
      /\ \A j \in 1..(i - 1) : SubSeq(s, 1, i - 1)[j] = s[j]
  BY <1>0, <1>1, Part
<1>3. SubSeq(s, i + 1, Len(s)) \in Seq(S) /\ Len(SubSeq(s, i + 1, Len(s))) = Len(s) - i
  BY <1>0, <1>1, Part
<1>. DEFINE front == SubSeq(s, 1, i - 1)
            back  == SubSeq(s, i + 1, Len(s))
<1>4. RemoveAt(s, i) = front \o back
  BY DEF RemoveAt
<1>5. /\ front \in Seq(S) /\ Len(front) = i - 1 /\ \A j \in 1..(i - 1) : front[j] = s[j]
      /\ back \in Seq(S) /\ Len(back) = Len(s) - i
  BY <1>2, <1>3
<1>. HIDE DEF front, back
<1>6. /\ front \o back \in Seq(S) /\ Len(front \o back) = Len(front) + Len(back)
      /\ \A j \in 1..(Len(front) + Len(back)) : (front \o back)[j] = IF j <= Len(front) THEN front[j] ELSE back[j - Len(front)]
  BY <1>5, ConcatProperties
<1>. QED
  BY <1>0, <1>4, <1>5, <1>6

\* The first position of an element, if it is there.
LEMMA FirstPosition ==
  ASSUME NEW S, NEW s \in Seq(S), NEW e, NEW I, I = {i \in 1..Len(s) : s[i] = e}
  PROVE  (IF I # {} THEN Min(I) ELSE 0) \in 0..Len(s)
<1>0. Len(s) \in Nat /\ I \subseteq Nat
  BY LenProperties
<1>1. CASE I = {}
  BY <1>0, <1>1
<1>2. CASE I # {}
  <2>1. PICK x \in I : \A y \in I : x <= y
    BY <1>0, <1>2, Least
  <2>2. Min(I) \in I
    BY <2>1 DEF Min
  <2>. QED
    BY <1>0, <1>2, <2>2
<1>. QED
  BY <1>1, <1>2

-----------------------------------------------------------------------------
(***************************************************************************)
(* Texts and cursors.                                                      *)
(***************************************************************************)

\* A text has a line, and its lines are sequences of characters.
LEMMA TextFacts ==
  ASSUME NEW t \in Text
  PROVE  /\ t \in Seq(Seq(Char)) /\ Len(t) \in Nat \ {0}
         /\ \A y \in 1..Len(t) : t[y] \in Seq(Char) /\ Len(t[y]) \in Nat
BY EmptySeq, ElementOfSeq, LenProperties DEF Text

\* A line of a text may take the place of another.
LEMMA LineReplaced ==
  ASSUME NEW t \in Text, NEW y \in 1..Len(t), NEW line \in Seq(Char)
  PROVE  /\ [t EXCEPT ![y] = line] \in Text
         /\ Len([t EXCEPT ![y] = line]) = Len(t)
         /\ \A j \in 1..Len(t) : [t EXCEPT ![y] = line][j] = IF j = y THEN line ELSE t[j]
<1>1. t \in Seq(Seq(Char)) /\ Len(t) \in Nat \ {0}
  BY TextFacts
<1>2. /\ [t EXCEPT ![y] = line] \in Seq(Seq(Char))
      /\ Len([t EXCEPT ![y] = line]) = Len(t)
      /\ \A j \in 1..Len(t) : [t EXCEPT ![y] = line][j] = IF j = y THEN line ELSE t[j]
  BY <1>1, ExceptSeq
<1>. QED
  BY <1>1, <1>2, EmptySeq DEF Text

\* The cursor on its line when it may be beyond its end.
LEMMA ColumnIn ==
  ASSUME NEW t \in Text, NEW y \in 1..Len(t), NEW x \in Nat
  PROVE  InText(t, y, Column(t, y, x))
BY TextFacts DEF InText, Column

\* Two lines made one.
LEMMA JoinedIs ==
  ASSUME lines \in Text, NEW y \in 1..(Len(lines) - 1)
  PROVE  /\ Joined(y) \in Text /\ Len(Joined(y)) = Len(lines) - 1
         /\ Len(Joined(y)[y]) = Len(lines[y]) + Len(lines[y + 1])
<1>. DEFINE line == lines[y] \o lines[y + 1]
            t == [lines EXCEPT ![y] = line]
<1>1. /\ Len(lines) \in Nat \ {0} /\ y + 1 \in 1..Len(lines) /\ y \in 1..Len(lines)
      /\ lines[y] \in Seq(Char) /\ lines[y + 1] \in Seq(Char)
  BY TextFacts
<1>2. line \in Seq(Char) /\ Len(line) = Len(lines[y]) + Len(lines[y + 1])
  BY <1>1, ConcatProperties
<1>. HIDE DEF line
<1>3. t \in Text /\ Len(t) = Len(lines) /\ t[y] = line
  BY <1>1, <1>2, LineReplaced
<1>4. t \in Seq(Seq(Char))
  BY <1>3, TextFacts
<1>5. Joined(y) = RemoveAt(t, y + 1)
  BY DEF Joined, line
<1>. HIDE DEF t
<1>6. /\ Joined(y) \in Seq(Seq(Char)) /\ Len(Joined(y)) = Len(lines) - 1
      /\ \A j \in 1..y : Joined(y)[j] = t[j]
  <2>1. y + 1 \in 1..Len(t) /\ (y + 1) - 1 = y
    BY <1>1, <1>3
  <2>2. /\ RemoveAt(t, y + 1) \in Seq(Seq(Char)) /\ Len(RemoveAt(t, y + 1)) = Len(t) - 1
        /\ \A j \in 1..((y + 1) - 1) : RemoveAt(t, y + 1)[j] = t[j]
    BY <1>4, <2>1, Removed
  <2>. QED
    BY <1>3, <1>5, <2>1, <2>2
<1>7. Joined(y) # <<>>
  BY <1>1, <1>6, EmptySeq
<1>8. y \in 1..y
  BY <1>1
<1>. QED
  BY <1>2, <1>3, <1>6, <1>7, <1>8 DEF Text

-----------------------------------------------------------------------------
(***************************************************************************)
(* The popup.                                                              *)
(***************************************************************************)

GoodPopup(p) ==
  /\ p \in [items : Seq(Range(Values)), selected : Nat]
  /\ p.selected \in (IF p.items = <<>> THEN {0} ELSE 1..Len(p.items))

\* What is offered is made of the values there are.
LEMMA SuggestionsTyped ==
  ASSUME NEW before \in Seq(Char)
  PROVE  Suggestions(before) \in Seq(Range(Values))
<1>. DEFINE eq     == SelectInSeq(before, LAMBDA c : c = Equals)
            prefix == SubSeq(before, eq + 1, Len(before))
<1>1. <<>> \in Seq(Range(Values)) /\ Values \in Seq(Range(Values))
  BY ValuesAssumption
<1>2. ASSUME NEW v \in Range(Values), prefix = <<v>> PROVE prefix \in Seq(Range(Values))
  <2>1. <<v>> \in Seq(Range(Values))
    OBVIOUS
  <2>. QED
    BY <1>2, <2>1
<1>. HIDE DEF prefix
<1>3. Suggestions(before) = IF ~Contains(before, Equals) \/ (prefix # <<>> /\ ~\E v \in Range(Values) : prefix = <<v>>)
                            THEN <<>> ELSE IF prefix = <<>> THEN Values ELSE prefix
  BY DEF Suggestions, prefix
<1>. QED
  BY <1>1, <1>2, <1>3

\* The popup of any place in any text.
LEMMA PopupTyped ==
  ASSUME NEW t \in Text, NEW y, NEW x, InText(t, y, x),
         NEW before, before = NoPopup \/ GoodPopup(before)
  PROVE  GoodPopup(PopupAt(t, y, x, before))
<1>. DEFINE items == Suggestions(SubSeq(t[y], 1, x))
<1>1. t[y] \in Seq(Char) /\ Len(t[y]) \in Nat /\ x \in 0..Len(t[y])
  BY TextFacts DEF InText
<1>2. SubSeq(t[y], 1, x) \in Seq(Char)
  BY <1>1, Part
<1>3. items \in Seq(Range(Values)) /\ Len(items) \in Nat /\ (items # <<>> => Len(items) # 0)
  BY <1>2, SuggestionsTyped, LenProperties, EmptySeq
<1>4. PopupAt(t, y, x, before) = IF items = <<>> THEN NoPopup
        ELSE [items |-> items,
              selected |-> IF before = NoPopup THEN 1
                           ELSE IF before.selected > Len(items) THEN Len(items) ELSE before.selected]
  BY DEF PopupAt
<1>. HIDE DEF items
<1>5. CASE items = <<>>
  BY <1>4, <1>5, EmptySeq DEF GoodPopup, NoPopup
<1>6. CASE items # <<>>
  <2>. DEFINE n == IF before = NoPopup THEN 1
                   ELSE IF before.selected > Len(items) THEN Len(items) ELSE before.selected
  <2>1. n \in 1..Len(items)
    <3>1. CASE before = NoPopup
      BY <1>3, <1>6, <3>1
    <3>2. CASE before # NoPopup
      <4>1. GoodPopup(before) /\ before.items # <<>>
        BY <3>2 DEF GoodPopup, NoPopup
      <4>2. before.selected \in Nat \ {0}
        BY <4>1, LenProperties DEF GoodPopup
      <4>. QED
        BY <1>3, <1>6, <3>2, <4>2
    <3>. QED
      BY <3>1, <3>2
  <2>2. PopupAt(t, y, x, before) = [items |-> items, selected |-> n]
    BY <1>4, <1>6
  <2>. HIDE DEF n
  <2>. QED
    BY <1>3, <1>6, <2>1, <2>2 DEF GoodPopup
<1>. QED
  BY <1>5, <1>6

-----------------------------------------------------------------------------
(***************************************************************************)
(* The inductive invariant: the types, and what a closed editor looks like *)
(* to the next text that is opened.                                        *)
(***************************************************************************)

Reset ==
  mode = "closed" =>
    lines = Blank /\ cy = 1 /\ cx = 0 /\ dirty = FALSE /\ popup = NoPopup /\ undo = <<>> /\ redo = <<>>

EditorInv == EditorTypeOK /\ Reset

\* The empty text has one line, and the cursor its one place in it.
LEMMA BlankIs == Blank \in Text /\ InText(Blank, 1, 0)
<1>1. <<>> \in Seq(Char) /\ Len(<<>>) = 0
  OBVIOUS
<1>2. Blank \in Seq(Seq(Char)) /\ Len(Blank) = 1 /\ Blank[1] = <<>>
  BY <1>1 DEF Blank
<1>3. Blank # <<>>
  BY DEF Blank
<1>. QED
  BY <1>1, <1>2, <1>3 DEF Text, InText

\* Without a popup nothing is selected in one.
LEMMA NoPopupGood == GoodPopup(NoPopup)
BY DEF GoodPopup, NoPopup

\* The parts of the type invariant.
LEMMA TypeFacts ==
  ASSUME EditorTypeOK
  PROVE  /\ Len(lines) \in Nat \ {0} /\ lines \in Seq(Seq(Char))
         /\ cy \in 1..Len(lines) /\ lines[cy] \in Seq(Char) /\ Len(lines[cy]) \in Nat
         /\ cx \in 0..Len(lines[cy])
         /\ GoodPopup(popup)
         /\ Snapshot \in Snapshots
         /\ Len(undo) \in Nat /\ Len(redo) \in Nat
<1>1. /\ Len(lines) \in Nat \ {0} /\ lines \in Seq(Seq(Char))
      /\ cy \in 1..Len(lines) /\ cx \in 0..Len(lines[cy])
  BY TextFacts DEF EditorTypeOK, InText
<1>2. lines[cy] \in Seq(Char) /\ Len(lines[cy]) \in Nat
  BY <1>1, TextFacts DEF EditorTypeOK
<1>3. GoodPopup(popup)
  BY DEF EditorTypeOK, GoodPopup
<1>4. Snapshot \in Snapshots
  BY <1>1, <1>2 DEF EditorTypeOK, Snapshot, Snapshots
<1>5. Len(undo) \in Nat /\ Len(redo) \in Nat
  BY LenProperties DEF EditorTypeOK
<1>. QED
  BY <1>1, <1>2, <1>3, <1>4, <1>5

\* Every key that moves ends on a line and a column of it.
LEMMA TargetIn ==
  ASSUME EditorTypeOK, NEW key \in DOMAIN Target
  PROVE  InText(lines, Target[key][1], Target[key][2])
<1>0. /\ Len(lines) \in Nat \ {0} /\ cy \in 1..Len(lines) /\ cx \in 0..Len(lines[cy])
      /\ \A y \in 1..Len(lines) : Len(lines[y]) \in Nat
  BY TypeFacts, TextFacts DEF EditorTypeOK
<1>1. \A n \in Nat : Above(n) \in 1..Len(lines) /\ Below(n) \in 1..Len(lines)
  BY <1>0 DEF Above, Below
<1>2. \A y \in 1..Len(lines) : InText(lines, At(y, cx)[1], At(y, cx)[2])
  BY <1>0, ColumnIn DEF At, EditorTypeOK
<1>3. key \in {"left", "right", "home", "end", "up", "down", "page_up", "page_down"}
  BY DEF Target
<1>4. CASE key = "left"
  <2>1. Target[key] = IF cx > 0 THEN <<cy, cx - 1>>
                      ELSE IF cy > 1 THEN <<cy - 1, Len(lines[cy - 1])>> ELSE <<cy, cx>>
    BY <1>4 DEF Target
  <2>. QED
    BY <1>0, <2>1 DEF InText
<1>5. CASE key = "right"
  <2>1. Target[key] = IF cx < Len(lines[cy]) THEN <<cy, cx + 1>>
                      ELSE IF cy < Len(lines) THEN <<cy + 1, 0>> ELSE <<cy, cx>>
    BY <1>5 DEF Target
  <2>. QED
    BY <1>0, <2>1 DEF InText
<1>6. CASE key \in {"home", "end"}
  BY <1>0, <1>6 DEF Target, InText
<1>7. CASE key \in {"up", "down", "page_up", "page_down"}
  <2>1. PICK y \in 1..Len(lines) : Target[key] = At(y, cx)
    BY <1>1, <1>7 DEF Target
  <2>. QED
    BY <1>2, <2>1
<1>. QED
  BY <1>3, <1>4, <1>5, <1>6, <1>7

\* A search leaves the cursor where it is, or at an occurrence.
LEMMA FindIn ==
  ASSUME EditorTypeOK, NEW p, Find(p)
  PROVE  InText(lines, cy', cx')
<1>0. /\ Len(lines) \in Nat \ {0} /\ cy \in 1..Len(lines)
      /\ \A y \in 1..Len(lines) : Len(lines[y]) \in Nat
  BY TypeFacts, TextFacts DEF EditorTypeOK
<1>1. ASSUME NEW h \in Hits(p)
      PROVE  /\ h[1] \in Nat /\ h[2] \in Nat /\ h = <<h[1], h[2]>>
             /\ InText(lines, LineBelow(h[1]), h[2])
  <2>1. h[1] \in 0..Len(lines) - 1 /\ h[2] \in Nat /\ h = <<h[1], h[2]>>
    BY <1>0 DEF Hits
  <2>2. LineBelow(h[1]) \in 1..Len(lines)
    BY <1>0, <2>1 DEF LineBelow
  <2>3. h[2] < Len(lines[LineBelow(h[1])])
    BY DEF Hits
  <2>. QED
    BY <1>0, <2>1, <2>2, <2>3 DEF InText
<1>2. CASE Hits(p) = {}
  BY <1>2 DEF Find, EditorTypeOK
<1>3. CASE Hits(p) # {}
  <2>1. {h[1] : h \in Hits(p)} \subseteq Nat /\ {h[1] : h \in Hits(p)} # {}
    BY <1>1, <1>3
  <2>2. PICK d \in {h[1] : h \in Hits(p)} : \A e \in {h[1] : h \in Hits(p)} : d <= e
    BY <2>1, Least
  <2>. DEFINE Columns == {h[2] : h \in {g \in Hits(p) : g[1] = d}}
  <2>3. Columns \subseteq Nat /\ Columns # {}
    BY <1>1, <2>2
  <2>. HIDE DEF Columns
  <2>4. PICK x \in Columns : \A y \in Columns : x <= y
    BY <2>3, Least
  <2>5. PICK h \in Hits(p) : h[1] = d /\ h[2] = x
    BY <2>4 DEF Columns
  <2>6. ASSUME NEW g \in Hits(p) \ {h} PROVE Before(h, g)
    <3>1. g[1] \in Nat /\ g[2] \in Nat /\ d <= g[1] /\ d \in Nat /\ x \in Nat
      BY <1>1, <2>2, <2>5
    <3>2. CASE g[1] = d
      <4>1. x <= g[2]
        BY <2>4, <3>2 DEF Columns
      <4>2. g[2] # x
        BY <1>1, <2>5, <3>2
      <4>. QED
        BY <2>5, <3>1, <3>2, <4>1, <4>2 DEF Before
    <3>3. CASE g[1] # d
      BY <2>5, <3>1, <3>3 DEF Before
    <3>. QED
      BY <3>2, <3>3
  <2>. DEFINE First(f) == \A g \in Hits(p) \ {f} : Before(f, g)
              c == CHOOSE f \in Hits(p) : First(f)
  <2>7. c \in Hits(p)
    BY <2>6
  <2>8. cy' = LineBelow(c[1]) /\ cx' = c[2]
    BY <1>3 DEF Find, Place
  <2>. QED
    BY <1>1, <2>7, <2>8
<1>. QED
  BY <1>2, <1>3

-----------------------------------------------------------------------------
(***************************************************************************)
(* Every key keeps the invariant.                                          *)
(***************************************************************************)

\* A key that edits: one snapshot more, within the limit, and nothing to redo.
LEMMA EditKeeps ==
  ASSUME EditorInv, NEW t \in Text, NEW y, NEW x, InText(t, y, x), NEW changes,
         Edit(t, y, x, changes), GoodPopup(popup')
  PROVE  EditorInv'
<1>. USE UndoLimitAssumption, EditBoundsAssumption
<1>0. EditorTypeOK
  BY DEF EditorInv
<1>1. /\ mode = "edit" /\ lines' = t /\ cy' = y /\ cx' = x /\ edits' = edits - 1 /\ edits > 0
      /\ dirty' \in BOOLEAN /\ UNCHANGED <<mode, errors, pattern, searches>>
      /\ undo' = Latest(Append(undo, Snapshot)) /\ redo' = <<>>
  BY DEF Edit, PushUndo
<1>2. /\ Append(undo, Snapshot) \in Seq(Snapshots) /\ Append(undo, Snapshot) # <<>>
      /\ Len(Append(undo, Snapshot)) = Len(undo) + 1
  <2>1. undo \in Seq(Snapshots) /\ Snapshot \in Snapshots
    BY <1>0, TypeFacts DEF EditorTypeOK
  <2>. QED
    BY <2>1, AppendProperties
<1>3. /\ Tail(Append(undo, Snapshot)) \in Seq(Snapshots)
      /\ Len(Tail(Append(undo, Snapshot))) = Len(undo)
  BY <1>0, <1>2, TypeFacts, HeadTailProperties
<1>4. undo' \in Seq(Snapshots) /\ Len(undo') <= UndoLimit
  <2>1. Len(undo) \in Nat /\ Len(redo) \in Nat /\ Len(undo) + Len(redo) <= UndoLimit
    BY <1>0, TypeFacts DEF EditorTypeOK
  <2>. QED
    BY <1>1, <1>2, <1>3, <2>1 DEF Latest
<1>5. redo' \in Seq(Snapshots) /\ Len(redo') = 0
  BY <1>1, EmptySeq
<1>6. Len(undo') + Len(redo') <= UndoLimit
  BY <1>4, <1>5, LenProperties
<1>7. edits' \in 0..MaxEdits
  BY <1>0, <1>1 DEF EditorTypeOK
<1>8. InText(lines', cy', cx')
  BY <1>1
<1>9. EditorTypeOK'
  <2>1. lines' \in Text
    BY <1>1
  <2>. HIDE UndoLimitAssumption, EditBoundsAssumption
  <2>2. /\ popup' \in [items : Seq(Range(Values)), selected : Nat]
        /\ popup'.selected \in (IF popup'.items = <<>> THEN {0} ELSE 1..Len(popup'.items))
    BY DEF GoodPopup
  <2>3. /\ mode' \in {"closed", "edit", "search", "prompt", "save", "quit", "discard"}
        /\ dirty' \in BOOLEAN /\ errors' \in BOOLEAN /\ pattern' \in Patterns \cup {NoPattern}
        /\ searches' \in 0..MaxSearches
    BY <1>0, <1>1 DEF EditorTypeOK
  <2>. QED
    BY <1>4, <1>5, <1>6, <1>7, <1>8, <2>1, <2>2, <2>3 DEF EditorTypeOK, InText
<1>10. Reset'
  BY <1>1 DEF Reset
<1>. QED
  BY <1>9, <1>10 DEF EditorInv

\* A key that leaves the text and the stacks alone.
LEMMA QuietKeeps ==
  ASSUME EditorInv, mode' \in {"edit", "search", "prompt", "save", "quit", "discard"},
         UNCHANGED <<lines, undo, redo, edits>>, InText(lines, cy', cx'), GoodPopup(popup'),
         dirty' \in BOOLEAN, errors' \in BOOLEAN, pattern' \in Patterns \cup {NoPattern},
         searches' \in 0..MaxSearches
  PROVE  EditorInv'
<1>1. EditorTypeOK'
  <2>1. /\ popup' \in [items : Seq(Range(Values)), selected : Nat]
        /\ popup'.selected \in (IF popup'.items = <<>> THEN {0} ELSE 1..Len(popup'.items))
    BY DEF GoodPopup
  <2>2. /\ lines' \in Text /\ undo' \in Seq(Snapshots) /\ redo' \in Seq(Snapshots)
        /\ Len(undo') + Len(redo') <= UndoLimit /\ edits' \in 0..MaxEdits
    BY DEF EditorInv, EditorTypeOK
  <2>. QED
    BY <2>1, <2>2 DEF EditorTypeOK, InText
<1>2. Reset'
  BY DEF Reset
<1>. QED
  BY <1>1, <1>2 DEF EditorInv

\* The line of the cursor may be another.
LEMMA CursorLine ==
  ASSUME EditorTypeOK, NEW line \in Seq(Char)
  PROVE  /\ [lines EXCEPT ![cy] = line] \in Text
         /\ Len([lines EXCEPT ![cy] = line]) = Len(lines)
         /\ [lines EXCEPT ![cy] = line][cy] = line
<1>1. lines \in Text
  BY DEF EditorTypeOK
<1>2. cy \in 1..Len(lines)
  BY TypeFacts
<1>. QED
  BY <1>1, <1>2, LineReplaced

\* The popup of an editing key.
LEMMA PopupKept ==
  ASSUME EditorTypeOK, NEW t \in Text, NEW y, NEW x, InText(t, y, x), popup' = PopupAt(t, y, x, popup)
  PROVE  GoodPopup(popup')
BY PopupTyped, TypeFacts

\* A character is put in before the cursor, which stays behind it.
LEMMA TypeKeeps ==
  ASSUME EditorInv, NEW c \in Typed, Type(c)
  PROVE  EditorInv'
<1>. DEFINE line == InsertAt(lines[cy], cx + 1, c)
            t    == [lines EXCEPT ![cy] = line]
<1>0. EditorTypeOK
  BY DEF EditorInv
<1>1. Edit(t, cy, cx + 1, TRUE) /\ popup' = PopupAt(t, cy, cx + 1, popup)
  BY DEF Type
<1>2. line \in Seq(Char) /\ Len(line) = Len(lines[cy]) + 1
  <2>1. c \in Char /\ lines[cy] \in Seq(Char) /\ cx + 1 \in 1..(Len(lines[cy]) + 1)
    BY <1>0, TypeFacts DEF Char
  <2>. QED
    BY <2>1, Inserted
<1>. HIDE DEF line
<1>3. t \in Text /\ Len(t) = Len(lines) /\ t[cy] = line
  BY <1>0, <1>2, CursorLine
<1>. HIDE DEF t
<1>4. InText(t, cy, cx + 1)
  BY <1>0, <1>2, <1>3, TypeFacts DEF InText
<1>. QED
  BY <1>0, <1>1, <1>3, <1>4, EditKeeps, PopupKept

\* What is before the cursor goes, or the line is joined to the one above.
LEMMA BackspaceKeeps ==
  ASSUME EditorInv, Backspace
  PROVE  EditorInv'
<1>. DEFINE line == RemoveAt(lines[cy], cx)
            t == IF cx > 0 THEN [lines EXCEPT ![cy] = line]
                 ELSE IF cy > 1 THEN Joined(cy - 1) ELSE lines
            at == Target.left
<1>0. EditorTypeOK
  BY DEF EditorInv
<1>1. Edit(t, at[1], at[2], t # lines) /\ popup' = PopupAt(t, at[1], at[2], popup)
  BY DEF Backspace
<1>2. at = IF cx > 0 THEN <<cy, cx - 1>>
           ELSE IF cy > 1 THEN <<cy - 1, Len(lines[cy - 1])>> ELSE <<cy, cx>>
  BY DEF Target
<1>3. t \in Text /\ InText(t, at[1], at[2])
  <2>1. CASE cx > 0
    <3>1. line \in Seq(Char) /\ Len(line) = Len(lines[cy]) - 1
      <4>1. lines[cy] \in Seq(Char) /\ cx \in 1..Len(lines[cy])
        BY <1>0, <2>1, TypeFacts
      <4>. QED
        BY <4>1, Removed
    <3>. HIDE DEF line
    <3>2. t \in Text /\ Len(t) = Len(lines) /\ t[cy] = line
      BY <1>0, <2>1, <3>1, CursorLine
    <3>3. at[1] = cy /\ at[2] = cx - 1
      BY <1>2, <2>1
    <3>. HIDE DEF t, at
    <3>. QED
      BY <1>0, <2>1, <3>1, <3>2, <3>3, TypeFacts DEF InText
  <2>2. CASE ~(cx > 0) /\ cy > 1
    <3>1. cy - 1 \in 1..(Len(lines) - 1) /\ (cy - 1) + 1 = cy
      BY <1>0, <2>2, TypeFacts
    <3>2. t \in Text /\ Len(t) = Len(lines) - 1 /\ Len(t[cy - 1]) = Len(lines[cy - 1]) + Len(lines[cy])
      BY <1>0, <2>2, <3>1, JoinedIs DEF EditorTypeOK
    <3>3. at[1] = cy - 1 /\ at[2] = Len(lines[cy - 1])
      BY <1>2, <2>2
    <3>4. Len(lines[cy - 1]) \in Nat /\ Len(lines[cy]) \in Nat
      <4>1. lines \in Text
        BY <1>0 DEF EditorTypeOK
      <4>2. cy - 1 \in 1..Len(lines)
        BY <3>1, <4>1, TextFacts
      <4>. QED
        BY <1>0, <4>1, <4>2, TextFacts, TypeFacts
    <3>. HIDE DEF t, at
    <3>5. at[1] \in 1..Len(t) /\ at[2] \in 0..Len(t[at[1]])
      <4>1. \A a, b \in Nat : a \in 0..(a + b)
        OBVIOUS
      <4>2. at[2] \in 0..(Len(lines[cy - 1]) + Len(lines[cy]))
        BY <3>3, <3>4, <4>1
      <4>. QED
        BY <3>1, <3>2, <3>3, <4>2
    <3>. QED
      BY <3>2, <3>5 DEF InText
  <2>3. CASE ~(cx > 0) /\ ~(cy > 1)
    BY <1>0, <1>2, <2>3 DEF EditorTypeOK
  <2>. QED
    BY <2>1, <2>2, <2>3
<1>. HIDE DEF t, at
<1>. QED
  BY <1>0, <1>1, <1>3, EditKeeps, PopupKept

\* What is under the cursor goes, or the line below is joined.
LEMMA DeleteKeeps ==
  ASSUME EditorInv, Delete
  PROVE  EditorInv'
<1>. DEFINE line == RemoveAt(lines[cy], cx + 1)
            t == IF cx < Len(lines[cy]) THEN [lines EXCEPT ![cy] = line]
                 ELSE IF cy < Len(lines) THEN Joined(cy) ELSE lines
<1>0. EditorTypeOK
  BY DEF EditorInv
<1>1. Edit(t, cy, cx, t # lines) /\ popup' = PopupAt(t, cy, cx, popup)
  BY DEF Delete
<1>2. t \in Text /\ InText(t, cy, cx)
  <2>1. CASE cx < Len(lines[cy])
    <3>1. line \in Seq(Char) /\ Len(line) = Len(lines[cy]) - 1
      <4>1. lines[cy] \in Seq(Char) /\ cx + 1 \in 1..Len(lines[cy])
        BY <1>0, <2>1, TypeFacts
      <4>. QED
        BY <4>1, Removed
    <3>. HIDE DEF line
    <3>2. t \in Text /\ Len(t) = Len(lines) /\ t[cy] = line
      BY <1>0, <2>1, <3>1, CursorLine
    <3>. HIDE DEF t
    <3>. QED
      BY <1>0, <2>1, <3>1, <3>2, TypeFacts DEF InText
  <2>2. CASE ~(cx < Len(lines[cy])) /\ cy < Len(lines)
    <3>1. cy \in 1..(Len(lines) - 1) /\ cy + 1 \in 1..Len(lines)
      BY <1>0, <2>2, TypeFacts
    <3>2. t \in Text /\ Len(t) = Len(lines) - 1 /\ Len(t[cy]) = Len(lines[cy]) + Len(lines[cy + 1])
      BY <1>0, <2>2, <3>1, JoinedIs DEF EditorTypeOK
    <3>3. Len(lines[cy]) \in Nat /\ Len(lines[cy + 1]) \in Nat
      BY <1>0, <3>1, TextFacts DEF EditorTypeOK
    <3>. HIDE DEF t
    <3>4. cx \in 0..Len(lines[cy]) /\ cy \in 1..Len(t)
      BY <1>0, <3>1, <3>2, TypeFacts
    <3>5. cx \in 0..Len(t[cy])
      <4>1. \A a, b \in Nat : \A c \in 0..a : c \in 0..(a + b)
        OBVIOUS
      <4>2. cx \in 0..(Len(lines[cy]) + Len(lines[cy + 1]))
        BY <3>3, <3>4, <4>1
      <4>. QED
        BY <3>2, <4>2
    <3>. QED
      BY <3>2, <3>4, <3>5 DEF InText
  <2>3. CASE ~(cx < Len(lines[cy])) /\ ~(cy < Len(lines))
    BY <1>0, <2>3 DEF EditorTypeOK
  <2>. QED
    BY <2>1, <2>2, <2>3
<1>. HIDE DEF t
<1>. QED
  BY <1>0, <1>1, <1>2, EditKeeps, PopupKept

\* A line broken in two, and the cursor at the start of the second.
LEMMA SplitKeeps ==
  ASSUME EditorInv, Split
  PROVE  EditorInv'
<1>. DEFINE front == SubSeq(lines[cy], 1, cx)
            back  == SubSeq(lines[cy], cx + 1, Len(lines[cy]))
            u == [lines EXCEPT ![cy] = front]
            t == InsertAt(u, cy + 1, back)
<1>0. EditorTypeOK
  BY DEF EditorInv
<1>1. Edit(t, cy + 1, 0, TRUE) /\ popup' = PopupAt(t, cy + 1, 0, popup)
  BY DEF Split
<1>2. front \in Seq(Char) /\ back \in Seq(Char)
  <2>1. /\ lines[cy] \in Seq(Char) /\ 1 \in 1..(Len(lines[cy]) + 1) /\ cx \in 0..Len(lines[cy])
        /\ cx + 1 \in 1..(Len(lines[cy]) + 1) /\ Len(lines[cy]) \in 0..Len(lines[cy])
    BY <1>0, TypeFacts
  <2>. QED
    BY <2>1, Part
<1>. HIDE DEF front, back
<1>3. u \in Text /\ Len(u) = Len(lines)
  BY <1>0, <1>2, CursorLine
<1>. HIDE DEF u
<1>4. t \in Seq(Seq(Char)) /\ Len(t) = Len(lines) + 1
  <2>1. u \in Seq(Seq(Char)) /\ cy + 1 \in 1..(Len(u) + 1)
    BY <1>0, <1>3, TypeFacts, TextFacts
  <2>. QED
    BY <1>2, <1>3, <2>1, Inserted
<1>. HIDE DEF t
<1>5. cy + 1 \in 1..Len(t) /\ Len(t) # 0
  <2>1. cy \in 1..Len(lines) /\ Len(lines) \in Nat
    BY <1>0, TypeFacts
  <2>. QED
    BY <1>4, <2>1
<1>6. t \in Text
  BY <1>4, <1>5, EmptySeq DEF Text
<1>7. InText(t, cy + 1, 0)
  BY <1>5, <1>6, TextFacts DEF InText
<1>. QED
  BY <1>0, <1>1, <1>6, <1>7, EditKeeps, PopupKept

\* A suggestion takes the place of what is behind the = of its line.
LEMMA AcceptKeeps ==
  ASSUME EditorInv, Accept
  PROVE  EditorInv'
<1>. DEFINE eq   == SelectInSeq(lines[cy], LAMBDA c : c = Equals)
            item == popup.items[popup.selected]
            line == Append(SubSeq(lines[cy], 1, eq), item)
            t    == [lines EXCEPT ![cy] = line]
<1>0. EditorTypeOK
  BY DEF EditorInv
<1>1. /\ popup # NoPopup /\ popup' = NoPopup
      /\ IF eq = 0 THEN Edit(lines, cy, cx, FALSE) ELSE Edit(t, cy, eq, TRUE)
  BY DEF Accept
<1>2. GoodPopup(popup')
  BY <1>1, NoPopupGood
<1>3. CASE eq = 0
  <2>1. Edit(lines, cy, cx, FALSE)
    BY <1>1, <1>3
  <2>. QED
    BY <1>0, <1>2, <2>1, EditKeeps DEF EditorTypeOK
<1>4. CASE eq # 0
  <2>1. item \in Char
    <3>1. GoodPopup(popup) /\ popup.items # <<>>
      BY <1>0, <1>1, TypeFacts DEF GoodPopup, NoPopup
    <3>2. popup.items \in Seq(Range(Values)) /\ popup.selected \in 1..Len(popup.items)
      BY <3>1 DEF GoodPopup
    <3>. QED
      BY <3>2, ElementOfSeq DEF Char
  <2>. HIDE DEF item
  <2>2. lines[cy] \in Seq(Char) /\ Len(lines[cy]) \in Nat
    BY <1>0, TypeFacts
  <2>3. eq \in 0..Len(lines[cy])
    <3>. DEFINE I == {i \in 1..Len(lines[cy]) : lines[cy][i] = Equals}
    <3>1. eq = IF I # {} THEN Min(I) ELSE 0
      BY DEF SelectInSeq
    <3>. HIDE DEF eq
    <3>. QED
      BY <2>2, <3>1, FirstPosition
  <2>. HIDE DEF eq
  <2>4. SubSeq(lines[cy], 1, eq) \in Seq(Char) /\ Len(SubSeq(lines[cy], 1, eq)) = eq
    <3>1. 1 \in 1..(Len(lines[cy]) + 1)
      BY <2>2
    <3>. QED
      BY <1>4, <2>2, <2>3, <3>1, Part
  <2>5. line \in Seq(Char) /\ Len(line) = eq + 1
    BY <2>1, <2>4, AppendProperties
  <2>. HIDE DEF line
  <2>6. t \in Text /\ Len(t) = Len(lines) /\ t[cy] = line
    BY <1>0, <2>5, TypeFacts, LineReplaced DEF EditorTypeOK
  <2>7. Edit(t, cy, eq, TRUE)
    BY <1>1, <1>4 DEF eq, line, item
  <2>. HIDE DEF t
  <2>8. InText(t, cy, eq)
    BY <1>0, <2>2, <2>3, <2>5, <2>6, TypeFacts DEF InText
  <2>. QED
    BY <1>2, <2>6, <2>7, <2>8, EditKeeps
<1>. QED
  BY <1>3, <1>4

\* The stacks after one of them has given a snapshot and the other taken one.
LEMMA Swapped ==
  ASSUME EditorTypeOK, NEW from \in Seq(Snapshots), from # <<>>, NEW to \in Seq(Snapshots)
  PROVE  /\ Last(from) \in Snapshots
         /\ Front(from) \in Seq(Snapshots) /\ Len(Front(from)) = Len(from) - 1
         /\ Append(to, Snapshot) \in Seq(Snapshots) /\ Len(Append(to, Snapshot)) = Len(to) + 1
         /\ Len(from) \in Nat \ {0} /\ Len(to) \in Nat
<1>1. Len(from) \in Nat \ {0} /\ Len(to) \in Nat
  BY EmptySeq, LenProperties
<1>2. Last(from) \in Snapshots
  BY <1>1, ElementOfSeq DEF Last
<1>3. Front(from) \in Seq(Snapshots) /\ Len(Front(from)) = Len(from) - 1
  <2>1. 1 \in 1..(Len(from) + 1) /\ Len(from) - 1 \in 0..Len(from)
    BY <1>1
  <2>2. /\ SubSeq(from, 1, Len(from) - 1) \in Seq(Snapshots)
        /\ Len(SubSeq(from, 1, Len(from) - 1)) = IF 1 <= Len(from) - 1 THEN (Len(from) - 1) - 1 + 1 ELSE 0
    BY <2>1, Part
  <2>3. Front(from) = SubSeq(from, 1, Len(from) - 1)
    BY DEF Front
  <2>4. (IF 1 <= Len(from) - 1 THEN (Len(from) - 1) - 1 + 1 ELSE 0) = Len(from) - 1
    <3>1. \A n \in Nat \ {0} : (IF 1 <= n - 1 THEN (n - 1) - 1 + 1 ELSE 0) = n - 1
      OBVIOUS
    <3>. QED
      BY <1>1, <3>1
  <2>. QED
    BY <2>2, <2>3, <2>4
<1>4. Snapshot \in Snapshots
  BY TypeFacts
<1>5. Append(to, Snapshot) \in Seq(Snapshots) /\ Len(Append(to, Snapshot)) = Len(to) + 1
  BY <1>4, AppendProperties
<1>. QED
  BY <1>1, <1>2, <1>3, <1>5

\* A snapshot restored is a text with a place in it: it was one when it was
\* taken.
LEMMA RestoreKeeps ==
  ASSUME EditorInv, mode = "edit", NEW s \in Snapshots, Restore(s),
         undo' \in Seq(Snapshots), redo' \in Seq(Snapshots), Len(undo') + Len(redo') <= UndoLimit
  PROVE  EditorInv'
<1>0. EditorTypeOK
  BY DEF EditorInv
<1>1. /\ lines' = s.lines /\ dirty' = TRUE
      /\ cy' = (IF s.cy > Len(s.lines) THEN Len(s.lines) ELSE s.cy)
      /\ cx' = Column(s.lines, cy', s.cx)
      /\ popup' = PopupAt(s.lines, cy', cx', NoPopup)
      /\ UNCHANGED <<mode, errors, pattern, edits, searches>>
  BY DEF Restore
<1>2. s.lines \in Text /\ s.cy \in Nat /\ s.cx \in Nat /\ s.cy \in 1..Len(s.lines)
  BY DEF Snapshots, InText
<1>3. cy' \in 1..Len(s.lines)
  BY <1>1, <1>2, TextFacts
<1>4. InText(s.lines, cy', cx')
  BY <1>1, <1>2, <1>3, ColumnIn
<1>5. GoodPopup(popup')
  BY <1>1, <1>2, <1>4, PopupTyped
<1>6. EditorTypeOK'
  <2>1. /\ popup' \in [items : Seq(Range(Values)), selected : Nat]
        /\ popup'.selected \in (IF popup'.items = <<>> THEN {0} ELSE 1..Len(popup'.items))
    BY <1>5 DEF GoodPopup
  <2>2. /\ mode' \in {"closed", "edit", "search", "prompt", "save", "quit", "discard"}
        /\ dirty' \in BOOLEAN /\ errors' \in BOOLEAN /\ pattern' \in Patterns \cup {NoPattern}
        /\ edits' \in 0..MaxEdits /\ searches' \in 0..MaxSearches
    BY <1>0, <1>1 DEF EditorTypeOK
  <2>3. lines' \in Text /\ InText(lines', cy', cx')
    BY <1>1, <1>2, <1>4
  <2>. QED
    BY <2>1, <2>2, <2>3 DEF EditorTypeOK, InText
<1>7. Reset'
  BY <1>1 DEF Reset
<1>. QED
  BY <1>6, <1>7 DEF EditorInv

\* Undo's redo stack has room for what it is given.
LEMMA UndoIs ==
  ASSUME EditorInv, Undo
  PROVE  /\ redo' = Append(redo, Snapshot) /\ undo' = Front(undo) /\ Restore(Last(undo))
         /\ undo \in Seq(Snapshots) /\ redo \in Seq(Snapshots) /\ undo # <<>> /\ mode = "edit"
<1>0. EditorTypeOK
  BY DEF EditorInv
<1>1. undo \in Seq(Snapshots) /\ redo \in Seq(Snapshots) /\ Len(undo) + Len(redo) <= UndoLimit
  BY <1>0 DEF EditorTypeOK
<1>2. undo # <<>> /\ redo' = Latest(Append(redo, Snapshot)) /\ undo' = Front(undo) /\ Restore(Last(undo)) /\ mode = "edit"
  BY DEF Undo
<1>3. /\ Len(Append(redo, Snapshot)) = Len(redo) + 1
      /\ Len(undo) \in Nat \ {0} /\ Len(redo) \in Nat
  BY <1>0, <1>1, <1>2, Swapped
<1>4. Latest(Append(redo, Snapshot)) = Append(redo, Snapshot)
  BY <1>1, <1>3, UndoLimitAssumption DEF Latest
<1>. QED
  BY <1>1, <1>2, <1>4

\* Undo takes a snapshot from one stack and puts one on the other.
LEMMA UndoKeeps ==
  ASSUME EditorInv, Undo
  PROVE  EditorInv'
<1>1. /\ redo' = Append(redo, Snapshot) /\ undo' = Front(undo) /\ Restore(Last(undo))
      /\ undo \in Seq(Snapshots) /\ redo \in Seq(Snapshots) /\ undo # <<>> /\ mode = "edit"
  BY UndoIs
<1>2. EditorTypeOK /\ Len(undo) + Len(redo) <= UndoLimit
  BY DEF EditorInv, EditorTypeOK
<1>3. /\ Last(undo) \in Snapshots
      /\ undo' \in Seq(Snapshots) /\ Len(undo') = Len(undo) - 1
      /\ redo' \in Seq(Snapshots) /\ Len(redo') = Len(redo) + 1
      /\ Len(undo) \in Nat \ {0} /\ Len(redo) \in Nat
  BY <1>1, <1>2, Swapped
<1>4. Len(undo') + Len(redo') <= UndoLimit
  BY <1>2, <1>3, UndoLimitAssumption
<1>. QED
  BY <1>1, <1>3, <1>4, RestoreKeeps

\* Redo does the same the other way round.
LEMMA RedoKeeps ==
  ASSUME EditorInv, Redo
  PROVE  EditorInv'
<1>1. /\ undo' = Append(undo, Snapshot) /\ redo' = Front(redo) /\ Restore(Last(redo))
      /\ redo # <<>> /\ mode = "edit"
  BY DEF Redo
<1>2. /\ EditorTypeOK /\ Len(undo) + Len(redo) <= UndoLimit
      /\ undo \in Seq(Snapshots) /\ redo \in Seq(Snapshots)
  BY DEF EditorInv, EditorTypeOK
<1>3. /\ Last(redo) \in Snapshots
      /\ redo' \in Seq(Snapshots) /\ Len(redo') = Len(redo) - 1
      /\ undo' \in Seq(Snapshots) /\ Len(undo') = Len(undo) + 1
      /\ Len(redo) \in Nat \ {0} /\ Len(undo) \in Nat
  BY <1>1, <1>2, Swapped
<1>4. Len(undo') + Len(redo') <= UndoLimit
  BY <1>2, <1>3, UndoLimitAssumption
<1>. QED
  BY <1>1, <1>3, <1>4, RestoreKeeps

\* A key that leaves the text and the stacks alone.
QuietKey ==
  \/ Move \/ Choose \/ Complete
  \/ BeginSearch \/ CancelSearch \/ SearchFor \/ FindNext
  \/ TrySave \/ Exit \/ Escape \/ Discard \/ KeepEditing

\* Keys that move, search or ask leave the text as it is.
LEMMA QuietKeyKeeps ==
  ASSUME EditorInv, QuietKey
  PROVE  EditorInv'
<1>0. EditorTypeOK /\ InText(lines, cy, cx) /\ GoodPopup(popup) /\ GoodPopup(NoPopup) /\ lines \in Text
  BY TypeFacts, NoPopupGood DEF EditorInv, EditorTypeOK
<1>t. /\ dirty \in BOOLEAN /\ errors \in BOOLEAN /\ pattern \in Patterns \cup {NoPattern}
      /\ searches \in 0..MaxSearches
  BY <1>0 DEF EditorTypeOK
<1>1. CASE Move
  <2>1. PICK key \in DOMAIN Target :
          /\ Place(Target[key])
          /\ popup' = PopupAt(lines, cy', cx', IF key \in {"page_up", "page_down"} THEN NoPopup ELSE popup)
    BY <1>1 DEF Move
  <2>2. InText(lines, cy', cx')
    BY <1>0, <2>1, TargetIn DEF Place
  <2>3. GoodPopup(popup')
    BY <1>0, <2>1, <2>2, PopupTyped
  <2>. QED
    BY <1>1, <1>t, <2>2, <2>3, QuietKeeps DEF Move
<1>2. CASE Choose
  <2>1. PICK key \in {"up", "down"} :
          LET next == IF key = "up" THEN popup.selected - 1 ELSE popup.selected + 1
          IN IF next \in DOMAIN popup.items
             THEN popup' = [popup EXCEPT !.selected = next] /\ UNCHANGED <<cy, cx>>
             ELSE popup' = NoPopup /\ Place(Target[key])
    BY <1>2 DEF Choose
  <2>. DEFINE next == IF key = "up" THEN popup.selected - 1 ELSE popup.selected + 1
  <2>2. CASE next \in DOMAIN popup.items
    <3>1. popup' = [popup EXCEPT !.selected = next] /\ UNCHANGED <<cy, cx>>
      BY <2>1, <2>2
    <3>2. popup.items \in Seq(Range(Values)) /\ next \in 1..Len(popup.items)
      BY <1>0, <2>2, LenProperties DEF GoodPopup
    <3>. HIDE DEF next
    <3>3. Len(popup.items) \in Nat /\ next \in Nat /\ popup.items # <<>>
      BY <3>2, LenProperties, EmptySeq
    <3>4. GoodPopup(popup')
      BY <1>0, <3>1, <3>2, <3>3 DEF GoodPopup
    <3>5. InText(lines, cy', cx')
      BY <1>0, <3>1
    <3>. QED
      BY <1>2, <1>t, <3>4, <3>5, QuietKeeps DEF Choose
  <2>3. CASE next \notin DOMAIN popup.items
    <3>1. popup' = NoPopup /\ Place(Target[key])
      BY <2>1, <2>3
    <3>2. key \in DOMAIN Target
      BY DEF Target
    <3>3. InText(lines, cy', cx')
      BY <1>0, <3>1, <3>2, TargetIn DEF Place
    <3>. QED
      BY <1>0, <1>2, <1>t, <3>1, <3>3, QuietKeeps DEF Choose
  <2>. QED
    BY <2>2, <2>3
<1>3. CASE Complete
  <2>1. GoodPopup(popup')
    BY <1>0, <1>3, PopupTyped DEF Complete
  <2>. QED
    BY <1>0, <1>3, <1>t, <2>1, QuietKeeps DEF Complete, textVars
<1>4. CASE BeginSearch \/ CancelSearch
  <2>1. searches' \in 0..MaxSearches
    BY <1>4, <1>t, EditBoundsAssumption DEF BeginSearch, CancelSearch
  <2>. QED
    BY <1>0, <1>4, <1>t, <2>1, QuietKeeps DEF BeginSearch, CancelSearch, textVars
<1>5. CASE SearchFor
  <2>1. InText(lines, cy', cx')
    BY <1>0, <1>5, FindIn DEF SearchFor
  <2>. QED
    BY <1>0, <1>5, <1>t, <2>1, QuietKeeps DEF SearchFor
<1>6. CASE FindNext
  <2>1. InText(lines, cy', cx') /\ mode = "edit"
    BY <1>0, <1>6, FindIn DEF FindNext
  <2>. QED
    BY <1>0, <1>6, <1>t, <2>1, QuietKeeps DEF FindNext
<1>7. CASE TrySave
  <2>1. mode' \in {"save", "edit"} /\ dirty' \in BOOLEAN /\ errors' \in BOOLEAN
    BY <1>7, <1>t DEF TrySave
  <2>. QED
    BY <1>0, <1>7, <1>t, <2>1, QuietKeeps DEF TrySave
<1>8. CASE Exit \/ Escape
  <2>1. /\ mode' \in {"edit", "prompt", "quit"} /\ popup' \in {popup, NoPopup} /\ errors' \in BOOLEAN
        /\ UNCHANGED <<pattern, searches, textVars>>
    BY <1>8, <1>t DEF Exit, Escape, RequestExit
  <2>. QED
    BY <1>0, <1>t, <2>1, QuietKeeps DEF textVars
<1>9. CASE Discard \/ KeepEditing
  BY <1>0, <1>9, <1>t, QuietKeeps DEF Discard, KeepEditing, textVars
<1>. QED
  BY <1>1, <1>2, <1>3, <1>4, <1>5, <1>6, <1>7, <1>8, <1>9 DEF QuietKey

\* So every key keeps the editor in order.
LEMMA KeyKeeps ==
  ASSUME EditorInv, Key
  PROVE  EditorInv'
<1>1. CASE QuietKey
  BY <1>1, QuietKeyKeeps
<1>2. CASE \E c \in Typed : Type(c)
  BY <1>2, TypeKeeps
<1>3. CASE Backspace \/ Delete \/ Split \/ Accept
  BY <1>3, BackspaceKeeps, DeleteKeeps, SplitKeeps, AcceptKeeps
<1>4. CASE Undo \/ Redo
  BY <1>4, UndoKeeps, RedoKeeps
<1>. QED
  BY <1>1, <1>2, <1>3, <1>4 DEF Key, QuietKey

\* The editor is opened as it was closed, on any text.
LEMMA OpenKeeps ==
  ASSUME EditorInv, NEW t \in Text, OpenEditor(t)
  PROVE  EditorInv'
<1>1. /\ mode' = "edit" /\ lines' = t /\ cy' = 1 /\ cx' = 0
      /\ UNCHANGED <<dirty, popup, errors, pattern, undo, redo, edits, searches>>
  BY DEF EditorInv, Reset, OpenEditor
<1>2. InText(lines', cy', cx')
  BY <1>1, TextFacts DEF InText
<1>3. EditorTypeOK'
  BY <1>1, <1>2 DEF EditorInv, EditorTypeOK, InText
<1>. QED
  BY <1>1, <1>3 DEF EditorInv, Reset

\* A closed editor is in order, whatever it held.
LEMMA CloseKeeps ==
  ASSUME EditorInv, CloseEditor
  PROVE  EditorInv'
<1>1. /\ mode' = "closed" /\ lines' = Blank /\ cy' = 1 /\ cx' = 0
      /\ dirty' = FALSE /\ errors' = FALSE /\ popup' = NoPopup /\ pattern' = NoPattern
      /\ undo' = <<>> /\ redo' = <<>> /\ UNCHANGED <<edits, searches>>
  BY DEF CloseEditor
<1>2. /\ lines' \in Text /\ InText(lines', cy', cx') /\ GoodPopup(popup')
      /\ undo' \in Seq(Snapshots) /\ redo' \in Seq(Snapshots) /\ Len(undo') + Len(redo') = 0
  BY <1>1, BlankIs, NoPopupGood, EmptySeq
<1>3. EditorTypeOK'
  <2>1. /\ popup' \in [items : Seq(Range(Values)), selected : Nat]
        /\ popup'.selected \in (IF popup'.items = <<>> THEN {0} ELSE 1..Len(popup'.items))
    BY <1>2 DEF GoodPopup
  <2>2. /\ mode' \in {"closed", "edit", "search", "prompt", "save", "quit", "discard"}
        /\ dirty' \in BOOLEAN /\ errors' \in BOOLEAN /\ pattern' \in Patterns \cup {NoPattern}
        /\ edits' \in 0..MaxEdits /\ searches' \in 0..MaxSearches
    BY <1>1 DEF EditorInv, EditorTypeOK
  <2>3. Len(undo') + Len(redo') <= UndoLimit
    BY <1>2, UndoLimitAssumption
  <2>. QED
    BY <1>2, <2>1, <2>2, <2>3 DEF EditorTypeOK, InText
<1>. QED
  BY <1>1, <1>3 DEF EditorInv, Reset

\* So is one that has not been opened.
LEMMA InitKeeps == EditorInit => EditorInv
<1>. SUFFICES ASSUME EditorInit PROVE EditorInv
  OBVIOUS
<1>1. /\ lines \in Text /\ InText(lines, cy, cx) /\ GoodPopup(popup)
      /\ undo \in Seq(Snapshots) /\ redo \in Seq(Snapshots) /\ Len(undo) + Len(redo) = 0
  BY BlankIs, NoPopupGood, EmptySeq DEF EditorInit
<1>2. EditorTypeOK
  <2>1. /\ popup \in [items : Seq(Range(Values)), selected : Nat]
        /\ popup.selected \in (IF popup.items = <<>> THEN {0} ELSE 1..Len(popup.items))
    BY <1>1 DEF GoodPopup
  <2>2. /\ mode \in {"closed", "edit", "search", "prompt", "save", "quit", "discard"}
        /\ dirty \in BOOLEAN /\ errors \in BOOLEAN /\ pattern \in Patterns \cup {NoPattern}
        /\ edits \in 0..MaxEdits /\ searches \in 0..MaxSearches
    BY DEF EditorInit
  <2>3. Len(undo) + Len(redo) <= UndoLimit
    BY <1>1, UndoLimitAssumption
  <2>. QED
    BY <1>1, <2>1, <2>2, <2>3 DEF EditorTypeOK
<1>. QED
  BY <1>2 DEF EditorInv, EditorInit, Reset

-----------------------------------------------------------------------------
(***************************************************************************)
(* The two stacks as one line of versions.                                 *)
(***************************************************************************)

Texts(h) == [i \in 1..Len(h) |-> h[i].lines]

\* Versions, of stacks and a text that need not be those of the state.
VersionsOf(u, t, r) == Texts(u) \o <<t>> \o Reverse(Texts(r))

\* The versions Timeline speaks of: those undone to, the text, those redone to.
LEMMA VersionsAre == Versions = VersionsOf(undo, lines, redo)
BY DEF Versions, VersionsOf, Texts

\* The texts of a stack of snapshots, one of each.
LEMMA TextsAre ==
  ASSUME NEW h \in Seq(Snapshots)
  PROVE  /\ Texts(h) \in Seq(Text) /\ Len(Texts(h)) = Len(h)
         /\ \A i \in 1..Len(h) : Texts(h)[i] = h[i].lines
<1>1. Len(h) \in Nat /\ \A i \in 1..Len(h) : h[i].lines \in Text
  BY ElementOfSeq, LenProperties DEF Snapshots
<1>. QED
  BY <1>1 DEF Texts

\* Where each stack has its place in a line of versions w.
InLine(w, u, t, r) ==
  /\ w \in Seq(Text)
  /\ Len(w) = Len(u) + 1 + Len(r)
  /\ \A i \in 1..(Len(u) + 1 + Len(r)) :
       w[i] = IF i <= Len(u) THEN u[i].lines
              ELSE IF i = Len(u) + 1 THEN t
              ELSE r[(Len(u) + Len(r) + 2) - i].lines

\* Which version is where: the undo stack from its bottom, the redo stack from
\* its top.
LEMMA VersionsAt ==
  ASSUME NEW u \in Seq(Snapshots), NEW t \in Text, NEW r \in Seq(Snapshots)
  PROVE  InLine(VersionsOf(u, t, r), u, t, r)
<1>. DEFINE back  == Texts(u)
            front == Reverse(Texts(r))
            head  == back \o <<t>>
<1>0. Len(u) \in Nat /\ Len(r) \in Nat
  BY LenProperties
<1>1. back \in Seq(Text) /\ Len(back) = Len(u) /\ \A i \in 1..Len(u) : back[i] = u[i].lines
  BY TextsAre
<1>2. /\ front \in Seq(Text) /\ Len(front) = Len(r)
      /\ \A i \in 1..Len(r) : front[i] = r[(Len(r) - i) + 1].lines
  <2>1. Texts(r) \in Seq(Text) /\ Len(Texts(r)) = Len(r) /\ \A i \in 1..Len(r) : Texts(r)[i] = r[i].lines
    BY TextsAre
  <2>2. front = [i \in 1..Len(r) |-> Texts(r)[(Len(r) - i) + 1]]
    BY <2>1 DEF Reverse
  <2>3. \A i \in 1..Len(r) : (Len(r) - i) + 1 \in 1..Len(r)
    BY <1>0
  <2>4. \A i \in 1..Len(r) : Texts(r)[(Len(r) - i) + 1] \in Text
    BY <2>1, <2>3, ElementOfSeq
  <2>5. front \in Seq(Text) /\ Len(front) = Len(r)
    BY <1>0, <2>2, <2>4
  <2>6. \A i \in 1..Len(r) : front[i] = Texts(r)[(Len(r) - i) + 1]
    BY <2>2
  <2>. HIDE DEF front
  <2>. QED
    BY <2>1, <2>3, <2>5, <2>6
<1>3. VersionsOf(u, t, r) = head \o front
  BY DEF VersionsOf
<1>. HIDE DEF back, front
<1>4. <<t>> \in Seq(Text) /\ Len(<<t>>) = 1 /\ <<t>>[1] = t
  OBVIOUS
<1>5. /\ head \in Seq(Text) /\ Len(head) = Len(u) + 1
      /\ \A i \in 1..(Len(u) + 1) : head[i] = IF i <= Len(u) THEN back[i] ELSE <<t>>[i - Len(u)]
  BY <1>1, <1>4, ConcatProperties
<1>6. \A i \in 1..(Len(u) + 1) : head[i] = IF i <= Len(u) THEN u[i].lines ELSE t
  <2>1. \A i \in 1..(Len(u) + 1) : ~(i <= Len(u)) => i - Len(u) = 1
    BY <1>0
  <2>2. \A i \in 1..(Len(u) + 1) : i <= Len(u) => i \in 1..Len(u)
    BY <1>0
  <2>. QED
    BY <1>1, <1>4, <1>5, <2>1, <2>2
<1>. HIDE DEF head
<1>7. /\ head \o front \in Seq(Text) /\ Len(head \o front) = (Len(u) + 1) + Len(r)
      /\ \A i \in 1..((Len(u) + 1) + Len(r)) :
           (head \o front)[i] = IF i <= Len(u) + 1 THEN head[i] ELSE front[i - (Len(u) + 1)]
  <2>0. head \in Seq(Text) /\ front \in Seq(Text)
    BY <1>2, <1>5
  <2>1. Len(head) = Len(u) + 1 /\ Len(front) = Len(r)
    BY <1>2, <1>5
  <2>2. /\ head \o front \in Seq(Text) /\ Len(head \o front) = Len(head) + Len(front)
        /\ \A i \in 1..(Len(head) + Len(front)) :
             (head \o front)[i] = IF i <= Len(head) THEN head[i] ELSE front[i - Len(head)]
    BY <2>0, ConcatProperties
  <2>. QED
    BY <2>1, <2>2
<1>8. ASSUME NEW i \in 1..((Len(u) + 1) + Len(r))
      PROVE  (head \o front)[i] = IF i <= Len(u) THEN u[i].lines
                                  ELSE IF i = Len(u) + 1 THEN t
                                  ELSE r[(Len(u) + Len(r) + 2) - i].lines
  <2>1. CASE i <= Len(u) + 1
    <3>1. (head \o front)[i] = head[i] /\ i \in 1..(Len(u) + 1)
      BY <1>0, <1>7, <2>1
    <3>2. i <= Len(u) \/ i = Len(u) + 1
      BY <1>0, <2>1
    <3>. QED
      BY <1>0, <1>6, <3>1, <3>2
  <2>2. CASE ~(i <= Len(u) + 1)
    <3>1. (head \o front)[i] = front[i - (Len(u) + 1)] /\ i - (Len(u) + 1) \in 1..Len(r)
      BY <1>0, <1>7, <2>2
    <3>2. (Len(r) - (i - (Len(u) + 1))) + 1 = (Len(u) + Len(r) + 2) - i
      BY <1>0
    <3>3. ~(i <= Len(u)) /\ i # Len(u) + 1
      BY <1>0, <2>2
    <3>. QED
      BY <1>2, <3>1, <3>2, <3>3
  <2>. QED
    BY <2>1, <2>2
<1>9. \A i \in 1..(Len(u) + 1 + Len(r)) : i \in 1..((Len(u) + 1) + Len(r))
  OBVIOUS
<1>. QED
  BY <1>0, <1>3, <1>7, <1>8, <1>9 DEF InLine

\* Nothing to be redone: the text is the last version.
LEMMA VersionsAlone ==
  ASSUME NEW u \in Seq(Snapshots), NEW t \in Text
  PROVE  /\ VersionsOf(u, t, <<>>) \in Seq(Text) /\ Len(VersionsOf(u, t, <<>>)) = Len(u) + 1
         /\ \A i \in 1..(Len(u) + 1) :
              VersionsOf(u, t, <<>>)[i] = IF i <= Len(u) THEN u[i].lines ELSE t
<1>. DEFINE w == VersionsOf(u, t, <<>>)
<1>0. Len(u) \in Nat /\ <<>> \in Seq(Snapshots) /\ Len(<<>>) = 0
  BY EmptySeq, LenProperties
<1>1. InLine(w, u, t, <<>>)
  BY <1>0, VersionsAt
<1>. HIDE DEF w
<1>2. w \in Seq(Text) /\ Len(w) = Len(u) + 1
  BY <1>0, <1>1 DEF InLine
<1>3. ASSUME NEW i \in 1..(Len(u) + 1) PROVE w[i] = IF i <= Len(u) THEN u[i].lines ELSE t
  <2>1. i \in 1..(Len(u) + 1 + Len(<<>>)) /\ (i <= Len(u) \/ i = Len(u) + 1)
    BY <1>0
  <2>. QED
    BY <1>1, <2>1 DEF InLine
<1>. QED
  BY <1>2, <1>3 DEF w

\* A snapshot goes from one stack to the text, and the text to the other stack.
LEMMA VersionsShift ==
  ASSUME NEW u \in Seq(Snapshots), NEW s \in Snapshots, NEW t \in Text, NEW r \in Seq(Snapshots),
         NEW o \in Snapshots, o.lines = t
  PROVE  VersionsOf(Append(u, o), s.lines, r) = VersionsOf(u, t, Append(r, s))
<1>. DEFINE v == Append(u, o)
            q == Append(r, s)
<1>0. Len(u) \in Nat /\ Len(r) \in Nat /\ s.lines \in Text
  BY LenProperties DEF Snapshots
<1>1. /\ v \in Seq(Snapshots) /\ Len(v) = Len(u) + 1
      /\ \A i \in 1..(Len(u) + 1) : v[i] = IF i <= Len(u) THEN u[i] ELSE o
  BY <1>0, AppendProperties
<1>2. /\ q \in Seq(Snapshots) /\ Len(q) = Len(r) + 1
      /\ \A i \in 1..(Len(r) + 1) : q[i] = IF i <= Len(r) THEN r[i] ELSE s
  BY <1>0, AppendProperties
<1>. HIDE DEF v, q
<1>. DEFINE a == VersionsOf(v, s.lines, r)
            b == VersionsOf(u, t, q)
            n == Len(u) + Len(r) + 2
<1>3. /\ a \in Seq(Text) /\ Len(a) = Len(v) + 1 + Len(r)
      /\ \A i \in 1..(Len(v) + 1 + Len(r)) :
           a[i] = IF i <= Len(v) THEN v[i].lines
                  ELSE IF i = Len(v) + 1 THEN s.lines ELSE r[(Len(v) + Len(r) + 2) - i].lines
  <2>1. InLine(a, v, s.lines, r)
    BY <1>0, <1>1, VersionsAt
  <2>. QED
    BY <2>1 DEF InLine
<1>4. /\ b \in Seq(Text) /\ Len(b) = Len(u) + 1 + Len(q)
      /\ \A i \in 1..(Len(u) + 1 + Len(q)) :
           b[i] = IF i <= Len(u) THEN u[i].lines
                  ELSE IF i = Len(u) + 1 THEN t ELSE q[(Len(u) + Len(q) + 2) - i].lines
  <2>1. InLine(b, u, t, q)
    BY <1>2, VersionsAt
  <2>. QED
    BY <2>1 DEF InLine
<1>. HIDE DEF a, b
<1>5. Len(a) = n /\ Len(b) = n /\ n \in Nat
  BY <1>0, <1>1, <1>2, <1>3, <1>4
<1>6. ASSUME NEW i \in 1..n PROVE a[i] = b[i]
  <2>1. i \in 1..(Len(v) + 1 + Len(r)) /\ i \in 1..(Len(u) + 1 + Len(q))
    BY <1>0, <1>1, <1>2
  <2>2. CASE i <= Len(u)
    <3>1. i <= Len(v) /\ i \in 1..(Len(u) + 1)
      BY <1>0, <1>1, <2>2
    <3>. QED
      BY <1>1, <1>3, <1>4, <2>1, <2>2, <3>1
  <2>3. CASE i = Len(u) + 1
    <3>1. i <= Len(v) /\ i \in 1..(Len(u) + 1) /\ ~(i <= Len(u))
      BY <1>0, <1>1, <2>3
    <3>. QED
      BY <1>1, <1>3, <1>4, <2>1, <2>3, <3>1
  <2>4. CASE i = Len(u) + 2
    <3>1. /\ ~(i <= Len(v)) /\ i = Len(v) + 1 /\ ~(i <= Len(u)) /\ i # Len(u) + 1
          /\ (Len(u) + Len(q) + 2) - i = Len(r) + 1 /\ Len(r) + 1 \in 1..(Len(r) + 1) /\ ~(Len(r) + 1 <= Len(r))
      BY <1>0, <1>1, <1>2, <2>4
    <3>. QED
      BY <1>2, <1>3, <1>4, <2>1, <3>1
  <2>5. CASE i > Len(u) + 2
    <3>1. /\ ~(i <= Len(v)) /\ i # Len(v) + 1 /\ ~(i <= Len(u)) /\ i # Len(u) + 1
          /\ (Len(u) + Len(q) + 2) - i = (Len(v) + Len(r) + 2) - i
          /\ (Len(v) + Len(r) + 2) - i \in 1..(Len(r) + 1) /\ (Len(v) + Len(r) + 2) - i <= Len(r)
      BY <1>0, <1>1, <1>2, <2>5
    <3>. QED
      BY <1>2, <1>3, <1>4, <2>1, <3>1
  <2>. QED
    BY <1>0, <2>2, <2>3, <2>4, <2>5
<1>7. a = b
  BY <1>3, <1>4, <1>5, <1>6, SeqEqual
<1>. QED
  BY <1>7 DEF a, b, v, q

\* A sequence is its front and its last element.
LEMMA FrontAndLast ==
  ASSUME NEW S, NEW s \in Seq(S), s # <<>>
  PROVE  s = Append(Front(s), Last(s)) /\ Front(s) \in Seq(S) /\ Last(s) \in S
<1>1. Len(s) \in Nat \ {0}
  BY EmptySeq
<1>2. Last(s) \in S /\ Last(s) = s[Len(s)]
  BY <1>1, ElementOfSeq DEF Last
<1>3. 1 \in 1..(Len(s) + 1) /\ Len(s) - 1 \in 0..Len(s)
  BY <1>1
<1>4. /\ SubSeq(s, 1, Len(s) - 1) \in Seq(S)
      /\ Len(SubSeq(s, 1, Len(s) - 1)) = IF 1 <= Len(s) - 1 THEN (Len(s) - 1) - 1 + 1 ELSE 0
      /\ \A i \in 1..((Len(s) - 1) - 1 + 1) : SubSeq(s, 1, Len(s) - 1)[i] = s[1 + i - 1]
  BY <1>3, Part
<1>5. Front(s) = SubSeq(s, 1, Len(s) - 1)
  BY DEF Front
<1>6. \A n \in Nat \ {0} : /\ (IF 1 <= n - 1 THEN (n - 1) - 1 + 1 ELSE 0) = n - 1
                           /\ (n - 1) - 1 + 1 = n - 1 /\ \A i \in 1..(n - 1) : 1 + i - 1 = i
  OBVIOUS
<1>7. /\ Front(s) \in Seq(S) /\ Len(Front(s)) = Len(s) - 1
      /\ \A i \in 1..(Len(s) - 1) : Front(s)[i] = s[i]
  BY <1>1, <1>4, <1>5, <1>6
<1>8. /\ Append(Front(s), Last(s)) \in Seq(S) /\ Len(Append(Front(s), Last(s))) = (Len(s) - 1) + 1
      /\ \A i \in 1..((Len(s) - 1) + 1) :
           Append(Front(s), Last(s))[i] = IF i <= Len(s) - 1 THEN Front(s)[i] ELSE Last(s)
  BY <1>2, <1>7, AppendProperties
<1>9. ASSUME NEW i \in 1..Len(s) PROVE s[i] = Append(Front(s), Last(s))[i]
  <2>1. i \in 1..((Len(s) - 1) + 1)
    BY <1>1
  <2>2. CASE i <= Len(s) - 1
    <3>1. i \in 1..(Len(s) - 1)
      BY <1>1, <2>2
    <3>. QED
      BY <1>7, <1>8, <2>1, <2>2, <3>1
  <2>3. CASE ~(i <= Len(s) - 1)
    <3>1. i = Len(s)
      BY <1>1, <2>3
    <3>. QED
      BY <1>2, <1>8, <2>1, <2>3, <3>1
  <2>. QED
    BY <2>2, <2>3
<1>10. Len(s) = Len(Append(Front(s), Last(s)))
  BY <1>1, <1>8
<1>11. s = Append(Front(s), Last(s))
  BY <1>8, <1>9, <1>10, SeqEqual
<1>. QED
  BY <1>2, <1>7, <1>11

\* A change: what was behind the text goes, the text becomes the last but one.
LEMMA VersionsChange ==
  ASSUME NEW u \in Seq(Snapshots), NEW t \in Text, NEW r \in Seq(Snapshots),
         NEW o \in Snapshots, o.lines = t, NEW new \in Text
  PROVE  VersionsOf(Append(u, o), new, <<>>) = Append(SubSeq(VersionsOf(u, t, r), 1, Len(u) + 1), new)
<1>. DEFINE v == Append(u, o)
            all == VersionsOf(u, t, r)
            cut == SubSeq(all, 1, Len(u) + 1)
<1>0. Len(u) \in Nat /\ Len(r) \in Nat /\ <<>> \in Seq(Snapshots) /\ Len(<<>>) = 0
  BY LenProperties, EmptySeq
<1>1. /\ v \in Seq(Snapshots) /\ Len(v) = Len(u) + 1
      /\ \A i \in 1..(Len(u) + 1) : v[i] = IF i <= Len(u) THEN u[i] ELSE o
  BY <1>0, AppendProperties
<1>. HIDE DEF v
<1>2. /\ all \in Seq(Text) /\ Len(all) = Len(u) + 1 + Len(r)
      /\ \A i \in 1..(Len(u) + 1 + Len(r)) :
           all[i] = IF i <= Len(u) THEN u[i].lines
                    ELSE IF i = Len(u) + 1 THEN t ELSE r[(Len(u) + Len(r) + 2) - i].lines
  BY VersionsAt DEF InLine
<1>. HIDE DEF all
<1>3. 1 \in 1..(Len(all) + 1) /\ Len(u) + 1 \in 0..Len(all)
  BY <1>0, <1>2
<1>4. /\ cut \in Seq(Text)
      /\ Len(cut) = IF 1 <= Len(u) + 1 THEN (Len(u) + 1) - 1 + 1 ELSE 0
      /\ \A i \in 1..((Len(u) + 1) - 1 + 1) : cut[i] = all[1 + i - 1]
  BY <1>2, <1>3, Part
<1>. HIDE DEF cut
<1>5. /\ cut \in Seq(Text) /\ Len(cut) = Len(u) + 1
      /\ \A i \in 1..(Len(u) + 1) : cut[i] = IF i <= Len(u) THEN u[i].lines ELSE t
  <2>1. \A n \in Nat : /\ (IF 1 <= n + 1 THEN (n + 1) - 1 + 1 ELSE 0) = n + 1
                       /\ (n + 1) - 1 + 1 = n + 1 /\ \A i \in 1..(n + 1) : 1 + i - 1 = i
    OBVIOUS
  <2>2. \A i \in 1..(Len(u) + 1) : cut[i] = all[i]
    BY <1>0, <1>4, <2>1
  <2>3. \A i \in 1..(Len(u) + 1) : i \in 1..(Len(u) + 1 + Len(r)) /\ (~(i <= Len(u)) => i = Len(u) + 1)
    BY <1>0
  <2>. QED
    BY <1>0, <1>2, <1>4, <2>1, <2>2, <2>3
<1>. DEFINE a == VersionsOf(v, new, <<>>)
            b == Append(cut, new)
<1>6. /\ a \in Seq(Text) /\ Len(a) = Len(v) + 1
      /\ \A i \in 1..(Len(v) + 1) : a[i] = IF i <= Len(v) THEN v[i].lines ELSE new
  BY <1>1, VersionsAlone
<1>7. /\ b \in Seq(Text) /\ Len(b) = (Len(u) + 1) + 1
      /\ \A i \in 1..((Len(u) + 1) + 1) : b[i] = IF i <= Len(u) + 1 THEN cut[i] ELSE new
  BY <1>5, AppendProperties
<1>. HIDE DEF a, b
<1>8. Len(a) = Len(u) + 2 /\ Len(b) = Len(u) + 2
  BY <1>0, <1>1, <1>6, <1>7
<1>9. ASSUME NEW i \in 1..(Len(u) + 2) PROVE a[i] = b[i]
  <2>1. i \in 1..(Len(v) + 1) /\ i \in 1..((Len(u) + 1) + 1)
    BY <1>0, <1>1
  <2>2. CASE i <= Len(u) + 1
    <3>1. i \in 1..(Len(u) + 1) /\ i <= Len(v)
      BY <1>0, <1>1, <2>2
    <3>. QED
      BY <1>1, <1>5, <1>6, <1>7, <2>1, <2>2, <3>1
  <2>3. CASE ~(i <= Len(u) + 1)
    <3>1. i = Len(v) + 1 /\ ~(i <= Len(v))
      BY <1>0, <1>1, <2>3
    <3>. QED
      BY <1>6, <1>7, <2>1, <2>3, <3>1
  <2>. QED
    BY <2>2, <2>3
<1>10. a = b
  BY <1>6, <1>7, <1>8, <1>9, SeqEqual
<1>. QED
  BY <1>10 DEF a, b, v, all, cut

\* The oldest version goes with the oldest snapshot.
LEMMA VersionsTail ==
  ASSUME NEW u \in Seq(Snapshots), u # <<>>, NEW t \in Text
  PROVE  VersionsOf(Tail(u), t, <<>>) = Tail(VersionsOf(u, t, <<>>))
<1>0. Len(u) \in Nat \ {0} /\ <<>> \in Seq(Snapshots) /\ Len(<<>>) = 0
  BY EmptySeq
<1>. DEFINE v == Tail(u)
            a == VersionsOf(v, t, <<>>)
            w == VersionsOf(u, t, <<>>)
            b == Tail(w)
<1>1. /\ v \in Seq(Snapshots) /\ Len(v) = Len(u) - 1 /\ \A i \in 1..Len(v) : v[i] = u[i + 1]
  BY HeadTailProperties
<1>. HIDE DEF v
<1>2. /\ a \in Seq(Text) /\ Len(a) = Len(v) + 1
      /\ \A i \in 1..(Len(v) + 1) : a[i] = IF i <= Len(v) THEN v[i].lines ELSE t
  BY <1>1, VersionsAlone
<1>3. /\ w \in Seq(Text) /\ Len(w) = Len(u) + 1
      /\ \A i \in 1..(Len(u) + 1) : w[i] = IF i <= Len(u) THEN u[i].lines ELSE t
  BY VersionsAlone
<1>. HIDE DEF a, w
<1>4. w # <<>>
  BY <1>0, <1>3
<1>5. /\ b \in Seq(Text) /\ Len(b) = Len(w) - 1 /\ \A i \in 1..Len(b) : b[i] = w[i + 1]
  BY <1>3, <1>4, HeadTailProperties
<1>. HIDE DEF b
<1>6. Len(a) = Len(u) /\ Len(b) = Len(u)
  BY <1>0, <1>1, <1>2, <1>3, <1>5
<1>7. ASSUME NEW i \in 1..Len(u) PROVE a[i] = b[i]
  <2>1. /\ i \in 1..(Len(v) + 1) /\ i + 1 \in 1..(Len(u) + 1) /\ i \in 1..Len(b)
        /\ (i <= Len(v) <=> i + 1 <= Len(u)) /\ (i = Len(v) + 1 <=> i + 1 = Len(u) + 1)
        /\ (i <= Len(v) => i \in 1..Len(v)) /\ (i <= Len(v) \/ i = Len(v) + 1)
    BY <1>0, <1>1, <1>6
  <2>2. b[i] = w[i + 1]
    BY <1>5, <2>1
  <2>. QED
    BY <1>1, <1>2, <1>3, <2>1, <2>2
<1>8. a = b
  BY <1>2, <1>5, <1>6, <1>7, SeqEqual
<1>. QED
  BY <1>8 DEF a, b, v, w

-----------------------------------------------------------------------------
(***************************************************************************)
(* Every step of the editor as one of the timeline.                        *)
(***************************************************************************)

\* The same of the next state.
LEMMA PrimedVersions == Versions' = VersionsOf(undo', lines', redo')
BY DEF Versions, VersionsOf, Texts

\* What the line of versions looks like while the editor is open.
LEMMA LineIs ==
  ASSUME EditorTypeOK
  PROVE  /\ Versions = VersionsOf(undo, lines, redo) /\ Versions \in Seq(Text)
         /\ Len(Versions) = Len(undo) + 1 + Len(redo)
         /\ Len(undo) \in Nat /\ Len(redo) \in Nat /\ Versions # <<>>
<1>1. undo \in Seq(Snapshots) /\ lines \in Text /\ redo \in Seq(Snapshots)
  BY DEF EditorTypeOK
<1>2. InLine(VersionsOf(undo, lines, redo), undo, lines, redo)
  BY <1>1, VersionsAt
<1>3. Len(undo) \in Nat /\ Len(redo) \in Nat
  BY <1>1, LenProperties
<1>4. /\ VersionsOf(undo, lines, redo) \in Seq(Text)
      /\ Len(VersionsOf(undo, lines, redo)) = Len(undo) + 1 + Len(redo)
  BY <1>2 DEF InLine
<1>5. VersionsOf(undo, lines, redo) # <<>>
  BY <1>3, <1>4, EmptySeq
<1>. QED
  BY <1>3, <1>4, <1>5, VersionsAre

\* A key that edits is a change.
LEMMA EditRefines ==
  ASSUME EditorInv, NEW t \in Text, NEW y, NEW x, NEW changes, Edit(t, y, x, changes)
  PROVE  History!Change
<1>0. EditorTypeOK
  BY DEF EditorInv
<1>1. /\ mode = "edit" /\ mode' = "edit" /\ lines' = t
      /\ undo' = Latest(Append(undo, Snapshot)) /\ redo' = <<>>
  BY DEF Edit, PushUndo
<1>2. /\ undo \in Seq(Snapshots) /\ redo \in Seq(Snapshots) /\ lines \in Text
      /\ Snapshot \in Snapshots /\ Snapshot.lines = lines /\ Len(undo) \in Nat
  BY <1>0, TypeFacts DEF EditorTypeOK, Snapshot
<1>. DEFINE u   == Append(undo, Snapshot)
            all == Append(SubSeq(Versions, 1, Len(undo) + 1), t)
<1>3. u \in Seq(Snapshots) /\ Len(u) = Len(undo) + 1
  BY <1>2, AppendProperties
<1>4. u # <<>>
  <2>1. Len(<<>>) = 0 /\ Len(u) # 0
    BY <1>2, <1>3
  <2>. QED
    BY <2>1
<1>5. all = VersionsOf(u, t, <<>>)
  BY <1>2, VersionsChange, VersionsAre
<1>. HIDE DEF u, all
<1>6. /\ all \in Seq(Text) /\ Len(all) = Len(u) + 1
      /\ \A i \in 1..(Len(u) + 1) : all[i] = IF i <= Len(u) THEN u[i].lines ELSE t
  BY <1>3, <1>5, VersionsAlone
<1>7. Versions' = IF Len(u) > UndoLimit THEN VersionsOf(Tail(u), t, <<>>) ELSE all
  BY <1>1, <1>5, PrimedVersions DEF Latest, u
<1>8. Versions' = IF Len(all) > UndoLimit + 1 THEN Tail(all) ELSE all
  <2>1. VersionsOf(Tail(u), t, <<>>) = Tail(all)
    BY <1>3, <1>4, <1>5, VersionsTail
  <2>2. Len(u) > UndoLimit <=> Len(all) > UndoLimit + 1
    BY <1>2, <1>3, <1>6, UndoLimitAssumption
  <2>. QED
    BY <1>7, <2>1, <2>2
<1>9. /\ Versions' \in Seq(Text) /\ Versions' # <<>> /\ Len(Versions') = Len(undo') + 1
      /\ Last(Versions') = t
  <2>1. /\ undo' \in Seq(Snapshots) /\ Len(undo') \in Nat
    <3>1. Tail(u) \in Seq(Snapshots)
      BY <1>3, <1>4, HeadTailProperties
    <3>. QED
      BY <1>1, <1>3, <3>1, LenProperties DEF Latest, u
  <2>2. Versions' = VersionsOf(undo', t, <<>>)
    BY <1>1, PrimedVersions
  <2>3. /\ Versions' \in Seq(Text) /\ Len(Versions') = Len(undo') + 1
        /\ \A i \in 1..(Len(undo') + 1) : Versions'[i] = IF i <= Len(undo') THEN undo'[i].lines ELSE t
    BY <2>1, <2>2, VersionsAlone
  <2>4. Len(undo') + 1 \in 1..(Len(undo') + 1) /\ ~(Len(undo') + 1 <= Len(undo')) /\ Len(undo') + 1 # 0
    BY <2>1
  <2>5. Last(Versions') = t
    BY <2>3, <2>4 DEF Last
  <2>. QED
    BY <2>3, <2>4, <2>5, EmptySeq
<1>10. Versions # <<>>
  BY <1>0, LineIs
<1>. DEFINE w == IF mode = "closed" THEN <<>> ELSE Versions
            n == IF mode = "closed" THEN 0 ELSE Len(undo) + 1
<1>11. w = Versions /\ w' = Versions' /\ n = Len(undo) + 1 /\ n' = Len(undo') + 1
  BY <1>1
<1>12. w # <<>> /\ w' # <<>> /\ n' = Len(w')
  BY <1>9, <1>10, <1>11
<1>13. all = Append(SubSeq(w, 1, n), History!Last(w'))
  BY <1>9, <1>11 DEF all, Last, History!Last
<1>14. w' = IF Len(all) > UndoLimit + 1 THEN Tail(all) ELSE all
  BY <1>8, <1>11
<1>. HIDE DEF w, n
<1>15. /\ w # <<>> /\ w' # <<>> /\ n' = Len(w')
       /\ LET ver == Append(SubSeq(w, 1, n), History!Last(w'))
          IN w' = IF Len(ver) > UndoLimit + 1 THEN Tail(ver) ELSE ver
  BY <1>12, <1>13, <1>14
<1>. QED
  BY <1>15 DEF History!Change, w, n

\* Undo goes to the version before, and forgets none.
LEMMA UndoRefines ==
  ASSUME EditorInv, Undo
  PROVE  History!Undo
<1>1. /\ redo' = Append(redo, Snapshot) /\ undo' = Front(undo) /\ Restore(Last(undo))
      /\ undo \in Seq(Snapshots) /\ redo \in Seq(Snapshots) /\ undo # <<>> /\ mode = "edit"
  BY UndoIs
<1>2. /\ lines' = Last(undo).lines /\ mode' = "edit" /\ lines \in Text /\ Snapshot \in Snapshots
      /\ Snapshot.lines = lines /\ EditorTypeOK
  BY <1>1, TypeFacts DEF Restore, EditorInv, EditorTypeOK, Snapshot
<1>3. undo = Append(Front(undo), Last(undo)) /\ Front(undo) \in Seq(Snapshots) /\ Last(undo) \in Snapshots
  BY <1>1, FrontAndLast
<1>4. Last(undo).lines \in Text
  BY <1>3 DEF Snapshots
<1>5. VersionsOf(Append(Front(undo), Last(undo)), Snapshot.lines, redo)
        = VersionsOf(Front(undo), Last(undo).lines, Append(redo, Snapshot))
  BY <1>1, <1>2, <1>3, <1>4, VersionsShift
<1>6. Versions' = Versions
  BY <1>1, <1>2, <1>3, <1>5, PrimedVersions, VersionsAre
<1>7. Len(Front(undo)) = Len(undo) - 1 /\ Len(undo) \in Nat \ {0}
  BY <1>1, <1>2, Swapped
<1>8. Len(undo) + 1 > 1 /\ Len(undo') + 1 = (Len(undo) + 1) - 1
  BY <1>1, <1>7
<1>. QED
  BY <1>1, <1>2, <1>6, <1>8 DEF History!Undo

\* Redo goes to the version after.
LEMMA RedoRefines ==
  ASSUME EditorInv, Redo
  PROVE  History!Redo
<1>1. /\ undo' = Append(undo, Snapshot) /\ redo' = Front(redo) /\ Restore(Last(redo))
      /\ redo # <<>> /\ mode = "edit"
  BY DEF Redo
<1>2. /\ lines' = Last(redo).lines /\ mode' = "edit" /\ lines \in Text /\ Snapshot \in Snapshots
      /\ Snapshot.lines = lines /\ EditorTypeOK /\ undo \in Seq(Snapshots) /\ redo \in Seq(Snapshots)
  BY <1>1, TypeFacts DEF Restore, EditorInv, EditorTypeOK, Snapshot
<1>3. redo = Append(Front(redo), Last(redo)) /\ Front(redo) \in Seq(Snapshots) /\ Last(redo) \in Snapshots
  BY <1>1, <1>2, FrontAndLast
<1>4. VersionsOf(Append(undo, Snapshot), Last(redo).lines, Front(redo))
        = VersionsOf(undo, lines, Append(Front(redo), Last(redo)))
  BY <1>2, <1>3, VersionsShift
<1>5. Versions' = Versions
  BY <1>1, <1>2, <1>3, <1>4, PrimedVersions, VersionsAre
<1>6. Len(Append(undo, Snapshot)) = Len(undo) + 1 /\ Len(redo) \in Nat \ {0}
  BY <1>1, <1>2, Swapped
<1>7. Len(undo) + 1 < Len(Versions) /\ Len(undo') + 1 = (Len(undo) + 1) + 1
  BY <1>1, <1>2, <1>6, LineIs
<1>. QED
  BY <1>1, <1>2, <1>5, <1>7 DEF History!Redo

\* A key that leaves text and stacks alone leaves the timeline alone.
LEMMA QuietRefines ==
  ASSUME EditorInv, QuietKey
  PROVE  UNCHANGED History!vars
<1>1. UNCHANGED <<lines, undo, redo>> /\ mode # "closed" /\ mode' # "closed"
  BY DEF QuietKey, Move, Choose, Complete, BeginSearch, CancelSearch, SearchFor, FindNext, TrySave, Exit,
         Escape, RequestExit, Discard, KeepEditing, textVars
<1>2. Versions' = Versions
  BY <1>1, PrimedVersions, VersionsAre
<1>. QED
  BY <1>1, <1>2 DEF History!vars

\* An editor is opened with one version only.
LEMMA OpenRefines ==
  ASSUME EditorInv, NEW t \in Text, OpenEditor(t)
  PROVE  History!Open
<1>1. /\ mode = "closed" /\ mode' = "edit" /\ lines' = t /\ undo' = undo /\ redo' = redo
      /\ undo = <<>> /\ redo = <<>>
  BY DEF EditorInv, Reset, OpenEditor
<1>2. Versions' = VersionsOf(<<>>, t, <<>>)
  BY <1>1, PrimedVersions
<1>3. <<>> \in Seq(Snapshots) /\ Len(<<>>) = 0
  BY EmptySeq
<1>4. Len(VersionsOf(<<>>, t, <<>>)) = Len(<<>>) + 1
  BY <1>3, VersionsAlone
<1>. QED
  BY <1>1, <1>2, <1>3, <1>4 DEF History!Open

\* It is closed with none.
LEMMA CloseRefines ==
  ASSUME EditorInv, CloseEditor
  PROVE  History!Close
<1>1. mode # "closed" /\ mode' = "closed"
  BY DEF CloseEditor
<1>2. Versions # <<>>
  BY LineIs DEF EditorInv
<1>. QED
  BY <1>1, <1>2 DEF History!Close

\* Where text and stacks stay, so do the versions.
LEMMA SameTimeline ==
  ASSUME UNCHANGED <<mode, lines, undo, redo>>
  PROVE  UNCHANGED History!vars
<1>1. Versions' = Versions
  BY PrimedVersions, VersionsAre
<1>. QED
  BY <1>1 DEF History!vars

\* Every key is a step of the timeline or leaves it alone.
LEMMA KeyRefines ==
  ASSUME EditorInv, Key
  PROVE  [History!Next]_(History!vars)
<1>0. EditorTypeOK
  BY DEF EditorInv
<1>1. CASE QuietKey
  BY <1>1, QuietRefines
<1>2. CASE Undo \/ Redo
  BY <1>2, UndoRefines, RedoRefines DEF History!Next
<1>3. ASSUME NEW t, NEW y, NEW x, NEW changes, Edit(t, y, x, changes), EditorTypeOK'
      PROVE  History!Next
  <2>1. t \in Text
    BY <1>3 DEF EditorTypeOK, Edit
  <2>. QED
    BY <1>3, <2>1, EditRefines DEF History!Next
<1>4. EditorTypeOK'
  BY KeyKeeps DEF EditorInv
<1>5. CASE (\E c \in Typed : Type(c)) \/ Backspace \/ Delete \/ Split \/ Accept
  <2>1. PICK t, y, x, changes : Edit(t, y, x, changes)
    BY <1>5 DEF Type, Backspace, Delete, Split, Accept
  <2>. QED
    BY <1>3, <1>4, <2>1
<1>. QED
  BY <1>1, <1>2, <1>5 DEF Key, QuietKey
=============================================================================
