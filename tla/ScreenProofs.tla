----------------------------- MODULE ScreenProofs -----------------------------
(* The screens the code keeps implement TerminalScreens: only which text is *)
(* where matters for that, and that a terminal has one place at a time.     *)
(* Below, what is drawn: where a cursor can be, and the blinking one.       *)
EXTENDS Screen, WellFoundedInduction, TLAPS

(* What the refinement needs to know of a state.                            *)
Pages == videomem_buffer = [t \in Terms |-> videomem_buffer[t]] /\ cur_terminal \in Terms

(* Both modules draw alike.                                                 *)
LEMMA SameDrawing ==
    /\ Screens!Terms = Terms
    /\ Screens!Texts = Texts
    /\ Screens!Blank = Blank
    /\ \A s, cs : Screens!Drawn(s, cs) = Drawn(s, cs)
    /\ \A s : Screens!Breaks(s) = Breaks(s)
    /\ \A s : Screens!KeyDraws(s) = KeyDraws(s)
<1>1. Screens!Terms = Terms
  BY DEF Terms, Screens!Terms
<1>2. Screens!Texts = Texts
  BY DEF Texts, Screens!Texts, Cells, Screens!Cells, BLANK, Screens!BLANK, LETTER, Screens!LETTER
<1>3. Screens!Blank = Blank
  BY DEF Blank, Screens!Blank, Cells, Screens!Cells, BLANK, Screens!BLANK
<1>4. \A s : Screens!LineEnd(s) = LineEnd(s)
  BY DEF LineEnd, Screens!LineEnd, Scrolled, Screens!Scrolled, Cells, Screens!Cells, BLANK, Screens!BLANK
<1>5. \A s, c : Screens!Put(s, c) = Put(s, c)
  BY DEF Put, Screens!Put, Place, Screens!Place, Rem, Screens!Rem
<1>6. \A s, c : Screens!putc(s, c) = putc(s, c)
  BY <1>4, <1>5 DEF putc, Screens!putc, NL, Screens!NL
<1>7. \A s, cs : Screens!Drawn(s, cs) = Drawn(s, cs)
  BY DEF Drawn, Screens!Drawn, putc, Screens!putc, NL, Screens!NL,
         LineEnd, Screens!LineEnd, Scrolled, Screens!Scrolled, Cells, Screens!Cells,
         BLANK, Screens!BLANK, Put, Screens!Put, Place, Screens!Place, Rem, Screens!Rem
<1>8. \A s : Screens!Breaks(s) = Breaks(s)
  BY <1>4 DEF Breaks, Screens!Breaks
<1>9. \A s : Screens!KeyDraws(s) = KeyDraws(s)
  <2>1. \A s : Screens!StepBack(s) = StepBack(s)
    BY <1>5 DEF StepBack, Screens!StepBack, BLANK, Screens!BLANK
  <2>2. \A s : Screens!StepUp(s) = StepUp(s)
    BY <1>5 DEF StepUp, Screens!StepUp, BLANK, Screens!BLANK
  <2>3. Screens!Prompted = Prompted
    BY <1>3, <1>7 DEF Prompted, Screens!Prompted, LETTER, Screens!LETTER
  <2>4. \A s : Screens!Edits(s) = Edits(s)
    <3>1. \A s : Screens!Room(s) = Room(s)
      BY DEF Room, Screens!Room, Place, Screens!Place
    <3>2. \A s : Screens!TabRoom(s) = TabRoom(s)
      BY <2>1, <3>1 DEF TabRoom, Screens!TabRoom
    <3> QED
      BY <1>3, <1>4, <1>5, <1>7, <2>1, <2>2, <2>3, <3>1, <3>2
      DEF Edits, Screens!Edits, BLANK, Screens!BLANK, LETTER, Screens!LETTER
  <2> QED
    BY <1>8, <2>4 DEF KeyDraws, Screens!KeyDraws
<1> QED
  BY <1>1, <1>2, <1>3, <1>7, <1>8, <1>9

LEMMA PagesInit == Init => Pages
  BY ScreenAssumption DEF Init, Pages, Terms

LEMMA PagesStep == Pages /\ [Next]_vars => Pages'
<1> SUFFICES ASSUME Pages, [Next]_vars PROVE Pages'
  OBVIOUS
<1>1. CASE \E t \in Terms, cs \in Outputs : WriteShown(t, cs) \/ WriteHidden(t, cs)
  BY <1>1 DEF Pages, WriteShown, WriteHidden, Terms
<1>2. CASE Key
  BY <1>2 DEF Pages, Key, Terms
<1>3. CASE \E sel \in Terms : SelectTerminal(sel)
  BY <1>3 DEF Pages, SelectTerminal, Terms
<1>4. CASE KeyFaults \/ UNCHANGED vars
  BY <1>4 DEF Pages, KeyFaults, screens, vars, Terms
<1> QED
  BY <1>1, <1>2, <1>3, <1>4 DEF Next

(* The texts, and the screen the abstract specification sees at a terminal. *)
Text == [t \in Terms |-> TextOf(t)]

LEMMA SeenScreen ==
    ASSUME NEW t \in Terms
    PROVE  Screens!Screen(t) = With(TextOf(t), t)
  BY SameDrawing DEF Screens!Screen, With, TextOf

(* If no other text or cursor changes, only the screen of t does.           *)
LEMMA OneTextChanges ==
    ASSUME NEW t \in Terms, NEW s,
           TextOf(t)' = s.text,
           \A v \in Terms \ {t} : TextOf(v)' = TextOf(v),
           Moved(t, s)
    PROVE  Screens!Becomes(t, s)
<1>1. Text' = [Text EXCEPT ![t] = s.text]
  BY DEF Text, Terms
<1> QED
  BY <1>1, SameDrawing DEF Screens!Becomes, Moved, Text

(* A program prints where its terminal's text is.                           *)
LEMMA WriteRefines ==
    ASSUME Pages, NEW t \in Terms, NEW cs \in Outputs, WriteShown(t, cs) \/ WriteHidden(t, cs)
    PROVE  Screens!PrintOn(t, cs)
<1> DEFINE s == Drawn(With(TextOf(t), t), cs)
<1>1. cur_terminal' = cur_terminal
  BY DEF WriteShown, WriteHidden
<1>2. Moved(t, s)
  BY DEF WriteShown, WriteHidden, TextOf
<1>3. TextOf(t)' = s.text
  BY DEF WriteShown, WriteHidden, TextOf, Pages
<1>4. \A v \in Terms \ {t} : TextOf(v)' = TextOf(v)
  BY DEF WriteShown, WriteHidden, TextOf, Pages
<1>5. Screens!Becomes(t, s)
  <2> HIDE DEF s
  <2> QED
    BY <1>1, <1>2, <1>3, <1>4, OneTextChanges DEF Pages
<1> QED
  BY <1>1, <1>5, SeenScreen, SameDrawing DEF Screens!PrintOn

LEMMA KeyRefines == ASSUME Pages, Key PROVE Screens!Type
<1>1. PICK s \in KeyDraws(With(video, cur_terminal)) :
         video' = s.text /\ Moved(cur_terminal, s)
  BY DEF Key
<1>2. cur_terminal' = cur_terminal /\ cur_terminal \in Terms
  BY DEF Key, Pages
<1>3. TextOf(cur_terminal)' = s.text
  BY <1>1, <1>2 DEF TextOf
<1>4. \A v \in Terms \ {cur_terminal} : TextOf(v)' = TextOf(v)
  BY <1>2 DEF TextOf, Key
<1>5. Screens!Becomes(cur_terminal, s)
  BY <1>1, <1>2, <1>3, <1>4, OneTextChanges
<1>6. s \in Screens!KeyDraws(Screens!Screen(cur_terminal))
  BY <1>1, <1>2, SeenScreen, SameDrawing DEF TextOf
<1> QED
  BY <1>2, <1>5, <1>6 DEF Screens!Type

(* The text shown goes to its page and that of sel comes from its own.      *)
LEMMA SelectRefines ==
    ASSUME Pages, NEW sel \in Terms, SelectTerminal(sel)
    PROVE  Screens!Show(sel)
<1>1. PICK s \in Breaks(With(video, cur_terminal)) :
         /\ Moved(cur_terminal, s)
         /\ videomem_buffer' = [videomem_buffer EXCEPT ![cur_terminal] = s.text]
         /\ video' = videomem_buffer'[sel]
  BY DEF SelectTerminal
<1>2. PICK t \in Terms : t = cur_terminal
  BY DEF Pages
<1>3. cur_terminal' = sel
  BY DEF SelectTerminal
<1>4. \A v \in Terms : TextOf(v)' = videomem_buffer'[v]
  BY <1>1, <1>3 DEF TextOf
<1>5. TextOf(t)' = s.text
  BY <1>1, <1>2, <1>4 DEF Pages
<1>6. \A v \in Terms \ {t} : TextOf(v)' = TextOf(v)
  BY <1>1, <1>2, <1>4 DEF TextOf, Pages
<1>7. Screens!Becomes(t, s)
  BY <1>1, <1>2, <1>3, <1>5, <1>6, OneTextChanges
<1>8. s \in Screens!Breaks(Screens!Screen(t))
  BY <1>1, <1>2, SeenScreen, SameDrawing DEF TextOf
<1> QED
  BY <1>2, <1>3, <1>7, <1>8 DEF Screens!Show

LEMMA InitRefines == Init => Screens!ScreensInit
<1> SUFFICES ASSUME Init PROVE Screens!ScreensInit
  OBVIOUS
<1>1. Text \in [Terms -> Texts]
  BY DEF Init, Text, TextOf, Texts, Blank, BLANK, LETTER, Cells
<1>2. Text[1] = Blank.text
  BY ScreenAssumption DEF Init, Text, TextOf, Terms
<1> QED
  BY <1>1, <1>2, SameDrawing DEF Init, Screens!ScreensInit, Text

(* ScreensSpec of Screen, for any number of terminals, any size of the      *)
(* screen and any output: the code's video memory and pages implement one   *)
(* screen for each terminal.                                                *)
THEOREM ScreensRefined == Spec => ScreensSpec
<1>1. Pages /\ [Next]_vars => [Screens!ScreensNext]_Screens!screensVars
  <2> SUFFICES ASSUME Pages, [Next]_vars PROVE [Screens!ScreensNext]_Screens!screensVars
    OBVIOUS
  <2>1. CASE \E t \in Terms, cs \in Outputs : WriteShown(t, cs) \/ WriteHidden(t, cs)
    BY <2>1, WriteRefines, SameDrawing DEF Screens!ScreensNext
  <2>2. CASE Key
    BY <2>2, KeyRefines DEF Screens!ScreensNext
  <2>3. CASE \E sel \in Terms : SelectTerminal(sel)
    BY <2>3, SelectRefines, SameDrawing DEF Screens!ScreensNext
  <2>4. CASE KeyFaults \/ UNCHANGED vars
    BY <2>4 DEF KeyFaults, screens, vars, Screens!screensVars, TextOf
  <2> QED
    BY <2>1, <2>2, <2>3, <2>4 DEF Next
<1> QED
  BY <1>1, PagesInit, PagesStep, InitRefines, PTL DEF Spec, ScreensSpec, Screens!ScreensSpec
-----------------------------------------------------------------------------
(* Where drawing leaves the cursor.                                         *)

(* A screen with its text and its cursor where the code may leave it: at    *)
(* most a row left of the screen, but in the first row not left of it.      *)
Sound == {s \in [text : Texts, x : (-Cols)..(Cols - 1), y : 0..(Rows - 1)] : s.y >= 1 \/ s.x >= 0}

LEMMA SoundIs ==
    ASSUME NEW text \in Texts, NEW x \in (-Cols)..(Cols - 1), NEW y \in 0..(Rows - 1),
           y >= 1 \/ x >= 0
    PROVE  [text |-> text, x |-> x, y |-> y] \in Sound
  BY DEF Sound

(* A set of numbers has a least one.                                        *)
LEMMA Least ==
    ASSUME NEW S \in SUBSET Nat, S # {}
    PROVE  \E d \in S : \A e \in S : d <= e
<1>1. \E d \in S : \A e \in S : ~(<<e, d>> \in OpToRel(<, Nat))
  BY NatLessThanWellFounded, WFMin
<1>2. ASSUME NEW d \in Nat, NEW e \in Nat, ~(<<e, d>> \in OpToRel(<, Nat))
      PROVE  d <= e
  <2>1. ASSUME e < d PROVE <<e, d>> \in OpToRel(<, Nat)
    BY <2>1 DEF OpToRel
  <2>2. ~(e < d)
    BY <1>2, <2>1, Zenon
  <2> QED BY <2>2
<1> QED BY <1>1, <1>2

LEMMA Remainder ==
    /\ \A a \in 0..(Cols - 1) : Rem(a, Cols) = a
    /\ Rem(Cols, Cols) = 0 /\ Rem(-Cols, Cols) = 0
    /\ \A a \in (1 - Cols)..(-1) : Rem(a, Cols) = a
<1>1. \A a \in 0..(Cols - 1) : a % Cols = a
  BY DrawingAssumption
<1>2. Cols % Cols = 0
  BY DrawingAssumption
<1> QED
  BY <1>1, <1>2, DrawingAssumption DEF Rem

LEMMA ScrolledText ==
    ASSUME NEW text \in Texts
    PROVE  Scrolled(text) \in Texts
<1>1. \A c \in Cells : c < (Rows - 1) * Cols => c + Cols \in Cells
  <2>1. (Rows - 1) * Cols = Rows * Cols - Cols /\ Rows * Cols \in Nat /\ Cols \in Nat
    BY DrawingAssumption
  <2> QED BY <2>1 DEF Cells
<1> QED
  BY <1>1 DEF Scrolled, Texts

LEMMA LineEndSound ==
    ASSUME NEW s \in Sound
    PROVE  /\ LineEnd(s) \in Sound
           /\ LineEnd(s).x = 0
           /\ LineEnd(s).y = IF s.y + 1 >= Rows THEN Rows - 1 ELSE s.y + 1
<1>1. /\ s = [text |-> s.text, x |-> s.x, y |-> s.y] /\ s.text \in Texts /\ s.y \in 0..(Rows - 1)
      /\ 0 \in (-Cols)..(Cols - 1) /\ Rows - 1 \in 0..(Rows - 1)
  BY DrawingAssumption DEF Sound
<1>2. CASE s.y + 1 >= Rows
  <2>1. LineEnd(s) = [text |-> Scrolled(s.text), x |-> 0, y |-> Rows - 1]
    BY <1>2 DEF LineEnd
  <2>2. Scrolled(s.text) \in Texts
    BY <1>1, ScrolledText
  <2>3. [text |-> Scrolled(s.text), x |-> 0, y |-> Rows - 1] \in Sound
    BY <1>1, <2>2, SoundIs
  <2> QED BY <1>2, <2>1, <2>3
<1>3. CASE ~(s.y + 1 >= Rows)
  <2>1. LineEnd(s) = [s EXCEPT !.x = 0, !.y = @ + 1]
    BY <1>3 DEF LineEnd
  <2>2. LineEnd(s) = [text |-> s.text, x |-> 0, y |-> s.y + 1]
    BY <1>1, <2>1
  <2>3. s.y + 1 \in 0..(Rows - 1)
    BY <1>1, <1>3, DrawingAssumption
  <2>4. [text |-> s.text, x |-> 0, y |-> s.y + 1] \in Sound
    BY <1>1, <2>3, SoundIs
  <2> QED BY <1>3, <2>2, <2>4
<1> QED
  BY <1>2, <1>3

(* Wherever its cell is, a character leaves a text; the column comes back   *)
(* to the row.                                                              *)
LEMMA PutPart ==
    ASSUME NEW s, NEW text \in Texts, NEW x \in (-Cols - 1)..(Cols - 1), NEW y \in 0..(Rows - 1),
           s = [text |-> text, x |-> x, y |-> y], NEW c \in {BLANK, LETTER}
    PROVE  \E m \in Texts : Put(s, c) = [text |-> m, x |-> Rem(x + 1, Cols), y |-> y]
<1> DEFINE m == [text EXCEPT ![Place(s)] = c]
<1>1. m \in Texts
  BY DEF Texts
<1>2. Put(s, c) = [text |-> m, x |-> Rem(x + 1, Cols), y |-> y]
  <2>1. Put(s, c) = [s EXCEPT !.text = [s.text EXCEPT ![Place(s)] = c], !.x = Rem(s.x + 1, Cols)]
    BY DEF Put
  <2>2. s.text = text /\ s.x = x
    OBVIOUS
  <2>3. Put(s, c) = [s EXCEPT !.text = m, !.x = Rem(x + 1, Cols)]
    BY <2>1, <2>2
  <2> HIDE DEF m
  <2> QED BY <2>3
<1> QED
  BY <1>1, <1>2

LEMMA PutSound ==
    ASSUME NEW s \in Sound, NEW c \in {BLANK, LETTER}
    PROVE  Put(s, c) \in Sound
<1>1. /\ s = [text |-> s.text, x |-> s.x, y |-> s.y] /\ s.text \in Texts
      /\ s.x \in (-Cols - 1)..(Cols - 1) /\ s.x \in (-Cols)..(Cols - 1) /\ s.y \in 0..(Rows - 1)
      /\ s.y >= 1 \/ s.x >= 0
  BY DrawingAssumption DEF Sound
<1>2. PICK m \in Texts : Put(s, c) = [text |-> m, x |-> Rem(s.x + 1, Cols), y |-> s.y]
  BY <1>1, PutPart
<1>3. Rem(s.x + 1, Cols) \in (-Cols)..(Cols - 1) /\ (s.x >= 0 => Rem(s.x + 1, Cols) >= 0)
  BY <1>1, Remainder, DrawingAssumption
<1>4. [text |-> m, x |-> Rem(s.x + 1, Cols), y |-> s.y] \in Sound
  BY <1>1, <1>3, SoundIs
<1> QED
  BY <1>2, <1>4

LEMMA putcSound ==
    ASSUME NEW s \in Sound, NEW c \in {BLANK, LETTER, NL}
    PROVE  putc(s, c) \in Sound
  BY LineEndSound, PutSound DEF putc, NL, BLANK, LETTER

(* Room left of a cursor in the first row is in that row.                   *)
LEMMA RoomSound ==
    ASSUME NEW s \in Sound, Room(s)
    PROVE  s.y >= 1 \/ s.x >= 1
<1>1. s.x \in Int /\ s.y \in Nat
  BY DrawingAssumption DEF Sound
<1>2. CASE s.y = 0
  <2>1. Cols * 0 + s.x = s.x
    BY <1>1, DrawingAssumption
  <2>2. s.x > 0
    BY <1>2, <2>1 DEF Room, Place
  <2> QED BY <1>1, <2>2
<1>3. CASE s.y # 0
  BY <1>1, <1>3
<1> QED
  BY <1>2, <1>3

(* Two steps back and one forth, at most a row to the left.                 *)
LEMMA StepBackSound ==
    ASSUME NEW s \in Sound, Room(s)
    PROVE  StepBack(s) \in Sound
<1> DEFINE back == [s EXCEPT !.x = @ - 1]
<1>1. /\ back = [text |-> s.text, x |-> s.x - 1, y |-> s.y] /\ s.text \in Texts
      /\ s.x - 1 \in (-Cols - 1)..(Cols - 1) /\ s.x \in (-Cols)..(Cols - 1) /\ s.y \in 0..(Rows - 1)
  BY DrawingAssumption DEF Sound
<1>2. PICK m \in Texts : Put(back, BLANK) = [text |-> m, x |-> Rem(s.x - 1 + 1, Cols), y |-> s.y]
  <2> HIDE DEF back
  <2> QED
    BY <1>1, PutPart
<1>3. Rem(s.x - 1 + 1, Cols) \in (1 - Cols)..(Cols - 1)
  <2>1. s.x - 1 + 1 = s.x
    BY <1>1, DrawingAssumption
  <2> QED BY <1>1, <2>1, Remainder, DrawingAssumption
<1>4. StepBack(s) = [text |-> m, x |-> Rem(s.x - 1 + 1, Cols) - 1, y |-> s.y]
  BY <1>2 DEF StepBack
<1>5. s.y >= 1 \/ Rem(s.x - 1 + 1, Cols) - 1 >= 0
  <2>1. s.y >= 1 \/ s.x >= 1
    BY RoomSound
  <2>2. s.x - 1 + 1 = s.x
    BY <1>1, DrawingAssumption
  <2>3. s.x >= 1 => Rem(s.x, Cols) = s.x /\ s.x - 1 >= 0
    BY <1>1, Remainder, DrawingAssumption
  <2> QED BY <2>1, <2>2, <2>3
<1>6. Rem(s.x - 1 + 1, Cols) - 1 \in (-Cols)..(Cols - 1)
  BY <1>3, DrawingAssumption
<1>7. [text |-> m, x |-> Rem(s.x - 1 + 1, Cols) - 1, y |-> s.y] \in Sound
  BY <1>1, <1>5, <1>6, SoundIs
<1> QED
  BY <1>4, <1>7

LEMMA StepUpSound ==
    ASSUME NEW s \in Sound, s.y > 0
    PROVE  StepUp(s) \in Sound
<1> DEFINE above == [s EXCEPT !.x = LineColumn, !.y = @ - 1]
<1>1. /\ above = [text |-> s.text, x |-> LineColumn, y |-> s.y - 1] /\ s.text \in Texts
      /\ LineColumn \in (-Cols - 1)..(Cols - 1) /\ s.y - 1 \in 0..(Rows - 1)
      /\ LineColumn \in (-Cols)..(Cols - 1)
  <2>1. s = [text |-> s.text, x |-> s.x, y |-> s.y] /\ s.text \in Texts /\ s.y \in 0..(Rows - 1)
    BY DEF Sound
  <2>2. above = [text |-> s.text, x |-> LineColumn, y |-> s.y - 1]
    <3>1. above = [[s EXCEPT !.x = LineColumn] EXCEPT !.y = s.y - 1]
      OBVIOUS
    <3>2. [s EXCEPT !.x = LineColumn] = [text |-> s.text, x |-> LineColumn, y |-> s.y]
      BY <2>1
    <3> HIDE DEF above
    <3> QED BY <3>1, <3>2
  <2>3. LineColumn \in (-Cols - 1)..(Cols - 1) /\ LineColumn \in (-Cols)..(Cols - 1)
    BY DrawingAssumption
  <2>4. s.y - 1 \in 0..(Rows - 1)
    BY <2>1, DrawingAssumption
  <2> HIDE DEF above
  <2> QED BY <2>1, <2>2, <2>3, <2>4
<1>2. PICK m \in Texts : Put(above, BLANK) = [text |-> m, x |-> Rem(LineColumn + 1, Cols), y |-> s.y - 1]
  <2> HIDE DEF above
  <2> QED
    BY <1>1, PutPart
<1>3. StepUp(s) = [text |-> m, x |-> LineColumn, y |-> s.y - 1]
  BY <1>2 DEF StepUp
<1>4. [text |-> m, x |-> LineColumn, y |-> s.y - 1] \in Sound
  BY <1>1, SoundIs, DrawingAssumption
<1> QED
  BY <1>3, <1>4
-----------------------------------------------------------------------------
(* What Drawn computes, character by character.                             *)

DrawnUpTo(f, s, cs, n) ==
    f = [i \in 0..n |-> IF i = 0 THEN s ELSE putc(f[i - 1], cs[i])]

LEMMA DrawnExists ==
    ASSUME NEW s, NEW cs, NEW n \in Nat
    PROVE  \E f : DrawnUpTo(f, s, cs, n)
<1> DEFINE Short == {m \in Nat : ~ \E f : DrawnUpTo(f, s, cs, m)}
<1> SUFFICES ASSUME n \in Short PROVE FALSE
  OBVIOUS
<1>1. PICK m \in Short : \A k \in Short : m <= k
  <2>1. Short \in SUBSET Nat /\ Short # {}
    OBVIOUS
  <2> HIDE DEF Short
  <2> QED BY <2>1, Least
<1>2. m # 0
  <2>1. DrawnUpTo([i \in 0..0 |-> s], s, cs, 0)
    BY DEF DrawnUpTo
  <2> QED BY <2>1
<1>3. m - 1 \in Nat /\ ~(m - 1 \in Short)
  BY <1>1, <1>2
<1>4. PICK f : DrawnUpTo(f, s, cs, m - 1)
  BY <1>3
<1> DEFINE g == [i \in 0..m |-> IF i = m THEN putc(f[m - 1], cs[m]) ELSE f[i]]
<1>5. \A i \in 0..m : g[i] = IF i = 0 THEN s ELSE putc(g[i - 1], cs[i])
  <2> SUFFICES ASSUME NEW i \in 0..m PROVE g[i] = IF i = 0 THEN s ELSE putc(g[i - 1], cs[i])
    OBVIOUS
  <2>1. CASE i = m
    BY <1>2, <2>1
  <2>2. CASE i # m
    <3>1. i \in 0..(m - 1) /\ g[i] = f[i] /\ (i # 0 => g[i - 1] = f[i - 1])
      BY <1>1, <2>2
    <3>2. f[i] = IF i = 0 THEN s ELSE putc(f[i - 1], cs[i])
      BY <1>4, <3>1 DEF DrawnUpTo
    <3> QED BY <3>1, <3>2
  <2> QED BY <2>1, <2>2
<1>6. DrawnUpTo(g, s, cs, m)
  <2>1. g = [i \in 0..m |-> g[i]]
    OBVIOUS
  <2> HIDE DEF g
  <2> QED BY <1>5, <2>1 DEF DrawnUpTo
<1> QED
  BY <1>1, <1>6

LEMMA DrawnIs ==
    ASSUME NEW s, NEW cs, Len(cs) \in Nat
    PROVE  \E f : DrawnUpTo(f, s, cs, Len(cs)) /\ Drawn(s, cs) = f[Len(cs)]
<1> DEFINE at == CHOOSE f : DrawnUpTo(f, s, cs, Len(cs))
<1>1. DrawnUpTo(at, s, cs, Len(cs))
  BY DrawnExists
<1>2. Drawn(s, cs) = at[Len(cs)]
  BY DEF Drawn, DrawnUpTo
<1> QED
  BY <1>1, <1>2

LEMMA DrawnAt ==
    ASSUME NEW s, NEW cs, NEW n \in Nat, NEW f, DrawnUpTo(f, s, cs, n)
    PROVE  f[0] = s /\ \A i \in 0..n : i # 0 => f[i] = putc(f[i - 1], cs[i])
<1> DEFINE value(i) == IF i = 0 THEN s ELSE putc(f[i - 1], cs[i])
<1>1. f = [i \in 0..n |-> value(i)]
  BY DEF DrawnUpTo
<1>2. value(0) = s /\ \A i \in 0..n : i # 0 => value(i) = putc(f[i - 1], cs[i])
  OBVIOUS
<1>3. \A i \in 0..n : f[i] = value(i)
  <2> HIDE DEF value
  <2> QED BY <1>1
<1>4. 0 \in 0..n
  OBVIOUS
<1> HIDE DEF value
<1> QED
  BY <1>2, <1>3, <1>4

(* Two such functions agree as far as the characters do.                    *)
LEMMA DrawnUnique ==
    ASSUME NEW s, NEW cs, NEW ds, NEW n \in Nat, NEW m \in Nat, m <= n, NEW f, NEW g,
           DrawnUpTo(f, s, cs, n), DrawnUpTo(g, s, ds, m), \A i \in 1..m : ds[i] = cs[i]
    PROVE  f[m] = g[m]
<1> DEFINE Bad == {i \in 0..m : f[i] # g[i]}
<1> SUFFICES ASSUME m \in Bad PROVE FALSE
  OBVIOUS
<1>1. PICK i \in Bad : \A k \in Bad : i <= k
  <2>1. Bad \in SUBSET Nat /\ Bad # {}
    OBVIOUS
  <2> HIDE DEF Bad
  <2> QED BY <2>1, Least
<1>2. i # 0
  <2>1. f[0] = s /\ g[0] = s
    BY DrawnAt
  <2> QED BY <1>1, <2>1
<1>3. i - 1 \in 0..m /\ i \in 1..m /\ i \in 0..m /\ i \in 0..n /\ ~(i - 1 \in Bad)
  BY <1>1, <1>2
<1>4. f[i - 1] = g[i - 1]
  BY <1>3
<1>5. f[i] = putc(f[i - 1], cs[i]) /\ g[i] = putc(g[i - 1], ds[i])
  <2>1. \A k \in 0..n : k # 0 => f[k] = putc(f[k - 1], cs[k])
    BY DrawnAt
  <2>2. \A k \in 0..m : k # 0 => g[k] = putc(g[k - 1], ds[k])
    BY DrawnAt
  <2> QED
    BY <1>2, <1>3, <2>1, <2>2
<1> QED
  BY <1>3, <1>4, <1>5

LEMMA DrawnSound ==
    ASSUME NEW s \in Sound, NEW cs \in Seq({BLANK, LETTER, NL})
    PROVE  Drawn(s, cs) \in Sound
<1> DEFINE n == Len(cs)
<1>1. n \in Nat /\ \A i \in 1..n : cs[i] \in {BLANK, LETTER, NL}
  OBVIOUS
<1>2. PICK f : DrawnUpTo(f, s, cs, n) /\ Drawn(s, cs) = f[n]
  BY <1>1, DrawnIs
<1> HIDE DEF n
<1> DEFINE Bad == {i \in 0..n : ~(f[i] \in Sound)}
<1> SUFFICES ASSUME n \in Bad PROVE FALSE
  BY <1>1, <1>2
<1>3. PICK i \in Bad : \A k \in Bad : i <= k
  <2>1. Bad \in SUBSET Nat /\ Bad # {}
    BY <1>1
  <2> HIDE DEF Bad
  <2> QED BY <2>1, Least
<1>4. i # 0
  BY <1>1, <1>2, DrawnAt
<1>5. i - 1 \in 0..n /\ i \in 1..n /\ ~(i - 1 \in Bad)
  BY <1>1, <1>3, <1>4
<1>6. f[i - 1] \in Sound
  BY <1>5
<1>7. f[i] = putc(f[i - 1], cs[i])
  BY <1>1, <1>2, <1>4, <1>5, DrawnAt
<1> QED
  BY <1>1, <1>5, <1>6, <1>7, putcSound

(* The last character is drawn on what the ones before it leave.            *)
LEMMA DrawnLast ==
    ASSUME NEW s, NEW cs \in Seq({BLANK, LETTER, NL}), cs # <<>>
    PROVE  Drawn(s, cs) = putc(Drawn(s, SubSeq(cs, 1, Len(cs) - 1)), cs[Len(cs)])
<1> DEFINE n == Len(cs)
           ds == SubSeq(cs, 1, n - 1)
<1>1. /\ n \in Nat /\ n - 1 \in Nat /\ Len(ds) = n - 1 /\ n \in 1..n /\ n - 1 <= n
      /\ \A i \in 1..(n - 1) : ds[i] = cs[i]
  OBVIOUS
<1>2. PICK f : DrawnUpTo(f, s, cs, n) /\ Drawn(s, cs) = f[n]
  BY <1>1, DrawnIs
<1>3. PICK g : DrawnUpTo(g, s, ds, n - 1) /\ Drawn(s, ds) = g[n - 1]
  BY <1>1, DrawnIs
<1>4. f[n - 1] = g[n - 1]
  <2> HIDE DEF n, ds
  <2> QED BY <1>1, <1>2, <1>3, DrawnUnique
<1>5. f[n] = putc(f[n - 1], cs[n])
  <2> HIDE DEF n
  <2> HIDE DEF ds
  <2>1. n \in Nat /\ DrawnUpTo(f, s, cs, n)
    BY <1>1, <1>2
  <2>2. \A k \in 0..n : k # 0 => f[k] = putc(f[k - 1], cs[k])
    BY <2>1, DrawnAt
  <2>3. n \in 0..n /\ n # 0
    BY <1>1
  <2> QED
    BY <2>2, <2>3
<1> QED
  BY <1>2, <1>3, <1>4, <1>5

LEMMA BlankSound == Blank \in Sound
<1>1. [c \in Cells |-> BLANK] \in Texts /\ 0 \in (-Cols)..(Cols - 1) /\ 0 \in 0..(Rows - 1)
  BY DrawingAssumption DEF Texts
<1> QED
  BY <1>1, SoundIs DEF Blank

LEMMA BreaksSound == ASSUME NEW s \in Sound PROVE Breaks(s) \subseteq Sound
  BY LineEndSound DEF Breaks

LEMMA EditsSound == ASSUME NEW s \in Sound PROVE Edits(s) \subseteq Sound
<1>1. Prompted \in Sound
  <2>1. [i \in 1..PromptLength |-> LETTER] \in Seq({BLANK, LETTER, NL})
    BY DrawingAssumption
  <2> QED BY <2>1, BlankSound, DrawnSound DEF Prompted
<1>2. Drawn(s, <<BLANK, BLANK, BLANK>>) \in Sound /\ Drawn(s, <<BLANK, BLANK, BLANK, BLANK>>) \in Sound
  <2>1. /\ <<BLANK, BLANK, BLANK>> \in Seq({BLANK, LETTER, NL})
        /\ <<BLANK, BLANK, BLANK, BLANK>> \in Seq({BLANK, LETTER, NL})
    OBVIOUS
  <2> QED BY <2>1, DrawnSound
<1>3. TabRoom(s) => StepBack(StepBack(StepBack(StepBack(s)))) \in Sound
  <2> SUFFICES ASSUME TabRoom(s) PROVE StepBack(StepBack(StepBack(StepBack(s)))) \in Sound
    OBVIOUS
  <2> DEFINE one == StepBack(s)
             two == StepBack(one)
             three == StepBack(two)
  <2>1. Room(s) /\ Room(one) /\ Room(two) /\ Room(three)
    BY DEF TabRoom
  <2>2. one \in Sound
    BY <2>1, StepBackSound
  <2> HIDE DEF one
  <2>3. two \in Sound
    BY <2>1, <2>2, StepBackSound
  <2> HIDE DEF two
  <2>4. three \in Sound
    BY <2>1, <2>3, StepBackSound
  <2> HIDE DEF three
  <2>5. StepBack(three) \in Sound
    BY <2>1, <2>4, StepBackSound
  <2> QED BY <2>5 DEF one, two, three
<1>4. Put(s, LETTER) \in Sound /\ LineEnd(s) \in Sound
  BY PutSound, LineEndSound
<1>5. Room(s) => StepBack(s) \in Sound
  BY StepBackSound
<1>6. s.y > 0 => StepUp(s) \in Sound
  BY StepUpSound
<1> QED
  BY <1>1, <1>2, <1>3, <1>4, <1>5, <1>6, BlankSound DEF Edits

LEMMA KeyDrawsSound == ASSUME NEW s \in Sound PROVE KeyDraws(s) \subseteq Sound
  BY BreaksSound, EditsSound DEF KeyDraws
-----------------------------------------------------------------------------
(* The cursors.                                                             *)

Columns == (-Cols)..(Cols - 1)
Lines   == 0..(Rows - 1)

(* What the code keeps, and the blinking cursor.                            *)
Kept ==
    /\ video \in Texts
    /\ videomem_buffer \in [Terms -> Texts]
    /\ screen_x \in [Terms -> Columns]
    /\ screen_y \in [Terms -> Lines]
    /\ \A t \in Terms : screen_y[t] >= 1 \/ screen_x[t] >= 0
    /\ cur_terminal \in Terms
    /\ stopped \in BOOLEAN

Good == Kept /\ CursorFollows

LEMMA KeptSounds ==
    ASSUME Kept, NEW t \in Terms, NEW m \in Texts
    PROVE  With(m, t) \in Sound
  BY SoundIs DEF Kept, With, Columns, Lines

(* A screen drawn becomes that of terminal t.                               *)
LEMMA MovedKept ==
    ASSUME Kept, NEW t \in Terms, NEW s \in Sound, Moved(t, s)
    PROVE  /\ screen_x' \in [Terms -> Columns] /\ screen_x'[t] = s.x
           /\ screen_y' \in [Terms -> Lines] /\ screen_y'[t] = s.y
           /\ \A v \in Terms : screen_y'[v] >= 1 \/ screen_x'[v] >= 0
           /\ \A v \in Terms \ {t} : screen_x'[v] = screen_x[v] /\ screen_y'[v] = screen_y[v]
  BY DEF Kept, Moved, Sound, Columns, Lines

LEMMA InitGood == Init => Good
<1> SUFFICES ASSUME Init PROVE Good
  OBVIOUS
<1>1. 1 \in Terms /\ 0 \in Columns /\ 0 \in Lines
  BY DrawingAssumption, ScreenAssumption DEF Terms, Columns, Lines
<1>2. Blank.text \in Texts /\ \A c \in {BLANK, LETTER} : [i \in Cells |-> c] \in Texts
  BY DEF Blank, Texts
<1>3. Kept
  <2>1. \A t \in Terms : screen_x[t] = 0 /\ screen_y[t] = 0
    BY DEF Init
  <2>2. \A t \in Terms : screen_y[t] >= 1 \/ screen_x[t] >= 0
    BY <2>1
  <2> QED BY <1>1, <1>2, <2>2 DEF Init, Kept
<1>4. CursorFollows
  <2>1. Place(With(video, 1)) = Cols * 0 + 0
    BY <1>1 DEF Init, Place, With
  <2>2. Cols * 0 + 0 = 0
    BY DrawingAssumption
  <2> QED
    BY <2>1, <2>2 DEF Init, CursorFollows
<1> QED
  BY <1>3, <1>4 DEF Good

(* The blinking cursor is placed before the screen is scrolled.             *)
LEMMA BlinkPlace ==
    ASSUME NEW s \in Sound, NEW cs \in Outputs
    PROVE  LET d == Drawn(s, cs)
           IN  Blinks(s, cs) = Place(d) \/ (d.x = 0 /\ d.y = Rows - 1 /\ Blinks(s, cs) = Rows * Cols)
<1> DEFINE n == Len(cs)
           before == Drawn(s, SubSeq(cs, 1, n - 1))
<1>1. cs \in Seq({BLANK, LETTER, NL}) /\ cs # <<>>
  BY ScreenAssumption
<1>2. SubSeq(cs, 1, n - 1) \in Seq({BLANK, LETTER, NL})
  BY <1>1
<1>3. before \in Sound
  BY <1>2, DrawnSound
<1>4. Drawn(s, cs) = putc(before, cs[n])
  BY <1>1, DrawnLast
<1>5. Blinks(s, cs) = IF cs[n] = NL THEN Cols * (before.y + 1) ELSE Place(Drawn(s, cs))
  BY DEF Blinks
<1> HIDE DEF n, before
<1>6. CASE cs[n] = NL
  <2>1. Drawn(s, cs) = LineEnd(before) /\ Blinks(s, cs) = Cols * (before.y + 1)
    BY <1>4, <1>5, <1>6 DEF putc
  <2>2. before.y \in 0..(Rows - 1)
    BY <1>3 DEF Sound
  <2>3. LineEnd(before).x = 0 /\ LineEnd(before).y = IF before.y + 1 >= Rows THEN Rows - 1 ELSE before.y + 1
    BY <1>3, LineEndSound
  <2>4. CASE before.y + 1 >= Rows
    <3>1. before.y + 1 = Rows
      BY <2>2, <2>4, DrawingAssumption
    <3>2. Cols * Rows = Rows * Cols
      BY DrawingAssumption
    <3> QED
      BY <2>1, <2>3, <2>4, <3>1, <3>2
  <2>5. CASE ~(before.y + 1 >= Rows)
    <3>1. Cols * (before.y + 1) + 0 = Cols * (before.y + 1)
      BY <2>2, DrawingAssumption
    <3> QED
      BY <2>1, <2>3, <2>5, <3>1 DEF Place
  <2> QED
    BY <2>4, <2>5
<1>7. CASE cs[n] # NL
  BY <1>5, <1>7
<1> QED
  BY <1>6, <1>7

LEMMA WriteShownGood ==
    ASSUME Good, NEW t \in Terms, NEW cs \in Outputs, WriteShown(t, cs)
    PROVE  Good'
<1> DEFINE d == Drawn(With(video, t), cs)
<1>1. /\ Kept /\ t = cur_terminal /\ cur_terminal' = cur_terminal /\ videomem_buffer' = videomem_buffer
      /\ stopped' = stopped
  BY DEF Good, WriteShown, Running
<1>2. video' = d.text /\ Moved(t, d) /\ vga' = Blinks(With(video, t), cs)
  BY DEF WriteShown
<1>3. With(video, t) \in Sound
  BY <1>1, KeptSounds DEF Kept
<1>4. d \in Sound
  BY <1>3, DrawnSound, ScreenAssumption
<1>5. vga' = Place(d) \/ (d.x = 0 /\ d.y = Rows - 1 /\ vga' = Rows * Cols)
  BY <1>2, <1>3, BlinkPlace
<1> HIDE DEF d
<1>6. /\ screen_x' \in [Terms -> Columns] /\ screen_x'[t] = d.x
      /\ screen_y' \in [Terms -> Lines] /\ screen_y'[t] = d.y
      /\ \A v \in Terms : screen_y'[v] >= 1 \/ screen_x'[v] >= 0
  BY <1>1, <1>2, <1>4, MovedKept
<1>7. Kept'
  BY <1>1, <1>2, <1>4, <1>6 DEF Kept, Sound
<1>8. CursorFollows'
  BY <1>1, <1>5, <1>6 DEF CursorFollows, With, Place
<1> QED
  BY <1>7, <1>8 DEF Good

(* The blinking cursor stays, and so does the cursor it follows.            *)
LEMMA WriteHiddenGood ==
    ASSUME Good, NEW t \in Terms, NEW cs \in Outputs, WriteHidden(t, cs)
    PROVE  Good'
<1> DEFINE d == Drawn(With(videomem_buffer[t], t), cs)
<1>1. /\ Kept /\ t # cur_terminal /\ cur_terminal' = cur_terminal /\ cur_terminal \in Terms
      /\ video' = video /\ vga' = vga /\ stopped' = stopped
  BY DEF Good, WriteHidden, Kept, Running
<1>2. videomem_buffer' = [videomem_buffer EXCEPT ![t] = d.text] /\ Moved(t, d)
  BY DEF WriteHidden
<1>3. With(videomem_buffer[t], t) \in Sound
  <2>1. videomem_buffer[t] \in Texts
    BY <1>1 DEF Kept
  <2> QED BY <1>1, <2>1, KeptSounds
<1>4. d \in Sound
  BY <1>3, DrawnSound, ScreenAssumption
<1> HIDE DEF d
<1>5. /\ screen_x' \in [Terms -> Columns] /\ screen_y' \in [Terms -> Lines]
      /\ screen_x'[cur_terminal] = screen_x[cur_terminal]
      /\ screen_y'[cur_terminal] = screen_y[cur_terminal]
      /\ \A v \in Terms : screen_y'[v] >= 1 \/ screen_x'[v] >= 0
  BY <1>1, <1>2, <1>4, MovedKept
<1>6. Kept'
  BY <1>1, <1>2, <1>4, <1>5 DEF Kept, Sound
<1>7. CursorFollows'
  BY <1>1, <1>5 DEF Good, CursorFollows, With, Place
<1> QED
  BY <1>6, <1>7 DEF Good

LEMMA KeyGood == ASSUME Good, Key PROVE Good'
<1>1. /\ Kept /\ cur_terminal' = cur_terminal /\ cur_terminal \in Terms
      /\ videomem_buffer' = videomem_buffer /\ stopped' = stopped
  BY DEF Good, Key, Kept, Running
<1>2. PICK s \in KeyDraws(With(video, cur_terminal)) :
         video' = s.text /\ Moved(cur_terminal, s) /\ vga' = Place(s)
  BY DEF Key
<1>3. With(video, cur_terminal) \in Sound
  BY <1>1, KeptSounds DEF Kept
<1>4. s \in Sound
  BY <1>2, <1>3, KeyDrawsSound
<1>5. /\ screen_x' \in [Terms -> Columns] /\ screen_x'[cur_terminal] = s.x
      /\ screen_y' \in [Terms -> Lines] /\ screen_y'[cur_terminal] = s.y
      /\ \A v \in Terms : screen_y'[v] >= 1 \/ screen_x'[v] >= 0
  BY <1>1, <1>2, <1>4, MovedKept
<1>6. Kept'
  BY <1>1, <1>2, <1>4, <1>5 DEF Kept, Sound
<1>7. CursorFollows'
  BY <1>1, <1>2, <1>5 DEF CursorFollows, With, Place
<1> QED
  BY <1>6, <1>7 DEF Good

LEMMA SelectGood ==
    ASSUME Good, NEW sel \in Terms, SelectTerminal(sel)
    PROVE  Good'
<1>1. Kept /\ cur_terminal' = sel /\ cur_terminal \in Terms
      /\ vga' = Cols * screen_y'[sel] + screen_x'[sel] /\ stopped' = stopped
  BY DEF Good, SelectTerminal, Kept, Running
<1>2. PICK s \in Breaks(With(video, cur_terminal)) :
         /\ Moved(cur_terminal, s)
         /\ videomem_buffer' = [videomem_buffer EXCEPT ![cur_terminal] = s.text]
         /\ video' = videomem_buffer'[sel]
  BY DEF SelectTerminal
<1>3. With(video, cur_terminal) \in Sound
  BY <1>1, KeptSounds DEF Kept
<1>4. s \in Sound
  BY <1>2, <1>3, BreaksSound
<1>5. /\ screen_x' \in [Terms -> Columns] /\ screen_y' \in [Terms -> Lines]
      /\ \A v \in Terms : screen_y'[v] >= 1 \/ screen_x'[v] >= 0
  BY <1>1, <1>2, <1>4, MovedKept
<1>6. videomem_buffer' \in [Terms -> Texts]
  BY <1>1, <1>2, <1>4 DEF Kept, Sound
<1>7. Kept'
  BY <1>1, <1>2, <1>5, <1>6 DEF Kept
<1>8. CursorFollows'
  BY <1>1 DEF CursorFollows, With, Place
<1> QED
  BY <1>7, <1>8 DEF Good

LEMMA NextGood == Good /\ [Next]_vars => Good'
<1> SUFFICES ASSUME Good, [Next]_vars PROVE Good'
  OBVIOUS
<1>1. CASE \E t \in Terms, cs \in Outputs : WriteShown(t, cs) \/ WriteHidden(t, cs)
  BY <1>1, WriteShownGood, WriteHiddenGood
<1>2. CASE Key
  BY <1>2, KeyGood
<1>3. CASE \E sel \in Terms : SelectTerminal(sel)
  BY <1>3, SelectGood
<1>4. CASE KeyFaults \/ UNCHANGED vars
  BY <1>4 DEF KeyFaults, screens, vars, Good, Kept, CursorFollows, With, Place
<1> QED
  BY <1>1, <1>2, <1>3, <1>4 DEF Next

LEMMA AlwaysGood == Spec => []Good
  BY InitGood, NextGood, PTL DEF Spec

LEMMA Product ==
    ASSUME NEW a \in Nat, NEW b \in Nat, a <= b
    PROVE  Cols * a \in Nat /\ Cols * b \in Nat /\ Cols * a <= Cols * b
<1>1. PICK d \in Nat : b = a + d
  OBVIOUS
<1>2. Cols * a \in Nat /\ Cols * d \in Nat
  BY DrawingAssumption
<1>3. Cols * b = Cols * a + Cols * d
  BY <1>1, DrawingAssumption
<1> QED
  BY <1>2, <1>3

LEMMA PlaceSound ==
    ASSUME NEW s \in Sound
    PROVE  Place(s) \in Cells
<1> DEFINE p == Cols * s.y
<1>1. s.x \in (-Cols)..(Cols - 1) /\ s.x \in Int /\ (s.y >= 1 \/ s.x >= 0)
  BY DrawingAssumption DEF Sound
<1>2. s.y \in Nat /\ s.y <= Rows - 1 /\ Rows - 1 \in Nat
  BY DrawingAssumption DEF Sound
<1>3. p \in Nat /\ p <= Cols * (Rows - 1)
  BY <1>2, Product
<1>4. Cols * (Rows - 1) = Rows * Cols - Cols /\ Rows * Cols \in Nat
  BY DrawingAssumption
<1>5. s.y >= 1 => p >= Cols
  <2>1. s.y >= 1 => Cols * 1 <= p
    BY <1>2, Product
  <2> QED BY <2>1, DrawingAssumption
<1>6. Place(s) = p + s.x
  BY DEF Place
<1> HIDE DEF p
<1> QED
  BY <1>1, <1>3, <1>4, <1>5, <1>6, DrawingAssumption DEF Cells

(* ScreenTypeOK of Screen, for any size of the screen, any prompt and any   *)
(* output: whatever programs print and keys edit, every cursor is on a cell *)
(* of its own screen, so what a hidden terminal's program prints stays in   *)
(* its page; only the step back of the terminal shown leaves the text, and  *)
(* stops the machine (lib.c:265, 309; keyboard.c:194-232).                  *)
THEOREM AlwaysScreenTypeOK == Spec => []ScreenTypeOK
<1>1. Kept => ScreenTypeOK
  <2> SUFFICES ASSUME Kept, NEW t \in Terms PROVE Place(With(video, t)) \in Cells
    BY DEF Kept, ScreenTypeOK, Columns, Lines
  <2>1. With(video, t) \in Sound
    BY KeptSounds DEF Kept
  <2> QED BY <2>1, PlaceSound
<1>2. Good => ScreenTypeOK
  BY <1>1 DEF Good
<1> QED
  BY <1>2, AlwaysGood, PTL

(* CursorFollows of Screen: no character that a hidden terminal's program   *)
(* prints, nor selecting a terminal, leaves the blinking cursor elsewhere   *)
(* than at the end of what is shown (lib.c:230-315, keyboard.c:254).        *)
THEOREM AlwaysCursorFollows == Spec => []CursorFollows
<1>1. Good => CursorFollows
  BY DEF Good
<1> QED
  BY <1>1, AlwaysGood, PTL
===============================================================================
