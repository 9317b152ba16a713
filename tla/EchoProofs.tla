----------------------------- MODULE EchoProofs -----------------------------
(* The cursor of the line editor is on a cell of its screen, and at the     *)
(* end of the line, for all sizes of the screen and the row.                *)
EXTENDS Echo, TerminalInputProofs

(***************************************************************************)
(* Steps of a cursor.  In the first row it is not left of column 0.        *)
(***************************************************************************)
Columns  == (-Cols)..(Cols - 1)
ScreenYs == 0..(Rows - 1)
Spots    == {c \in [x : Columns, y : ScreenYs] : c.y >= 1 \/ c.x >= 0}

LEMMA ScreenFacts ==
    /\ Rows \in Nat /\ Rows >= 2 /\ Cols \in Nat /\ Prompt \in Nat
    /\ MaxLine + Prompt <= Cols /\ MaxLine <= Cols /\ Cols >= 1
    /\ BufferSize - MaxLine - 1 <= Cols
BY EchoAssumption, SizesFacts

LEMMA Remainder ==
    /\ \A a \in 0..(Cols - 1) : a % Cols = a /\ Rem(a, Cols) = a
    /\ Cols % Cols = 0 /\ Rem(Cols, Cols) = 0 /\ Rem(-Cols, Cols) = 0
    /\ \A a \in (1 - Cols)..(-1) : Rem(a, Cols) = a
<1>1. \A a \in 0..(Cols - 1) : a % Cols = a
    BY ScreenFacts
<1>2. Cols % Cols = 0
    BY ScreenFacts
<1> QED
    BY <1>1, <1>2, ScreenFacts DEF Rem

LEMMA Product ==
    ASSUME NEW a \in Nat, NEW b \in Nat, a <= b
    PROVE  Cols * a \in Nat /\ Cols * b \in Nat /\ Cols * a <= Cols * b
<1>1. PICK d \in Nat : b = a + d
    OBVIOUS
<1>2. Cols * a \in Nat /\ Cols * d \in Nat
    BY ScreenFacts
<1>3. Cols * b = Cols * a + Cols * d
    BY <1>1, ScreenFacts
<1> QED
    BY <1>2, <1>3

(* These are the cells of the screen, seen from at most a row right of them.*)
LEMMA PlaceSpot ==
    ASSUME NEW c \in Spots
    PROVE  Place(c) \in 0..(Rows * Cols - 1)
<1> DEFINE p == Cols * c.y
<1>1. c.x \in Columns /\ c.y \in ScreenYs /\ (c.y >= 1 \/ c.x >= 0) /\ c.x \in Int
    BY ScreenFacts DEF Spots, Columns
<1>2. c.y \in Nat /\ c.y <= Rows - 1 /\ Rows - 1 \in Nat
    BY <1>1, ScreenFacts DEF ScreenYs
<1>3. p \in Nat /\ p <= Cols * (Rows - 1)
    BY <1>2, Product
<1>4. Cols * (Rows - 1) = Rows * Cols - Cols /\ Rows * Cols \in Nat
    BY ScreenFacts
<1>5. c.y >= 1 => p >= Cols
    <2>1. c.y >= 1 => Cols * 1 <= p
        BY <1>2, Product
    <2> QED
        BY <2>1, ScreenFacts
<1>6. Place(c) = p + c.x
    BY DEF Place
<1> HIDE DEF p
<1> QED
    BY <1>1, <1>3, <1>4, <1>5, <1>6, ScreenFacts DEF Columns

LEMMA RoomSpot ==
    ASSUME NEW c \in Spots, Room(c)
    PROVE  c.y >= 1 \/ c.x >= 1
<1>1. c.x \in Int /\ c.y \in Nat
    BY ScreenFacts DEF Spots, Columns, ScreenYs
<1>2. CASE c.y = 0
    <2>1. Cols * 0 + c.x = c.x
        BY <1>1, ScreenFacts
    <2>2. c.x > 0
        BY <1>2, <2>1 DEF Room, Place
    <2> QED
        BY <1>1, <2>2
<1>3. CASE c.y # 0
    BY <1>1, <1>3
<1> QED
    BY <1>2, <1>3

LEMMA NewLineSpot ==
    ASSUME NEW c \in Spots
    PROVE  NewLine(c) \in Spots /\ NewLine(c).x = 0 /\ NewLine(c).y >= 1
BY ScreenFacts DEF Spots, Columns, ScreenYs, NewLine

LEMMA PutCharSpot ==
    ASSUME NEW c \in Spots
    PROVE  /\ PutChar(c) \in Spots /\ PutChar(c).y = c.y
           /\ c.x >= 0 => PutChar(c).x = (c.x + 1) % Cols
           /\ c.x >= 0 /\ c.x + 1 < Cols => PutChar(c).x = c.x + 1
<1> DEFINE r == Rem(c.x + 1, Cols)
<1>1. /\ PutChar(c) = [x |-> r, y |-> c.y] /\ c.x \in Columns /\ c.y \in ScreenYs
      /\ c.y >= 1 \/ c.x >= 0
    BY DEF Spots, PutChar
<1>2. r \in Columns /\ (c.x >= 0 => r >= 0)
    BY <1>1, Remainder, ScreenFacts DEF Columns
<1>3. c.x >= 0 => r = (c.x + 1) % Cols
    BY <1>1, ScreenFacts DEF Columns, Rem
<1>4. c.x >= 0 /\ c.x + 1 < Cols => r = c.x + 1
    BY <1>1, Remainder, ScreenFacts DEF Columns
<1> HIDE DEF r
<1>5. PutChar(c) \in [x : Columns, y : ScreenYs] /\ PutChar(c).x = r /\ PutChar(c).y = c.y
    BY <1>1, <1>2
<1>6. c.y >= 1 \/ r >= 0
    BY <1>1, <1>2
<1> QED
    BY <1>3, <1>4, <1>5, <1>6 DEF Spots

LEMMA StepBackSpot ==
    ASSUME NEW c \in Spots, Room(c)
    PROVE  /\ StepBack(c) \in Spots /\ StepBack(c).y = c.y
           /\ c.x >= 0 => StepBack(c).x = c.x - 1
<1> DEFINE r == Rem(c.x, Cols)
<1>1. c.x \in Columns /\ c.y \in ScreenYs /\ c = [x |-> c.x, y |-> c.y]
    BY DEF Spots
<1>2. Moved(c, -1) = [x |-> c.x - 1, y |-> c.y]
    BY <1>1, ScreenFacts DEF Moved, Columns
<1>3. c.x - 1 + 1 = c.x
    BY <1>1, ScreenFacts DEF Columns
<1>4. PutChar(Moved(c, -1)) = [x |-> r, y |-> c.y]
    BY <1>2, <1>3 DEF PutChar
<1>5. r \in (1 - Cols)..(Cols - 1) /\ (c.x >= 0 => r = c.x)
    BY <1>1, Remainder, ScreenFacts DEF Columns
<1> HIDE DEF r
<1>6. StepBack(c) = [x |-> r - 1, y |-> c.y]
    BY <1>4, <1>5, ScreenFacts DEF StepBack, Moved
<1>7. c.y >= 1 \/ r - 1 >= 0
    <2>1. c.y >= 1 \/ c.x >= 1
        BY RoomSpot
    <2>2. c.x \in Int
        BY <1>1, ScreenFacts DEF Columns
    <2>3. c.x >= 1 => r - 1 >= 0
        BY <1>5, <2>2
    <2> QED
        BY <2>1, <2>3
<1>8. r - 1 \in Columns
    BY <1>5, ScreenFacts DEF Columns
<1>9. StepBack(c) \in [x : Columns, y : ScreenYs] /\ StepBack(c).x = r - 1 /\ StepBack(c).y = c.y
    BY <1>1, <1>6, <1>8
<1> QED
    BY <1>5, <1>7, <1>9 DEF Spots

(***************************************************************************)
(* Tabs behind the break.                                                  *)
(***************************************************************************)

(* A run of tabs in the second row is of whole tabs, or its first one was   *)
(* cut to three at the row's end; erasing it never takes the break along.   *)
TabsWhole(f, n) ==
    \A s, e \in 0..n : IsRun(f, n, s, e) /\ s > MaxLine =>
        \/ (e - s) % 4 = 0
        \/ (e - s) % 4 = 3 /\ e % 4 = (BufferSize - 2) % 4

(* Only what lies before the index and behind the first place matters.      *)
LEMMA WholeSame ==
    ASSUME NEW f, NEW g, NEW n \in Places, TabsWhole(f, n), \A i \in 1..(n - 1) : g[i] = f[i]
    PROVE  TabsWhole(g, n)
<1> SUFFICES ASSUME NEW s \in 0..n, NEW e \in 0..n, IsRun(g, n, s, e), s > MaxLine
             PROVE  \/ (e - s) % 4 = 0
                    \/ (e - s) % 4 = 3 /\ e % 4 = (BufferSize - 2) % 4
    BY DEF TabsWhole
<1>1. n \in Nat /\ s \in Nat /\ e \in Nat /\ s > 1 /\ s < e /\ e <= n
    BY SizesFacts DEF Places, IsRun
<1>2. IsRun(f, n, s, e)
    BY <1>1 DEF IsRun, Tabs
<1> QED
    BY <1>2 DEF TabsWhole

LEMMA WholeNone ==
    ASSUME NEW f, NEW n \in Places, n <= MaxLine + 1
    PROVE  TabsWhole(f, n)
BY SizesFacts DEF TabsWhole, IsRun, Places

LEMMA WholePut ==
    ASSUME NEW f, NEW g, NEW n \in Places, n + 1 \in Places, TabsWhole(f, n),
           \A i \in 0..(n - 1) : g[i] = f[i], g[n] # TAB
    PROVE  TabsWhole(g, n + 1)
<1> SUFFICES ASSUME NEW s \in 0..(n + 1), NEW e \in 0..(n + 1), IsRun(g, n + 1, s, e), s > MaxLine
             PROVE  \/ (e - s) % 4 = 0
                    \/ (e - s) % 4 = 3 /\ e % 4 = (BufferSize - 2) % 4
    BY DEF TabsWhole
<1>1. n \in Nat /\ e # n + 1
    BY SizesFacts DEF Places, IsRun, Tabs
<1>2. s \in 0..n /\ e \in 0..n /\ IsRun(f, n, s, e)
    BY <1>1 DEF IsRun, Tabs
<1> QED
    BY <1>2 DEF TabsWhole

LEMMA WholeTab ==
    ASSUME NEW f, NEW g, NEW n \in Places, NEW d \in {3, 4},
           n + d \in Places, d = 3 => n + 5 = BufferSize, TabsWhole(f, n),
           \A i \in 0..(n - 1) : g[i] = f[i], \A i \in n..(n + d - 1) : g[i] = TAB
    PROVE  TabsWhole(g, n + d)
<1> SUFFICES ASSUME NEW s \in 0..(n + d), NEW e \in 0..(n + d), IsRun(g, n + d, s, e), s > MaxLine
             PROVE  \/ (e - s) % 4 = 0
                    \/ (e - s) % 4 = 3 /\ e % 4 = (BufferSize - 2) % 4
    BY DEF TabsWhole
<1>1. n \in Nat /\ s \in Nat /\ e \in Nat /\ s < e /\ e <= n + d
    BY SizesFacts DEF Places, IsRun
<1>2. CASE e < n
    <2>1. IsRun(f, n, s, e)
        BY <1>1, <1>2 DEF IsRun, Tabs
    <2> QED
        BY <1>1, <1>2, <2>1 DEF TabsWhole
<1>3. CASE e >= n
    <2>1. e = n + d
        BY <1>1, <1>3 DEF IsRun
    <2>2. CASE s < n
        <3>1. IsRun(f, n, s, n)
            BY <1>1, <2>1, <2>2 DEF IsRun, Tabs
        <3>2. (n - s) % 4 = 0 \/ ((n - s) % 4 = 3 /\ n % 4 = (BufferSize - 2) % 4)
            BY <1>1, <2>2, <3>1 DEF TabsWhole
        <3>3. CASE d = 4
            BY <1>1, <2>1, <3>2, <3>3
        <3>4. CASE d = 3
            <4>1. n + 5 = BufferSize
                BY <3>4
            <4>2. (n - s) % 4 = 0
                BY <1>1, <3>2, <4>1
            <4> QED
                BY <1>1, <2>1, <3>4, <4>1, <4>2
        <3> QED
            BY <3>3, <3>4
    <2>3. CASE s >= n
        <3>1. s = n
            BY <1>1, <2>1, <2>3 DEF IsRun
        <3> QED
            BY <1>1, <2>1, <3>1
    <2> QED
        BY <1>1, <2>2, <2>3
<1> QED
    BY <1>1, <1>2, <1>3

LEMMA WholeErase ==
    ASSUME NEW f, NEW n \in Places, n > 0, f[n - 1] # TAB, TabsWhole(f, n)
    PROVE  TabsWhole(f, n - 1)
<1> SUFFICES ASSUME NEW s \in 0..(n - 1), NEW e \in 0..(n - 1), IsRun(f, n - 1, s, e), s > MaxLine
             PROVE  \/ (e - s) % 4 = 0
                    \/ (e - s) % 4 = 3 /\ e % 4 = (BufferSize - 2) % 4
    BY DEF TabsWhole
<1>1. s \in 0..n /\ e \in 0..n /\ IsRun(f, n, s, e)
    BY SizesFacts DEF Places, IsRun
<1> QED
    BY <1>1 DEF TabsWhole

LEMMA WholeEraseTab ==
    ASSUME NEW f \in RowTexts, NEW n \in Places, n >= 4, f[n - 1] = TAB, TabsWhole(f, n)
    PROVE  TabsWhole(f, n - 4)
<1>1. n \in Nat
    BY SizesFacts DEF Places
<1> SUFFICES ASSUME NEW a \in 0..(n - 4), NEW b \in 0..(n - 4), IsRun(f, n - 4, a, b), a > MaxLine
             PROVE  \/ (b - a) % 4 = 0
                    \/ (b - a) % 4 = 3 /\ b % 4 = (BufferSize - 2) % 4
    BY DEF TabsWhole
<1>2. a \in 0..n /\ b \in 0..n /\ a < b /\ a \in Nat /\ b \in Nat
    BY <1>1 DEF IsRun
<1>3. CASE b # n - 4 \/ f[n - 4] # TAB
    <2>1. IsRun(f, n, a, b)
        BY <1>1, <1>2, <1>3 DEF IsRun
    <2> QED
        BY <1>2, <2>1 DEF TabsWhole
<1>4. CASE b = n - 4 /\ f[n - 4] = TAB
    <2>1. PICK e \in b..n : Tabs(f, b, e) /\ (e = n \/ f[e] # TAB)
        BY <1>1, <1>2, RunEnd
    <2>2. e > b /\ e \in 0..n /\ e \in Nat
        BY <1>1, <1>2, <1>4, <2>1
    <2>3. IsRun(f, n, a, e)
        BY <1>1, <1>2, <2>1, <2>2 DEF IsRun, Tabs
    <2>4. (e - a) % 4 = 0 \/ ((e - a) % 4 = 3 /\ e % 4 = (BufferSize - 2) % 4)
        BY <1>2, <2>2, <2>3 DEF TabsWhole
    <2>5. CASE e = n
        BY <1>1, <1>2, <1>4, <2>4, <2>5
    <2>6. CASE e < n
        <3>1. PICK s \in 0..(n - 1) : Tabs(f, s, n) /\ (s = 0 \/ f[s - 1] # TAB)
            BY <1>1, RunStart
        <3>2. e < s
            BY <1>1, <1>2, <2>1, <2>2, <2>6, <3>1 DEF Tabs
        <3>3. s \in 0..n /\ s < n /\ s > MaxLine
            BY <1>1, <1>2, <2>2, <3>2, SizesFacts
        <3>4. IsRun(f, n, s, n)
            BY <3>1, <3>3 DEF IsRun
        <3>5. (n - s) % 4 = 0 \/ (n - s) % 4 = 3
            BY <1>1, <3>3, <3>4 DEF TabsWhole
        <3>6. n - s \in {1, 2}
            BY <1>1, <1>4, <2>2, <3>2, <3>3
        <3> QED
            BY <3>5, <3>6
    <2> QED
        BY <1>1, <2>2, <2>5, <2>6
<1> QED
    BY <1>3, <1>4

(***************************************************************************)
(* A line of n characters f with its cursor c and the column st it began   *)
(* in: behind a break the cursor is not in the first row; and unless the   *)
(* start is lost, the line breaks at MaxLine and ends at the cursor.       *)
(***************************************************************************)
Begins == {Lost} \cup 0..(Cols - MaxLine)

Ends(f, n, c, st) ==
    /\ n > MaxLine => f[MaxLine] = NL
    /\ c.x = IF n <= MaxLine THEN (st + n) % Cols ELSE n - MaxLine - 1

AtCursor(f, n, c, st) ==
    /\ c \in Spots /\ st \in Begins
    /\ n > MaxLine /\ f[MaxLine] = NL => c.y >= 1
    /\ st # Lost => Ends(f, n, c, st)
    /\ TabsWhole(f, n)

LEMMA BeginsFacts ==
    /\ Lost \in Begins
    /\ \A st \in Begins : st # Lost => st \in Nat /\ st + MaxLine <= Cols
    /\ \A x \in Columns : /\ StartIn(x) \in Begins
                          /\ StartIn(x) # Lost => StartIn(x) = x /\ x \in Nat /\ x < Cols
BY ScreenFacts, SizesFacts DEF Begins, Lost, StartIn, Columns

(* A column in the first row, before and at its end.                        *)
LEMMA FirstRow ==
    ASSUME NEW st \in Begins, st # Lost, NEW n \in 0..MaxLine
    PROVE  /\ st + n \in 0..Cols
           /\ n < MaxLine => (st + n) % Cols = st + n /\ st + n < Cols
BY BeginsFacts, ScreenFacts, SizesFacts, Remainder

LEMMA LoseStart ==
    ASSUME NEW f, NEW n, NEW c, NEW st, AtCursor(f, n, c, st)
    PROVE  AtCursor(f, n, c, Lost)
BY BeginsFacts DEF AtCursor

LEMMA StartOver ==
    ASSUME NEW f, NEW c \in Spots
    PROVE  AtCursor(f, 0, c, StartIn(c.x))
<1>1. c.x \in Columns
    BY DEF Spots
<1>2. StartIn(c.x) # Lost => Ends(f, 0, c, StartIn(c.x))
    BY <1>1, BeginsFacts, Remainder, SizesFacts, ScreenFacts DEF Ends
<1>3. TabsWhole(f, 0)
    BY WholeNone, SizesFacts DEF Places
<1> QED
    BY <1>1, <1>2, <1>3, BeginsFacts, SizesFacts DEF AtCursor

LEMMA SameAtCursor ==
    ASSUME NEW f, NEW g, NEW n \in Places, NEW c, NEW st, AtCursor(f, n, c, st),
           \A i \in 1..(n - 1) : g[i] = f[i]
    PROVE  AtCursor(g, n, c, st)
<1>1. TabsWhole(g, n)
    BY WholeSame DEF AtCursor
<1>2. n > MaxLine => g[MaxLine] = f[MaxLine]
    BY SizesFacts DEF Places
<1> QED
    BY <1>1, <1>2 DEF AtCursor, Ends

(***************************************************************************)
(* The edits: cursor and line move together.                               *)
(***************************************************************************)
Of(e) == Row(e.buf, cur_terminal)

LEMMA EditFacts ==
    ASSUME cur_terminal \in Terms, NEW e, Good(e)
    PROVE  /\ e \in Edits /\ e.idx \in Places /\ e.idx \in Nat /\ e.idx < BufferSize
           /\ Of(e) \in RowTexts /\ e.buf \in Buffers
BY SizesFacts, RowTyped DEF Good, Edits, Places, Of

(* One character more, not a tab.                                           *)
LEMMA PutAtCursor ==
    ASSUME cur_terminal \in Terms, NEW e, Good(e), e.idx < BufferSize - 1,
           NEW c, NEW st, AtCursor(Of(e), e.idx, c, st), e.idx # MaxLine
    PROVE  AtCursor(Of(Put(e, cur_terminal)), e.idx + 1, PutChar(c), st)
<1> DEFINE f == Of(e)
           g == Of(Put(e, cur_terminal))
           n == e.idx
<1>1. /\ e \in Edits /\ n \in Places /\ n \in Nat /\ n + 1 \in Places /\ f \in RowTexts
      /\ cur_terminal \in Chars /\ cur_terminal # TAB /\ cur_terminal # NL
    BY EditFacts, CharsFacts, SizesFacts DEF Places
<1>2. g = [f EXCEPT ![n] = cur_terminal]
    BY <1>1, PutRow DEF Of
<1>3. AtCursor(f, n, c, st)
    OBVIOUS
<1>4. n < BufferSize - 1 /\ n # MaxLine
    OBVIOUS
<1> HIDE DEF f, g, n
<1>5. /\ \A i \in 0..(n - 1) : g[i] = f[i]
      /\ g[n] = cur_terminal
    BY <1>1, <1>2, SizesFacts DEF RowTexts, Places
<1>6. TabsWhole(g, n + 1)
    BY <1>1, <1>3, <1>5, WholePut DEF AtCursor
<1>7. PutChar(c) \in Spots /\ PutChar(c).y = c.y /\ c \in Spots /\ c.x \in Int /\ c.y \in Int
    BY <1>3, PutCharSpot, ScreenFacts DEF AtCursor, Spots, Columns, ScreenYs
<1>8. n > MaxLine => g[MaxLine] = f[MaxLine]
    BY <1>1, <1>5, SizesFacts
<1>9. n + 1 > MaxLine => n > MaxLine
    BY <1>1, <1>4, SizesFacts
<1>10. ASSUME st # Lost PROVE Ends(g, n + 1, PutChar(c), st)
    <2>1. Ends(f, n, c, st) /\ st \in Begins
        BY <1>3, <1>10 DEF AtCursor
    <2>2. CASE n < MaxLine
        <3>1. n \in 0..MaxLine /\ n + 1 \in 0..MaxLine /\ ~(n + 1 > MaxLine) /\ n <= MaxLine
            BY <1>1, <2>2, SizesFacts
        <3>2. c.x = st + n /\ st + n \in 0..Cols
            BY <1>10, <2>1, <2>2, <3>1, FirstRow DEF Ends
        <3>3. PutChar(c).x = (st + n + 1) % Cols
            BY <1>7, <3>2, PutCharSpot, ScreenFacts
        <3>4. st + n + 1 = st + (n + 1)
            BY <1>1, <1>10, <2>1, BeginsFacts
        <3> QED
            BY <3>1, <3>3, <3>4 DEF Ends
    <2>3. CASE n > MaxLine
        <3>1. c.x = n - MaxLine - 1 /\ f[MaxLine] = NL
            BY <1>1, <2>1, <2>3, SizesFacts DEF Ends
        <3>2. c.x >= 0 /\ c.x + 1 < Cols
            BY <1>1, <1>4, <2>3, <3>1, ScreenFacts, SizesFacts
        <3>3. PutChar(c).x = (n + 1) - MaxLine - 1
            BY <1>1, <1>7, <3>1, <3>2, PutCharSpot, SizesFacts
        <3>4. ~(n + 1 <= MaxLine)
            BY <1>1, <2>3, SizesFacts
        <3> QED
            BY <1>8, <2>3, <3>1, <3>3, <3>4 DEF Ends
    <2> QED
        BY <1>1, <1>4, <2>2, <2>3, SizesFacts
<1>11. AtCursor(g, n + 1, PutChar(c), st)
    BY <1>3, <1>6, <1>7, <1>8, <1>9, <1>10 DEF AtCursor
<1> QED
    BY <1>11 DEF g, n

(* The break.  After it no line ends at MaxLine.                            *)
LEMMA BrokenAtCursor ==
    ASSUME cur_terminal \in Terms, NEW e, Good(e),
           NEW c, NEW st, AtCursor(Of(e), e.idx, c, st)
    PROVE  /\ AtCursor(Of(Broken(e)), Broken(e).idx, BrokenAt(c, e), st)
           /\ Broken(e).idx # MaxLine
           /\ \/ e.idx # MaxLine /\ Broken(e) = e
              \/ /\ e.idx = MaxLine /\ Broken(e).idx = MaxLine + 1
                 /\ Broken(e).nlf = TRUE /\ Of(Broken(e))[MaxLine] = NL
<1>1. /\ e \in Edits /\ e.idx \in Places /\ e.idx \in Nat /\ Of(e) \in RowTexts /\ NL \in Chars
    BY EditFacts, CharsFacts
<1>2. CASE e.idx = MaxLine
    <2> DEFINE p == Put(e, NL)
               b == [p EXCEPT !.nlf = TRUE]
               g == Of(p)
    <2>1. MaxLine + 1 \in Places /\ MaxLine \in Places /\ e.idx + 1 = MaxLine + 1
        BY <1>2, SizesFacts DEF Places
    <2>2. p \in Edits /\ p.idx = MaxLine + 1 /\ g = [Of(e) EXCEPT ![MaxLine] = NL]
        BY <1>1, <1>2, <2>1, PutRow DEF Of
    <2>3. Broken(e) = b
        BY <1>2, SizesFacts DEF Broken
    <2> HIDE DEF p
    <2>4. b.buf = p.buf /\ b.idx = MaxLine + 1 /\ b.nlf = TRUE
        BY <2>2 DEF Edits
    <2>5. Of(b) = g
        BY <2>4 DEF Of
    <2>6. g[MaxLine] = NL
        BY <1>1, <2>1, <2>2 DEF RowTexts
    <2>7. BrokenAt(c, e) = NewLine(c)
        BY <1>2, SizesFacts DEF BrokenAt
    <2>8. NewLine(c) \in Spots /\ NewLine(c).x = 0 /\ NewLine(c).y >= 1 /\ st \in Begins
        BY NewLineSpot DEF AtCursor
    <2>9. TabsWhole(g, MaxLine + 1)
        BY <2>1, WholeNone, SizesFacts
    <2>10. Ends(g, MaxLine + 1, NewLine(c), st)
        BY <2>6, <2>8, SizesFacts DEF Ends
    <2> HIDE DEF b, g
    <2>11. AtCursor(g, MaxLine + 1, NewLine(c), st)
        BY <2>8, <2>9, <2>10 DEF AtCursor
    <2> QED
        BY <1>2, <2>3, <2>4, <2>5, <2>6, <2>7, <2>11, SizesFacts
<1>3. CASE e.idx # MaxLine
    BY <1>3 DEF Broken, BrokenAt
<1> QED
    BY <1>2, <1>3

LEMMA TypedAtCursor ==
    ASSUME cur_terminal \in Terms, NEW e, Good(e), e.idx # MaxLine,
           NEW c, NEW st, AtCursor(Of(e), e.idx, c, st)
    PROVE  AtCursor(Of(Typed(e)), Typed(e).idx, TypedAt(c, e), st)
<1>1. CASE e.idx < BufferSize - 1
    <2>1. e.idx + 1 \in Places /\ e \in Edits /\ cur_terminal \in Chars
        BY <1>1, EditFacts, CharsFacts, SizesFacts DEF Places
    <2>2. Put(e, cur_terminal).idx = e.idx + 1
        BY <2>1, PutRow
    <2>3. Typed(e) = Put(e, cur_terminal) /\ TypedAt(c, e) = PutChar(c)
        BY <1>1 DEF Typed, TypedAt
    <2> QED
        BY <1>1, <2>2, <2>3, PutAtCursor
<1>2. CASE ~(e.idx < BufferSize - 1)
    BY <1>2 DEF Typed, TypedAt
<1> QED
    BY <1>1, <1>2

(* d spaces, one after the other.                                           *)
LEMMA Spaces ==
    ASSUME NEW c, NEW e, NEW d \in 0..4, Tabbed(e, Fits(c)).idx - e.idx = d
    PROVE  TabbedAt(c, e) = CASE d = 0 -> c
                              [] d = 1 -> PutChar(c)
                              [] d = 2 -> PutChar(PutChar(c))
                              [] d = 3 -> PutChar(PutChar(PutChar(c)))
                              [] d = 4 -> PutChar(PutChar(PutChar(PutChar(c))))
<1> DEFINE way(at) == at = [i \in 0..4 |-> IF i = 0 THEN c ELSE PutChar(at[i - 1])]
           c1 == PutChar(c)
           c2 == PutChar(c1)
           c3 == PutChar(c2)
           c4 == PutChar(c3)
           w  == [i \in 0..4 |-> IF i = 0 THEN c ELSE IF i = 1 THEN c1 ELSE IF i = 2 THEN c2
                                 ELSE IF i = 3 THEN c3 ELSE c4]
           at == CHOOSE f : way(f)
<1>1. \A i \in 0..4 : w[i] = IF i = 0 THEN c ELSE PutChar(w[i - 1])
    <2>1. w[0] = c /\ w[1] = c1 /\ w[2] = c2 /\ w[3] = c3 /\ w[4] = c4
        OBVIOUS
    <2>2. c1 = PutChar(c) /\ c2 = PutChar(c1) /\ c3 = PutChar(c2) /\ c4 = PutChar(c3)
        OBVIOUS
    <2> HIDE DEF w, c1, c2, c3, c4
    <2> SUFFICES ASSUME NEW i \in 0..4 PROVE w[i] = IF i = 0 THEN c ELSE PutChar(w[i - 1])
        OBVIOUS
    <2>3. i = 0 \/ (i = 1 /\ i - 1 = 0) \/ (i = 2 /\ i - 1 = 1) \/ (i = 3 /\ i - 1 = 2) \/ (i = 4 /\ i - 1 = 3)
        OBVIOUS
    <2> QED
        BY <2>1, <2>2, <2>3
<1>2. way(w)
    <2>1. w = [i \in 0..4 |-> w[i]]
        OBVIOUS
    <2> HIDE DEF w
    <2> QED
        BY <1>1, <2>1
<1>3. way(at)
    <2> HIDE DEF w, way
    <2> QED
        BY <1>2
<1>4. TabbedAt(c, e) = at[d]
    BY DEF TabbedAt
<1> HIDE DEF at
<1>5. \A i \in 0..4 : at[i] = IF i = 0 THEN c ELSE PutChar(at[i - 1])
    BY <1>3
<1>6. at[0] = c /\ at[1] = PutChar(at[0]) /\ at[2] = PutChar(at[1])
      /\ at[3] = PutChar(at[2]) /\ at[4] = PutChar(at[3])
    <2>1. at[0] = c
        BY <1>5
    <2>2. at[1] = PutChar(at[1 - 1])
        BY <1>5
    <2>3. at[2] = PutChar(at[2 - 1])
        BY <1>5
    <2>4. at[3] = PutChar(at[3 - 1])
        BY <1>5
    <2>5. at[4] = PutChar(at[4 - 1])
        BY <1>5
    <2> QED
        BY <2>1, <2>2, <2>3, <2>4, <2>5
<1>7. d = 0 \/ d = 1 \/ d = 2 \/ d = 3 \/ d = 4
    OBVIOUS
<1> QED
    BY <1>4, <1>6, <1>7

LEMMA SpacesSpot ==
    ASSUME NEW c \in Spots
    PROVE  LET c3 == PutChar(PutChar(PutChar(c)))
               c4 == PutChar(c3)
           IN  /\ c3 \in Spots /\ c3.y = c.y /\ c4 \in Spots /\ c4.y = c.y
               /\ c.x >= 0 /\ c.x + 4 < Cols => c3.x = c.x + 3 /\ c4.x = c.x + 4
<1> DEFINE c1 == PutChar(c)
           c2 == PutChar(c1)
           c3 == PutChar(c2)
           c4 == PutChar(c3)
<1>1. c1 \in Spots /\ c1.y = c.y /\ (c.x >= 0 /\ c.x + 1 < Cols => c1.x = c.x + 1)
    BY PutCharSpot
<1> HIDE DEF c1
<1>2. c2 \in Spots /\ c2.y = c1.y /\ (c1.x >= 0 /\ c1.x + 1 < Cols => c2.x = c1.x + 1)
    BY <1>1, PutCharSpot
<1> HIDE DEF c2
<1>3. c3 \in Spots /\ c3.y = c2.y /\ (c2.x >= 0 /\ c2.x + 1 < Cols => c3.x = c2.x + 1)
    BY <1>2, PutCharSpot
<1> HIDE DEF c3
<1>4. c4 \in Spots /\ c4.y = c3.y /\ (c3.x >= 0 /\ c3.x + 1 < Cols => c4.x = c3.x + 1)
    BY <1>3, PutCharSpot
<1> HIDE DEF c4
<1>5. c.x \in Int
    BY ScreenFacts DEF Spots, Columns
<1>6. c.x >= 0 /\ c.x + 4 < Cols => c3.x = c.x + 3 /\ c4.x = c.x + 4
    BY <1>1, <1>2, <1>3, <1>4, <1>5, ScreenFacts
<1>7. c3.y = c.y /\ c4.y = c.y
    BY <1>1, <1>2, <1>3, <1>4
<1> QED
    BY <1>3, <1>4, <1>6, <1>7 DEF c4, c3, c2, c1

LEMMA TabbedAtCursor ==
    ASSUME cur_terminal \in Terms, NEW e, Good(e), e.idx # MaxLine,
           NEW c, NEW st, AtCursor(Of(e), e.idx, c, st)
    PROVE  AtCursor(Of(Tabbed(e, Fits(c))), Tabbed(e, Fits(c)).idx, TabbedAt(c, e), st)
<1> DEFINE r == Tabbed(e, Fits(c))
           n == e.idx
           f == Of(e)
           g == Of(r)
           p == TabbedAt(c, e)
<1>1. e \in Edits /\ n \in Places /\ n \in Nat /\ f \in RowTexts /\ n < BufferSize /\ n # MaxLine
    BY EditFacts
<1>2. CASE ~(n + 4 < BufferSize /\ Fits(c))
    <2>1. r = e
        BY <1>2 DEF Tabbed
    <2>2. r.idx - e.idx = 0 /\ 0 \in 0..4
        BY <1>1, <2>1
    <2>3. TabbedAt(c, e) = c
        BY <2>2, Spaces
    <2> QED
        BY <2>1, <2>3
<1>3. CASE n + 4 < BufferSize /\ Fits(c)
    <2> DEFINE d == IF n + 5 < BufferSize THEN 4 ELSE 3
    <2>1. /\ r \in Edits /\ r.idx = n + d
          /\ \A i \in 0..(n - 1) : g[i] = f[i]
          /\ \A i \in n..(n + d - 1) : g[i] = TAB
        <3>1. /\ cur_terminal \in Terms /\ e \in Edits
              /\ e.idx + 4 < BufferSize /\ Fits(c)
            BY <1>1, <1>3
        <3> QED
            BY <3>1, TabbedRow DEF Of
    <2>2. d \in {3, 4} /\ (d = 3 => n + 5 = BufferSize)
        BY <1>1, <1>3, SizesFacts
    <2>3. n + d \in Places
        BY <2>1 DEF Edits
    <2>4. AtCursor(f, n, c, st)
        OBVIOUS
    <2>5. c \in Spots /\ c.x \in Int
        BY <2>4, ScreenFacts DEF AtCursor, Spots, Columns
    <2> HIDE DEF f, g, n, r, d
    <2>6. TabsWhole(g, n + d)
        BY <1>1, <2>1, <2>2, <2>3, <2>4, WholeTab DEF AtCursor
    <2>7. /\ p \in Spots /\ p.y = c.y
          /\ c.x >= 0 /\ c.x + 4 < Cols => p.x = c.x + d
        <3>1. r.idx - e.idx = d
            BY <1>1, <2>1, <2>2 DEF n
        <3>2. d \in 0..4 /\ Tabbed(e, Fits(c)).idx - e.idx = d
            BY <2>2, <3>1 DEF r
        <3>3. p = IF d = 3 THEN PutChar(PutChar(PutChar(c)))
                  ELSE PutChar(PutChar(PutChar(PutChar(c))))
            BY <2>2, <3>2, Spaces
        <3> QED
            BY <2>2, <2>5, <3>3, SpacesSpot
    <2> HIDE DEF p
    <2>8. n + d > MaxLine /\ g[MaxLine] = NL => n > MaxLine /\ f[MaxLine] = NL
        <3>1. n > MaxLine => g[MaxLine] = f[MaxLine]
            BY <1>1, <2>1, SizesFacts
        <3>2. n < MaxLine /\ n + d > MaxLine => g[MaxLine] = TAB
            BY <1>1, <2>1, <2>2, SizesFacts
        <3> QED
            BY <1>1, <3>1, <3>2, SizesFacts, CharsFacts
    <2>9. ASSUME st # Lost PROVE Ends(g, n + d, p, st)
        <3>1. Ends(f, n, c, st) /\ st \in Begins
            BY <2>4, <2>9 DEF AtCursor
        <3>2. c.x + 4 < MaxLine
            BY <1>3 DEF Fits
        <3>3. CASE n < MaxLine
            <4>1. n \in 0..MaxLine /\ n <= MaxLine
                BY <1>1, <3>3, SizesFacts
            <4>2. c.x = st + n /\ st + n \in 0..Cols
                BY <2>9, <3>1, <3>3, <4>1, FirstRow DEF Ends
            <4>3. st \in Nat
                BY <2>9, <3>1, BeginsFacts
            <4>4. n + d < MaxLine /\ n + d \in 0..MaxLine
                BY <1>1, <2>2, <3>2, <4>2, <4>3, SizesFacts
            <4>5. p.x = st + (n + d)
                BY <1>1, <2>2, <2>7, <3>2, <4>2, <4>3, ScreenFacts, SizesFacts
            <4>6. (st + (n + d)) % Cols = st + (n + d)
                BY <2>9, <3>1, <4>4, FirstRow
            <4>7. n + d <= MaxLine /\ ~(n + d > MaxLine)
                BY <1>1, <2>2, <4>4, SizesFacts
            <4> QED
                BY <4>5, <4>6, <4>7 DEF Ends
        <3>4. CASE n > MaxLine
            <4>1. c.x = n - MaxLine - 1 /\ f[MaxLine] = NL
                BY <1>1, <3>1, <3>4, SizesFacts DEF Ends
            <4>2. p.x = (n + d) - MaxLine - 1
                BY <1>1, <2>2, <2>7, <3>2, <3>4, <4>1, ScreenFacts, SizesFacts
            <4>3. ~(n + d <= MaxLine)
                BY <1>1, <2>2, <3>4, SizesFacts
            <4>4. g[MaxLine] = f[MaxLine]
                BY <1>1, <2>1, <3>4, SizesFacts
            <4> QED
                BY <4>1, <4>2, <4>3, <4>4 DEF Ends
        <3> QED
            BY <1>1, <3>3, <3>4, SizesFacts
    <2>10. AtCursor(g, n + d, p, st)
        BY <2>4, <2>6, <2>7, <2>8, <2>9 DEF AtCursor
    <2> QED
        BY <2>1, <2>10 DEF g, p, r
<1> QED
    BY <1>2, <1>3

LEMMA FourBack ==
    ASSUME NEW c \in Spots, Room(c), Room(StepBack(c)), Room(StepBack(StepBack(c))),
           Room(StepBack(StepBack(StepBack(c))))
    PROVE  LET b == StepBack(StepBack(StepBack(StepBack(c))))
           IN  b \in Spots /\ b.y = c.y /\ (c.x >= 3 => b.x = c.x - 4)
<1> DEFINE b1 == StepBack(c)
           b2 == StepBack(b1)
           b3 == StepBack(b2)
           b4 == StepBack(b3)
<1>0. Room(c) /\ Room(b1) /\ Room(b2) /\ Room(b3)
    OBVIOUS
<1>1. b1 \in Spots /\ b1.y = c.y /\ (c.x >= 0 => b1.x = c.x - 1)
    BY <1>0, StepBackSpot
<1> HIDE DEF b1
<1>2. b2 \in Spots /\ b2.y = b1.y /\ (b1.x >= 0 => b2.x = b1.x - 1)
    BY <1>0, <1>1, StepBackSpot
<1> HIDE DEF b2
<1>3. b3 \in Spots /\ b3.y = b2.y /\ (b2.x >= 0 => b3.x = b2.x - 1)
    BY <1>0, <1>2, StepBackSpot
<1> HIDE DEF b3
<1>4. b4 \in Spots /\ b4.y = b3.y /\ (b3.x >= 0 => b4.x = b3.x - 1)
    BY <1>0, <1>3, StepBackSpot
<1> HIDE DEF b4
<1>5. c.x \in Int
    BY ScreenFacts DEF Spots, Columns
<1>6. c.x >= 3 => b4.x = c.x - 4
    BY <1>1, <1>2, <1>3, <1>4, <1>5
<1>7. b4 \in Spots /\ b4.y = c.y
    BY <1>1, <1>2, <1>3, <1>4
<1> QED
    BY <1>6, <1>7 DEF b4, b3, b2, b1

(* Backspace over a tab stays behind a break.                               *)
LEMMA BreakStays ==
    ASSUME NEW f \in RowTexts, NEW n \in Places, TabsWhole(f, n), n > MaxLine,
           f[MaxLine] = NL, f[n - 1] = TAB
    PROVE  n - 4 >= MaxLine
<1>1. n \in Nat /\ n > 0
    BY SizesFacts DEF Places
<1>2. PICK s \in 0..(n - 1) : Tabs(f, s, n) /\ (s = 0 \/ f[s - 1] # TAB)
    BY <1>1, RunStart
<1>3. s > MaxLine
    BY <1>1, <1>2, SizesFacts, CharsFacts DEF Tabs
<1>4. s \in 0..n /\ n \in 0..n /\ s < n
    BY <1>1, <1>2
<1>5. IsRun(f, n, s, n)
    BY <1>2, <1>4 DEF IsRun
<1>6. (n - s) % 4 = 0 \/ (n - s) % 4 = 3
    BY <1>3, <1>4, <1>5 DEF TabsWhole
<1>7. n - s >= 3
    BY <1>1, <1>4, <1>6
<1> QED
    BY <1>1, <1>3, <1>4, <1>7, SizesFacts

(* k characters less, and the cursor k columns back.                        *)
LEMMA BackAtCursor ==
    ASSUME NEW f, NEW g, NEW n \in Places, NEW k \in 1..4, n - k \in Places,
           NEW c, NEW st, AtCursor(f, n, c, st), TabsWhole(f, n - k),
           \A i \in 0..(n - k - 1) : g[i] = f[i],
           NEW b \in Spots, b.y = c.y, c.x >= k - 1 => b.x = c.x - k,
           NEW new, new = Lost \/ (new = st /\ (n < MaxLine \/ n - k > MaxLine))
    PROVE  AtCursor(g, n - k, b, new)
<1>1. n \in Nat /\ n - k \in Nat /\ k \in Nat /\ k >= 1 /\ k <= 4
    BY SizesFacts DEF Places
<1>2. TabsWhole(g, n - k)
    <2> DEFINE m == n - k
    <2>1. m \in Places /\ m \in Nat /\ TabsWhole(f, m) /\ \A i \in 1..(m - 1) : g[i] = f[i]
        BY <1>1
    <2> HIDE DEF m
    <2>2. TabsWhole(g, m)
        BY <2>1, WholeSame
    <2> QED
        BY <2>2 DEF m
<1>3. n - k > MaxLine => n > MaxLine /\ g[MaxLine] = f[MaxLine]
    BY <1>1, SizesFacts
<1>4. ASSUME new # Lost PROVE Ends(g, n - k, b, new)
    <2>1. new = st /\ st # Lost /\ Ends(f, n, c, st) /\ st \in Begins
        BY <1>4 DEF AtCursor
    <2>2. st \in Nat /\ st + MaxLine <= Cols
        BY <2>1, BeginsFacts
    <2>3. CASE n < MaxLine
        <3>1. n \in 0..MaxLine /\ n - k \in 0..MaxLine /\ n <= MaxLine /\ n - k < MaxLine
              /\ n - k <= MaxLine /\ ~(n - k > MaxLine)
            BY <1>1, <2>3, SizesFacts
        <3>2. c.x = st + n
            BY <2>1, <2>3, <3>1, FirstRow DEF Ends
        <3>3. b.x = st + (n - k)
            BY <1>1, <2>2, <3>2
        <3>4. (st + (n - k)) % Cols = st + (n - k)
            BY <2>1, <3>1, FirstRow
        <3> QED
            BY <2>1, <3>1, <3>3, <3>4 DEF Ends
    <2>4. CASE n - k > MaxLine
        <3>1. n > MaxLine /\ ~(n <= MaxLine) /\ ~(n - k <= MaxLine)
            BY <1>1, <2>4, SizesFacts
        <3>2. c.x = n - MaxLine - 1 /\ f[MaxLine] = NL
            BY <2>1, <3>1 DEF Ends
        <3>3. b.x = (n - k) - MaxLine - 1
            BY <1>1, <2>4, <3>2, SizesFacts
        <3> QED
            BY <1>3, <2>4, <3>1, <3>2, <3>3 DEF Ends
    <2> QED
        BY <1>4, <2>3, <2>4
<1>5. new \in Begins
    BY BeginsFacts DEF AtCursor
<1> QED
    BY <1>2, <1>3, <1>4, <1>5 DEF AtCursor

(* Where the line is said to have begun after a backspace from index o, by  *)
(* which n characters are left and the cursor is in column x.               *)
Back(o, n, x, st) ==
    IF n = 0 THEN StartIn(x)
    ELSE IF o >= MaxLine /\ n <= MaxLine /\ (st # 0 \/ n = MaxLine) THEN Lost
    ELSE st

LEMMA ErasedAtCursor ==
    ASSUME cur_terminal \in Terms, NEW e, Good(e), e.idx # MaxLine,
           NEW c, NEW st, AtCursor(Of(e), e.idx, c, st), NEW o,
           \/ o = e.idx
           \/ o = MaxLine /\ e.idx = MaxLine + 1 /\ e.nlf = TRUE /\ Of(e)[MaxLine] = NL,
           EraseRoom(c, e)
    PROVE  AtCursor(Of(Erased(e)), Erased(e).idx, ErasedAt(c, e),
                    Back(o, Erased(e).idx, ErasedAt(c, e).x, st))
<1> DEFINE r == Erased(e)
           n == e.idx
           f == Of(e)
           g == Of(r)
           b == ErasedAt(c, e)
           last == f[n - 1]
<1> SUFFICES AtCursor(g, r.idx, b, Back(o, r.idx, b.x, st))
    OBVIOUS
<1>1. e \in Edits /\ n \in Places /\ n \in Nat /\ f \in RowTexts /\ n < BufferSize /\ n # MaxLine
    BY EditFacts
<1>2. c \in Spots /\ c.x \in Int /\ c.y \in Int /\ st \in Begins
    BY ScreenFacts DEF AtCursor, Spots, Columns, ScreenYs
<1>3. CASE n = 0
    <2>1. r = e /\ b = c
        BY <1>3 DEF Erased, ErasedAt
    <2>2. AtCursor(f, 0, c, StartIn(c.x))
        BY <1>2, StartOver
    <2> QED
        BY <1>3, <2>1, <2>2 DEF Back
<1>4. CASE n # 0
    <2>1. last = e.buf[Cell(cur_terminal, n - 1)]
        <3>1. n - 1 \in Places
            BY <1>1, <1>4, SizesFacts DEF Places
        <3> QED
            BY <3>1, EditFacts, RowTyped DEF Of
    <2>2. AtCursor(f, n, c, st)
        OBVIOUS
    <2>3. o = n \/ (o = MaxLine /\ n = MaxLine + 1 /\ e.nlf = TRUE /\ last = NL)
        <3>1. e.idx = MaxLine + 1 => e.idx - 1 = MaxLine
            BY SizesFacts
        <3>2. e.idx = MaxLine + 1 => last = Of(e)[MaxLine]
            BY <3>1
        <3> HIDE DEF last
        <3> QED
            BY <3>2
    <2>4. CASE e.nlf /\ last = NL
        <3>1. n = MaxLine + 1 /\ Cut(e, r, 2)
            BY <1>4, <2>4, ErasedCut DEF Of
        <3>2. b = [x |-> MaxLine - 1, y |-> c.y - 1]
            BY <1>4, <2>1, <2>4 DEF ErasedAt
        <3>3. /\ r.idx = MaxLine - 1 /\ n - 1 = MaxLine /\ n > MaxLine /\ f[MaxLine] = NL
              /\ MaxLine - 1 \in Places
            BY <2>4, <3>1, SizesFacts DEF Cut, Places
        <3>4. c.y >= 1 /\ c.y \in ScreenYs
            BY <1>2, <2>2, <3>3 DEF AtCursor, Spots
        <3>5. b \in Spots /\ b.x = MaxLine - 1
            BY <3>2, <3>4, ScreenFacts, SizesFacts DEF Spots, Columns, ScreenYs
        <3> HIDE DEF b, g, f, n, r
        <3>6. CASE MaxLine - 1 = 0
            BY <3>3, <3>5, <3>6, StartOver DEF Back
        <3>7. CASE MaxLine - 1 # 0
            <4>1. TabsWhole(g, MaxLine - 1)
                BY <3>3, WholeNone, SizesFacts
            <4>2. ~(MaxLine - 1 > MaxLine) /\ MaxLine - 1 <= MaxLine /\ MaxLine - 1 # MaxLine
                BY SizesFacts
            <4>3. o >= MaxLine
                BY <2>3, <3>1, SizesFacts
            <4>4. AtCursor(g, MaxLine - 1, b, Lost)
                BY <3>5, <4>1, <4>2, BeginsFacts DEF AtCursor
            <4>5. CASE st # 0
                BY <3>3, <3>7, <4>2, <4>3, <4>4, <4>5 DEF Back
            <4>6. CASE st = 0
                <5>1. (0 + (MaxLine - 1)) % Cols = MaxLine - 1
                    BY Remainder, ScreenFacts, SizesFacts
                <5>2. Ends(g, MaxLine - 1, b, 0)
                    BY <3>5, <4>2, <5>1 DEF Ends
                <5>3. AtCursor(g, MaxLine - 1, b, 0)
                    BY <1>2, <3>5, <4>1, <4>2, <4>6, <5>2 DEF AtCursor
                <5> QED
                    BY <3>3, <3>7, <4>2, <4>6, <5>3 DEF Back
            <4> QED
                BY <4>5, <4>6
        <3> QED
            BY <3>6, <3>7
    <2>5. CASE ~(e.nlf /\ last = NL) /\ last = TAB
        <3>1. n >= 4 /\ Cut(e, r, 4)
            BY <1>4, <2>5, ErasedCut DEF Of
        <3>2. b = StepBack(StepBack(StepBack(StepBack(c))))
            BY <1>4, <2>1, <2>5 DEF ErasedAt
        <3>3. r.idx = n - 4 /\ n - 4 \in Places /\ \A i \in 0..(n - 4 - 1) : g[i] = f[i]
            BY <3>1 DEF Cut, Edits, Of
        <3>4. b \in Spots /\ b.y = c.y /\ (c.x >= 4 - 1 => b.x = c.x - 4)
            <4>1. /\ Room(c) /\ Room(StepBack(c)) /\ Room(StepBack(StepBack(c)))
                  /\ Room(StepBack(StepBack(StepBack(c))))
                BY <1>4, <2>1, <2>5 DEF EraseRoom
            <4> QED
                BY <1>2, <3>2, <4>1, FourBack
        <3>5. o = n /\ last = TAB
            BY <2>3, <2>5
        <3> HIDE DEF b, g, f, n, r
        <3>6. TabsWhole(f, n - 4)
            BY <1>1, <2>2, <3>1, <3>5, WholeEraseTab DEF AtCursor
        <3>7. CASE n - 4 = 0
            BY <3>3, <3>4, <3>7, StartOver DEF Back
        <3>8. CASE n - 4 # 0
            <4> DEFINE new == IF o >= MaxLine /\ n - 4 <= MaxLine /\ (st # 0 \/ n - 4 = MaxLine) THEN Lost ELSE st
            <4>1. new = Lost \/ (new = st /\ (n < MaxLine \/ n - 4 > MaxLine))
                <5>1. ASSUME n > MaxLine, n - 4 < MaxLine, st = 0 PROVE FALSE
                    <6>1. f[MaxLine] = NL
                        BY <2>2, <5>1 DEF AtCursor, Ends, Lost
                    <6>2. n - 4 >= MaxLine
                        BY <1>1, <2>2, <3>5, <5>1, <6>1, BreakStays DEF AtCursor
                    <6> QED
                        BY <1>1, <5>1, <6>2, SizesFacts
                <5>2. n < MaxLine \/ n - 4 > MaxLine \/ n - 4 = MaxLine \/ (n > MaxLine /\ n - 4 < MaxLine)
                    BY <1>1, SizesFacts
                <5>3. n - 4 = MaxLine => n >= MaxLine /\ n - 4 <= MaxLine
                    BY <1>1, SizesFacts
                <5>4. n > MaxLine /\ n - 4 < MaxLine => n >= MaxLine /\ n - 4 <= MaxLine
                    BY <1>1, SizesFacts
                <5> QED
                    BY <3>5, <5>1, <5>2, <5>3, <5>4
            <4>2. Back(o, r.idx, b.x, st) = new
                BY <3>3, <3>8 DEF Back
            <4> HIDE DEF new
            <4>3. AtCursor(g, n - 4, b, new)
                <5> DEFINE k == 4
                <5>1. k \in 1..4 /\ n - k \in Places /\ TabsWhole(f, n - k)
                    BY <3>3, <3>6
                <5>2. \A i \in 0..(n - k - 1) : g[i] = f[i]
                    BY <3>3
                <5>3. c.x >= k - 1 => b.x = c.x - k
                    BY <3>4
                <5>4. new = Lost \/ (new = st /\ (n < MaxLine \/ n - k > MaxLine))
                    BY <4>1
                <5> HIDE DEF k
                <5>5. n \in Places /\ AtCursor(f, n, c, st) /\ b \in Spots /\ b.y = c.y
                    BY <1>1, <2>2, <3>4
                <5>6. AtCursor(g, n - k, b, new)
                    BY <5>1, <5>2, <5>3, <5>4, <5>5, BackAtCursor
                <5> QED
                    BY <5>6 DEF k
            <4> QED
                BY <3>3, <4>2, <4>3
        <3> QED
            BY <3>7, <3>8
    <2>6. CASE ~(e.nlf /\ last = NL) /\ last # TAB
        <3>1. Cut(e, r, 1)
            BY <1>4, <2>6, ErasedCut DEF Of
        <3>2. b = StepBack(c)
            BY <1>4, <2>1, <2>6 DEF ErasedAt
        <3>3. r.idx = n - 1 /\ n - 1 \in Places /\ \A i \in 0..(n - 1 - 1) : g[i] = f[i]
            BY <3>1 DEF Cut, Edits, Of
        <3>4. b \in Spots /\ b.y = c.y /\ (c.x >= 1 - 1 => b.x = c.x - 1)
            <4>1. Room(c)
                BY <1>4, <2>1, <2>6 DEF EraseRoom
            <4> QED
                BY <1>2, <3>2, <4>1, StepBackSpot
        <3>5. o = n /\ last # TAB
            BY <2>3, <2>6
        <3> HIDE DEF b, g, f, n, r
        <3>6. TabsWhole(f, n - 1)
            BY <1>1, <1>4, <2>2, <3>5, WholeErase DEF AtCursor
        <3>7. CASE n - 1 = 0
            BY <3>3, <3>4, <3>7, StartOver DEF Back
        <3>8. CASE n - 1 # 0
            <4> DEFINE new == IF o >= MaxLine /\ n - 1 <= MaxLine /\ (st # 0 \/ n - 1 = MaxLine) THEN Lost ELSE st
            <4>1. new = Lost \/ (new = st /\ (n < MaxLine \/ n - 1 > MaxLine))
                <5>1. n < MaxLine \/ n - 1 > MaxLine \/ (n - 1 = MaxLine /\ n >= MaxLine /\ n - 1 <= MaxLine)
                    BY <1>1, SizesFacts
                <5> QED
                    BY <3>5, <5>1
            <4>2. Back(o, r.idx, b.x, st) = new
                BY <3>3, <3>8 DEF Back
            <4> HIDE DEF new
            <4>3. AtCursor(g, n - 1, b, new)
                BY <1>1, <2>2, <3>3, <3>4, <3>6, <4>1, BackAtCursor
            <4> QED
                BY <3>3, <4>2, <4>3
        <3> QED
            BY <3>7, <3>8
    <2> QED
        BY <2>4, <2>5, <2>6
<1> QED
    BY <1>3, <1>4

(***************************************************************************)
(* The invariant, and the steps of the system.                             *)
(***************************************************************************)
AtLine(t) == AtCursor(Row(keyboard_buffer, t), keyboard_index[t], Cursor(t), start[t])

EchoInv ==
    /\ IInv
    /\ screen_x \in [Terms -> Columns] /\ screen_y \in [Terms -> ScreenYs]
    /\ start \in [Terms -> Begins]
    /\ \A t \in Terms : AtLine(t)

LEMMA CursorSpot ==
    ASSUME EchoInv, NEW t \in Terms
    PROVE  Cursor(t) \in Spots /\ Cursor(t).x = screen_x[t] /\ Cursor(t).y = screen_y[t]
<1>1. Cursor(t) \in Spots
    BY DEF EchoInv, AtLine, AtCursor
<1> QED
    BY <1>1 DEF Cursor

(* A step moves one cursor, and the rows of the others keep all but, maybe, *)
(* their first character.                                                   *)
LEMMA MoveKeeps ==
    ASSUME EchoInv, IInv', NEW t \in Terms, NEW c, NEW new, MoveTo(t, c),
           start' = [start EXCEPT ![t] = new],
           AtCursor(Row(keyboard_buffer', t), keyboard_index'[t], c, new),
           \A u \in Terms \ {t} :
               /\ keyboard_index'[u] = keyboard_index[u]
               /\ \A i \in 1..(BufferSize - 1) : Row(keyboard_buffer', u)[i] = Row(keyboard_buffer, u)[i]
    PROVE  EchoInv'
<1>1. c \in Spots /\ new \in Begins /\ c.x \in Columns /\ c.y \in ScreenYs /\ c = [x |-> c.x, y |-> c.y]
    BY DEF AtCursor, Spots
<1>2. /\ screen_x' \in [Terms -> Columns] /\ screen_y' \in [Terms -> ScreenYs]
      /\ start' \in [Terms -> Begins]
      /\ screen_x'[t] = c.x /\ screen_y'[t] = c.y /\ start'[t] = new
      /\ \A u \in Terms \ {t} : /\ screen_x'[u] = screen_x[u] /\ screen_y'[u] = screen_y[u]
                                /\ start'[u] = start[u]
    BY <1>1 DEF EchoInv, MoveTo
<1>3. ASSUME NEW u \in Terms
      PROVE  AtCursor(Row(keyboard_buffer', u), keyboard_index'[u],
                      [x |-> screen_x'[u], y |-> screen_y'[u]], start'[u])
    <2>1. CASE u = t
        BY <1>1, <1>2, <2>1
    <2>2. CASE u # t
        <3> DEFINE f == Row(keyboard_buffer, u)
                   g == Row(keyboard_buffer', u)
                   n == keyboard_index[u]
                   d == Cursor(u)
        <3>1. AtCursor(f, n, d, start[u])
            BY DEF EchoInv, AtLine
        <3>2. n \in Places /\ n \in Nat /\ n <= BufferSize - 1
            BY SizesFacts DEF EchoInv, IInv, InputTypeOK, Places
        <3>3. \A i \in 1..(BufferSize - 1) : g[i] = f[i]
            BY <2>2
        <3>4. keyboard_index'[u] = n /\ start'[u] = start[u] /\ d = [x |-> screen_x'[u], y |-> screen_y'[u]]
            BY <1>2, <2>2 DEF Cursor
        <3> HIDE DEF f, g, n, d
        <3>5. \A i \in 1..(n - 1) : g[i] = f[i]
            BY <3>2, <3>3, SizesFacts
        <3>6. AtCursor(g, n, d, start[u])
            BY <3>1, <3>2, <3>5, SameAtCursor
        <3> QED
            BY <3>4, <3>6 DEF g
    <2> QED
        BY <2>1, <2>2
<1>4. \A u \in Terms : AtLine(u)'
    BY <1>3 DEF AtLine, Row, Cursor
<1> QED
    BY <1>2, <1>4 DEF EchoInv

LEMMA StoredRows ==
    ASSUME IInv, NEW e, Good(e), Store(e)
    PROVE  /\ Row(keyboard_buffer', cur_terminal) = Of(e) /\ keyboard_index'[cur_terminal] = e.idx
           /\ \A u \in Terms \ {cur_terminal} :
                 /\ keyboard_index'[u] = keyboard_index[u]
                 /\ \A i \in 1..(BufferSize - 1) : Row(keyboard_buffer', u)[i] = Row(keyboard_buffer, u)[i]
<1>1. /\ keyboard_buffer' = e.buf /\ keyboard_index' = [keyboard_index EXCEPT ![cur_terminal] = e.idx]
      /\ keyboard_index \in [Terms -> Places] /\ cur_terminal \in Terms
    BY DEF Store, IInv, InputTypeOK, Places
<1>2. \A u \in Terms \ {cur_terminal} : Row(e.buf, u) = Row(keyboard_buffer, u)
    BY DEF Good
<1> QED
    BY <1>1, <1>2 DEF Of

(* The terminator of a full line goes to the first place of the next row.   *)
LEMMA EnteredRows ==
    ASSUME IInv, Store(Entered(Line))
    PROVE  /\ keyboard_index'[cur_terminal] = 0
           /\ \A u \in Terms \ {cur_terminal} :
                 /\ keyboard_index'[u] = keyboard_index[u]
                 /\ \A i \in 1..(BufferSize - 1) : Row(keyboard_buffer', u)[i] = Row(keyboard_buffer, u)[i]
<1> DEFINE c  == cur_terminal
           n  == keyboard_index[cur_terminal]
           b1 == [keyboard_buffer EXCEPT ![Cell(c, n)] = NL]
           b2 == [b1 EXCEPT ![Cell(c, n + 1)] = NUL]
<1>1. /\ keyboard_buffer \in Buffers /\ c \in Terms /\ n \in Places /\ n \in 0..BufferSize
      /\ n + 1 \in 0..BufferSize /\ n \in Nat /\ n < BufferSize
      /\ keyboard_index \in [Terms -> Places]
    BY SizesFacts DEF IInv, InputTypeOK, Buffers, Places
<1>2. keyboard_buffer' = b2 /\ keyboard_index' = [keyboard_index EXCEPT ![c] = 0]
    BY DEF Store, Entered, Put, Line
<1>3. Cell(c, n) \in Cells /\ Cell(c, n + 1) \in Cells
    BY <1>1, CellFacts
<1>4. b1 \in Buffers /\ b2 \in Buffers
    BY <1>1, CharsFacts DEF Buffers
<1>5. \A i \in Cells : i # Cell(c, n) /\ i # Cell(c, n + 1) => b2[i] = keyboard_buffer[i]
    BY <1>1, <1>3, <1>4 DEF Buffers
<1> HIDE DEF b1, b2
<1>6. ASSUME NEW u \in Terms \ {c}, NEW i \in 1..(BufferSize - 1)
      PROVE  Row(b2, u)[i] = Row(keyboard_buffer, u)[i]
    <2>1. i \in Places /\ i # 0 /\ i \in 0..BufferSize
        BY SizesFacts DEF Places
    <2>2. Cell(u, i) \in Cells
        BY <2>1, CellFacts
    <2>3. Cell(u, i) # Cell(c, n)
        BY <1>1, <2>1, CellFacts
    <2>4. Cell(u, i) # Cell(c, n + 1)
        <3>1. CASE n + 1 < BufferSize
            BY <1>1, <2>1, <3>1, CellFacts
        <3>2. CASE n + 1 = BufferSize
            BY <1>1, <2>1, <3>2, CellFacts
        <3> QED
            BY <1>1, <3>1, <3>2, SizesFacts
    <2>5. b2[Cell(u, i)] = keyboard_buffer[Cell(u, i)]
        BY <1>5, <2>2, <2>3, <2>4
    <2> QED
        BY <1>1, <1>4, <2>1, <2>5, RowTyped
<1> QED
    BY <1>1, <1>2, <1>6

LEMMA HomeSpot == ASSUME NEW base PROVE Home(base) \in Spots
BY ScreenFacts, SizesFacts DEF Home, Spots, Columns, ScreenYs

(* A new line, or one that goes on from where it began.                     *)
LEMMA BeginsAgain ==
    ASSUME NEW f, NEW n, NEW c, NEW st, AtCursor(f, n, c, st)
    PROVE  AtCursor(f, n, c, IF n = 0 THEN StartIn(c.x) ELSE st)
<1>1. c \in Spots
    BY DEF AtCursor
<1> QED
    BY <1>1, StartOver

(* The keys but Enter: the line they leave, where the cursor stands then,   *)
(* and where the line is said to have begun.                                *)
LEMMA EditedAtCursor ==
    ASSUME EchoInv, NEW k \in Keys, k # "enter", NEW base, k = "backspace" => Reached
    PROVE  LET s  == Edited(k, Fits(BrokenAt(Cursor(cur_terminal), Line)))
               p  == After(k, base)
               st == start[cur_terminal]
           IN  /\ Good(s)
               /\ AtCursor(Of(s), s.idx, p,
                           IF k = "backspace" THEN Back(keyboard_index[cur_terminal], s.idx, p.x, st)
                           ELSE IF s.idx = 0 THEN StartIn(p.x) ELSE st)
<1> DEFINE t  == cur_terminal
           l  == Line
           c  == BrokenAt(Cursor(t), l)
           e  == Broken(l)
           st == start[t]
           s  == Edited(k, Fits(c))
           p  == After(k, base)
<1> SUFFICES /\ Good(s)
             /\ AtCursor(Of(s), s.idx, p,
                         IF k = "backspace" THEN Back(keyboard_index[t], s.idx, p.x, st)
                         ELSE IF s.idx = 0 THEN StartIn(p.x) ELSE st)
    OBVIOUS
<1>1. t \in Terms /\ Good(l) /\ k \in KeyNames
    BY InputAssumption, LineGood DEF EchoInv, IInv, InputTypeOK
<1>2. Of(l) = Row(keyboard_buffer, t) /\ l.idx = keyboard_index[t]
    BY DEF Of, Line
<1>3. AtCursor(Of(l), l.idx, Cursor(t), st)
    BY <1>1, <1>2 DEF EchoInv, AtLine
<1>4. Good(e)
    BY <1>1, BrokenGood
<1>5. /\ AtCursor(Of(e), e.idx, c, st) /\ e.idx # MaxLine
      /\ \/ l.idx # MaxLine /\ e = l
         \/ /\ l.idx = MaxLine /\ e.idx = MaxLine + 1
            /\ e.nlf = TRUE /\ Of(e)[MaxLine] = NL
    BY <1>1, <1>3, BrokenAtCursor
<1>6. CASE k = "letter"
    <2>1. s = Typed(e) /\ p = TypedAt(c, e)
        BY <1>6 DEF Edited, After
    <2>2. Good(s) /\ AtCursor(Of(s), s.idx, p, st)
        BY <1>1, <1>4, <1>5, <2>1, TypedGood, TypedAtCursor
    <2> HIDE DEF s, p, st
    <2> QED
        BY <1>6, <2>2, BeginsAgain
<1>7. CASE k = "tab"
    <2>1. s = Tabbed(e, Fits(c)) /\ p = TabbedAt(c, e)
        BY <1>7 DEF Edited, After
    <2>2. Good(s) /\ AtCursor(Of(s), s.idx, p, st)
        BY <1>1, <1>4, <1>5, <2>1, TabbedGood, TabbedAtCursor
    <2> HIDE DEF s, p, st
    <2> QED
        BY <1>7, <2>2, BeginsAgain
<1>8. CASE k = "backspace"
    <2>1. s = Erased(e) /\ p = ErasedAt(c, e)
        BY <1>8 DEF Edited, After
    <2>2. \/ l.idx = e.idx
          \/ l.idx = MaxLine /\ e.idx = MaxLine + 1 /\ e.nlf = TRUE /\ Of(e)[MaxLine] = NL
        BY <1>5
    <2>3. Good(s) /\ EraseRoom(c, e)
        BY <1>1, <1>4, <1>8, <2>1, ErasedGood DEF Reached
    <2>4. AtCursor(Of(s), s.idx, p, Back(l.idx, s.idx, p.x, st))
        <3> HIDE DEF e, c, st, l
        <3> QED
            BY <1>1, <1>4, <1>5, <2>1, <2>2, <2>3, ErasedAtCursor
    <2> QED
        BY <1>2, <1>8, <2>3, <2>4
<1>9. CASE k = "clear"
    <2>1. s = Cleared(e) /\ p = Home(base)
        BY <1>9 DEF Edited, After
    <2>2. Good(s)
        BY <1>1, <1>4, <2>1, ClearedGood
    <2>3. s.idx = 0
        <3>1. e \in Edits
            BY <1>4 DEF Good
        <3> QED
            BY <2>1, <3>1 DEF Cleared, Edits
    <2>4. AtCursor(Of(s), 0, p, StartIn(p.x))
        BY <2>1, HomeSpot, StartOver
    <2> QED
        BY <1>9, <2>2, <2>3, <2>4
<1>10. CASE k = "release"
    <2>1. s = e /\ p = c
        BY <1>10 DEF Edited, After
    <2>2. Good(s) /\ AtCursor(Of(s), s.idx, p, st)
        BY <1>4, <1>5, <2>1
    <2> HIDE DEF s, p, st
    <2> QED
        BY <1>10, <2>2, BeginsAgain
<1> QED
    BY <1>1, <1>6, <1>7, <1>8, <1>9, <1>10 DEF KeyNames

LEMMA EchoKeyKeeps ==
    ASSUME EchoInv, NEW k \in Keys, NEW base \in BOOLEAN, EchoKey(k, base)
    PROVE  EchoInv'
<1> DEFINE t   == cur_terminal
           fit == Fits(BrokenAt(Cursor(t), Line))
           p   == After(k, base)
           new == Starts(t, k)
<1>1. IInv /\ t \in Terms /\ k \in KeyNames
    BY InputAssumption DEF EchoInv, IInv, InputTypeOK
<1>2. /\ Key(k, fit) /\ MoveTo(t, p) /\ start' = [start EXCEPT ![t] = new]
      /\ k = "backspace" => Reached
    BY DEF EchoKey
<1>3. IInv'
    <2> HIDE DEF fit
    <2> QED
        BY <1>1, <1>2, KeyKeeps
<1>4. screen_x'[t] = p.x
    <2> HIDE DEF p
    <2> QED
        BY <1>1, <1>2 DEF MoveTo, EchoInv
<1>5. CASE k = "enter"
    <2>1. Store(Entered(Line)) /\ p = NewLine(Cursor(t))
        BY <1>2, <1>5 DEF Key, Edited, After
    <2>2. /\ keyboard_index'[t] = 0
          /\ \A u \in Terms \ {t} :
                /\ keyboard_index'[u] = keyboard_index[u]
                /\ \A i \in 1..(BufferSize - 1) : Row(keyboard_buffer', u)[i] = Row(keyboard_buffer, u)[i]
        BY <1>1, <2>1, EnteredRows
    <2>3. p \in Spots
        BY <1>1, <2>1, CursorSpot, NewLineSpot
    <2>4. new = StartIn(p.x)
        BY <1>4, <2>2 DEF Starts
    <2> HIDE DEF p, new
    <2>5. AtCursor(Row(keyboard_buffer', t), keyboard_index'[t], p, new)
        BY <2>2, <2>3, <2>4, StartOver
    <2> QED
        BY <1>1, <1>2, <1>3, <2>2, <2>5, MoveKeeps
<1>6. CASE k # "enter"
    <2> DEFINE s  == Edited(k, fit)
               st == start[t]
    <2>1. /\ Good(s)
          /\ AtCursor(Of(s), s.idx, p,
                      IF k = "backspace" THEN Back(keyboard_index[t], s.idx, p.x, st)
                      ELSE IF s.idx = 0 THEN StartIn(p.x) ELSE st)
        BY <1>2, <1>6, EditedAtCursor
    <2>2. Store(s)
        BY <1>2 DEF Key
    <2> HIDE DEF s
    <2>3. /\ Row(keyboard_buffer', t) = Of(s) /\ keyboard_index'[t] = s.idx
          /\ \A u \in Terms \ {t} :
                /\ keyboard_index'[u] = keyboard_index[u]
                /\ \A i \in 1..(BufferSize - 1) : Row(keyboard_buffer', u)[i] = Row(keyboard_buffer, u)[i]
        BY <1>1, <2>1, <2>2, StoredRows
    <2>4. new = IF k = "backspace" THEN Back(keyboard_index[t], s.idx, p.x, st)
                ELSE IF s.idx = 0 THEN StartIn(p.x) ELSE st
        <3> HIDE DEF p
        <3> QED
            BY <1>4, <2>3 DEF Starts, Back
    <2> HIDE DEF p, new, st
    <2>5. AtCursor(Row(keyboard_buffer', t), keyboard_index'[t], p, new)
        BY <2>1, <2>3, <2>4
    <2> QED
        BY <1>1, <1>2, <1>3, <2>3, <2>5, MoveKeeps
<1> QED
    BY <1>5, <1>6

LEMMA EchoSelectKeeps ==
    ASSUME EchoInv, NEW sel \in Terms, EchoSelect(sel)
    PROVE  EchoInv'
<1> DEFINE t  == cur_terminal
           e  == Broken(Line)
           c  == BrokenAt(Cursor(t), Line)
           st == start[t]
<1>1. IInv /\ t \in Terms /\ Good(Line) /\ start \in [Terms -> Begins]
    BY LineGood DEF EchoInv, IInv, InputTypeOK
<1>2. SelectTerminal(sel) /\ Store(e) /\ MoveTo(t, c) /\ start' = [start EXCEPT ![t] = st]
    BY <1>1 DEF EchoSelect, SelectTerminal
<1>3. IInv' /\ Good(e)
    BY <1>1, <1>2, SelectKeeps, BrokenGood
<1>4. AtCursor(Of(Line), Line.idx, Cursor(t), st)
    BY <1>1 DEF EchoInv, AtLine, Of, Line
<1>5. AtCursor(Of(e), e.idx, c, st)
    BY <1>1, <1>4, BrokenAtCursor
<1> HIDE DEF e, c, st
<1>6. /\ Row(keyboard_buffer', t) = Of(e) /\ keyboard_index'[t] = e.idx
      /\ \A u \in Terms \ {t} :
            /\ keyboard_index'[u] = keyboard_index[u]
            /\ \A i \in 1..(BufferSize - 1) : Row(keyboard_buffer', u)[i] = Row(keyboard_buffer, u)[i]
    BY <1>1, <1>2, <1>3, StoredRows
<1>7. AtCursor(Row(keyboard_buffer', t), keyboard_index'[t], c, st)
    BY <1>5, <1>6
<1> QED
    BY <1>1, <1>2, <1>3, <1>6, <1>7, MoveKeeps

LEMMA OutputKeeps ==
    ASSUME EchoInv, NEW t \in Terms, Output(t)
    PROVE  EchoInv'
<1> DEFINE f == Row(keyboard_buffer, t)
           n == keyboard_index[t]
           d == Cursor(t)
<1>1. PICK c \in {NewLine(d), PutChar(d)} : MoveTo(t, c)
    BY DEF Output
<1>2. UNCHANGED vars /\ IInv /\ IInv'
    BY NextKeeps DEF Output, EchoInv
<1>3. /\ keyboard_buffer' = keyboard_buffer /\ keyboard_index' = keyboard_index
      /\ Row(keyboard_buffer', t) = f /\ \A u \in Terms : Row(keyboard_buffer', u) = Row(keyboard_buffer, u)
    BY <1>2 DEF vars, Row
<1>4. AtCursor(f, n, d, start[t]) /\ d \in Spots
    BY DEF EchoInv, AtLine, AtCursor
<1>5. screen_x'[t] = c.x
    BY <1>1 DEF MoveTo, EchoInv
<1> DEFINE new == IF n = 0 THEN StartIn(c.x) ELSE Lost
<1>6. start' = [start EXCEPT ![t] = new]
    BY <1>5 DEF Output
<1> HIDE DEF f, n, d
<1>7. c \in Spots /\ (c.y = d.y \/ c.y >= 1)
    BY <1>1, <1>4, NewLineSpot, PutCharSpot
<1>8. AtCursor(f, n, c, Lost)
    <2>1. d.y >= 1 => c.y >= 1
        BY <1>7
    <2> QED
        BY <1>4, <1>7, <2>1, BeginsFacts DEF AtCursor
<1>9. AtCursor(f, n, c, new)
    BY <1>8, BeginsAgain
<1> HIDE DEF new
<1>10. AtCursor(Row(keyboard_buffer', t), keyboard_index'[t], c, new)
    BY <1>3, <1>9 DEF n
<1>11. \A u \in Terms \ {t} :
          /\ keyboard_index'[u] = keyboard_index[u]
          /\ \A i \in 1..(BufferSize - 1) : Row(keyboard_buffer', u)[i] = Row(keyboard_buffer, u)[i]
    BY <1>3
<1> QED
    BY <1>1, <1>2, <1>6, <1>10, <1>11, MoveKeeps

LEMMA EchoInitInv == EchoInit => EchoInv
<1> SUFFICES ASSUME EchoInit PROVE EchoInv
    OBVIOUS
<1>1. IInv /\ \A t \in Terms : keyboard_index[t] = 0
    BY InitInv DEF EchoInit, Init
<1>2. 0 \in Columns /\ 0 \in ScreenYs /\ 0 \in Begins /\ StartIn(0) = 0
    BY ScreenFacts, SizesFacts DEF Columns, ScreenYs, Begins, StartIn
<1>3. /\ screen_x \in [Terms -> Columns] /\ screen_y \in [Terms -> ScreenYs]
      /\ start \in [Terms -> Begins]
    BY <1>2 DEF EchoInit
<1>4. ASSUME NEW t \in Terms PROVE AtLine(t)
    <2> DEFINE c == Cursor(t)
    <2>1. c \in Spots /\ c.x = 0 /\ start[t] = 0
        BY <1>2 DEF EchoInit, Cursor, Spots
    <2> HIDE DEF c
    <2>2. AtCursor(Row(keyboard_buffer, t), 0, c, StartIn(c.x))
        BY <2>1, StartOver
    <2> QED
        BY <1>1, <1>2, <2>1, <2>2 DEF AtLine, c
<1> QED
    BY <1>1, <1>3, <1>4 DEF EchoInv

LEMMA StillKeeps ==
    ASSUME EchoInv, UNCHANGED <<vars, cursors>>
    PROVE  EchoInv'
<1>1. UNCHANGED vars /\ UNCHANGED <<screen_x, screen_y, start>>
    BY DEF cursors
<1>2. IInv'
    BY <1>1, NextKeeps DEF EchoInv
<1>3. ASSUME NEW t \in Terms PROVE AtLine(t)'
    <2>1. AtLine(t)
        BY DEF EchoInv
    <2> QED
        BY <1>1, <2>1 DEF vars, AtLine, Row, Cursor
<1> QED
    BY <1>1, <1>2, <1>3 DEF EchoInv

LEMMA EchoNextKeeps == EchoInv /\ [EchoNext]_echoVars => EchoInv'
<1> SUFFICES ASSUME EchoInv, [EchoNext]_echoVars PROVE EchoInv'
    OBVIOUS
<1>1. CASE EchoFault \/ UNCHANGED echoVars
    BY <1>1, StillKeeps DEF EchoFault, echoVars
<1>2. CASE EchoNext /\ ~EchoFault
    BY <1>2, EchoKeyKeeps, EchoSelectKeeps, OutputKeeps DEF EchoNext
<1> QED
    BY <1>1, <1>2

(***************************************************************************)
(* The theorems.                                                           *)
(***************************************************************************)

(* Whatever is typed and printed, in whatever order, putc is called with    *)
(* the cursor on a cell of its terminal's screen: the cursor goes up only   *)
(* from behind a break, which took it down, the tabs behind a break are     *)
(* erased without it, and left of the first cell only the step back of a    *)
(* backspace goes, which stops the machine (keyboard.c:180-232).            *)
THEOREM AlwaysCursorBounded == EchoSpec => []CursorBounded
<1>1. EchoInv => CursorBounded
    <2> SUFFICES ASSUME EchoInv, NEW t \in Terms
                 PROVE  /\ Place(Cursor(t)) \in 0..(Rows * Cols - 1)
                        /\ screen_y[t] \in 0..(Rows - 1)
                        /\ screen_x[t] \in (-Cols)..(Cols - 1)
        BY DEF CursorBounded
    <2> QED
        BY CursorSpot, PlaceSpot DEF EchoInv, Columns, ScreenYs
<1> QED
    BY EchoInitInv, EchoNextKeeps, <1>1, PTL DEF EchoSpec

(* Every key of keyboard_handler moves the cursor as far as the index, so   *)
(* that until a program prints, the cursor is where the line ends.          *)
THEOREM AlwaysCursorTracksLine == EchoSpec => []CursorTracksLine
<1>1. EchoInv => CursorTracksLine
    <2> SUFFICES ASSUME EchoInv, NEW t \in Terms, start[t] # Lost
                 PROVE  screen_x[t] = IF keyboard_index[t] <= MaxLine
                                      THEN (start[t] + keyboard_index[t]) % Cols
                                      ELSE keyboard_index[t] - MaxLine - 1
        BY DEF CursorTracksLine
    <2>1. AtCursor(Row(keyboard_buffer, t), keyboard_index[t], Cursor(t), start[t])
        BY DEF EchoInv, AtLine
    <2> QED
        BY <2>1, CursorSpot DEF AtCursor, Ends
<1> QED
    BY EchoInitInv, EchoNextKeeps, <1>1, PTL DEF EchoSpec

(* The cursor only decides which tabs fit (keyboard.c:157): the lines of    *)
(* Echo go as TerminalInput lets them go until the machine stops, if it     *)
(* does, and printing leaves them alone.                                    *)
THEOREM EchoEdits == EchoSpec => Spec
<1>1. EchoInit => Init
    BY DEF EchoInit
<1>2. [EchoNext]_echoVars => [Next]_vars
    <2> SUFFICES ASSUME [EchoNext]_echoVars PROVE Next \/ UNCHANGED vars
        OBVIOUS
    <2>1. ASSUME NEW k \in Keys, NEW base \in BOOLEAN, EchoKey(k, base) PROVE Next
        <3> DEFINE fit == Fits(BrokenAt(Cursor(cur_terminal), Line))
        <3>1. fit \in BOOLEAN /\ Key(k, fit)
            BY <2>1 DEF EchoKey, Fits
        <3> HIDE DEF fit
        <3> QED
            BY <3>1 DEF Next
    <2>2. ASSUME NEW sel \in Terms, EchoSelect(sel) PROVE Next
        BY <2>2 DEF EchoSelect, Next
    <2>3. ASSUME NEW t \in Terms, Output(t) PROVE UNCHANGED vars
        BY <2>3 DEF Output
    <2>4. EchoFault \/ UNCHANGED echoVars => UNCHANGED vars
        BY DEF EchoFault, echoVars
    <2> QED
        BY <2>1, <2>2, <2>3, <2>4 DEF EchoNext
<1> QED
    BY <1>1, <1>2, PTL DEF EchoSpec, Spec
=============================================================================
