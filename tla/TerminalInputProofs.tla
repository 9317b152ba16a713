------------------------ MODULE TerminalInputProofs ------------------------
(* The line editor keeps its index in the row and its lines whole, for all  *)
(* sizes of the row and places of the break that cut no tab in a way        *)
(* backspace could not cope with.                                           *)
EXTENDS TerminalInput, WellFoundedInduction, SequenceTheorems, TLAPS

(***************************************************************************)
(* Runs of tabs.  A row f holds a line of n characters.  Backspace erases  *)
(* four characters of a run of tabs at a time, and if the run has fewer,   *)
(* some of those before it.  A run from s to e - 1 fits if e % 4 <= s % 4: *)
(* then there are that many before it.                                     *)
(***************************************************************************)
Places == 0..(BufferSize - 1)
RowTexts == [Places -> Chars]

Tabs(f, s, e) == \A i \in s..(e - 1) : f[i] = TAB

IsRun(f, n, s, e) ==
    /\ s < e /\ Tabs(f, s, e)
    /\ s = 0 \/ f[s - 1] # TAB
    /\ e = n \/ f[e] # TAB

TabsFit(f, n) == \A s, e \in 0..n : IsRun(f, n, s, e) => e % 4 <= s % 4

LEMMA SizesFacts ==
    /\ BufferSize \in Nat /\ MaxLine \in Nat /\ MaxLine >= 1 /\ MaxLine + 2 <= BufferSize
    /\ NumTerminals \in Nat \ {0}
BY InputAssumption

LEMMA Least ==
    ASSUME NEW S \in SUBSET Nat, S # {}
    PROVE  \E d \in S : \A e \in S : d <= e
<1>1. \E d \in S : \A e \in S : ~(<<e, d>> \in OpToRel(<, Nat))
  BY NatLessThanWellFounded, WFMin
<1>2. ASSUME NEW d \in Nat, NEW e \in Nat, ~(<<e, d>> \in OpToRel(<, Nat))
      PROVE  d <= e
  <2>1. ASSUME e < d PROVE <<e, d>> \in OpToRel(<, Nat)
    BY <2>1 DEF OpToRel
  <2>2. ~(e < d)
    BY <1>2, <2>1, Zenon
  <2> QED BY <2>2
<1> QED BY <1>1, <1>2

(* Every tab is in a run, ...                                               *)
LEMMA RunStart ==
    ASSUME NEW f \in RowTexts, NEW n \in Places, n > 0, f[n - 1] = TAB
    PROVE  \E s \in 0..(n - 1) : Tabs(f, s, n) /\ (s = 0 \/ f[s - 1] # TAB)
<1> DEFINE S == {s \in 0..(n - 1) : Tabs(f, s, n)}
<1>1. n \in Nat /\ n - 1 \in S
    BY SizesFacts DEF Places, Tabs
<1>2. PICK s \in S : \A m \in S : s <= m
    <2>1. S \in SUBSET Nat /\ S # {}
        BY <1>1
    <2> HIDE DEF S
    <2> QED
        BY <2>1, Least
<1>3. ASSUME s # 0, f[s - 1] = TAB PROVE FALSE
    <2>1. s - 1 \in S
        BY <1>1, <1>2, <1>3 DEF Tabs
    <2> QED
        BY <1>1, <1>2, <2>1
<1> QED
    BY <1>2, <1>3

(* ... which ends somewhere.                                                *)
LEMMA RunEnd ==
    ASSUME NEW f \in RowTexts, NEW n \in Places, NEW m \in 0..n
    PROVE  \E e \in m..n : Tabs(f, m, e) /\ (e = n \/ f[e] # TAB)
<1> DEFINE S == {e \in m..n : e = n \/ f[e] # TAB}
<1>1. n \in Nat /\ m \in Nat /\ n \in S
    BY SizesFacts DEF Places
<1>2. PICK e \in S : \A k \in S : e <= k
    <2>1. S \in SUBSET Nat /\ S # {}
        BY <1>1
    <2> HIDE DEF S
    <2> QED
        BY <2>1, Least
<1>3. Tabs(f, m, e)
    BY <1>1, <1>2 DEF Tabs
<1> QED
    BY <1>2, <1>3

(* What the handler does to the runs.                                       *)
LEMMA FitPut ==
    ASSUME NEW f \in RowTexts, NEW g \in RowTexts, NEW n \in Places, n + 1 \in Places, TabsFit(f, n),
           \A i \in 0..(n - 1) : g[i] = f[i], g[n] # TAB
    PROVE  TabsFit(g, n + 1)
<1> SUFFICES ASSUME NEW s \in 0..(n + 1), NEW e \in 0..(n + 1), IsRun(g, n + 1, s, e)
             PROVE  e % 4 <= s % 4
    BY DEF TabsFit
<1>1. n \in Nat /\ e # n + 1
    BY SizesFacts DEF Places, IsRun, Tabs
<1>2. s \in 0..n /\ e \in 0..n /\ IsRun(f, n, s, e)
    BY <1>1 DEF IsRun, Tabs
<1> QED
    BY <1>2 DEF TabsFit

LEMMA FitTab ==
    ASSUME NEW f \in RowTexts, NEW g \in RowTexts, NEW n \in Places, NEW d \in {3, 4},
           n + d \in Places, d = 3 => n % 4 # 0, TabsFit(f, n),
           \A i \in 0..(n - 1) : g[i] = f[i], \A i \in n..(n + d - 1) : g[i] = TAB
    PROVE  TabsFit(g, n + d)
<1> SUFFICES ASSUME NEW s \in 0..(n + d), NEW e \in 0..(n + d), IsRun(g, n + d, s, e)
             PROVE  e % 4 <= s % 4
    BY DEF TabsFit
<1>1. n \in Nat /\ s \in Nat /\ e \in Nat /\ s < e /\ e <= n + d
    BY SizesFacts DEF Places, IsRun
<1>2. CASE e < n
    <2>1. IsRun(f, n, s, e)
        BY <1>1, <1>2 DEF IsRun, Tabs
    <2> QED
        BY <1>1, <1>2, <2>1 DEF TabsFit
<1>3. CASE e >= n
    <2>1. e = n + d
        BY <1>1, <1>3 DEF IsRun
    <2>2. CASE s < n
        <3>1. IsRun(f, n, s, n)
            BY <1>1, <2>1, <2>2 DEF IsRun, Tabs
        <3>2. n % 4 <= s % 4
            BY <1>1, <2>2, <3>1 DEF TabsFit
        <3> QED
            BY <1>1, <2>1, <3>2
    <2>3. CASE s >= n
        <3>1. s = n
            BY <1>1, <2>1, <2>3 DEF IsRun
        <3> QED
            BY <1>1, <2>1, <3>1
    <2> QED
        BY <1>1, <2>2, <2>3
<1> QED
    BY <1>1, <1>2, <1>3

LEMMA FitErase ==
    ASSUME NEW f \in RowTexts, NEW n \in Places, n > 0, f[n - 1] # TAB, TabsFit(f, n)
    PROVE  TabsFit(f, n - 1)
<1> SUFFICES ASSUME NEW s \in 0..(n - 1), NEW e \in 0..(n - 1), IsRun(f, n - 1, s, e)
             PROVE  e % 4 <= s % 4
    BY DEF TabsFit
<1>1. s \in 0..n /\ e \in 0..n /\ IsRun(f, n, s, e)
    BY SizesFacts DEF Places, IsRun
<1> QED
    BY <1>1 DEF TabsFit

(* A break takes the character before it along, if need be of a tab.        *)
LEMMA FitEraseOne ==
    ASSUME NEW f \in RowTexts, NEW n \in Places, n % 4 # 0, TabsFit(f, n)
    PROVE  TabsFit(f, n - 1)
<1> SUFFICES ASSUME NEW s \in 0..(n - 1), NEW e \in 0..(n - 1), IsRun(f, n - 1, s, e)
             PROVE  e % 4 <= s % 4
    BY DEF TabsFit
<1>1. n \in Nat /\ n > 0 /\ s \in 0..n /\ e \in 0..n /\ s < e
    BY SizesFacts DEF Places, IsRun
<1>2. CASE e = n - 1 /\ f[n - 1] = TAB
    <2>1. IsRun(f, n, s, n)
        BY <1>1, <1>2 DEF IsRun, Tabs
    <2>2. n % 4 <= s % 4
        BY <1>1, <2>1 DEF TabsFit
    <2> QED
        BY <1>1, <1>2, <2>2
<1>3. CASE ~(e = n - 1 /\ f[n - 1] = TAB)
    <2>1. IsRun(f, n, s, e)
        BY <1>1, <1>3 DEF IsRun
    <2> QED
        BY <1>1, <2>1 DEF TabsFit
<1> QED
    BY <1>2, <1>3

LEMMA ModFour ==
    ASSUME NEW n \in Nat, NEW s \in Nat, NEW e \in Nat, NEW a \in Nat,
           n - 4 < e, e < s, s < n, n % 4 <= s % 4, e % 4 <= a % 4
    PROVE  (n - 4) % 4 <= a % 4
<1>1. PICK q \in Int, r \in 0..3 : n = 4 * q + r
    OBVIOUS
<1>2. n % 4 = r /\ (n - 4) % 4 = r
    BY <1>1
<1>3. CASE s = n - 1
    <2>1. r = 0
        BY <1>1, <1>2, <1>3
    <2> QED
        BY <1>2, <2>1
<1>4. CASE s = n - 2
    <2>1. r \in {0, 1} /\ e = n - 3
        BY <1>1, <1>2, <1>4
    <2>2. e % 4 = r + 1
        BY <1>1, <2>1
    <2> QED
        BY <1>2, <2>1, <2>2
<1> QED
    BY <1>3, <1>4

LEMMA FitEraseTab ==
    ASSUME NEW f \in RowTexts, NEW n \in Places, n > 0, f[n - 1] = TAB, TabsFit(f, n)
    PROVE  n >= 4 /\ TabsFit(f, n - 4)
<1>1. n \in Nat
    BY SizesFacts DEF Places
<1>2. PICK s \in 0..(n - 1) : Tabs(f, s, n) /\ (s = 0 \/ f[s - 1] # TAB)
    BY RunStart
<1>3. n % 4 <= s % 4
    BY <1>1, <1>2 DEF TabsFit, IsRun
<1>4. n >= 4
    BY <1>1, <1>3
<1>5. TabsFit(f, n - 4)
    <2> SUFFICES ASSUME NEW a \in 0..(n - 4), NEW b \in 0..(n - 4), IsRun(f, n - 4, a, b)
                 PROVE  b % 4 <= a % 4
        BY DEF TabsFit
    <2>1. a \in 0..n /\ b \in 0..n /\ a < b
        BY <1>1, <1>4 DEF IsRun
    <2>2. CASE b # n - 4 \/ f[n - 4] # TAB
        <3>1. IsRun(f, n, a, b)
            BY <2>1, <2>2, <1>1, <1>4 DEF IsRun
        <3> QED
            BY <2>1, <3>1 DEF TabsFit
    <2>3. CASE b = n - 4 /\ f[n - 4] = TAB
        <3>1. PICK e \in b..n : Tabs(f, b, e) /\ (e = n \/ f[e] # TAB)
            BY <1>1, <2>1, RunEnd
        <3>2. e > b
            BY <1>1, <1>4, <2>3, <3>1
        <3>3. IsRun(f, n, a, e)
            BY <1>1, <2>1, <3>1, <3>2 DEF IsRun, Tabs
        <3>4. e % 4 <= a % 4
            BY <1>1, <2>1, <3>1, <3>3 DEF TabsFit
        <3>5. CASE e = n
            BY <1>1, <1>4, <2>1, <2>3, <3>4, <3>5
        <3>6. CASE e < n
            <4>1. e < s
                BY <1>1, <1>2, <2>1, <3>1, <3>6 DEF Tabs
            <4>2. a \in Nat /\ s \in Nat /\ e \in Nat /\ s < n /\ n - 4 < e
                BY <1>1, <2>3, <3>2
            <4> QED
                BY <1>1, <1>3, <2>3, <3>4, <4>1, <4>2, ModFour
        <3> QED
            BY <1>1, <2>1, <3>1, <3>5, <3>6
    <2> QED
        BY <2>2, <2>3
<1> QED
    BY <1>4, <1>5

(* The terminator of the terminal before may replace a line's first one.    *)
LEMMA FitHead ==
    ASSUME NEW f \in RowTexts, NEW g \in RowTexts, NEW n \in Places, TabsFit(f, n),
           g[0] # TAB, \A i \in 1..(n - 1) : g[i] = f[i]
    PROVE  TabsFit(g, n)
<1> SUFFICES ASSUME NEW s \in 0..n, NEW e \in 0..n, IsRun(g, n, s, e)
             PROVE  e % 4 <= s % 4
    BY DEF TabsFit
<1>1. n \in Nat /\ s \in 1..n /\ s < e
    BY SizesFacts DEF Places, IsRun, Tabs
<1>2. CASE s = 1 /\ f[0] = TAB
    <2>1. IsRun(f, n, 0, e)
        BY <1>1, <1>2 DEF IsRun, Tabs
    <2>2. e % 4 <= 0 % 4
        BY <1>1, <2>1 DEF TabsFit
    <2> QED
        BY <1>1, <1>2, <2>2
<1>3. CASE ~(s = 1 /\ f[0] = TAB)
    <2>1. IsRun(f, n, s, e)
        BY <1>1, <1>3 DEF IsRun, Tabs
    <2> QED
        BY <2>1 DEF TabsFit
<1> QED
    BY <1>2, <1>3
(***************************************************************************)
(* The rows of the array do not meet.                                      *)
(***************************************************************************)
LEMMA Times ==
    ASSUME NEW a \in Nat, NEW b \in Nat, a <= b
    PROVE  a * BufferSize \in Nat /\ a * BufferSize <= b * BufferSize
<1>1. PICK d \in Nat : b = a + d
    OBVIOUS
<1>2. a * BufferSize \in Nat /\ d * BufferSize \in Nat
    BY SizesFacts
<1>3. b * BufferSize = a * BufferSize + d * BufferSize
    BY <1>1, SizesFacts
<1> QED
    BY <1>2, <1>3

LEMMA CellFacts ==
    ASSUME NEW t \in Terms, NEW i \in 0..BufferSize
    PROVE  /\ Cell(t, i) \in Cells
           /\ \A j \in 0..BufferSize : Cell(t, i) = Cell(t, j) => i = j
           /\ i < BufferSize =>
                  \A u \in Terms : \A j \in Places : Cell(t, i) = Cell(u, j) => u = t /\ i = j
           /\ i = BufferSize =>
                  \A u \in Terms : \A j \in Places : Cell(t, i) = Cell(u, j) => u # t /\ j = 0
<1>1. t \in Nat /\ t >= 1 /\ t <= NumTerminals /\ i \in Nat
    BY SizesFacts DEF Terms
<1>2. /\ (t - 1) * BufferSize \in Nat /\ t * BufferSize \in Nat
      /\ t * BufferSize = (t - 1) * BufferSize + BufferSize
      /\ t * BufferSize <= NumTerminals * BufferSize /\ NumTerminals * BufferSize \in Nat
    BY <1>1, SizesFacts, Times
<1>3. Cell(t, i) \in Cells
    BY <1>1, <1>2, SizesFacts DEF Cell, Cells
<1>4. \A j \in 0..BufferSize : Cell(t, i) = Cell(t, j) => i = j
    BY <1>1, <1>2, SizesFacts DEF Cell
<1>5. ASSUME NEW u \in Terms, NEW j \in Places, Cell(t, i) = Cell(u, j)
      PROVE  /\ i < BufferSize => u = t /\ i = j
             /\ i = BufferSize => u # t /\ j = 0
    <2>1. u \in Nat /\ u >= 1 /\ (u - 1) * BufferSize \in Nat /\ j \in Nat /\ j < BufferSize
        BY SizesFacts, Times DEF Terms, Places
    <2>2. u * BufferSize = (u - 1) * BufferSize + BufferSize
        BY <2>1, SizesFacts
    <2>3. (t - 1) * BufferSize + i = (u - 1) * BufferSize + j
        BY <1>5 DEF Cell
    <2>4. CASE u < t
        <3>1. u * BufferSize <= (t - 1) * BufferSize
            BY <1>1, <2>1, <2>4, Times
        <3> QED
            BY <1>1, <1>2, <2>1, <2>2, <2>3, <3>1, SizesFacts
    <2>5. CASE t < u
        <3>1. t * BufferSize <= (u - 1) * BufferSize
            BY <1>1, <2>1, <2>5, Times
        <3> QED
            BY <1>1, <1>2, <2>1, <2>3, <2>5, <3>1, SizesFacts
    <2>6. CASE t = u
        BY <1>1, <1>2, <2>1, <2>3, <2>6, SizesFacts
    <2> QED
        BY <1>1, <2>1, <2>4, <2>5, <2>6
<1> QED
    BY <1>3, <1>4, <1>5

(***************************************************************************)
(* The invariant.                                                          *)
(***************************************************************************)
Buffers == [Cells -> Chars]

Row(buf, t) == [i \in Places |-> buf[Cell(t, i)]]

Whole(f, n, t) ==
    \A i \in 0..(n - 1) :
        \/ f[i] = t \/ f[i] = TAB
        \/ f[i] = NL /\ i = MaxLine
        \/ f[i] = NUL /\ i = 0 /\ t > 1

GoodLine(f, n, t) == n \in Places /\ Whole(f, n, t) /\ TabsFit(f, n)

ReadsTyped ==
    reads \in [Terms -> [pc : {"idle", "wait", "copy"}, want : Nat,
                         out : Seq(Chars), line : Seq(Chars)]]

IInv ==
    /\ InputTypeOK /\ ReadsTyped
    /\ \A t \in Terms : GoodLine(Row(keyboard_buffer, t), keyboard_index[t], t)

LEMMA RowTyped ==
    ASSUME NEW buf \in Buffers, NEW t \in Terms
    PROVE  Row(buf, t) \in RowTexts /\ \A i \in Places : Row(buf, t)[i] = buf[Cell(t, i)]
<1>1. \A i \in Places : Cell(t, i) \in Cells
    BY CellFacts, SizesFacts DEF Places
<1> QED
    BY <1>1 DEF Row, RowTexts, Buffers

LEMMA CharsFacts ==
    /\ NUL \in Chars /\ NL \in Chars /\ TAB \in Chars /\ Terms \subseteq Chars
    /\ NUL # TAB /\ NL # TAB /\ NL # NUL /\ TAB \notin Terms /\ NUL \notin Terms /\ NL \notin Terms
BY SizesFacts DEF Chars, NUL, NL, TAB, Terms

(***************************************************************************)
(* Steps of the handler on a line.                                         *)
(***************************************************************************)
Edits == [buf : Buffers, idx : Places, nlf : BOOLEAN]

(* e edits the line of the terminal on the screen: it is good, and the      *)
(* other terminals' rows are as they were.                                  *)
Good(e) ==
    /\ e \in Edits
    /\ GoodLine(Row(e.buf, cur_terminal), e.idx, cur_terminal)
    /\ \A u \in Terms \ {cur_terminal} : Row(e.buf, u) = Row(keyboard_buffer, u)

LEMMA LineGood == IInv => Good(Line)
<1> SUFFICES ASSUME IInv PROVE Good(Line)
    OBVIOUS
<1>1. /\ keyboard_buffer \in Buffers /\ cur_terminal \in Terms
      /\ keyboard_index[cur_terminal] \in Places /\ newline_flag \in BOOLEAN
    BY DEF IInv, InputTypeOK, Buffers, Places
<1> QED
    BY <1>1 DEF Good, Line, Edits, IInv

(* One character written or erased changes one element of one row.          *)
LEMMA WriteRow ==
    ASSUME NEW buf \in Buffers, NEW t \in Terms, NEW i \in Places, NEW c \in Chars
    PROVE  /\ [buf EXCEPT ![Cell(t, i)] = c] \in Buffers
           /\ Row([buf EXCEPT ![Cell(t, i)] = c], t) = [Row(buf, t) EXCEPT ![i] = c]
           /\ \A u \in Terms \ {t} : Row([buf EXCEPT ![Cell(t, i)] = c], u) = Row(buf, u)
<1> DEFINE new == [buf EXCEPT ![Cell(t, i)] = c]
<1>1. i \in 0..BufferSize /\ i < BufferSize
    BY SizesFacts DEF Places
<1>2. /\ Cell(t, i) \in Cells
      /\ \A u \in Terms : \A j \in Places : Cell(t, i) = Cell(u, j) => u = t /\ i = j
    BY <1>1, CellFacts
<1>3. \A u \in Terms : \A j \in Places : Cell(u, j) \in Cells
    BY CellFacts, SizesFacts DEF Places
<1>4. new \in Buffers
    BY DEF Buffers
<1>5. \A j \in Places : new[Cell(t, j)] = IF j = i THEN c ELSE buf[Cell(t, j)]
    BY <1>2, <1>3 DEF Buffers
<1>6. \A u \in Terms \ {t} : \A j \in Places : new[Cell(u, j)] = buf[Cell(u, j)]
    BY <1>2, <1>3 DEF Buffers
<1> HIDE DEF new
<1>7. Row(new, t) = [Row(buf, t) EXCEPT ![i] = c]
    BY <1>5 DEF Row
<1>8. \A u \in Terms \ {t} : Row(new, u) = Row(buf, u)
    BY <1>6 DEF Row
<1> QED
    BY <1>4, <1>7, <1>8 DEF new

LEMMA PutRow ==
    ASSUME cur_terminal \in Terms, NEW e \in Edits, e.idx + 1 \in Places, NEW c \in Chars
    PROVE  /\ Put(e, c) \in Edits /\ Put(e, c).idx = e.idx + 1 /\ Put(e, c).nlf = e.nlf
           /\ Row(Put(e, c).buf, cur_terminal) = [Row(e.buf, cur_terminal) EXCEPT ![e.idx] = c]
           /\ \A u \in Terms \ {cur_terminal} : Row(Put(e, c).buf, u) = Row(e.buf, u)
<1>1. e.buf \in Buffers /\ e.idx \in Places /\ e.nlf \in BOOLEAN
    BY DEF Edits
<1>2. /\ Put(e, c).buf = [e.buf EXCEPT ![Cell(cur_terminal, e.idx)] = c]
      /\ Put(e, c).idx = e.idx + 1 /\ Put(e, c).nlf = e.nlf
    BY DEF Put, Edits
<1>3. /\ [e.buf EXCEPT ![Cell(cur_terminal, e.idx)] = c] \in Buffers
      /\ Row([e.buf EXCEPT ![Cell(cur_terminal, e.idx)] = c], cur_terminal)
            = [Row(e.buf, cur_terminal) EXCEPT ![e.idx] = c]
      /\ \A u \in Terms \ {cur_terminal} :
            Row([e.buf EXCEPT ![Cell(cur_terminal, e.idx)] = c], u) = Row(e.buf, u)
    BY <1>1, WriteRow
<1>4. Put(e, c) \in Edits
    BY <1>1, <1>3 DEF Put, Edits
<1> QED
    BY <1>2, <1>3, <1>4

LEMMA EraseRow ==
    ASSUME cur_terminal \in Terms, NEW e \in Edits, e.idx > 0
    PROVE  /\ Erase(e) \in Edits /\ Erase(e).idx = e.idx - 1 /\ Erase(e).nlf = e.nlf
           /\ Row(Erase(e).buf, cur_terminal) = [Row(e.buf, cur_terminal) EXCEPT ![e.idx - 1] = NUL]
           /\ \A u \in Terms \ {cur_terminal} : Row(Erase(e).buf, u) = Row(e.buf, u)
<1>1. e.buf \in Buffers /\ e.idx \in Places /\ e.nlf \in BOOLEAN
    BY DEF Edits
<1>2. e.idx - 1 \in Places /\ NUL \in Chars
    BY <1>1, SizesFacts, CharsFacts DEF Places
<1>3. /\ Erase(e).buf = [e.buf EXCEPT ![Cell(cur_terminal, e.idx - 1)] = NUL]
      /\ Erase(e).idx = e.idx - 1 /\ Erase(e).nlf = e.nlf
    BY DEF Erase, Edits
<1>4. /\ [e.buf EXCEPT ![Cell(cur_terminal, e.idx - 1)] = NUL] \in Buffers
      /\ Row([e.buf EXCEPT ![Cell(cur_terminal, e.idx - 1)] = NUL], cur_terminal)
            = [Row(e.buf, cur_terminal) EXCEPT ![e.idx - 1] = NUL]
      /\ \A u \in Terms \ {cur_terminal} :
            Row([e.buf EXCEPT ![Cell(cur_terminal, e.idx - 1)] = NUL], u) = Row(e.buf, u)
    BY <1>1, <1>2, WriteRow
<1>5. Erase(e) \in Edits
    BY <1>1, <1>2, <1>4 DEF Erase, Edits
<1> QED
    BY <1>3, <1>4, <1>5

(* What lies behind a line does not matter.                                 *)
LEMMA GoodSame ==
    ASSUME NEW f \in RowTexts, NEW g \in RowTexts, NEW n, NEW t, GoodLine(f, n, t),
           \A i \in 0..(n - 1) : g[i] = f[i]
    PROVE  GoodLine(g, n, t)
<1>1. n \in Nat /\ n \in Places /\ TabsFit(f, n) /\ Whole(f, n, t)
    BY SizesFacts DEF GoodLine, Places
<1>2. Whole(g, n, t)
    BY <1>1 DEF Whole
<1>3. TabsFit(g, n)
    <2> SUFFICES ASSUME NEW s \in 0..n, NEW e \in 0..n, IsRun(g, n, s, e)
                 PROVE  e % 4 <= s % 4
        BY DEF TabsFit
    <2>1. IsRun(f, n, s, e)
        BY <1>1 DEF IsRun, Tabs
    <2> QED
        BY <1>1, <2>1 DEF TabsFit
<1> QED
    BY <1>1, <1>2, <1>3 DEF GoodLine

LEMMA PutGood ==
    ASSUME cur_terminal \in Terms, NEW e, Good(e), e.idx + 1 \in Places,
           NEW c \in Chars, c = cur_terminal \/ (c = NL /\ e.idx = MaxLine)
    PROVE  Good(Put(e, c))
<1> DEFINE f == Row(e.buf, cur_terminal)
           g == Row(Put(e, c).buf, cur_terminal)
           n == e.idx
<1>1. e \in Edits /\ n \in Places /\ n \in Nat /\ e.buf \in Buffers
    BY SizesFacts DEF Good, Edits, Places
<1>2. /\ Put(e, c) \in Edits /\ Put(e, c).idx = n + 1
      /\ g = [f EXCEPT ![n] = c]
      /\ \A u \in Terms \ {cur_terminal} : Row(Put(e, c).buf, u) = Row(e.buf, u)
    BY <1>1, PutRow
<1>3. f \in RowTexts /\ g \in RowTexts
    BY <1>1, <1>2, RowTyped DEF Edits
<1>4. GoodLine(f, n, cur_terminal)
    BY DEF Good
<1> HIDE DEF f, g, n
<1>5. (\A i \in 0..(n - 1) : g[i] = f[i]) /\ g[n] = c /\ c # TAB
    BY <1>1, <1>2, <1>3, CharsFacts DEF RowTexts, Places
<1>6. n + 1 \in Places
    BY DEF n
<1>7. TabsFit(g, n + 1)
    BY <1>1, <1>3, <1>4, <1>5, <1>6, FitPut DEF GoodLine
<1>8. Whole(g, n + 1, cur_terminal)
    <2>1. c = cur_terminal \/ (c = NL /\ n = MaxLine)
        BY DEF n
    <2> QED
        BY <1>1, <1>4, <1>5, <2>1 DEF GoodLine, Whole
<1> QED
    BY <1>2, <1>6, <1>7, <1>8 DEF Good, GoodLine, g

LEMMA BrokenGood ==
    ASSUME cur_terminal \in Terms, NEW e, Good(e)
    PROVE  Good(Broken(e))
<1>1. CASE e.idx = MaxLine /\ e.idx + 1 < BufferSize
    <2>1. e.idx + 1 \in Places /\ NL \in Chars
        BY <1>1, SizesFacts, CharsFacts DEF Places
    <2>2. Good(Put(e, NL))
        BY <1>1, <2>1, PutGood
    <2>3. Broken(e) = [Put(e, NL) EXCEPT !.nlf = TRUE]
        BY <1>1 DEF Broken
    <2>4. /\ Broken(e) \in Edits /\ Broken(e).buf = Put(e, NL).buf
          /\ Broken(e).idx = Put(e, NL).idx
        BY <2>2, <2>3 DEF Good, Edits
    <2> QED
        BY <2>2, <2>4 DEF Good
<1>2. CASE ~(e.idx = MaxLine /\ e.idx + 1 < BufferSize)
    BY <1>2 DEF Broken
<1> QED
    BY <1>1, <1>2

LEMMA TypedGood ==
    ASSUME cur_terminal \in Terms, NEW e, Good(e)
    PROVE  Good(Typed(e))
<1>1. CASE e.idx < BufferSize - 1
    <2>1. e.idx + 1 \in Places /\ cur_terminal \in Chars
        BY <1>1, SizesFacts, CharsFacts DEF Places, Good, Edits
    <2> QED
        BY <1>1, <2>1, PutGood DEF Typed
<1>2. CASE ~(e.idx < BufferSize - 1)
    BY <1>2 DEF Typed
<1> QED
    BY <1>1, <1>2

(* A tab that fits is three characters at the end of the row, else four.    *)
LEMMA TabbedRow ==
    ASSUME cur_terminal \in Terms, NEW e \in Edits, NEW fits, e.idx + 4 < BufferSize, fits
    PROVE  LET r == Tabbed(e, fits)
               f == Row(e.buf, cur_terminal)
               g == Row(r.buf, cur_terminal)
               d == IF e.idx + 5 < BufferSize THEN 4 ELSE 3
           IN  /\ r \in Edits /\ r.idx = e.idx + d
               /\ \A u \in Terms \ {cur_terminal} : Row(r.buf, u) = Row(e.buf, u)
               /\ \A i \in 0..(e.idx - 1) : g[i] = f[i]
               /\ \A i \in e.idx..(e.idx + d - 1) : g[i] = TAB
<1> DEFINE n  == e.idx
           f  == Row(e.buf, cur_terminal)
           p1 == Put(e, TAB)
           p2 == Put(p1, TAB)
           p3 == Put(p2, TAB)
           p4 == Put(p3, TAB)
<1>1. /\ e \in Edits /\ n \in Nat /\ n + 4 < BufferSize /\ TAB \in Chars
      /\ n \in Places /\ f \in RowTexts
    BY SizesFacts, CharsFacts, RowTyped DEF Edits, Places
<1>2. /\ p1 \in Edits /\ p1.idx = n + 1
      /\ Row(p1.buf, cur_terminal) = [f EXCEPT ![n] = TAB]
      /\ \A u \in Terms \ {cur_terminal} : Row(p1.buf, u) = Row(e.buf, u)
    <2>1. e.idx + 1 \in Places
        BY <1>1, SizesFacts DEF Places
    <2> QED
        BY <1>1, <2>1, PutRow
<1>3. /\ p2 \in Edits /\ p2.idx = n + 2
      /\ Row(p2.buf, cur_terminal) = [Row(p1.buf, cur_terminal) EXCEPT ![n + 1] = TAB]
      /\ \A u \in Terms \ {cur_terminal} : Row(p2.buf, u) = Row(p1.buf, u)
    <2> HIDE DEF p1
    <2>1. p1.idx + 1 \in Places
        BY <1>1, <1>2, SizesFacts DEF Places
    <2>2. p1.idx + 1 = n + 2
        BY <1>1, <1>2
    <2> QED
        BY <1>1, <1>2, <2>1, <2>2, PutRow
<1>4. /\ p3 \in Edits /\ p3.idx = n + 3
      /\ Row(p3.buf, cur_terminal) = [Row(p2.buf, cur_terminal) EXCEPT ![n + 2] = TAB]
      /\ \A u \in Terms \ {cur_terminal} : Row(p3.buf, u) = Row(p2.buf, u)
    <2> HIDE DEF p2
    <2>1. p2.idx + 1 \in Places
        BY <1>1, <1>3, SizesFacts DEF Places
    <2>2. p2.idx + 1 = n + 3
        BY <1>1, <1>3
    <2> QED
        BY <1>1, <1>3, <2>1, <2>2, PutRow
<1>5. n + 5 < BufferSize =>
      /\ p4 \in Edits /\ p4.idx = n + 4
      /\ Row(p4.buf, cur_terminal) = [Row(p3.buf, cur_terminal) EXCEPT ![n + 3] = TAB]
      /\ \A u \in Terms \ {cur_terminal} : Row(p4.buf, u) = Row(p3.buf, u)
    <2> SUFFICES ASSUME n + 5 < BufferSize
                 PROVE  /\ p4 \in Edits /\ p4.idx = n + 4
                        /\ Row(p4.buf, cur_terminal)
                              = [Row(p3.buf, cur_terminal) EXCEPT ![n + 3] = TAB]
                        /\ \A u \in Terms \ {cur_terminal} : Row(p4.buf, u) = Row(p3.buf, u)
        OBVIOUS
    <2> HIDE DEF p3
    <2>1. p3.idx + 1 \in Places
        BY <1>1, <1>4, SizesFacts DEF Places
    <2>2. p3.idx + 1 = n + 4
        BY <1>1, <1>4
    <2> QED
        BY <1>1, <1>4, <2>1, <2>2, PutRow
<1>6. Tabbed(e, fits) = IF n + 5 < BufferSize THEN p4 ELSE p3
    <2>1. TabPut(e) = p1
        BY <1>1, SizesFacts DEF TabPut
    <2>2. TabPut(p1) = p2
        <3> HIDE DEF p1
        <3>1. p1.idx + 2 < BufferSize
            BY <1>1, <1>2, SizesFacts
        <3> QED
            BY <3>1 DEF TabPut
    <2>3. TabPut(p2) = p3
        <3> HIDE DEF p2
        <3>1. p2.idx + 2 < BufferSize
            BY <1>1, <1>3, SizesFacts
        <3> QED
            BY <3>1 DEF TabPut
    <2>4. TabPut(p3) = IF n + 5 < BufferSize THEN p4 ELSE p3
        <3> HIDE DEF p3
        <3>1. p3.idx + 2 < BufferSize <=> n + 5 < BufferSize
            BY <1>1, <1>4, SizesFacts
        <3> QED
            BY <3>1 DEF TabPut
    <2> HIDE DEF p1, p2, p3, p4
    <2> QED
        BY <2>1, <2>2, <2>3, <2>4 DEF Tabbed, n
<1> DEFINE r == Tabbed(e, fits)
           d == IF n + 5 < BufferSize THEN 4 ELSE 3
           g == Row(r.buf, cur_terminal)
<1> HIDE DEF n, f, p1, p2, p3, p4
<1>7. /\ r \in Edits /\ r.idx = n + d
      /\ \A u \in Terms \ {cur_terminal} : Row(r.buf, u) = Row(e.buf, u)
    <2>1. r = IF n + 5 < BufferSize THEN p4 ELSE p3
        BY <1>6
    <2> HIDE DEF r
    <2>2. CASE n + 5 < BufferSize
        BY <1>2, <1>3, <1>4, <1>5, <2>1, <2>2
    <2>3. CASE ~(n + 5 < BufferSize)
        BY <1>2, <1>3, <1>4, <2>1, <2>3
    <2> QED
        BY <2>2, <2>3
<1>8. g \in RowTexts /\ n + d \in Places
    BY <1>7, RowTyped DEF Edits
<1>9. /\ \A i \in 0..(n - 1) : g[i] = f[i]
      /\ \A i \in n..(n + d - 1) : g[i] = TAB
    <2>1. /\ n \in Places /\ n + 1 \in Places /\ n + 2 \in Places
          /\ n + 5 < BufferSize => n + 3 \in Places
        BY <1>1, SizesFacts DEF Places
    <2> DEFINE h1 == Row(p1.buf, cur_terminal)
               h2 == Row(p2.buf, cur_terminal)
               h  == Row(p3.buf, cur_terminal)
    <2>2. /\ h1 \in RowTexts /\ h1[n] = TAB /\ \A i \in Places \ {n} : h1[i] = f[i]
          /\ h2 \in RowTexts /\ h2[n + 1] = TAB /\ \A i \in Places \ {n + 1} : h2[i] = h1[i]
          /\ h \in RowTexts /\ h[n + 2] = TAB /\ \A i \in Places \ {n + 2} : h[i] = h2[i]
        <3>1. /\ h1 = [f EXCEPT ![n] = TAB] /\ h2 = [h1 EXCEPT ![n + 1] = TAB]
              /\ h = [h2 EXCEPT ![n + 2] = TAB]
            BY <1>2, <1>3, <1>4
        <3> HIDE DEF h1, h2, h
        <3>2. h1 \in RowTexts /\ h1[n] = TAB /\ \A i \in Places \ {n} : h1[i] = f[i]
            BY <1>1, <2>1, <3>1, CharsFacts DEF RowTexts
        <3>3. h2 \in RowTexts /\ h2[n + 1] = TAB /\ \A i \in Places \ {n + 1} : h2[i] = h1[i]
            BY <2>1, <3>1, <3>2, CharsFacts DEF RowTexts
        <3>4. h \in RowTexts /\ h[n + 2] = TAB /\ \A i \in Places \ {n + 2} : h[i] = h2[i]
            BY <2>1, <3>1, <3>3, CharsFacts DEF RowTexts
        <3> QED
            BY <3>2, <3>3, <3>4
    <2>3. /\ h \in RowTexts
          /\ \A i \in 0..(n - 1) : h[i] = f[i]
          /\ h[n] = TAB /\ h[n + 1] = TAB /\ h[n + 2] = TAB
        <3> HIDE DEF h1, h2, h
        <3>1. \A i \in 0..(n - 1) : i \in Places \ {n, n + 1, n + 2}
            BY <1>1, SizesFacts DEF Places
        <3>2. n \in Places \ {n + 1, n + 2} /\ n + 1 \in Places \ {n + 2}
            BY <1>1, <2>1
        <3> QED
            BY <2>2, <3>1, <3>2
    <2>4. CASE n + 5 < BufferSize
        <3>1. g = [h EXCEPT ![n + 3] = TAB] /\ d = 4
            BY <1>5, <1>6, <2>4
        <3> HIDE DEF g, d, h
        <3>2. g[n + 3] = TAB /\ \A i \in Places \ {n + 3} : g[i] = h[i]
            BY <2>1, <2>3, <2>4, <3>1, CharsFacts DEF RowTexts
        <3>3. \A i \in n..(n + 3) : i \in {n, n + 1, n + 2, n + 3}
            BY <1>1
        <3>4. (\A i \in 0..(n + 2) : i \in Places \ {n + 3})
            BY <1>1, SizesFacts DEF Places
        <3>5. g[n] = TAB /\ g[n + 1] = TAB /\ g[n + 2] = TAB
            BY <1>1, <2>3, <3>2, <3>4
        <3>6. \A i \in 0..(n - 1) : i \in 0..(n + 2)
            BY <1>1
        <3>7. \A i \in 0..(n - 1) : g[i] = f[i]
            BY <2>3, <3>2, <3>4, <3>6
        <3> QED
            BY <3>1, <3>2, <3>3, <3>5, <3>7
    <2>5. CASE ~(n + 5 < BufferSize)
        <3>1. g = h /\ d = 3
            BY <1>6, <2>5
        <3>2. \A i \in n..(n + 2) : i \in {n, n + 1, n + 2}
            BY <1>1
        <3> HIDE DEF g, d, h
        <3> QED
            BY <1>1, <2>3, <3>1, <3>2
    <2> QED
        BY <2>4, <2>5
<1> QED
    BY <1>7, <1>9 DEF n, f

LEMMA TabbedGood ==
    ASSUME cur_terminal \in Terms, NEW e, Good(e), NEW fits
    PROVE  Good(Tabbed(e, fits))
<1>1. CASE ~(e.idx + 4 < BufferSize /\ fits)
    BY <1>1 DEF Tabbed
<1>2. CASE e.idx + 4 < BufferSize /\ fits
    <2> DEFINE n == e.idx
               f == Row(e.buf, cur_terminal)
               r == Tabbed(e, fits)
               d == IF n + 5 < BufferSize THEN 4 ELSE 3
               g == Row(r.buf, cur_terminal)
    <2>1. /\ e \in Edits /\ n \in Nat /\ n + 4 < BufferSize
          /\ n \in Places /\ f \in RowTexts /\ GoodLine(f, n, cur_terminal)
        BY <1>2, SizesFacts, RowTyped DEF Good, Edits, Places
    <2>2. /\ r \in Edits /\ r.idx = n + d
          /\ \A u \in Terms \ {cur_terminal} : Row(r.buf, u) = Row(e.buf, u)
          /\ \A i \in 0..(n - 1) : g[i] = f[i]
          /\ \A i \in n..(n + d - 1) : g[i] = TAB
        BY <1>2, <2>1, TabbedRow
    <2>3. g \in RowTexts /\ n + d \in Places
        BY <2>2, RowTyped DEF Edits
    <2>4. d \in {3, 4} /\ (d = 3 => n % 4 # 0)
        <3>1. d = 3 => BufferSize - 1 = n + 4
            BY <2>1, SizesFacts
        <3> QED
            BY <2>1, <3>1, TabAssumption, SizesFacts
    <2> HIDE DEF n, f, d, g, r
    <2>5. TabsFit(g, n + d)
        BY <2>1, <2>2, <2>3, <2>4, FitTab DEF GoodLine
    <2>6. Whole(g, n + d, cur_terminal)
        BY <2>1, <2>2, <2>4 DEF GoodLine, Whole
    <2>7. Good(r)
        BY <2>2, <2>3, <2>5, <2>6 DEF Good, GoodLine, g
    <2> QED
        BY <2>7 DEF r
<1> QED
    BY <1>1, <1>2

(* The last k characters of a line are taken back.                          *)
Cut(e, r, k) ==
    /\ e \in Edits /\ r \in Edits /\ r.idx = e.idx - k
    /\ \A i \in 0..(e.idx - k - 1) : Row(r.buf, cur_terminal)[i] = Row(e.buf, cur_terminal)[i]
    /\ \A u \in Terms \ {cur_terminal} : Row(r.buf, u) = Row(e.buf, u)

LEMMA CutNone ==
    ASSUME NEW e, Good(e)
    PROVE  Cut(e, e, 0)
<1>1. e \in Edits /\ e.idx \in Int
    BY SizesFacts DEF Good, Edits, Places
<1> QED
    BY <1>1 DEF Cut

LEMMA CutErase ==
    ASSUME cur_terminal \in Terms, NEW e, NEW r, NEW k \in Nat, Cut(e, r, k), k < e.idx
    PROVE  Cut(e, Erase(r), k + 1)
<1> DEFINE n == e.idx
           f == Row(e.buf, cur_terminal)
           h == Row(r.buf, cur_terminal)
           g == Row(Erase(r).buf, cur_terminal)
<1>1. /\ e \in Edits /\ r \in Edits /\ n \in Nat /\ r.idx = n - k /\ n - k \in Places
      /\ h \in RowTexts /\ \A i \in 0..(n - k - 1) : h[i] = f[i]
    BY SizesFacts, RowTyped DEF Cut, Edits, Places
<1>2. /\ Erase(r) \in Edits /\ Erase(r).idx = n - k - 1
      /\ g = [h EXCEPT ![n - k - 1] = NUL]
      /\ \A u \in Terms \ {cur_terminal} : Row(Erase(r).buf, u) = Row(r.buf, u)
    BY <1>1, EraseRow
<1>3. \A u \in Terms \ {cur_terminal} : Row(r.buf, u) = Row(e.buf, u)
    BY DEF Cut
<1>4. k < n
    OBVIOUS
<1> HIDE DEF n, f, h, g
<1>5. \A i \in 0..(n - k - 2) : g[i] = f[i]
    BY <1>1, <1>2, <1>4, SizesFacts DEF RowTexts, Places
<1>6. \A i \in 0..(n - (k + 1) - 1) : g[i] = f[i]
    BY <1>1, <1>5
<1>7. Erase(r).idx = n - (k + 1)
    BY <1>1, <1>2
<1> QED
    BY <1>1, <1>2, <1>3, <1>6, <1>7 DEF Cut, n, f, g

LEMMA CutGood ==
    ASSUME cur_terminal \in Terms, NEW e, Good(e), NEW r, NEW k \in Nat, Cut(e, r, k),
           TabsFit(Row(e.buf, cur_terminal), e.idx - k)
    PROVE  Good(r)
<1> DEFINE n == e.idx - k
           f == Row(e.buf, cur_terminal)
           g == Row(r.buf, cur_terminal)
<1>1. /\ e \in Edits /\ r \in Edits /\ r.idx = n /\ n \in Places
      /\ f \in RowTexts /\ g \in RowTexts /\ \A i \in 0..(n - 1) : g[i] = f[i]
    BY RowTyped DEF Cut, Edits
<1>2. Whole(f, n, cur_terminal)
    <2>1. e.idx \in Nat /\ Whole(f, e.idx, cur_terminal)
        BY <1>1, SizesFacts DEF Good, GoodLine, Edits, Places
    <2>2. \A i \in 0..(n - 1) : i \in 0..(e.idx - 1)
        BY <2>1
    <2> QED
        BY <2>1, <2>2 DEF Whole
<1>3. GoodLine(f, n, cur_terminal)
    BY <1>1, <1>2 DEF GoodLine
<1> HIDE DEF n, f, g
<1>4. GoodLine(g, n, cur_terminal)
    BY <1>1, <1>3, GoodSame
<1>5. \A u \in Terms \ {cur_terminal} : Row(r.buf, u) = Row(keyboard_buffer, u)
    BY DEF Cut, Good
<1> QED
    BY <1>1, <1>4, <1>5 DEF Good, g

(* What backspace takes back: a break with the character before it, four    *)
(* characters of or in front of a tab, or one.                              *)
LEMMA ErasedCut ==
    ASSUME cur_terminal \in Terms, NEW e, Good(e), e.idx # 0
    PROVE  LET last == Row(e.buf, cur_terminal)[e.idx - 1]
           IN  IF e.nlf /\ last = NL THEN e.idx = MaxLine + 1 /\ Cut(e, Erased(e), 2)
               ELSE IF last = TAB THEN e.idx >= 4 /\ Cut(e, Erased(e), 4)
               ELSE Cut(e, Erased(e), 1)
<1> DEFINE n    == e.idx
           f    == Row(e.buf, cur_terminal)
           last == e.buf[Cell(cur_terminal, e.idx - 1)]
<1>1. /\ e \in Edits /\ n \in Nat /\ n > 0 /\ n \in Places /\ n - 1 \in Places
      /\ f \in RowTexts /\ GoodLine(f, n, cur_terminal) /\ last = f[n - 1]
    BY SizesFacts, RowTyped DEF Good, Edits, Places
<1>2. Cut(e, Erase(e), 1)
    <2>1. Cut(e, Erase(e), 0 + 1)
        BY <1>1, CutNone, CutErase
    <2> QED
        BY <2>1
<1>3. CASE e.nlf /\ last = NL
    <2>1. n - 1 = MaxLine
        <3>1. f[n - 1] = NL /\ n - 1 \in 0..(n - 1)
            BY <1>1, <1>3
        <3> HIDE DEF n, f, last
        <3> QED
            BY <1>1, <3>1, CharsFacts DEF GoodLine, Whole
    <2>2. Cut(e, Erase(Erase(e)), 2)
        <3>1. 1 < e.idx
            BY <1>1, <2>1, SizesFacts
        <3>2. Cut(e, Erase(Erase(e)), 1 + 1)
            BY <1>2, <3>1, CutErase
        <3> QED
            BY <3>2
    <2>3. Erased(e) = [Erase(Erase(e)) EXCEPT !.nlf = FALSE]
        BY <1>3 DEF Erased
    <2> DEFINE r == Erase(Erase(e))
    <2>4. r \in Edits
        BY <2>2 DEF Cut
    <2> HIDE DEF r
    <2>5. /\ [r EXCEPT !.nlf = FALSE] \in Edits
          /\ [r EXCEPT !.nlf = FALSE].buf = r.buf /\ [r EXCEPT !.nlf = FALSE].idx = r.idx
        BY <2>4 DEF Edits
    <2>6. Cut(e, Erased(e), 2)
        BY <2>2, <2>3, <2>5 DEF Cut, r
    <2>7. n = MaxLine + 1
        BY <1>1, <2>1, SizesFacts
    <2> QED
        BY <1>1, <1>3, <2>6, <2>7
<1>4. CASE ~(e.nlf /\ last = NL) /\ last = TAB
    <2>1. n >= 4
        <3>1. f[n - 1] = TAB
            BY <1>1, <1>4
        <3> HIDE DEF n, f, last
        <3> QED
            BY <1>1, <3>1, FitEraseTab DEF GoodLine
    <2>2. 1 < e.idx /\ 2 < e.idx /\ 3 < e.idx
        BY <1>1, <2>1
    <2>3. Cut(e, Erase(Erase(e)), 2)
        <3>1. Cut(e, Erase(Erase(e)), 1 + 1)
            BY <1>2, <2>2, CutErase
        <3> QED
            BY <3>1
    <2>4. Cut(e, Erase(Erase(Erase(e))), 3)
        <3>1. Cut(e, Erase(Erase(Erase(e))), 2 + 1)
            BY <2>3, <2>2, CutErase
        <3> QED
            BY <3>1
    <2>5. Cut(e, Erase(Erase(Erase(Erase(e)))), 4)
        <3>1. Cut(e, Erase(Erase(Erase(Erase(e)))), 3 + 1)
            BY <2>4, <2>2, CutErase
        <3> QED
            BY <3>1
    <2>6. Erased(e) = Erase(Erase(Erase(Erase(e))))
        BY <1>4 DEF Erased
    <2>7. Cut(e, Erased(e), 4)
        BY <2>5, <2>6
    <2> QED
        BY <1>1, <1>4, <2>1, <2>7
<1>5. CASE ~(e.nlf /\ last = NL) /\ last # TAB
    <2>1. Erased(e) = Erase(e)
        BY <1>5 DEF Erased
    <2>2. Cut(e, Erased(e), 1)
        BY <1>2, <2>1
    <2> QED
        BY <1>1, <1>5, <2>2
<1> QED
    BY <1>3, <1>4, <1>5

LEMMA ErasedGood ==
    ASSUME cur_terminal \in Terms, NEW e, Good(e)
    PROVE  Good(Erased(e))
<1> DEFINE n    == e.idx
           f    == Row(e.buf, cur_terminal)
           last == f[n - 1]
<1>1. CASE n = 0
    BY <1>1 DEF Erased
<1>2. CASE n # 0
    <2>1. /\ n \in Nat /\ n > 0 /\ n \in Places /\ n - 1 \in Places
          /\ f \in RowTexts /\ TabsFit(f, n)
        BY <1>2, SizesFacts, RowTyped DEF Good, GoodLine, Edits, Places
    <2>2. last # TAB => TabsFit(f, n - 1)
        <3> HIDE DEF n, f
        <3> QED
            BY <2>1, FitErase
    <2>3. CASE e.nlf /\ last = NL
        <3>1. n = MaxLine + 1 /\ Cut(e, Erased(e), 2)
            BY <1>2, <2>3, ErasedCut
        <3>2. TabsFit(f, n - 1)
            BY <2>2, <2>3, CharsFacts
        <3>3. TabsFit(f, n - 2)
            <4>1. (n - 1) % 4 # 0
                BY <3>1, TabAssumption, SizesFacts
            <4> DEFINE m == n - 1
            <4>2. m \in Places /\ TabsFit(f, m) /\ m % 4 # 0 /\ m - 1 = n - 2
                BY <2>1, <3>2, <4>1
            <4> HIDE DEF m, f
            <4>3. TabsFit(f, m - 1)
                BY <2>1, <4>2, FitEraseOne
            <4> QED
                BY <4>2, <4>3
        <3> QED
            BY <3>1, <3>3, CutGood
    <2>4. CASE ~(e.nlf /\ last = NL) /\ last = TAB
        <3>1. Cut(e, Erased(e), 4)
            BY <1>2, <2>4, ErasedCut
        <3>2. TabsFit(f, n - 4)
            <4>1. f[n - 1] = TAB
                BY <2>4
            <4> HIDE DEF n, f
            <4> QED
                BY <2>1, <4>1, FitEraseTab
        <3> QED
            BY <3>1, <3>2, CutGood
    <2>5. CASE ~(e.nlf /\ last = NL) /\ last # TAB
        <3>1. Cut(e, Erased(e), 1)
            BY <1>2, <2>5, ErasedCut
        <3> QED
            BY <2>2, <2>5, <3>1, CutGood
    <2> QED
        BY <2>3, <2>4, <2>5
<1> QED
    BY <1>1, <1>2

LEMMA ClearedGood ==
    ASSUME cur_terminal \in Terms, NEW e, Good(e)
    PROVE  Good(Cleared(e))
<1> DEFINE own == {c \in Cells : \E i \in 0..(BufferSize - 1) : c = Cell(cur_terminal, i)}
           new == [c \in Cells |-> IF \E i \in 0..(BufferSize - 1) : c = Cell(cur_terminal, i)
                                   THEN NUL ELSE e.buf[c]]
<1>1. e \in Edits /\ e.buf \in Buffers /\ 0 \in Places
    BY SizesFacts DEF Good, Edits, Places
<1>2. new \in Buffers
    BY <1>1, CharsFacts DEF Buffers
<1>3. /\ Cleared(e).buf = new /\ Cleared(e).idx = 0
      /\ Cleared(e) \in Edits
    BY <1>1, <1>2 DEF Cleared, Edits
<1>4. ASSUME NEW u \in Terms \ {cur_terminal}
      PROVE  Row(new, u) = Row(e.buf, u)
    <2>1. ASSUME NEW j \in Places
          PROVE  new[Cell(u, j)] = e.buf[Cell(u, j)]
        <3>1. j \in 0..BufferSize /\ j < BufferSize
            BY SizesFacts DEF Places
        <3>2. /\ Cell(u, j) \in Cells
              /\ \A i \in Places : Cell(u, j) # Cell(cur_terminal, i)
            BY <3>1, CellFacts
        <3> QED
            BY <3>2 DEF Places
    <2> HIDE DEF new
    <2> QED
        BY <2>1 DEF Row
<1>5. GoodLine(Row(new, cur_terminal), 0, cur_terminal)
    <2>1. \A i \in 0..(0 - 1) : FALSE
        OBVIOUS
    <2>2. \A s, d \in 0..0 : ~(s < d)
        OBVIOUS
    <2> QED
        BY <1>1, <2>1, <2>2 DEF GoodLine, Whole, TabsFit, IsRun
<1> HIDE DEF new
<1>6. \A u \in Terms \ {cur_terminal} : Row(new, u) = Row(keyboard_buffer, u)
    BY <1>4 DEF Good
<1> QED
    BY <1>3, <1>5, <1>6 DEF Good

(***************************************************************************)
(* Steps of the system.                                                    *)
(***************************************************************************)

(* What the handler stores keeps every line good.                           *)
Lines == \A t \in Terms : GoodLine(Row(keyboard_buffer, t), keyboard_index[t], t)

LEMMA StoreKeeps ==
    ASSUME IInv, NEW e, Good(e), Store(e)
    PROVE  /\ keyboard_buffer' \in Buffers /\ keyboard_index' \in [Terms -> Places]
           /\ newline_flag' \in BOOLEAN /\ Lines'
<1>1. /\ keyboard_buffer' = e.buf /\ newline_flag' = e.nlf
      /\ keyboard_index' = [keyboard_index EXCEPT ![cur_terminal] = e.idx]
      /\ keyboard_index \in [Terms -> Places] /\ cur_terminal \in Terms
      /\ e.buf \in Buffers /\ e.idx \in Places /\ e.nlf \in BOOLEAN
    BY DEF Store, IInv, InputTypeOK, Places, Good, Edits
<1>2. ASSUME NEW t \in Terms
      PROVE  GoodLine(Row(e.buf, t), keyboard_index'[t], t)
    <2>1. CASE t = cur_terminal
        BY <1>1, <2>1 DEF Good
    <2>2. CASE t # cur_terminal
        <3>1. Row(e.buf, t) = Row(keyboard_buffer, t) /\ keyboard_index'[t] = keyboard_index[t]
            BY <1>1, <2>2 DEF Good
        <3> QED
            BY <3>1 DEF IInv
    <2> QED
        BY <2>1, <2>2
<1>3. Lines'
    BY <1>1, <1>2 DEF Lines, Row
<1> QED
    BY <1>1, <1>3

(* Enter ends the line; on a full one its terminator becomes the first      *)
(* character of the next terminal's.                                        *)
LEMMA EnteredKeeps ==
    ASSUME IInv, Store(Entered(Line))
    PROVE  /\ keyboard_buffer' \in Buffers /\ keyboard_index' \in [Terms -> Places]
           /\ newline_flag' \in BOOLEAN /\ Lines'
           /\ \A t \in Terms : \A i \in 0..keyboard_index[t] : keyboard_buffer'[Cell(t, i)] \in Chars
<1> DEFINE c  == cur_terminal
           n  == keyboard_index[cur_terminal]
           b1 == [keyboard_buffer EXCEPT ![Cell(c, n)] = NL]
           b2 == [b1 EXCEPT ![Cell(c, n + 1)] = NUL]
<1>1. /\ keyboard_buffer \in Buffers /\ c \in Terms /\ n \in Places /\ n \in 0..BufferSize
      /\ n + 1 \in 0..BufferSize /\ n \in Nat
      /\ keyboard_index \in [Terms -> Places] /\ newline_flag \in BOOLEAN
    BY SizesFacts DEF IInv, InputTypeOK, Buffers, Places
<1>2. Cell(c, n) \in Cells /\ Cell(c, n + 1) \in Cells
    BY <1>1, CellFacts
<1>3. b1 \in Buffers /\ b2 \in Buffers
    BY <1>1, CharsFacts DEF Buffers
<1>4. /\ keyboard_buffer' = b2
      /\ keyboard_index' = [keyboard_index EXCEPT ![c] = 0]
      /\ newline_flag' = newline_flag
    BY DEF Store, Entered, Put, Line
<1>5. \A i \in Cells : b2[i] = IF i = Cell(c, n + 1) THEN NUL
                               ELSE IF i = Cell(c, n) THEN NL ELSE keyboard_buffer[i]
    BY <1>1, <1>2, <1>3 DEF Buffers
<1> HIDE DEF b1, b2
<1>6. ASSUME NEW t \in Terms
      PROVE  GoodLine(Row(b2, t), keyboard_index'[t], t)
    <2> DEFINE f == Row(keyboard_buffer, t)
               g == Row(b2, t)
               m == keyboard_index[t]
    <2>1. /\ f \in RowTexts /\ g \in RowTexts /\ 0 \in Places
          /\ \A j \in Places : /\ f[j] = keyboard_buffer[Cell(t, j)] /\ g[j] = b2[Cell(t, j)]
                               /\ Cell(t, j) \in Cells /\ j \in Nat
        <3>1. \A j \in Places : Cell(t, j) \in Cells /\ j \in Nat
            BY CellFacts, SizesFacts DEF Places
        <3> QED
            BY <1>1, <1>3, <3>1, RowTyped, SizesFacts DEF Places
    <2>2. GoodLine(f, m, t) /\ m \in Places /\ m \in Nat
        BY <1>1, SizesFacts DEF IInv, Places
    <2>3. CASE t = c
        <3>1. keyboard_index'[t] = 0
            BY <1>1, <1>4, <2>3
        <3>2. \A s, d \in 0..0 : ~(s < d)
            OBVIOUS
        <3>3. \A i \in 0..(0 - 1) : FALSE
            OBVIOUS
        <3> HIDE DEF g
        <3> QED
            BY <2>1, <3>1, <3>2, <3>3 DEF GoodLine, Whole, TabsFit, IsRun
    <2>4. CASE t # c
        <3>1. keyboard_index'[t] = m
            BY <1>1, <1>4, <2>4
        <3>2. \A j \in Places : Cell(t, j) # Cell(c, n)
            BY <1>1, <2>4, CellFacts, SizesFacts DEF Places
        <3>3. \A j \in Places : Cell(t, j) = Cell(c, n + 1) => j = 0 /\ n + 1 = BufferSize /\ t > 1
            <4>1. CASE n + 1 < BufferSize
                BY <1>1, <2>4, <4>1, CellFacts
            <4>2. CASE n + 1 = BufferSize
                <5>1. \A j \in Places : Cell(t, j) = Cell(c, n + 1) => j = 0
                    BY <1>1, <4>2, CellFacts
                <5>2. Cell(t, 0) = Cell(c, BufferSize) => t > 1
                    <6>1. t \in Nat /\ c \in Nat /\ t >= 1 /\ c >= 1 /\ c # t
                        BY <1>1, <2>4, SizesFacts DEF Terms
                    <6>2. c - 1 \in Nat /\ (c - 1) * BufferSize \in Nat
                        BY <6>1, Times, SizesFacts
                    <6>3. t = 1 => Cell(t, 0) = 0
                        BY SizesFacts DEF Cell
                    <6>4. Cell(c, BufferSize) > 0
                        BY <6>2, SizesFacts DEF Cell
                    <6> QED
                        BY <6>1, <6>3, <6>4
                <5> QED
                    BY <4>2, <5>1, <5>2
            <4> QED
                BY <1>1, <4>1, <4>2, SizesFacts
        <3>4. \A j \in Places : \/ g[j] = f[j]
                                \/ j = 0 /\ g[j] = NUL /\ t > 1
            BY <1>5, <2>1, <3>2, <3>3
        <3> HIDE DEF f, g, m
        <3>5. CASE g[0] = f[0]
            <4>1. \A i \in 0..(m - 1) : i \in Places
                BY <2>2, SizesFacts DEF Places
            <4>2. \A i \in 0..(m - 1) : g[i] = f[i]
                BY <3>4, <3>5, <4>1
            <4>3. GoodLine(g, m, t)
                BY <2>1, <2>2, <4>2, GoodSame
            <4> QED
                BY <3>1, <4>3 DEF g
        <3>6. CASE g[0] # f[0]
            <4>1. g[0] = NUL /\ t > 1 /\ g[0] # TAB
                BY <2>1, <3>4, <3>6, CharsFacts
            <4>2. \A i \in 0..(m - 1) : i \in Places
                BY <2>2, SizesFacts DEF Places
            <4>3. \A i \in 0..(m - 1) : i # 0 => g[i] = f[i]
                BY <3>4, <4>2
            <4>4. TabsFit(g, m)
                <5>1. \A i \in 1..(m - 1) : g[i] = f[i]
                    BY <2>2, <4>3
                <5> QED
                    BY <2>1, <2>2, <4>1, <5>1, FitHead DEF GoodLine
            <4>5. Whole(g, m, t)
                BY <2>2, <4>1, <4>3 DEF GoodLine, Whole
            <4>6. GoodLine(g, m, t)
                BY <2>2, <4>4, <4>5 DEF GoodLine
            <4> QED
                BY <3>1, <4>6 DEF g
        <3> QED
            BY <3>5, <3>6
    <2> QED
        BY <2>3, <2>4
<1>7. Lines'
    BY <1>4, <1>6 DEF Lines, Row
<1>8. \A t \in Terms : \A i \in 0..keyboard_index[t] : b2[Cell(t, i)] \in Chars
    <2>1. \A t \in Terms : \A i \in 0..keyboard_index[t] : i \in 0..BufferSize
        BY <1>1, SizesFacts DEF Places
    <2> QED
        BY <1>3, <2>1, CellFacts DEF Buffers
<1>9. 0 \in Places
    BY SizesFacts DEF Places
<1> QED
    BY <1>1, <1>3, <1>4, <1>7, <1>8, <1>9

(* A scan code leaves every read as it was, but for the record of its line. *)
LEMMA ReadsKept ==
    ASSUME IInv, \A t \in Terms : \E l \in Seq(Chars) : reads'[t] = [reads[t] EXCEPT !.line = l],
           DOMAIN reads' = Terms, reads' = [t \in Terms |-> reads'[t]]
    PROVE  /\ ReadsTyped'
           /\ \A t \in Terms : /\ reads'[t].pc \in {"idle", "wait", "copy"}
                               /\ Len(reads'[t].out) <= reads'[t].want
<1> DEFINE R == [pc : {"idle", "wait", "copy"}, want : Nat,
                 out : Seq(Chars), line : Seq(Chars)]
<1>1. ASSUME NEW t \in Terms
      PROVE  /\ reads'[t] \in R
             /\ reads'[t].pc = reads[t].pc /\ reads'[t].out = reads[t].out
             /\ reads'[t].want = reads[t].want
    <2>1. PICK l \in Seq(Chars) : reads'[t] = [reads[t] EXCEPT !.line = l]
        OBVIOUS
    <2>2. reads[t] \in R
        BY DEF IInv, ReadsTyped
    <2> QED
        BY <2>1, <2>2
<1>2. ReadsTyped'
    BY <1>1 DEF ReadsTyped
<1> QED
    BY <1>1, <1>2 DEF IInv, InputTypeOK

LEMMA KeyKeeps ==
    ASSUME IInv, NEW k \in Keys, NEW fits, Key(k, fits)
    PROVE  IInv'
<1>1. k \in KeyNames /\ cur_terminal \in Terms /\ Good(Line)
    BY InputAssumption, LineGood DEF IInv, InputTypeOK
<1>2. /\ keyboard_buffer' \in Buffers /\ keyboard_index' \in [Terms -> Places]
      /\ newline_flag' \in BOOLEAN /\ Lines'
      /\ k = "enter" => \A t \in Terms : EnteredLine(t) \in Seq(Chars)
    <2>1. CASE k = "enter"
        <3>1. Store(Entered(Line))
            BY <2>1 DEF Key, Edited
        <3>2. /\ keyboard_buffer' \in Buffers /\ keyboard_index' \in [Terms -> Places]
              /\ newline_flag' \in BOOLEAN /\ Lines'
              /\ \A t \in Terms : \A i \in 0..keyboard_index[t] : keyboard_buffer'[Cell(t, i)] \in Chars
            BY <3>1, EnteredKeeps
        <3>3. ASSUME NEW t \in Terms PROVE EnteredLine(t) \in Seq(Chars)
            <4>1. keyboard_index[t] \in Nat
                BY SizesFacts DEF IInv, InputTypeOK
            <4>2. \A i \in 1..(keyboard_index[t] + 1) : i - 1 \in 0..keyboard_index[t]
                BY <4>1
            <4>3. EnteredLine(t) \in [1..(keyboard_index[t] + 1) -> Chars]
                BY <3>2, <4>2 DEF EnteredLine
            <4> QED
                BY <4>1, <4>3, SeqDef
        <3> QED
            BY <3>2, <3>3
    <2>2. CASE k # "enter"
        <3>1. Good(Broken(Line))
            BY <1>1, BrokenGood
        <3>2. Good(Edited(k, fits))
            <4>1. CASE k = "letter"
                BY <1>1, <3>1, <4>1, TypedGood DEF Edited
            <4>2. CASE k = "tab"
                BY <1>1, <3>1, <4>2, TabbedGood DEF Edited
            <4>3. CASE k = "backspace"
                BY <1>1, <3>1, <4>3, ErasedGood DEF Edited
            <4>4. CASE k = "clear"
                BY <1>1, <3>1, <4>4, ClearedGood DEF Edited
            <4>5. CASE k = "release"
                BY <3>1, <4>5 DEF Edited
            <4> QED
                BY <1>1, <2>2, <4>1, <4>2, <4>3, <4>4, <4>5 DEF KeyNames
        <3> QED
            BY <2>2, <3>2, StoreKeeps DEF Key
    <2> QED
        BY <2>1, <2>2
<1>3. enter_flag' \in [Terms -> BOOLEAN] /\ cur_terminal' \in Terms
    BY DEF Key, IInv, InputTypeOK
<1>4. \A t \in Terms : \E l \in Seq(Chars) : reads'[t] = [reads[t] EXCEPT !.line = l]
    <2>1. <<>> \in Seq(Chars)
        OBVIOUS
    <2> QED
        BY <1>2, <2>1 DEF Key
<1>5. ReadsTyped' /\ \A t \in Terms : /\ reads'[t].pc \in {"idle", "wait", "copy"}
                                      /\ Len(reads'[t].out) <= reads'[t].want
    <2>1. DOMAIN reads' = Terms /\ reads' = [t \in Terms |-> reads'[t]]
        BY DEF Key
    <2> QED
        BY <1>4, <2>1, ReadsKept
<1> QED
    BY <1>2, <1>3, <1>5 DEF IInv, InputTypeOK, Lines, Buffers, Places

LEMMA SelectKeeps ==
    ASSUME IInv, NEW sel \in Terms, SelectTerminal(sel)
    PROVE  IInv'
<1>1. Good(Broken(Line))
    BY LineGood, BrokenGood DEF IInv, InputTypeOK
<1>2. /\ keyboard_buffer' \in Buffers /\ keyboard_index' \in [Terms -> Places]
      /\ newline_flag' \in BOOLEAN /\ Lines'
    BY <1>1, StoreKeeps DEF SelectTerminal
<1>3. enter_flag' \in [Terms -> BOOLEAN] /\ cur_terminal' \in Terms
    BY DEF SelectTerminal, IInv, InputTypeOK
<1>4. /\ \A t \in Terms : reads'[t] = [reads[t] EXCEPT !.line = <<>>]
      /\ <<>> \in Seq(Chars)
      /\ DOMAIN reads' = Terms /\ reads' = [t \in Terms |-> reads'[t]]
    BY DEF SelectTerminal
<1>5. ReadsTyped' /\ \A t \in Terms : /\ reads'[t].pc \in {"idle", "wait", "copy"}
                                      /\ Len(reads'[t].out) <= reads'[t].want
    BY <1>4, ReadsKept
<1> QED
    BY <1>2, <1>3, <1>5 DEF IInv, InputTypeOK, Lines, Buffers, Places

(* A step of terminal_read that leaves the lines alone.                     *)
LEMMA ReadKeeps ==
    ASSUME IInv, NEW t \in Terms, NEW r, reads' = [reads EXCEPT ![t] = r],
           r.pc \in {"idle", "wait", "copy"}, Len(r.out) <= r.want,
           r \in [pc : {"idle", "wait", "copy"}, want : Nat,
                  out : Seq(Chars), line : Seq(Chars)],
           enter_flag' \in [Terms -> BOOLEAN], keyboard_buffer' \in Buffers, Lines',
           UNCHANGED <<keyboard_index, newline_flag, cur_terminal>>
    PROVE  IInv'
<1>1. ReadsTyped' /\ \A u \in Terms : reads'[u] = IF u = t THEN r ELSE reads[u]
    BY DEF IInv, ReadsTyped
<1>2. \A u \in Terms : /\ reads'[u].pc \in {"idle", "wait", "copy"}
                       /\ Len(reads'[u].out) <= reads'[u].want
    BY <1>1 DEF IInv, InputTypeOK
<1>3. /\ keyboard_index' \in [Terms -> 0..(BufferSize - 1)] /\ newline_flag' \in BOOLEAN
      /\ cur_terminal' \in Terms
    BY DEF IInv, InputTypeOK
<1> QED
    BY <1>1, <1>2, <1>3 DEF IInv, InputTypeOK, Lines, Buffers

LEMMA SameLines ==
    ASSUME IInv, UNCHANGED <<keyboard_buffer, keyboard_index>>
    PROVE  keyboard_buffer' \in Buffers /\ Lines'
<1>1. Lines
    BY DEF IInv, Lines
<1>2. Lines'
    BY <1>1 DEF Lines, Row
<1> QED
    BY <1>2 DEF IInv, InputTypeOK, Buffers

LEMMA ReadStartKeeps ==
    ASSUME IInv, NEW t \in Terms, NEW n \in Sizes, ReadStart(t, n)
    PROVE  IInv'
<1> DEFINE r == [Idle EXCEPT !.pc = "wait", !.want = n]
<1>1. n \in Nat /\ <<>> \in Seq(Chars)
    BY InputAssumption, SizesFacts
<1>2. /\ r \in [pc : {"idle", "wait", "copy"}, want : Nat,
                out : Seq(Chars), line : Seq(Chars)]
      /\ r.pc \in {"idle", "wait", "copy"} /\ Len(r.out) <= r.want
    <2> DEFINE w == [Idle EXCEPT !.pc = "wait"]
    <2>1. /\ Idle \in [pc : {"idle", "wait", "copy"}, want : Nat,
                      out : Seq(Chars), line : Seq(Chars)]
          /\ Idle.out = <<>> /\ Len(<<>>) = 0
        BY <1>1, SizesFacts DEF Idle
    <2>2. /\ w \in [pc : {"idle", "wait", "copy"}, want : Nat,
                    out : Seq(Chars), line : Seq(Chars)]
          /\ w.pc = "wait" /\ w.out = <<>>
        BY <2>1
    <2>3. r = [w EXCEPT !.want = n]
        BY Zenon
    <2> HIDE DEF w, r
    <2> QED
        BY <1>1, <2>1, <2>2, <2>3
<1>3. reads' = [reads EXCEPT ![t] = r] /\ enter_flag' \in [Terms -> BOOLEAN]
    BY DEF ReadStart, IInv, InputTypeOK
<1>4. keyboard_buffer' \in Buffers /\ Lines'
    BY SameLines DEF ReadStart
<1> HIDE DEF r
<1> QED
    BY <1>2, <1>3, <1>4, ReadKeeps DEF ReadStart

LEMMA ReadWakeKeeps ==
    ASSUME IInv, NEW t \in Terms, ReadWake(t)
    PROVE  IInv'
<1> DEFINE r == [reads[t] EXCEPT !.pc = "copy"]
<1>1. /\ r \in [pc : {"idle", "wait", "copy"}, want : Nat,
                out : Seq(Chars), line : Seq(Chars)]
      /\ r.pc \in {"idle", "wait", "copy"} /\ Len(r.out) <= r.want
    BY DEF IInv, InputTypeOK, ReadsTyped
<1>2. reads' = [reads EXCEPT ![t] = r] /\ enter_flag' \in [Terms -> BOOLEAN]
    BY DEF ReadWake, IInv, InputTypeOK
<1>3. keyboard_buffer' \in Buffers /\ Lines'
    BY SameLines DEF ReadWake
<1> HIDE DEF r
<1> QED
    BY <1>1, <1>2, <1>3, ReadKeeps DEF ReadWake

LEMMA BytesTyped ==
    ASSUME IInv, NEW t \in Terms, NEW i \in Nat
    PROVE  Bytes(t, i) \subseteq Chars
BY DEF Bytes, IInv, InputTypeOK

LEMMA ReadCopyKeeps ==
    ASSUME IInv, NEW t \in Terms, ReadCopy(t)
    PROVE  IInv'
<1> DEFINE out == reads[t].out
<1>1. /\ reads[t] \in [pc : {"idle", "wait", "copy"}, want : Nat,
                       out : Seq(Chars), line : Seq(Chars)]
      /\ Len(out) <= reads[t].want /\ Len(out) # reads[t].want /\ cur_terminal \in Terms
    BY DEF IInv, InputTypeOK, ReadsTyped, ReadCopy, Copied
<1>2. Len(out) \in Nat /\ Len(out) + 1 <= reads[t].want
    BY <1>1
<1>3. PICK ch \in Bytes(cur_terminal, Len(out)) :
         reads' = [reads EXCEPT ![t].out = Append(@, ch)]
    BY DEF ReadCopy
<1>4. ch \in Chars
    BY <1>1, <1>2, <1>3, BytesTyped
<1> DEFINE r == [reads[t] EXCEPT !.out = Append(out, ch)]
<1>5. Append(out, ch) \in Seq(Chars) /\ Len(Append(out, ch)) = Len(out) + 1
    BY <1>1, <1>4
<1>6. /\ r \in [pc : {"idle", "wait", "copy"}, want : Nat,
                out : Seq(Chars), line : Seq(Chars)]
      /\ r.pc \in {"idle", "wait", "copy"} /\ Len(r.out) <= r.want
    BY <1>1, <1>2, <1>5
<1>7. reads' = [reads EXCEPT ![t] = r] /\ enter_flag' \in [Terms -> BOOLEAN]
    BY <1>3 DEF ReadCopy, IInv, InputTypeOK
<1>8. keyboard_buffer' \in Buffers /\ Lines'
    BY SameLines DEF ReadCopy
<1> HIDE DEF r, out
<1> QED
    BY <1>6, <1>7, <1>8, ReadKeeps DEF ReadCopy

(* The byte terminal_read clears behind a row is the first of the next, and *)
(* no line begins with a line end.                                          *)
LEMMA ReadEndKeeps ==
    ASSUME IInv, NEW t \in Terms, ReadEnd(t)
    PROVE  IInv'
<1> DEFINE behind == Cell(cur_terminal, BufferSize)
           new    == [keyboard_buffer EXCEPT ![behind] = NUL]
<1>1. /\ keyboard_buffer \in Buffers /\ cur_terminal \in Terms
      /\ keyboard_index \in [Terms -> Places] /\ behind \in Cells
      /\ UNCHANGED <<keyboard_index, newline_flag, enter_flag, cur_terminal>>
    BY CellFacts, SizesFacts DEF IInv, InputTypeOK, Buffers, Places, ReadEnd
<1>2. keyboard_buffer' \in Buffers /\ Lines'
    <2>1. CASE keyboard_buffer[behind] # NL
        BY <1>1, <2>1, SameLines DEF ReadEnd
    <2>2. CASE keyboard_buffer[behind] = NL
        <3>1. keyboard_buffer' = new /\ new \in Buffers
            BY <1>1, <2>2, CharsFacts DEF ReadEnd, Buffers
        <3>2. \A c \in Cells : new[c] = IF c = behind THEN NUL ELSE keyboard_buffer[c]
            BY <1>1 DEF Buffers
        <3> HIDE DEF new
        <3>3. ASSUME NEW u \in Terms
              PROVE  GoodLine(Row(new, u), keyboard_index[u], u)
            <4> DEFINE f == Row(keyboard_buffer, u)
                       g == Row(new, u)
                       n == keyboard_index[u]
            <4>1. /\ f \in RowTexts /\ g \in RowTexts /\ GoodLine(f, n, u)
                  /\ \A j \in Places : f[j] = keyboard_buffer[Cell(u, j)] /\ g[j] = new[Cell(u, j)]
                BY <1>1, <3>1, RowTyped DEF IInv
            <4>2. \A j \in Places : /\ Cell(u, j) \in Cells
                                    /\ Cell(u, j) = behind => j = 0
                <5>1. \A j \in Places : Cell(u, j) \in Cells
                    BY CellFacts, SizesFacts DEF Places
                <5> QED
                    BY <1>1, <5>1, CellFacts, SizesFacts
            <4>3. n \in Places /\ n \in Nat /\ \A i \in 0..(n - 1) : i \in Places
                BY <1>1, SizesFacts DEF Places
            <4>4. ASSUME NEW i \in 0..(n - 1) PROVE g[i] = f[i]
                <5>1. i \in Places
                    BY <4>3
                <5>2. CASE Cell(u, i) # behind
                    BY <3>2, <4>1, <4>2, <5>1, <5>2
                <5>3. CASE Cell(u, i) = behind
                    <6>1. i = 0 /\ f[i] = NL
                        BY <2>2, <4>1, <4>2, <5>1, <5>3
                    <6>2. \/ f[i] = u \/ f[i] = TAB
                          \/ f[i] = NL /\ i = MaxLine
                          \/ f[i] = NUL /\ i = 0 /\ u > 1
                        BY <4>1 DEF GoodLine, Whole
                    <6> QED
                        BY <6>1, <6>2, CharsFacts, SizesFacts
                <5> QED
                    BY <5>2, <5>3
            <4> HIDE DEF f, g, n
            <4>5. GoodLine(g, n, u)
                BY <4>1, <4>4, GoodSame
            <4> QED
                BY <4>5 DEF g, n
        <3>4. Lines'
            BY <1>1, <3>1, <3>3 DEF Lines, Row
        <3> QED
            BY <3>1, <3>4
    <2> QED
        BY <2>1, <2>2
<1>3. /\ Idle \in [pc : {"idle", "wait", "copy"}, want : Nat,
                   out : Seq(Chars), line : Seq(Chars)]
      /\ Idle.pc \in {"idle", "wait", "copy"} /\ Len(Idle.out) <= Idle.want
    <2>1. 0 \in Nat /\ <<>> \in Seq(Chars) /\ Len(<<>>) = 0
        BY SizesFacts
    <2> QED
        BY <2>1 DEF Idle
<1>4. reads' = [reads EXCEPT ![t] = Idle] /\ enter_flag' \in [Terms -> BOOLEAN]
    BY DEF ReadEnd, IInv, InputTypeOK
<1> HIDE DEF behind, new
<1> QED
    BY <1>1, <1>2, <1>3, <1>4, ReadKeeps

LEMMA InitInv == Init => IInv
<1> SUFFICES ASSUME Init PROVE IInv
    OBVIOUS
<1>1. keyboard_buffer \in Buffers /\ keyboard_index \in [Terms -> Places]
    BY CharsFacts, SizesFacts DEF Init, Buffers, Places
<1>2. 1 \in Terms
    BY SizesFacts DEF Terms
<1>3. ReadsTyped /\ \A t \in Terms : /\ reads[t].pc \in {"idle", "wait", "copy"}
                                     /\ Len(reads[t].out) <= reads[t].want
    <2>1. 0 \in Nat /\ <<>> \in Seq(Chars) /\ Len(<<>>) = 0
        BY SizesFacts
    <2> QED
        BY <2>1 DEF Init, Idle, ReadsTyped
<1>4. InputTypeOK
    BY <1>1, <1>2, <1>3 DEF Init, InputTypeOK, Buffers, Places
<1>5. ASSUME NEW t \in Terms
      PROVE  GoodLine(Row(keyboard_buffer, t), keyboard_index[t], t)
    <2>1. keyboard_index[t] = 0 /\ 0 \in Places
        BY SizesFacts DEF Init, Places
    <2>2. \A i \in 0..(0 - 1) : FALSE
        OBVIOUS
    <2>3. \A s, e \in 0..0 : ~(s < e)
        OBVIOUS
    <2> QED
        BY <2>1, <2>2, <2>3 DEF GoodLine, Whole, TabsFit, IsRun
<1> QED
    BY <1>3, <1>4, <1>5 DEF IInv

LEMMA NextKeeps == IInv /\ [Next]_vars => IInv'
<1> SUFFICES ASSUME IInv, [Next]_vars PROVE IInv'
    OBVIOUS
<1>1. CASE Next
    BY <1>1, KeyKeeps, SelectKeeps, ReadStartKeeps, ReadWakeKeeps, ReadCopyKeeps, ReadEndKeeps
       DEF Next
<1>2. CASE UNCHANGED vars
    BY <1>2 DEF vars, IInv, InputTypeOK, ReadsTyped, Row
<1> QED
    BY <1>1, <1>2

(***************************************************************************)
(* The theorems.                                                           *)
(***************************************************************************)

(* keyboard_handler never moves an index out of its row, neither a tab, a   *)
(* break or a terminator past its end nor a backspace before its start,     *)
(* and terminal_read copies no more than it was asked for.                  *)
THEOREM InputTypeCorrect == Spec => []InputTypeOK
<1>1. IInv => InputTypeOK
    BY DEF IInv
<1> QED
    BY InitInv, NextKeeps, <1>1, PTL DEF Spec

(* What stands before the index of a terminal was typed there, with breaks  *)
(* only at MaxLine; but for its first character, which a full line of the   *)
(* terminal before may have ended (keyboard.c:135).                         *)
THEOREM LinesWhole == Spec => []LineWhole
<1>1. IInv => LineWhole
    <2> SUFFICES ASSUME IInv, NEW t \in Terms, NEW i \in 0..(keyboard_index[t] - 1)
                 PROVE  LET c == keyboard_buffer[Cell(t, i)]
                        IN  \/ c = t \/ c = TAB
                            \/ c = NL /\ i = MaxLine
                            \/ c = NUL /\ i = 0 /\ t > 1
        BY DEF LineWhole
    <2>1. keyboard_buffer \in Buffers /\ keyboard_index[t] \in Places
        BY DEF IInv, InputTypeOK, Buffers, Places
    <2>2. i \in Places
        BY <2>1, SizesFacts DEF Places
    <2>3. Row(keyboard_buffer, t)[i] = keyboard_buffer[Cell(t, i)]
        BY <2>1, <2>2, RowTyped
    <2>4. Whole(Row(keyboard_buffer, t), keyboard_index[t], t)
        BY DEF IInv, GoodLine
    <2> QED
        BY <2>3, <2>4 DEF Whole
<1> QED
    BY InitInv, NextKeeps, <1>1, PTL DEF Spec
(***************************************************************************)
(* The line of a read on its way, from its Enter to the program.           *)
(***************************************************************************)

(* As long as the record of it stands, the line stands in the row, with the *)
(* terminator behind it, and what has been copied is its beginning.         *)
OnItsWay(t) ==
    LET line == reads[t].line
        out  == reads[t].out
    IN  /\ cur_terminal = t /\ reads[t].pc \in {"wait", "copy"}
        /\ reads[t].pc = "wait" => out = <<>>
        /\ Len(line) \in 1..BufferSize
        /\ \A i \in 1..Len(line) : keyboard_buffer[Cell(t, i - 1)] = line[i]
        /\ keyboard_buffer[Cell(t, Len(line))] = NUL
        /\ Len(out) <= Len(line) + 1
        /\ \A i \in 1..Len(out) : out[i] = IF i <= Len(line) THEN line[i] ELSE NUL

WayInv ==
    \A t \in Terms : /\ reads[t].pc = "wait" => reads[t].out = <<>>
                     /\ reads[t].line # <<>> => OnItsWay(t)

LEMMA KeyWay ==
    ASSUME IInv, WayInv, NEW k \in Keys, NEW fits, Key(k, fits)
    PROVE  WayInv'
<1> SUFFICES ASSUME NEW t \in Terms
             PROVE  /\ reads'[t].pc = "wait" => reads'[t].out = <<>>
                    /\ reads'[t].line # <<>> => OnItsWay(t)'
    BY DEF WayInv
<1> DEFINE n  == keyboard_index[t]
           b1 == [keyboard_buffer EXCEPT ![Cell(t, n)] = NL]
           b2 == [b1 EXCEPT ![Cell(t, n + 1)] = NUL]
<1>1. /\ keyboard_buffer \in Buffers /\ n \in Places /\ n \in Nat /\ n < BufferSize
      /\ reads[t] \in [pc : {"idle", "wait", "copy"}, want : Nat,
                       out : Seq(Chars), line : Seq(Chars)]
    BY SizesFacts DEF IInv, InputTypeOK, ReadsTyped, Buffers, Places
<1>2. /\ reads'[t].pc = reads[t].pc /\ reads'[t].out = reads[t].out
      /\ reads'[t].line = IF k = "enter" /\ t = cur_terminal /\ reads[t].pc = "wait"
                          THEN EnteredLine(t) ELSE <<>>
    BY <1>1 DEF Key
<1>3. ASSUME k = "enter", t = cur_terminal, reads[t].pc = "wait"
      PROVE  OnItsWay(t)'
    <2>1. keyboard_buffer' = b2 /\ cur_terminal' = t
        BY <1>3 DEF Key, Edited, Store, Entered, Put, Line
    <2>2. n + 1 \in 0..BufferSize /\ Cell(t, n) \in Cells /\ Cell(t, n + 1) \in Cells
        BY <1>1, SizesFacts, CellFacts
    <2>3. b2[Cell(t, n + 1)] = NUL
        BY <1>1, <2>2 DEF Buffers
    <2> HIDE DEF b1, b2
    <2>4. /\ Len(EnteredLine(t)) = n + 1
          /\ \A i \in 1..(n + 1) : EnteredLine(t)[i] = b2[Cell(t, i - 1)]
        BY <1>1, <2>1 DEF EnteredLine
    <2>5. reads[t].out = <<>> /\ Len(<<>>) = 0
        BY <1>3 DEF WayInv
    <2>6. reads'[t].line = EnteredLine(t)
        BY <1>2, <1>3
    <2> QED
        BY <1>1, <1>2, <1>3, <2>1, <2>3, <2>4, <2>5, <2>6, SizesFacts DEF OnItsWay
<1> QED
    BY <1>2, <1>3 DEF WayInv

LEMMA SelectWay ==
    ASSUME IInv, WayInv, NEW sel \in Terms, SelectTerminal(sel)
    PROVE  WayInv'
<1>1. \A t \in Terms : /\ reads'[t].pc = reads[t].pc /\ reads'[t].out = reads[t].out
                       /\ reads'[t].line = <<>>
    BY DEF SelectTerminal, IInv, ReadsTyped
<1> QED
    BY <1>1 DEF WayInv

LEMMA ReadWay ==
    ASSUME IInv, WayInv, NEW u \in Terms,
           (\E n \in Sizes : ReadStart(u, n)) \/ ReadWake(u) \/ ReadCopy(u) \/ ReadEnd(u)
    PROVE  WayInv'
<1> SUFFICES ASSUME NEW t \in Terms
             PROVE  /\ reads'[t].pc = "wait" => reads'[t].out = <<>>
                    /\ reads'[t].line # <<>> => OnItsWay(t)'
    BY DEF WayInv
<1> DEFINE out  == reads[t].out
           line == reads[t].line
<1>1. /\ reads \in [Terms -> [pc : {"idle", "wait", "copy"}, want : Nat,
                              out : Seq(Chars), line : Seq(Chars)]]
      /\ out \in Seq(Chars) /\ line \in Seq(Chars) /\ Len(out) \in Nat
    BY DEF IInv, ReadsTyped
<1>2. /\ reads[t].pc = "wait" => out = <<>>
      /\ line # <<>> => OnItsWay(t)
    BY DEF WayInv
<1>3. CASE \E n \in Sizes : ReadStart(u, n)
    <2>1. CASE t = u
        BY <1>1, <1>3, <2>1 DEF ReadStart, Idle
    <2>2. CASE t # u
        <3>1. reads'[t] = reads[t] /\ UNCHANGED <<keyboard_buffer, cur_terminal>>
            BY <1>1, <1>3, <2>2 DEF ReadStart
        <3> QED
            BY <1>2, <3>1 DEF OnItsWay
    <2> QED
        BY <2>1, <2>2
<1>4. CASE ReadWake(u)
    <2>1. CASE t = u
        <3>1. /\ reads'[t].pc = "copy" /\ reads'[t].out = out /\ reads'[t].line = line
              /\ UNCHANGED <<keyboard_buffer, cur_terminal>>
            BY <1>1, <1>4, <2>1 DEF ReadWake
        <3> QED
            BY <1>2, <3>1 DEF OnItsWay
    <2>2. CASE t # u
        <3>1. reads'[t] = reads[t] /\ UNCHANGED <<keyboard_buffer, cur_terminal>>
            BY <1>1, <1>4, <2>2 DEF ReadWake
        <3> QED
            BY <1>2, <3>1 DEF OnItsWay
    <2> QED
        BY <2>1, <2>2
<1>5. CASE ReadCopy(u)
    <2>1. CASE t = u
        <3>0. PICK ch \in Bytes(cur_terminal, Len(out)) :
                 reads' = [reads EXCEPT ![t].out = Append(@, ch)]
            BY <1>5, <2>1 DEF ReadCopy
        <3>1. /\ reads'[t].pc = "copy" /\ reads'[t].out = Append(out, ch)
              /\ reads'[t].line = line /\ ~Copied(t)
              /\ UNCHANGED <<keyboard_buffer, cur_terminal>>
            BY <1>1, <1>5, <2>1, <3>0 DEF ReadCopy
        <3>2. ASSUME line # <<>> PROVE OnItsWay(t)'
            <4>1. /\ cur_terminal = t /\ Len(line) \in 1..BufferSize
                  /\ \A i \in 1..Len(line) : keyboard_buffer[Cell(t, i - 1)] = line[i]
                  /\ keyboard_buffer[Cell(t, Len(line))] = NUL
                  /\ Len(out) <= Len(line) + 1
                  /\ \A i \in 1..Len(out) : out[i] = IF i <= Len(line) THEN line[i] ELSE NUL
                BY <1>2, <3>2 DEF OnItsWay
            <4>2. Len(out) <= Len(line)
                <5> SUFFICES ASSUME Len(out) = Len(line) + 1 PROVE FALSE
                    BY <1>1, <4>1, SizesFacts
                <5>1. Len(out) \in 1..Len(out) /\ ~(Len(out) <= Len(line))
                    BY <1>1, <4>1, SizesFacts
                <5>2. out[Len(out)] = NUL
                    BY <4>1, <5>1
                <5>3. out # <<>>
                    BY <1>1, <5>1
                <5> QED
                    BY <3>1, <5>2, <5>3 DEF Copied, Last
            <4>3. ch = keyboard_buffer[Cell(t, Len(out))]
                <5>1. Len(out) \in 0..BufferSize
                    BY <1>1, <4>1, <4>2, SizesFacts
                <5>2. Cell(t, Len(out)) \in Cells
                    BY <4>1, <5>1, CellFacts
                <5> QED
                    BY <3>0, <4>1, <5>2 DEF Bytes
            <4>4. ch = IF Len(out) + 1 <= Len(line) THEN line[Len(out) + 1] ELSE NUL
                <5>1. CASE Len(out) < Len(line)
                    <6>1. Len(out) + 1 \in 1..Len(line) /\ Len(out) + 1 - 1 = Len(out)
                        BY <1>1, <4>1, <5>1
                    <6>2. ch = keyboard_buffer[Cell(t, Len(out) + 1 - 1)]
                        BY <4>1, <4>3, <6>1
                    <6> QED
                        BY <1>1, <4>1, <6>1, <6>2
                <5>2. CASE Len(out) = Len(line)
                    BY <1>1, <4>1, <4>3, <5>2
                <5> QED
                    BY <1>1, <4>1, <4>2, <5>1, <5>2
            <4> HIDE DEF out, line
            <4>5. ch \in Chars
                BY <1>1, <3>0, <4>1, BytesTyped
            <4>6. /\ Len(Append(out, ch)) = Len(out) + 1
                  /\ \A i \in 1..(Len(out) + 1) :
                        Append(out, ch)[i] = IF i = Len(out) + 1 THEN ch ELSE out[i]
                BY <1>1, <4>5
            <4>7. \A i \in 1..(Len(out) + 1) :
                        Append(out, ch)[i] = IF i <= Len(line) THEN line[i] ELSE NUL
                BY <1>1, <4>1, <4>4, <4>6
            <4>8. /\ reads'[t].pc = "copy" /\ reads'[t].line = line
                  /\ cur_terminal' = t /\ keyboard_buffer' = keyboard_buffer
                BY <3>1, <4>1
            <4>9. Len(reads'[t].out) <= Len(line) + 1
                BY <1>1, <3>1, <4>2, <4>6
            <4>10. \A i \in 1..Len(reads'[t].out) :
                        reads'[t].out[i] = IF i <= Len(line) THEN line[i] ELSE NUL
                BY <3>1, <4>6, <4>7
            <4> QED
                BY <4>1, <4>8, <4>9, <4>10 DEF OnItsWay
        <3> QED
            BY <3>1, <3>2
    <2>2. CASE t # u
        <3>1. reads'[t] = reads[t] /\ UNCHANGED <<keyboard_buffer, cur_terminal>>
            BY <1>1, <1>5, <2>2 DEF ReadCopy
        <3> QED
            BY <1>2, <3>1 DEF OnItsWay
    <2> QED
        BY <2>1, <2>2
<1>6. CASE ReadEnd(u)
    <2>1. CASE t = u
        BY <1>1, <1>6, <2>1 DEF ReadEnd, Idle
    <2>2. CASE t # u
        <3> DEFINE behind == Cell(cur_terminal, BufferSize)
        <3>1. /\ reads'[t] = reads[t] /\ cur_terminal' = cur_terminal
              /\ keyboard_buffer' = IF keyboard_buffer[behind] = NL
                                    THEN [keyboard_buffer EXCEPT ![behind] = NUL]
                                    ELSE keyboard_buffer
              /\ keyboard_buffer \in [Cells -> Chars]
            BY <1>1, <1>6, <2>2 DEF ReadEnd, IInv, InputTypeOK
        <3>2. ASSUME line # <<>>
              PROVE  /\ \A i \in 1..Len(line) : keyboard_buffer'[Cell(t, i - 1)] = line[i]
                     /\ keyboard_buffer'[Cell(t, Len(line))] = NUL
            <4>1. /\ cur_terminal = t /\ Len(line) \in 1..BufferSize
                  /\ \A i \in 1..Len(line) : keyboard_buffer[Cell(t, i - 1)] = line[i]
                  /\ keyboard_buffer[Cell(t, Len(line))] = NUL
                BY <1>2, <3>2 DEF OnItsWay
            <4>2. \A i \in 0..BufferSize : /\ Cell(t, i) \in Cells
                                           /\ Cell(t, i) = behind => i = BufferSize
                BY <4>1, CellFacts, SizesFacts
            <4>3. \A c \in Cells : c # behind => keyboard_buffer'[c] = keyboard_buffer[c]
                BY <3>1
            <4>4. \A i \in 1..Len(line) : i - 1 \in 0..BufferSize /\ i - 1 # BufferSize
                BY <4>1, SizesFacts
            <4>5. \A i \in 1..Len(line) : keyboard_buffer'[Cell(t, i - 1)] = line[i]
                BY <4>1, <4>2, <4>3, <4>4
            <4>6. keyboard_buffer'[Cell(t, Len(line))] = NUL
                <5>1. Len(line) \in 0..BufferSize
                    BY <4>1, SizesFacts
                <5>2. CASE Cell(t, Len(line)) = behind
                    BY <3>1, <4>1, <5>2, CharsFacts
                <5>3. CASE Cell(t, Len(line)) # behind
                    BY <4>1, <4>2, <4>3, <5>1, <5>3
                <5> QED
                    BY <5>2, <5>3
            <4> QED
                BY <4>5, <4>6
        <3> HIDE DEF behind
        <3> QED
            BY <1>2, <3>1, <3>2 DEF OnItsWay
    <2> QED
        BY <2>1, <2>2
<1> QED
    BY <1>3, <1>4, <1>5, <1>6

LEMMA WayKept == IInv /\ WayInv /\ [Next]_vars => WayInv'
<1> SUFFICES ASSUME IInv, WayInv, [Next]_vars PROVE WayInv'
    OBVIOUS
<1>1. CASE Next
    BY <1>1, KeyWay, SelectWay, ReadWay DEF Next
<1>2. CASE UNCHANGED vars
    BY <1>2 DEF vars, WayInv, OnItsWay
<1> QED
    BY <1>1, <1>2

LEMMA WayPrefix ==
    ASSUME IInv, WayInv, NEW t \in Terms, reads[t].line # <<>>
    PROVE  IsPrefix(reads[t].out, Append(reads[t].line, NUL))
<1> DEFINE out  == reads[t].out
           line == reads[t].line
           full == Append(line, NUL)
<1>1. out \in Seq(Chars) /\ line \in Seq(Chars) /\ NUL \in Chars
    BY CharsFacts DEF IInv, ReadsTyped
<1>2. /\ Len(out) <= Len(line) + 1
      /\ \A i \in 1..Len(out) : out[i] = IF i <= Len(line) THEN line[i] ELSE NUL
    BY DEF WayInv, OnItsWay
<1> HIDE DEF out, line
<1>3. /\ full \in Seq(Chars) /\ Len(full) = Len(line) + 1
      /\ \A i \in 1..(Len(line) + 1) : full[i] = IF i <= Len(line) THEN line[i] ELSE NUL
    BY <1>1
<1> HIDE DEF full
<1>4. \A i \in 1..Len(out) : out[i] = full[i]
    BY <1>1, <1>2, <1>3
<1>5. SubSeq(out, 1, Len(out)) = SubSeq(full, 1, Len(out))
    BY <1>1, <1>2, <1>3, <1>4
<1>6. IsPrefix(out, full)
    BY <1>2, <1>3, <1>5 DEF IsPrefix
<1> QED
    BY <1>6 DEF out, line, full

(* Whatever was typed before and whatever the programs of other terminals   *)
(* read meanwhile, terminal_read gives a program the line that Enter ended, *)
(* if no key comes before it has it.                                        *)
THEOREM QuietReads == Spec => QuietRead
<1>1. Init => WayInv
    BY DEF Init, Idle, WayInv
<1>2. IInv /\ WayInv /\ [Next]_vars =>
          [\A t \in Terms :
              ReadEnd(t) /\ reads[t].line # <<>>
                  => IsPrefix(reads[t].out, Append(reads[t].line, NUL))]_vars
    BY WayPrefix
<1> QED
    BY InitInv, NextKeeps, WayKept, <1>1, <1>2, PTL DEF Spec, QuietRead
=============================================================================
