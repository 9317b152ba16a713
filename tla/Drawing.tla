------------------------------- MODULE Drawing -------------------------------
(* How putc and the line editor draw on a screen of text (lib.c), wherever  *)
(* the memory of that screen is.  A screen is its text, cell by cell, and   *)
(* the column and the row of its cursor.                                    *)
EXTENDS Integers, Sequences

CONSTANTS
    Rows,          \* NUM_ROWS, 25 in the code
    Cols,          \* NUM_COLS, 80
    LineColumn,    \* where backspace over a line break goes: MAX_LINE - 1
    PromptLength   \* characters of the prompt

ASSUME DrawingAssumption ==
    /\ Rows \in Nat \ {0} /\ Cols \in Nat \ {0}
    /\ LineColumn \in 0..(Cols - 1) /\ PromptLength \in Nat

Cells == 0..(Rows * Cols - 1)

(* What a cell can show; the null character shows as a blank.               *)
BLANK  == 0
LETTER == 1
NL     == -1
Texts == [Cells -> {BLANK, LETTER}]

Place(s) == Cols * s.y + s.x

(* C's remainder takes the sign of the dividend.                            *)
Rem(a, b) == IF a >= 0 THEN a % b ELSE -((-a) % b)

(* Each row goes up by one, the last is cleared.                            *)
Scrolled(text) ==
    [c \in Cells |-> IF c < (Rows - 1) * Cols THEN text[c + Cols] ELSE BLANK]

(* Bug: the bottom is found one line end too late.                          *)
LineEndBug(s) ==
    IF s.y + 1 > Rows
    THEN [text |-> Scrolled(s.text), x |-> 0, y |-> Rows - 1]
    ELSE [s EXCEPT !.x = 0, !.y = @ + 1]

LineEnd(s) ==
    IF s.y + 1 >= Rows
    THEN [text |-> Scrolled(s.text), x |-> 0, y |-> Rows - 1]
    ELSE [s EXCEPT !.x = 0, !.y = @ + 1]

(* Another character.  The column is reduced before it is divided into the  *)
(* row, which therefore stays: a full row is written over from its start.   *)
Put(s, c) == [s EXCEPT !.text[Place(s)] = c, !.x = Rem(@ + 1, Cols)]

putc(s, c) == IF c = NL THEN LineEnd(s) ELSE Put(s, c)

(* The characters of cs, one after the other.                               *)
Drawn(s, cs) ==
    LET at[i \in 0..Len(cs)] == IF i = 0 THEN s ELSE putc(at[i - 1], cs[i])
    IN  at[Len(cs)]

(* Backspace: a step back, the null character over the one erased, a step   *)
(* back.                                                                    *)
StepBack(s) ==
    LET back == [s EXCEPT !.x = @ - 1]
        over == Put(back, BLANK)
    IN  [over EXCEPT !.x = @ - 1]

(* ... and over a line break, into the row above.                           *)
StepUp(s) ==
    LET above == [s EXCEPT !.x = LineColumn, !.y = @ - 1]
    IN  [Put(above, BLANK) EXCEPT !.x = LineColumn]

Blank == [text |-> [c \in Cells |-> BLANK], x |-> 0, y |-> 0]

Prompted == Drawn(Blank, [i \in 1..PromptLength |-> LETTER])

(* A step back looks not where it goes: without room left of the cursor it  *)
(* writes in front of the text.  Over a tab there are four.                 *)
Room(s) == Place(s) > 0

TabRoom(s) ==
    LET two == StepBack(StepBack(s))
    IN  Room(s) /\ Room(StepBack(s)) /\ Room(two) /\ Room(StepBack(two))

(* What a scan code leaves of screen s: first the line may break.           *)
Breaks(s) == {s, LineEnd(s)}

(* Then a key may edit it, if it writes nowhere else.  The end of the row   *)
(* of the buffer may cut a tab to three spaces.  A step up has a row to go  *)
(* to: the break it erases went down before (Echo shows that it has).       *)
Edits(s) ==
    {s, Put(s, LETTER), LineEnd(s), Blank, Prompted,
     Drawn(s, <<BLANK, BLANK, BLANK>>), Drawn(s, <<BLANK, BLANK, BLANK, BLANK>>)}
        \cup (IF Room(s) THEN {StepBack(s)} ELSE {})
        \cup (IF TabRoom(s) THEN {StepBack(StepBack(StepBack(StepBack(s))))} ELSE {})
        \cup (IF s.y > 0 THEN {StepUp(s)} ELSE {})

KeyDraws(s) == UNION {Edits(r) : r \in Breaks(s)}
============================================================================
