-------------------------------- MODULE Echo --------------------------------
(* Where the line editor draws: keyboard_handler moves the cursor of the    *)
(* terminal on the screen while it edits that terminal's line, and programs *)
(* print at the same cursor (keyboard.c, putc and clear of lib.c).  What is *)
(* drawn is in Screen; here it is only where.                               *)
EXTENDS TerminalInput

CONSTANTS
    Rows,    \* NUM_ROWS, 25 in the code
    Cols,    \* NUM_COLS, 80
    Prompt   \* characters of the prompt that clear prints, 7

ASSUME EchoAssumption ==
    /\ Rows \in Nat /\ Rows >= 2 /\ Cols \in Nat
    /\ Prompt \in Nat /\ MaxLine + Prompt <= Cols
    /\ BufferSize - MaxLine - 1 <= Cols

VARIABLES
    screen_x, screen_y,  \* of each terminal, the cursor
    start,               \* of each terminal, where its line began: see Starts
    stopped              \* has the kernel faulted?

cursors  == <<screen_x, screen_y, start>>
echoVars == <<vars, cursors, stopped>>

Cursor(t) == [x |-> screen_x[t], y |-> screen_y[t]]

(* The cell putc writes.                                                    *)
Place(c) == Cols * c.y + c.x

(* C's remainder takes the sign of the dividend.                            *)
Rem(a, b) == IF a >= 0 THEN a % b ELSE -((-a) % b)

(* putc of a line end (and, at the bottom, the scroll) and of another       *)
(* character.  The quotient is 0, so the row never changes with a character.*)
NewLineBug(c) == [x |-> 0, y |-> IF c.y + 1 > Rows THEN Rows - 1 ELSE c.y + 1]

NewLine(c) == [x |-> 0, y |-> IF c.y + 1 >= Rows THEN Rows - 1 ELSE c.y + 1]

PutChar(c) == [c EXCEPT !.x = Rem(@ + 1, Cols)]

(* clear prints the prompt if the interrupted process is a base shell.      *)
Home(base) == [x |-> IF base THEN Prompt ELSE 0, y |-> 0]

Moved(c, n) == [c EXCEPT !.x = @ + n]

----------------------------------------------------------------------------
(* The cursor's way through the handler; e is the line at that point.       *)
BrokenAt(c, e) ==
    IF e.idx = MaxLine /\ e.idx + 1 < BufferSize THEN NewLine(c) ELSE c

TypedAt(c, e) == IF e.idx < BufferSize - 1 THEN PutChar(c) ELSE c

Fits(c) == c.x + 4 < MaxLine

(* A space for each character of the tab.                                   *)
TabbedAt(c, e) ==
    LET n == Tabbed(e, Fits(c)).idx - e.idx
        at[i \in 0..4] == IF i = 0 THEN c ELSE PutChar(at[i - 1])
    IN  at[n]

(* A step back, the null character over the one erased, a step back.        *)
StepBack(c) == Moved(PutChar(Moved(c, -1)), -1)

(* Bug: over a line break the row above is not gone back to.                *)
ErasedAtBug(c, e) ==
    LET last == e.buf[Cell(cur_terminal, e.idx - 1)]
    IN  IF e.idx = 0 THEN c
        ELSE IF last = TAB THEN StepBack(StepBack(StepBack(StepBack(c))))
        ELSE StepBack(c)

(* Over a line break the cursor goes to the last column a line that started *)
(* in column 0 would have reached.                                          *)
ErasedAt(c, e) ==
    LET last == e.buf[Cell(cur_terminal, e.idx - 1)]
    IN  IF e.idx = 0 THEN c
        ELSE IF e.nlf /\ last = NL THEN [x |-> MaxLine - 1, y |-> c.y - 1]
        ELSE IF last = TAB THEN StepBack(StepBack(StepBack(StepBack(c))))
        ELSE StepBack(c)

(* A step back looks not where it goes: without room left of the cursor it  *)
(* writes in front of the video memory.                                     *)
Room(c) == Place(c) > 0

EraseRoom(c, e) ==
    LET last == e.buf[Cell(cur_terminal, e.idx - 1)]
        two  == StepBack(StepBack(c))
    IN  e.idx # 0 /\ ~(e.nlf /\ last = NL) =>
            Room(c) /\ (last = TAB => Room(StepBack(c)) /\ Room(two) /\ Room(StepBack(two)))

After(k, base) ==
    LET c == BrokenAt(Cursor(cur_terminal), Line)
        e == Broken(Line)
    IN  CASE k = "enter"     -> NewLine(Cursor(cur_terminal))
          [] k = "letter"    -> TypedAt(c, e)
          [] k = "tab"       -> TabbedAt(c, e)
          [] k = "backspace" -> ErasedAt(c, e)
          [] k = "clear"     -> Home(base)
          [] k = "release"   -> c

----------------------------------------------------------------------------
(* The column a line started in, if it leaves room for MaxLine characters   *)
(* and nothing has moved the cursor since but the line's own characters;    *)
(* else Lost.  A record of the environment, which the code does not keep.   *)
Lost == -1

StartIn(x) == IF x \in 0..(Cols - MaxLine) THEN x ELSE Lost

(* A break erased is gone back over only in a line from column 0, and not   *)
(* if only the break went, as it does when newline_flag is another's.       *)
Starts(t, k) ==
    IF keyboard_index'[t] = 0 THEN StartIn(screen_x'[t])
    ELSE IF /\ k = "backspace" /\ keyboard_index[t] >= MaxLine /\ keyboard_index'[t] <= MaxLine
            /\ start[t] # 0 \/ keyboard_index'[t] = MaxLine
         THEN Lost
    ELSE start[t]

MoveTo(t, c) ==
    /\ screen_x' = [screen_x EXCEPT ![t] = c.x]
    /\ screen_y' = [screen_y EXCEPT ![t] = c.y]

Running == ~stopped /\ UNCHANGED stopped

Reached == EraseRoom(BrokenAt(Cursor(cur_terminal), Line), Broken(Line))

EchoKey(k, base) ==
    /\ Running
    /\ k = "backspace" => Reached
    /\ Key(k, Fits(BrokenAt(Cursor(cur_terminal), Line)))
    /\ MoveTo(cur_terminal, After(k, base))
    /\ start' = [start EXCEPT ![cur_terminal] = Starts(cur_terminal, k)]

(* The page in front of the video memory is not mapped: the exception code  *)
(* stops the machine, so what the handler did up to there is left out.      *)
EchoFault ==
    /\ ~stopped
    /\ "backspace" \in Keys /\ ~Reached
    /\ stopped' = TRUE
    /\ UNCHANGED <<vars, cursors>>

EchoSelect(sel) ==
    /\ Running
    /\ SelectTerminal(sel)
    /\ MoveTo(cur_terminal, BrokenAt(Cursor(cur_terminal), Line))
    /\ UNCHANGED start

(* A program of terminal t prints a character or a line end.                *)
Output(t) ==
    /\ Running
    /\ \E c \in {NewLine(Cursor(t)), PutChar(Cursor(t))} : MoveTo(t, c)
    /\ start' = [start EXCEPT ![t] = IF keyboard_index[t] = 0 THEN StartIn(screen_x'[t]) ELSE Lost]
    /\ UNCHANGED vars

EchoInit ==
    /\ Init
    /\ screen_x = [t \in Terms |-> 0]
    /\ screen_y = [t \in Terms |-> 0]
    /\ start = [t \in Terms |-> 0]
    /\ stopped = FALSE

EchoNext ==
    \/ \E k \in Keys, base \in BOOLEAN : EchoKey(k, base)
    \/ EchoFault
    \/ \E sel \in Terms : EchoSelect(sel)
    \/ \E t \in Terms : Output(t)

EchoSpec == EchoInit /\ [][EchoNext]_echoVars
----------------------------------------------------------------------------
(* putc always finds the cursor on a cell of the screen, so only a step     *)
(* back can leave it.  The row goes up only with a break erased, which went *)
(* down before, whatever scrolled in between; the column falls below 0 when *)
(* backspace erases a line that a program moved, or a break that another    *)
(* terminal's newline_flag hides, but never past the first cell             *)
(* (keyboard.c:180-232, lib.c:265).                                         *)
CursorBounded ==
    \A t \in Terms :
        /\ Place(Cursor(t)) \in 0..(Rows * Cols - 1)
        /\ screen_y[t] \in 0..(Rows - 1)
        /\ screen_x[t] \in (-Cols)..(Cols - 1)

(* keyboard.c:227 says of what backspace prints that it will "remove        *)
(* character", and putc's comment (lib.c:203) that it goes to the console:  *)
(* what it writes is a character of the screen.                             *)
BackspaceStays == ~stopped

(* While nothing else moves the cursor of a terminal, it stands where the   *)
(* line being typed ends, so that backspace blanks the character it erases: *)
(* as many columns from the start as the line is long, or from column 0     *)
(* after the break.  Every key keeps the index and the cursor in separate   *)
(* variables (keyboard.c:108-247).                                          *)
CursorTracksLine ==
    \A t \in Terms :
        LET i == keyboard_index[t]
        IN  start[t] # Lost =>
                screen_x[t] = IF i <= MaxLine THEN (start[t] + i) % Cols ELSE i - MaxLine - 1
============================================================================
