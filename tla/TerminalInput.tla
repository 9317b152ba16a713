---------------------------- MODULE TerminalInput ----------------------------
(* The path of a typed line from the keyboard interrupt to a program:       *)
(* keyboard_handler edits the line of the terminal on the screen,           *)
(* terminal_read waits for its Enter and copies it (keyboard.c).            *)
(*                                                                          *)
(* The handler runs with interrupts off and is one action per scan code.    *)
(* terminal_read runs with interrupts on and reads cur_terminal anew for    *)
(* each byte.  The timer may switch threads between any two of its steps,   *)
(* so the threads interleave freely and cur_process need not be kept: where *)
(* the code uses it, it is the thread that runs.  All terminals are         *)
(* started.  What the handler draws is in Echo, which says which tabs fit.  *)
EXTENDS Integers, SequencesExt

CONSTANTS
    NumTerminals,  \* NUM_TERMINALS, 3 in the code
    BufferSize,    \* BUFFER_SIZE, 127
    MaxLine,       \* MAX_LINE, 73
    Keys,          \* the keys the user presses, of those Edited names
    Sizes          \* how many bytes programs read

KeyNames == {"enter", "letter", "tab", "backspace", "clear", "release"}

ASSUME InputAssumption ==
    /\ NumTerminals \in Nat \ {0}
    /\ MaxLine \in 1..(BufferSize - 2) /\ BufferSize \in Nat
    /\ Keys \subseteq KeyNames
    /\ Sizes \subseteq Nat \ {0}

(* A tab is four characters, and backspace erases four of them; a line      *)
(* break and the end of the row may cut one short.  With these constants,   *)
(* as with 73 and 127, backspace never passes the start of the line for it. *)
ASSUME TabAssumption == MaxLine % 4 # 0 /\ (BufferSize - 1) % 4 # 0

Terms == 1..NumTerminals

(* Characters.  A letter is known by the terminal it was typed at.          *)
NUL == 0
NL  == -1
TAB == -2
Chars == Terms \cup {NUL, NL, TAB}

VARIABLES
    keyboard_buffer,  \* the rows of the array, one after the other, and a byte
    keyboard_index,   \* of each terminal, where the next character goes
    newline_flag,     \* did the handler break a line, on any terminal?
    enter_flag,       \* of each terminal
    cur_terminal,     \* the terminal on the screen
    reads             \* of each thread, its terminal_read

vars == <<keyboard_buffer, keyboard_index, newline_flag, enter_flag, cur_terminal, reads>>

Cells == 0..(NumTerminals * BufferSize)

CellBug(t, i) == (t - 1) * (BufferSize - 1) + i

(* keyboard_buffer[t - 1][i]: index BufferSize is the next row's first.     *)
Cell(t, i) == (t - 1) * BufferSize + i

(* line: what Enter ended, as long as no key was pressed since; a record of *)
(* the environment, which the code does not keep.                           *)
Idle == [pc |-> "idle", want |-> 0, out |-> <<>>, line |-> <<>>]

InputTypeOK ==
    /\ keyboard_buffer \in [Cells -> Chars]
    /\ keyboard_index \in [Terms -> 0..(BufferSize - 1)]
    /\ newline_flag \in BOOLEAN
    /\ enter_flag \in [Terms -> BOOLEAN]
    /\ cur_terminal \in Terms
    /\ \A t \in Terms : /\ reads[t].pc \in {"idle", "wait", "copy"}
                        /\ Len(reads[t].out) <= reads[t].want

Init ==
    /\ keyboard_buffer = [c \in Cells |-> NUL]
    /\ keyboard_index = [t \in Terms |-> 0]
    /\ newline_flag = FALSE
    /\ enter_flag = [t \in Terms |-> FALSE]
    /\ cur_terminal = 1
    /\ reads = [t \in Terms |-> Idle]

----------------------------------------------------------------------------
(* The handler's edit of the line of the terminal on the screen, as steps   *)
(* on the buffer, the index and newline_flag.                               *)

Line == [buf |-> keyboard_buffer, idx |-> keyboard_index[cur_terminal], nlf |-> newline_flag]

Put(e, c) == [e EXCEPT !.buf[Cell(cur_terminal, e.idx)] = c, !.idx = @ + 1]

Erase(e) == [e EXCEPT !.buf[Cell(cur_terminal, e.idx - 1)] = NUL, !.idx = @ - 1]

(* Any scan code first breaks a line that has reached MaxLine.              *)
Broken(e) ==
    IF e.idx = MaxLine /\ e.idx + 1 < BufferSize
    THEN [Put(e, NL) EXCEPT !.nlf = TRUE]
    ELSE e

(* Bug: no terminator.                                                      *)
EnteredBug(e) == [Put(e, NL) EXCEPT !.idx = 0]

(* Enter.  With a full line the terminator goes into the next row.          *)
Entered(e) == [Put(Put(e, NL), NUL) EXCEPT !.idx = 0]

(* Bug: the test counts the terminator's place as free.                     *)
TypedBug(e) == IF e.idx < BufferSize THEN Put(e, cur_terminal) ELSE e

Typed(e) == IF e.idx < BufferSize - 1 THEN Put(e, cur_terminal) ELSE e

(* Tab: four characters, each if there is room behind it.  fits: is the     *)
(* cursor left of the last four columns?                                    *)
TabPut(e) == IF e.idx + 2 < BufferSize THEN Put(e, TAB) ELSE e

(* Bug: the room in the buffer is not tested.                               *)
TabbedBug(e, fits) == IF fits THEN Put(Put(Put(Put(e, TAB), TAB), TAB), TAB) ELSE e

Tabbed(e, fits) ==
    IF e.idx + 4 < BufferSize /\ fits
    THEN TabPut(TabPut(TabPut(TabPut(e))))
    ELSE e

(* Bug: the line break is erased without the character before it.           *)
ErasedBug(e) ==
    LET last == e.buf[Cell(cur_terminal, e.idx - 1)]
    IN  IF e.idx = 0 THEN e
        ELSE IF e.nlf /\ last = NL
             THEN [Erase(Erase(e)) EXCEPT !.nlf = FALSE, !.idx = e.idx - 1]
        ELSE IF last = TAB THEN Erase(Erase(Erase(Erase(e))))
        ELSE Erase(e)

(* Backspace: a line break goes with the character before it, a tab with    *)
(* the three characters before it.                                          *)
Erased(e) ==
    LET last == e.buf[Cell(cur_terminal, e.idx - 1)]
    IN  IF e.idx = 0 THEN e
        ELSE IF e.nlf /\ last = NL
             THEN [Erase(Erase(e)) EXCEPT !.nlf = FALSE]
        ELSE IF last = TAB THEN Erase(Erase(Erase(Erase(e))))
        ELSE Erase(e)

(* Ctrl+L.                                                                  *)
Cleared(e) ==
    [e EXCEPT !.buf = [c \in Cells |-> IF \E i \in 0..(BufferSize - 1) : c = Cell(cur_terminal, i)
                                       THEN NUL ELSE @[c]],
              !.idx = 0]

(* The line key k leaves.                                                   *)
Edited(k, fits) ==
    LET e == Broken(Line)
    IN  CASE k = "enter"     -> Entered(Line)
          [] k = "letter"    -> Typed(e)
          [] k = "tab"       -> Tabbed(e, fits)
          [] k = "backspace" -> Erased(e)
          [] k = "clear"     -> Cleared(e)
          [] k = "release"   -> e

Store(e) ==
    /\ keyboard_buffer' = e.buf
    /\ keyboard_index' = [keyboard_index EXCEPT ![cur_terminal] = e.idx]
    /\ newline_flag' = e.nlf

(* A line is on its way undisturbed from its Enter to the next key.         *)
EnteredLine(t) ==
    [i \in 1..(keyboard_index[t] + 1) |-> keyboard_buffer'[Cell(t, i - 1)]]

Key(k, fits) ==
    /\ Store(Edited(k, fits))
    /\ enter_flag' = IF k = "enter" THEN [enter_flag EXCEPT ![cur_terminal] = TRUE]
                                    ELSE enter_flag
    /\ reads' = [t \in Terms |-> [reads[t] EXCEPT !.line =
                     IF k = "enter" /\ t = cur_terminal /\ reads[t].pc = "wait"
                     THEN EnteredLine(t) ELSE <<>>]]
    /\ UNCHANGED cur_terminal

(* Alt+Fn.                                                                  *)
SelectTerminal(sel) ==
    /\ Store(Broken(Line))
    /\ cur_terminal' = sel
    /\ reads' = [t \in Terms |-> [reads[t] EXCEPT !.line = <<>>]]
    /\ UNCHANGED enter_flag
----------------------------------------------------------------------------
(* terminal_read in thread t.                                               *)

(* Bug: one flag for all terminals.                                         *)
ReadStartBug(t, n) ==
    /\ reads[t].pc = "idle"
    /\ enter_flag' = [u \in Terms |-> FALSE]
    /\ reads' = [reads EXCEPT ![t] = [Idle EXCEPT !.pc = "wait", !.want = n]]
    /\ UNCHANGED <<keyboard_buffer, keyboard_index, newline_flag, cur_terminal>>

ReadStart(t, n) ==
    /\ reads[t].pc = "idle"
    /\ enter_flag' = [enter_flag EXCEPT ![t] = FALSE]
    /\ reads' = [reads EXCEPT ![t] = [Idle EXCEPT !.pc = "wait", !.want = n]]
    /\ UNCHANGED <<keyboard_buffer, keyboard_index, newline_flag, cur_terminal>>

ReadWake(t) ==
    /\ reads[t].pc = "wait" /\ enter_flag[t]
    /\ reads' = [reads EXCEPT ![t].pc = "copy"]
    /\ UNCHANGED <<keyboard_buffer, keyboard_index, newline_flag, enter_flag, cur_terminal>>

Copied(t) == Len(reads[t].out) = reads[t].want \/ (reads[t].out # <<>> /\ Last(reads[t].out) = NUL)

(* What keyboard_buffer[t - 1][i] can hold: the shell asks for 1023 bytes,  *)
(* and after a switch of terminals a copy may miss every terminator and     *)
(* pass the end of the array, where other variables are.                    *)
Bytes(t, i) == IF Cell(t, i) \in Cells THEN {keyboard_buffer[Cell(t, i)]} ELSE Chars

(* A byte, from the row of the terminal that is on the screen now.          *)
ReadCopy(t) ==
    /\ reads[t].pc = "copy" /\ ~Copied(t)
    /\ \E c \in Bytes(cur_terminal, Len(reads[t].out)) :
          reads' = [reads EXCEPT ![t].out = Append(@, c)]
    /\ UNCHANGED <<keyboard_buffer, keyboard_index, newline_flag, enter_flag, cur_terminal>>

(* keyboard_buffer[.][127] is the first byte of the next row; if that is a  *)
(* line end it is cleared (and one added to the number returned).           *)
ReadEnd(t) ==
    /\ reads[t].pc = "copy" /\ Copied(t)
    /\ LET behind == Cell(cur_terminal, BufferSize)
       IN  keyboard_buffer' = IF keyboard_buffer[behind] = NL
                              THEN [keyboard_buffer EXCEPT ![behind] = NUL]
                              ELSE keyboard_buffer
    /\ reads' = [reads EXCEPT ![t] = Idle]
    /\ UNCHANGED <<keyboard_index, newline_flag, enter_flag, cur_terminal>>

Next ==
    \/ \E k \in Keys, fits \in BOOLEAN : Key(k, fits)
    \/ \E sel \in Terms : SelectTerminal(sel)
    \/ \E t \in Terms :
          \/ \E n \in Sizes : ReadStart(t, n)
          \/ ReadWake(t)
          \/ ReadCopy(t)
          \/ ReadEnd(t)

Spec == Init /\ [][Next]_vars

(* The round robin keeps every thread going (EveryThreadRuns of Processes). *)
FairSpec ==
    /\ Spec
    /\ \A t \in Terms : WF_vars(ReadWake(t)) /\ WF_vars(ReadCopy(t)) /\ WF_vars(ReadEnd(t))
----------------------------------------------------------------------------
(* A line being typed is whole: every character before the index was typed  *)
(* at that terminal, none is a terminator, and a line break is only at      *)
(* MaxLine.  Its first may have been lost to the terminator of a full line  *)
(* of the terminal before (keyboard.c:135).  Backspace, tabs and breaks     *)
(* share newline_flag between terminals and move the index in jumps.        *)
LineWhole ==
    \A t \in Terms : \A i \in 0..(keyboard_index[t] - 1) :
        LET c == keyboard_buffer[Cell(t, i)]
        IN  \/ c = t \/ c = TAB
            \/ c = NL /\ i = MaxLine
            \/ c = NUL /\ i = 0 /\ t > 1

(* A program gets the line that Enter ended, byte for byte, if the user     *)
(* leaves the keyboard alone until it has it, whatever was typed before and *)
(* whatever the programs of other terminals read meanwhile.                 *)
QuietRead ==
    [][\A t \in Terms :
          ReadEnd(t) /\ reads[t].line # <<>>
              => IsPrefix(reads[t].out, Append(reads[t].line, NUL))]_vars

(* An Enter at a terminal whose program waits for it is never lost, though  *)
(* other programs reset their flags and the user goes on typing.            *)
EnterEndsRead ==
    \A t \in Terms : (reads[t].pc = "wait" /\ enter_flag[t]) ~> reads[t].pc = "idle"

(* keyboard.c:291 says terminal_read reads "a line from the terminal" once  *)
(* Enter was pressed, and the buffers are one for each terminal             *)
(* (keyboard.h:36): what a program reads was typed at its own.              *)
ReadsOwnTerminal ==
    \A t \in Terms : ToSet(reads[t].out) \subseteq {t, TAB, NL, NUL}
============================================================================
