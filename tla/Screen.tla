-------------------------------- MODULE Screen --------------------------------
(* The screens as the code keeps them: the video memory shows the terminal  *)
(* cur_terminal, and the text of the others lies in a page each.  putc      *)
(* writes to one or the other; Alt+Fn copies pages (lib.c, keyboard.c).     *)
(*                                                                          *)
(* terminal_write and the keyboard handler run with interrupts off, so each *)
(* is one action.  A backspace that writes in front of the video memory     *)
(* stops the machine.  What a program writes through vidmap is in Vidmap.   *)
EXTENDS Drawing

CONSTANTS
    NumTerminals,  \* NUM_TERMINALS, 3 in the code
    Outputs        \* what programs print: sequences of characters and line ends

ASSUME ScreenAssumption ==
    /\ NumTerminals \in Nat \ {0}
    /\ \A cs \in Outputs : cs \in Seq({BLANK, LETTER, NL}) /\ cs # <<>>

Terms == 1..NumTerminals

VARIABLES
    video,               \* the text in the video memory
    videomem_buffer,     \* of each terminal, its page
    screen_x, screen_y,  \* of each terminal, its cursor
    cur_terminal,
    vga,                 \* where the blinking cursor is
    stopped              \* has the kernel faulted?

screens == <<video, videomem_buffer, screen_x, screen_y, cur_terminal, vga>>
vars == <<screens, stopped>>

(* Nothing clears the pages before a terminal is first shown.               *)
Init ==
    /\ video = Blank.text
    /\ \E c \in {BLANK, LETTER} : videomem_buffer = [t \in Terms |-> [i \in Cells |-> c]]
    /\ screen_x = [t \in Terms |-> 0]
    /\ screen_y = [t \in Terms |-> 0]
    /\ cur_terminal = 1
    /\ vga = 0
    /\ stopped = FALSE

Running == ~stopped /\ UNCHANGED stopped

(* A terminal's screen, if its text is m.                                   *)
With(m, t) == [text |-> m, x |-> screen_x[t], y |-> screen_y[t]]

Moved(t, s) ==
    /\ screen_x' = [screen_x EXCEPT ![t] = s.x]
    /\ screen_y' = [screen_y EXCEPT ![t] = s.y]

(* Where putc leaves the blinking cursor after the last of cs on screen s:  *)
(* a line end places it before the screen is scrolled.                      *)
Blinks(s, cs) ==
    LET n == Len(cs)
        before == Drawn(s, SubSeq(cs, 1, n - 1))
    IN  IF cs[n] = NL THEN Cols * (before.y + 1) ELSE Place(Drawn(s, cs))

----------------------------------------------------------------------------
(* terminal_write of a program of terminal t.                               *)

WriteShown(t, cs) ==
    /\ Running
    /\ t = cur_terminal
    /\ LET s == Drawn(With(video, t), cs)
       IN  video' = s.text /\ Moved(t, s)
    /\ vga' = Blinks(With(video, t), cs)
    /\ UNCHANGED <<videomem_buffer, cur_terminal>>

(* Bug: the cursor of the terminal on the screen moves.                     *)
WriteHiddenBug(t, cs) ==
    /\ Running
    /\ t # cur_terminal
    /\ LET s == Drawn(With(videomem_buffer[t], t), cs)
       IN  videomem_buffer' = [videomem_buffer EXCEPT ![t] = s.text] /\ Moved(cur_terminal, s)
    /\ UNCHANGED <<video, cur_terminal, vga>>

WriteHidden(t, cs) ==
    /\ Running
    /\ t # cur_terminal
    /\ LET s == Drawn(With(videomem_buffer[t], t), cs)
       IN  videomem_buffer' = [videomem_buffer EXCEPT ![t] = s.text] /\ Moved(t, s)
    /\ UNCHANGED <<video, cur_terminal, vga>>

----------------------------------------------------------------------------
(* keyboard_handler; it ends by placing the blinking cursor.                *)

Key ==
    /\ Running
    /\ \E s \in KeyDraws(With(video, cur_terminal)) :
          video' = s.text /\ Moved(cur_terminal, s) /\ vga' = Place(s)
    /\ UNCHANGED <<videomem_buffer, cur_terminal>>

(* The page in front of the video memory is not mapped: the exception code  *)
(* stops the machine, so what was drawn up to there is left out.            *)
KeyFaults ==
    /\ ~stopped
    /\ \E s \in Breaks(With(video, cur_terminal)) : ~TabRoom(s)
    /\ stopped' = TRUE
    /\ UNCHANGED screens

(* Bug: the page is not brought up to date before another is shown.         *)
SelectTerminalBug(sel) ==
    /\ Running
    /\ \E s \in Breaks(With(video, cur_terminal)) :
          /\ Moved(cur_terminal, s)
          /\ UNCHANGED videomem_buffer
          /\ video' = videomem_buffer'[sel]
    /\ cur_terminal' = sel
    /\ vga' = Cols * screen_y'[sel] + screen_x'[sel]

(* Alt+Fn; the terminal on the screen may be selected again.                *)
SelectTerminal(sel) ==
    /\ Running
    /\ \E s \in Breaks(With(video, cur_terminal)) :
          /\ Moved(cur_terminal, s)
          /\ videomem_buffer' = [videomem_buffer EXCEPT ![cur_terminal] = s.text]
          /\ video' = videomem_buffer'[sel]
    /\ cur_terminal' = sel
    /\ vga' = Cols * screen_y'[sel] + screen_x'[sel]

Next ==
    \/ \E t \in Terms, cs \in Outputs : WriteShown(t, cs) \/ WriteHidden(t, cs)
    \/ Key
    \/ KeyFaults
    \/ \E sel \in Terms : SelectTerminal(sel)

Spec == Init /\ [][Next]_vars
----------------------------------------------------------------------------
(* The text of a terminal is in the video memory while it is shown, else in *)
(* its page.                                                                *)
TextOf(t) == IF t = cur_terminal THEN video ELSE videomem_buffer[t]

Screens == INSTANCE TerminalScreens WITH
    text <- [t \in Terms |-> TextOf(t)], column <- screen_x, row <- screen_y,
    shown <- cur_terminal

(* Every terminal keeps a screen of its own: what its programs print while  *)
(* another is shown, on a copy in another page with the second half of      *)
(* putc, is there when it is selected again, and neither selecting, typing  *)
(* nor printing ever draws on another's (lib.c:230-315, keyboard.c:254).    *)
ScreensSpec == Screens!ScreensSpec

(* Every cursor is on a cell of its screen, though backspace may have moved *)
(* its column left of 0: no program writes outside its terminal's text, so  *)
(* none of a hidden terminal into the page of another, and nobody but the   *)
(* step back of the shown one ever leaves it (lib.c:265, 309).              *)
ScreenTypeOK ==
    /\ video \in Texts
    /\ videomem_buffer \in [Terms -> Texts]
    /\ cur_terminal \in Terms
    /\ stopped \in BOOLEAN
    /\ \A t \in Terms : /\ Place(With(video, t)) \in Cells
                        /\ screen_y[t] \in 0..(Rows - 1) /\ screen_x[t] \in (-Cols)..(Cols - 1)

(* The blinking cursor is where the terminal shown will draw next, though   *)
(* hidden terminals move theirs meanwhile; but a line end that scrolls      *)
(* leaves it below the screen until the next character or scan code.        *)
CursorFollows ==
    LET s == With(video, cur_terminal)
    IN  vga = Place(s) \/ (s.x = 0 /\ s.y = Rows - 1 /\ vga = Rows * Cols)
===============================================================================
