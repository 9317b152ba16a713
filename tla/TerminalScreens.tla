--------------------------- MODULE TerminalScreens ---------------------------
(* What the terminals promise: each has a screen of its own, on which its   *)
(* programs print whether the user looks at it or not, and the keyboard     *)
(* draws on the one shown.  Nothing else touches a screen, and showing      *)
(* another changes none.                                                    *)
EXTENDS Drawing

CONSTANTS
    NumTerminals,
    Outputs        \* what programs print: sequences of characters and line ends

Terms == 1..NumTerminals

VARIABLES
    text, column, row,  \* of each terminal
    shown

screensVars == <<text, column, row, shown>>

Screen(t) == [text |-> text[t], x |-> column[t], y |-> row[t]]

(* The screen of terminal t, and no other, becomes s.                       *)
Becomes(t, s) ==
    /\ text' = [text EXCEPT ![t] = s.text]
    /\ column' = [column EXCEPT ![t] = s.x]
    /\ row' = [row EXCEPT ![t] = s.y]

ScreensInit ==
    /\ text \in [Terms -> Texts] /\ text[1] = Blank.text
    /\ column = [t \in Terms |-> 0]
    /\ row = [t \in Terms |-> 0]
    /\ shown = 1

PrintOn(t, cs) == Becomes(t, Drawn(Screen(t), cs)) /\ UNCHANGED shown

Type == (\E s \in KeyDraws(Screen(shown)) : Becomes(shown, s)) /\ UNCHANGED shown

Show(t) == (\E s \in Breaks(Screen(shown)) : Becomes(shown, s)) /\ shown' = t

ScreensNext ==
    \/ \E t \in Terms, cs \in Outputs : PrintOn(t, cs)
    \/ Type
    \/ \E t \in Terms : Show(t)

ScreensSpec == ScreensInit /\ [][ScreensNext]_screensVars
============================================================================
