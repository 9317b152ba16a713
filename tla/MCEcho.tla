-------------------------------- MODULE MCEcho --------------------------------
(* Echo without what lies in the buffers behind the lines.  No program of   *)
(* this instance reads (Sizes = {}), and the handler looks only in front of *)
(* the index, so two states that differ there or in an Enter behave alike.  *)
EXTENDS Echo

SoFar(t) == [i \in 0..(keyboard_index[t] - 1) |-> keyboard_buffer[Cell(t, i)]]

LinesView ==
    <<[t \in Terms |-> SoFar(t)], newline_flag, cur_terminal,
      screen_x, screen_y, start, stopped>>

(* A bound: the lines of the second terminal, which share newline_flag with *)
(* the first's, start in column 0.                                          *)
From0At2 == start[2] = 0
===============================================================================
