------------------------------- MODULE MCScreen -------------------------------
(* A letter, a line end, and lines that end in front of and behind a word.  *)
EXTENDS Screen

MCOutputs == {<<LETTER>>, <<NL>>, <<LETTER, NL, LETTER>>, <<NL, BLANK>>}
===============================================================================
