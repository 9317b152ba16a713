------------------------------- MODULE MCFiles -------------------------------
(* A small image: the directory, the clock, a file of three blocks kept out *)
(* of order, the last of them partly filled, and an empty file.  The name   *)
(* of the file of three blocks is of full length.                           *)
EXTENDS Arguments, SequencesExt

Row(name, type, inode) == [name |-> name, type |-> type, inode |-> inode]

MCDirectory == <<Row(<<1>>, DIR, 0), Row(<<2>>, RTC, 0),
                 Row(<<5, 6>>, REG, 1), Row(<<6>>, REG, 0)>>

MCText == (0 :> <<>>) @@ (1 :> <<11, 12, 13, 14, 15>>)

MCInodes ==
    (0 :> [size |-> 0, blocks |-> <<>>]) @@
    (1 :> [size |-> 5, blocks |-> (0 :> 2) @@ (1 :> 0) @@ (2 :> 1)])

MCData == (0 :> (0 :> 13 @@ 1 :> 14)) @@ (1 :> (0 :> 15 @@ 1 :> 99))
              @@ (2 :> (0 :> 11 @@ 1 :> 12))

(* Every entry, a name that is not there and one that is too long.          *)
MCNames == {<<1>>, <<2>>, <<5, 6>>, <<6>>, <<7>>, <<2, 3, 4>>}

(* Commands: arguments with blanks inside and behind, that fit the buffer,  *)
(* fill it and pass it.                                                     *)
MCWords == SeqOf({1, 2}, 2)
MCTexts == SeqOf({1, 2, Blank}, 5)
MCLengths == -1..5
============================================================================
