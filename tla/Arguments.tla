------------------------------ MODULE Arguments ------------------------------
(* The text of a command: execute splits it into the name of the program    *)
(* and its arguments, which stay in the process block; getargs gives them   *)
(* to the program.  A command is the sequence of its characters before the  *)
(* zero that ends it.  It is one that execute's copy holds with its zero,   *)
(* as every line of a terminal is.  Nothing but the next program's execute  *)
(* writes the arguments in a block, so what getargs gives is a function of  *)
(* the command that started the program now in it.                          *)
EXTENDS Files

CONSTANTS
    ArgsSize,  \* argsBufferSize
    Words,     \* names of programs
    Texts,     \* arguments
    Gaps,      \* numbers of blanks between the two
    Lengths    \* numbers of bytes that programs pass to getargs

Blank == 32  \* ' '

ASSUME ArgumentsAssumption ==
    /\ ArgsSize \in Nat \ {0}
    /\ Words \subseteq Seq(Nat \ {0, Blank})
    /\ Texts \subseteq Seq(Nat \ {0})
    /\ Gaps \subseteq Nat
    /\ Lengths \subseteq Int

(* args_idx behind the name, and behind the blanks that follow it.          *)
NameEnd(command) ==
    CHOOSE k \in 0..Len(command) :
        /\ k < Len(command) => command[k + 1] = Blank
        /\ \A j \in 1..k : command[j] # Blank

(* Bug: one blank is taken to stand between the two.                        *)
ArgsStartBug(command) ==
    LET end == NameEnd(command)
    IN  IF end < Len(command) THEN end + 1 ELSE end

ArgsStart(command) ==
    LET end == NameEnd(command)
    IN  CHOOSE k \in end..Len(command) :
            /\ k < Len(command) => command[k + 1] # Blank
            /\ \A j \in (end + 1)..k : command[j] = Blank

file_name(command) == SubSeq(command, 1, NameEnd(command))

(* The buffer is cleared and the rest of the command copied into it.        *)
args(command) ==
    [i \in 0..(ArgsSize - 1) |->
        IF ArgsStart(command) + i < Len(command) THEN command[ArgsStart(command) + i + 1] ELSE 0]

(* What getargs returns, and what it makes of the program's buffer: of the  *)
(* first n bytes those up to the first zero.                                *)
Refuses(kept, n) == n < 0 \/ n > ArgsSize \/ kept[0] = 0

getargs(kept, buf, n) ==
    IF Refuses(kept, n) THEN [value |-> -1, buf |-> buf]
    ELSE [value |-> 0,
          buf |-> [i \in DOMAIN buf |->
                      IF i < n /\ \A j \in 0..(i - 1) : kept[j] # 0 THEN kept[i] ELSE buf[i]]]
------------------------------------------------------------------------------
Min2(a, b) == IF a < b THEN a ELSE b

Blanks(k) == [i \in 1..k |-> Blank]

Command(word, gap, text) == word \o Blanks(gap) \o text

(* The lines that users type: a name, and after blanks the arguments, which *)
(* do not begin with a blank.                                               *)
Typed(gap, text) == text # <<>> => gap > 0 /\ text[1] # Blank

(* For one command: the name execute looks for, and what the program's      *)
(* buffer holds when it has asked for n bytes.                              *)
Reaches(word, gap, text, n) ==
    LET command == Command(word, gap, text)
        before  == [i \in 0..ArgsSize |-> -1]
        got     == getargs(args(command), before, n)
    IN  /\ file_name(command) = word
        /\ got.value = -1 <=> text = <<>> \/ n \notin 0..ArgsSize
        /\ \A i \in 0..ArgsSize : got.buf[i] =
               IF got.value = 0 /\ i < n
               THEN IF i < Len(text) THEN text[i + 1]
                    ELSE IF i = Len(text) THEN 0 ELSE -1
               ELSE -1

AllReach ==
    \A word \in Words, gap \in Gaps, text \in Texts, n \in Lengths :
        Typed(gap, text) => Reaches(word, gap, text, n)

(* A program is found under its name and gets the arguments as they were    *)
(* typed, ended by a zero if there is room, and nothing behind them, and    *)
(* -1 when there are none: cutting by execute and by getargs, blanks inside *)
(* and at the end of the arguments and buffers too short for them included. *)
ArgumentsWhole == live => AllReach
==============================================================================
