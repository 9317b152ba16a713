---------------------------- MODULE ShellStacks ----------------------------
(* What the process core promises: three terminals, each a stack of         *)
(* programs with a shell at the bottom that never leaves.  A program may    *)
(* start another on top of itself and wait for it; ending a program resumes *)
(* the one below.  Programs of all terminals come out of one pool, no two   *)
(* at once under the same identifier.  One terminal's top program runs at a *)
(* time, and the processor may be given to any other started terminal       *)
(* without its stack noticing.                                              *)
EXTENDS Integers, Sequences

CONSTANTS Terminals,  \* each is also the identifier of its base shell
          Others      \* identifiers for all other programs

VARIABLES stack,      \* of each terminal, bottom first; empty until started
          running     \* the terminal whose top program runs, 0 before any does

vars == <<stack, running>>

InUse   == UNION {{stack[t][i] : i \in 1..Len(stack[t])} : t \in Terminals}
Started == {t \in Terminals : stack[t] # <<>>}

TypeOK ==
    /\ stack \in [Terminals -> Seq(Terminals \cup Others)]
    /\ running \in {0} \cup Started

Init ==
    /\ stack = [t \in Terminals |-> <<>>]
    /\ running = 0

Start(t) ==
    /\ t \notin Started
    /\ stack' = [stack EXCEPT ![t] = <<t>>]
    /\ running' = t

Spawn(p) ==
    /\ running # 0
    /\ p \in Others \ InUse
    /\ stack' = [stack EXCEPT ![running] = Append(@, p)]
    /\ UNCHANGED running

Exit ==
    /\ running # 0
    /\ Len(stack[running]) > 1
    /\ stack' = [stack EXCEPT ![running] = SubSeq(@, 1, Len(@) - 1)]
    /\ UNCHANGED running

Preempt(t) ==
    /\ running # 0
    /\ t \in Started
    /\ running' = t
    /\ UNCHANGED stack

Next ==
    \/ \E t \in Terminals : Start(t) \/ Preempt(t)
    \/ \E p \in Others : Spawn(p)
    \/ Exit

Spec == Init /\ [][Next]_vars
============================================================================
