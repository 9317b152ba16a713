------------------------ MODULE ProcessesRefinement ------------------------
(* The process core implements ShellStacks: a terminal's stack is the chain *)
(* of PCBs its base PCB leads to, in order.  A restart of a base shell, the *)
(* system calls that do not start or end a program, and the freeze after an *)
(* exception are steps the abstract system does not see.                    *)
EXTENDS Processes

(* The place of a process is the number of processes from it to the bottom. *)
Place(p) == Cardinality(ChainOf(parentPCB, p))

AtPlace(t, i) == {p \in Chain(t) : Place(p) = i}
Only(S)       == CHOOSE p \in S : TRUE

ChainInOrder(t) == [i \in 1..Cardinality(Chain(t)) |-> Only(AtPlace(t, i))]

Stacks == INSTANCE ShellStacks WITH
    Terminals <- Terminals,
    Others    <- AuxPids,
    stack     <- [t \in Terminals |-> IF t \in booted THEN ChainInOrder(t) ELSE <<>>],
    running   <- IF mode = "boot" THEN 0 ELSE cur_process

(* Every behaviour of execute, halt, the timer and the keyboard's terminal  *)
(* boots is a behaviour of the three stacks: no call or interrupt, in any   *)
(* order, moves a program to another terminal, loses one, or runs two under *)
(* one identifier.                                                          *)
StacksSpec == Stacks!Spec
============================================================================
