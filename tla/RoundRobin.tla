----------------------------- MODULE RoundRobin -----------------------------
(* The thread pit_handler gives the processor to, shared by the modules in  *)
(* which threads take turns.  Thread t is terminal t.                       *)
EXTENDS Integers

Terminals == 1..3    \* NUM_TERMINALS; MAX_THREADS is one more

(* Bugs: no test whether a terminal has a shell; a wrap one thread early.   *)
NextOfUntestedBug(b, t) == IF t = 3 THEN 1 ELSE t + 1
NextOfWrapBug(b, t)     == IF t = 1 /\ 2 \in b THEN 2 ELSE 1

(* The thread after t, for the set b of booted terminals, as the handler    *)
(* computes it: increment and wrap, then skip 2 if it is not booted, then   *)
(* skip 3.  Terminal 1 is taken to be booted.                               *)
NextOf(b, t) ==
    LET up   == IF t = 3 THEN 1 ELSE t + 1
        past2 == IF up = 2 /\ 2 \notin b THEN 3 ELSE up
    IN  IF past2 = 3 /\ 3 \notin b THEN 1 ELSE past2
============================================================================
