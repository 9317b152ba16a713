--------------------------------- MODULE Rtc ---------------------------------
(* The virtual real-time clock (RTC.c): one hardware clock, whose interrupt *)
(* is counted for whichever thread runs, and a frequency for each thread.   *)
(*                                                                          *)
(* A thread is its terminal; the process in one of these calls is the top   *)
(* process of the thread that runs, and stays in it (CurrentIsTop and       *)
(* HaltKeepsThread of Processes), so the calls are keyed by thread.  The    *)
(* thread switch and the start of a terminal are reduced to what they do to *)
(* booted and cur_process.  rtc_open and rtc_write run with interrupts off, *)
(* rtc_read with interrupts on.                                             *)
EXTENDS RoundRobin

CONSTANTS
    MaxFreq,      \* MAX_FREQ, 1024 in the code: the rate of the interrupt
    TopFreq,      \* what rtc_write counts the rate from, 32768
    MaxRate,      \* the greatest rate it accepts, 15
    DefaultFreq,  \* INIT_RATE_DEFAULT, 340
    CounterMod,   \* rtc_counter wraps here, at 2^32
    Requests,     \* the frequencies programs ask for
    Selected      \* the terminals the user starts, a bound for TLC

ASSUME FreqAssumption ==
    /\ MaxFreq \in Nat /\ TopFreq \in Nat /\ MaxRate \in Nat
    /\ DefaultFreq \in Nat \ {0}
    /\ CounterMod \in Nat \ {0}
    /\ Requests \subseteq Nat /\ Selected \subseteq Terminals

VARIABLES
    booted,       \* base_shell_booted_bitmask
    cur_process,  \* the thread that runs
    rtc_flag,     \* of each thread, is it waiting for its next tick?
    rtc_counter,  \* ticks seen by the thread
    rtc_freq,     \* frequency the thread asked for
    reading,      \* threads inside rtc_read
    frozen        \* did an exception stop the machine?

vars == <<booted, cur_process, rtc_flag, rtc_counter, rtc_freq, reading, frozen>>

RtcTypeOK ==
    /\ booted \subseteq Terminals /\ cur_process \in Terminals
    /\ rtc_flag \in [Terminals -> BOOLEAN]
    /\ rtc_counter \in [Terminals -> 0..(CounterMod - 1)]
    /\ rtc_freq \in [Terminals -> Nat \ {0}]
    /\ reading \subseteq booted
    /\ frozen \in BOOLEAN

(* Bug: threads start with the clock's own frequency.                       *)
InitBug ==
    /\ booted = {} /\ cur_process = 1
    /\ rtc_flag = [t \in Terminals |-> FALSE]
    /\ rtc_counter = [t \in Terminals |-> 0]
    /\ rtc_freq = [t \in Terminals |-> MaxFreq]
    /\ reading = {} /\ frozen = FALSE

Init ==
    /\ booted = {} /\ cur_process = 1
    /\ rtc_flag = [t \in Terminals |-> FALSE]
    /\ rtc_counter = [t \in Terminals |-> 0]
    /\ rtc_freq = [t \in Terminals |-> DefaultFreq]
    /\ reading = {} /\ frozen = FALSE

----------------------------------------------------------------------------
(* Threads.  The first shell is terminal 1's.                               *)
BootTerminal(t) ==
    /\ ~frozen
    /\ t \in Selected \ booted /\ (booted = {} => t = 1)
    /\ booted' = booted \cup {t}
    /\ cur_process' = t
    /\ UNCHANGED <<rtc_flag, rtc_counter, rtc_freq, reading, frozen>>

PitTick ==
    /\ ~frozen
    /\ cur_process' = NextOf(booted, cur_process)
    /\ UNCHANGED <<booted, rtc_flag, rtc_counter, rtc_freq, reading, frozen>>

----------------------------------------------------------------------------
(* RTC_handler.  A thread sees one interrupt in processes_active, so every  *)
(* Period(t)-th of those it sees is a tick of its frequency.                *)
Bit(t)           == IF t \in booted THEN 1 ELSE 0
processes_active == 1 + Bit(2) + Bit(3)
Period(t)        == MaxFreq \div (rtc_freq[t] * processes_active)

(* An interrupt seen by thread t: wakes says whether it is a tick of its    *)
(* frequency, count is the new counter.  A zero period raises an exception, *)
(* which stops the machine.                                                 *)
Interrupt(t, wakes, count) ==
    /\ ~frozen
    /\ IF Period(t) = 0
       THEN frozen' = TRUE /\ UNCHANGED <<rtc_flag, rtc_counter>>
       ELSE /\ rtc_flag' = IF wakes THEN [rtc_flag EXCEPT ![t] = FALSE] ELSE rtc_flag
            /\ rtc_counter' = [rtc_counter EXCEPT ![t] = count]
            /\ UNCHANGED frozen
    /\ UNCHANGED <<booted, cur_process, rtc_freq, reading>>

(* Bugs: a counter that does not wrap; a remainder that is never reached.   *)
RtcTickWrapBug ==
    LET t == cur_process
    IN  Interrupt(t, rtc_counter[t] % Period(t) = 0, rtc_counter[t] + 1)

RtcTickMissBug ==
    LET t == cur_process
    IN  Interrupt(t, rtc_counter[t] % Period(t) = Period(t), (rtc_counter[t] + 1) % CounterMod)

RtcTick ==
    LET t == cur_process
    IN  Interrupt(t, rtc_counter[t] % Period(t) = 0, (rtc_counter[t] + 1) % CounterMod)

----------------------------------------------------------------------------
(* System calls of the program that runs.                                   *)
Calls == ~frozen /\ cur_process \in booted \ reading

(* Bug: the flags of all threads are reset.                                 *)
RtcOpenBug ==
    /\ Calls
    /\ rtc_flag' = [t \in Terminals |-> FALSE]
    /\ UNCHANGED <<booted, cur_process, rtc_counter, rtc_freq, reading, frozen>>

(* rtc_open leaves the thread the frequency an earlier program set.  (It    *)
(* also sets the hardware's rate, to the rate it already has.)              *)
RtcOpen ==
    /\ Calls
    /\ rtc_flag' = [rtc_flag EXCEPT ![cur_process] = FALSE]
    /\ UNCHANGED <<booted, cur_process, rtc_counter, rtc_freq, reading, frozen>>

(* The rate of frequency f: how often TopFreq is halved to reach it, plus 1.*)
Rate(f) ==
    LET from[v \in Nat] == IF v > f THEN 1 + from[v \div 2] ELSE 1
    IN  from[TopFreq]

PowerOfTwo(f) == \E k \in 0..f : f = 2^k

Accepts(f) == f > 0 /\ PowerOfTwo(f) /\ Rate(f) \in 3..MaxRate

RtcWrite(f) ==
    /\ Calls
    /\ rtc_freq' = IF Accepts(f) THEN [rtc_freq EXCEPT ![cur_process] = f] ELSE rtc_freq
    /\ UNCHANGED <<booted, cur_process, rtc_flag, rtc_counter, reading, frozen>>

(* rtc_read up to its loop, and from the loop's end.                        *)
RtcReadStart ==
    /\ Calls
    /\ rtc_flag' = [rtc_flag EXCEPT ![cur_process] = TRUE]
    /\ reading' = reading \cup {cur_process}
    /\ UNCHANGED <<booted, cur_process, rtc_counter, rtc_freq, frozen>>

RtcReadEnd ==
    /\ ~frozen
    /\ cur_process \in reading /\ ~rtc_flag[cur_process]
    /\ rtc_flag' = [rtc_flag EXCEPT ![cur_process] = TRUE]
    /\ reading' = reading \ {cur_process}
    /\ UNCHANGED <<booted, cur_process, rtc_counter, rtc_freq, frozen>>

Next ==
    \/ \E t \in Terminals : BootTerminal(t)
    \/ PitTick
    \/ RtcTick
    \/ RtcOpen
    \/ \E f \in Requests : RtcWrite(f)
    \/ RtcReadStart
    \/ RtcReadEnd

Spec == Init /\ [][Next]_vars

(* The timer always comes again.  It gives a thread a hundredth of a second *)
(* at a time, and the clock ticks 1024 times in a second: a thread that is  *)
(* given the processor again and again sees ticks again and again, and gets *)
(* to test its flag.                                                        *)
FairSpec ==
    /\ Spec
    /\ WF_vars(PitTick)
    /\ \A t \in Terminals :
           SF_vars(RtcTick /\ cur_process = t) /\ SF_vars(RtcReadEnd /\ cur_process = t)
----------------------------------------------------------------------------
(* As long as the frequency of every program, times the three terminals     *)
(* that may be in use, stays within the clock's own, the clock interrupt    *)
(* never divides by zero; the default frequency is chosen for that          *)
(* (buglog_cp5.txt:39).                                                     *)
Affordable(f) == f * 3 <= MaxFreq

NeverFrozen ==
    Affordable(DefaultFreq) /\ (\A f \in Requests : Accepts(f) => Affordable(f)) => ~frozen

(* The same without the premise: the log calls the division resolved.       *)
NoDivideByZero == ~frozen

(* Only a tick taken while its own thread runs ends a thread's rtc_read,    *)
(* whatever the programs of the other threads open, write or read.          *)
OwnTickEndsRead ==
    [][\A t \in reading : ~rtc_flag'[t] /\ rtc_flag[t] => RtcTick /\ cur_process = t]_vars

(* Every rtc_read returns, with up to three threads taking turns at the     *)
(* clock and terminals starting in the middle of it, unless the machine     *)
(* stopped.                                                                 *)
EveryReadReturns ==
    \A t \in Terminals : t \in reading ~> (t \notin reading \/ frozen)
============================================================================
