------------------------------ MODULE RtcProofs ------------------------------
(* The clock interrupt never divides by zero as long as three times every   *)
(* frequency in use fits under the clock's own, for every value of the      *)
(* constants; and no thread ends another thread's rtc_read.                 *)
EXTENDS Rtc, TLAPS

(* The premise of NeverFrozen.                                              *)
Slow == Affordable(DefaultFreq) /\ (\A f \in Requests : Accepts(f) => Affordable(f))

(* NeverFrozen is not inductive: the frequencies stored so far must fit.    *)
IInv == RtcTypeOK /\ (Slow => ~frozen /\ \A t \in Terminals : Affordable(rtc_freq[t]))

(* A quotient by something that fits is not zero.                           *)
LEMMA QuotientNotZero ==
    ASSUME NEW m \in Nat, NEW d \in Nat \ {0}, d <= m
    PROVE  m \div d # 0
<1> DEFINE q == m \div d
<1>1. q \in Int /\ m % d \in 0..(d - 1) /\ m = d * q + (m % d)
  OBVIOUS
<1>2. ASSUME q = 0 PROVE FALSE
  <2>1. d * q = 0
    BY <1>2
  <2>2. m = m % d
    BY <1>1, <2>1
  <2> QED BY <1>1, <2>2
<1> QED BY <1>2

(* A thread whose frequency fits three times has a period, however many of  *)
(* the three terminals are in use.                                          *)
LEMMA PeriodNotZero ==
    ASSUME RtcTypeOK, NEW t \in Terminals, Affordable(rtc_freq[t])
    PROVE  Period(t) # 0
<1> DEFINE f == rtc_freq[t]
           d == f * processes_active
<1>1. f \in Nat \ {0} /\ f * 3 <= MaxFreq /\ MaxFreq \in Nat
  BY FreqAssumption DEF RtcTypeOK, Affordable
<1>2. processes_active \in {1, 2, 3}
  BY DEF processes_active, Bit
<1>3. d \in Nat \ {0} /\ d <= MaxFreq
  <2>1. CASE processes_active = 1
    BY <1>1, <2>1
  <2>2. CASE processes_active = 2
    BY <1>1, <2>2
  <2>3. CASE processes_active = 3
    BY <1>1, <2>3
  <2> QED BY <1>2, <2>1, <2>2, <2>3
<1>4. MaxFreq \div d # 0
  BY <1>1, <1>3, QuotientNotZero
<1> QED BY <1>4 DEF Period

(* The round robin gives the processor to a terminal.                       *)
LEMMA NextOfTerminal ==
    ASSUME NEW t \in Terminals
    PROVE  NextOf(booted, t) \in Terminals
BY DEF NextOf, Terminals

LEMMA InitInv == Init => IInv
<1> SUFFICES ASSUME Init PROVE IInv
  OBVIOUS
<1>1. 1 \in Terminals /\ 0 \in 0..(CounterMod - 1)
  BY FreqAssumption DEF Terminals
<1>2. RtcTypeOK
  BY <1>1, FreqAssumption DEF Init, RtcTypeOK
<1>3. \A t \in Terminals : rtc_freq[t] = DefaultFreq
  BY DEF Init
<1>4. ~frozen
  BY DEF Init
<1> QED BY <1>2, <1>3, <1>4 DEF IInv, Slow, Affordable

LEMMA InterruptKeeps ==
    ASSUME IInv, NEW t \in Terminals, NEW wakes \in BOOLEAN, NEW count,
           Period(t) # 0 => count \in 0..(CounterMod - 1),
           Interrupt(t, wakes, count)
    PROVE  IInv'
<1>1. RtcTypeOK'
  BY DEF IInv, RtcTypeOK, Interrupt
<1>2. ASSUME Slow PROVE ~frozen'
  <2>1. Affordable(rtc_freq[t]) /\ ~frozen
    BY <1>2 DEF IInv
  <2>2. Period(t) # 0
    BY <2>1, PeriodNotZero DEF IInv
  <2> QED BY <2>1, <2>2 DEF Interrupt
<1>3. rtc_freq' = rtc_freq
  BY DEF Interrupt
<1> QED BY <1>1, <1>2, <1>3 DEF IInv, Slow, Affordable, Accepts

LEMMA NextKeeps == IInv /\ [Next]_vars => IInv'
<1> SUFFICES ASSUME IInv, [Next]_vars PROVE IInv'
  OBVIOUS
<1> USE DEF IInv, RtcTypeOK
<1>1. ASSUME NEW t \in Terminals, BootTerminal(t) PROVE IInv'
  BY <1>1 DEF BootTerminal
<1>2. CASE PitTick
  BY <1>2, NextOfTerminal DEF PitTick
<1>3. CASE RtcTick
  <2> DEFINE t == cur_process
             count == (rtc_counter[t] + 1) % CounterMod
             wakes == rtc_counter[t] % Period(t) = 0
  <2>1. count \in 0..(CounterMod - 1)
    BY FreqAssumption
  <2>2. Interrupt(t, wakes, count)
    BY <1>3 DEF RtcTick
  <2> QED BY <2>1, <2>2, InterruptKeeps
<1>4. CASE RtcOpen
  BY <1>4 DEF RtcOpen
<1>5. ASSUME NEW f \in Requests, RtcWrite(f) PROVE IInv'
  <2>1. CASE Accepts(f)
    <3>1. f \in Nat \ {0} /\ rtc_freq' = [rtc_freq EXCEPT ![cur_process] = f]
      BY <1>5, <2>1, FreqAssumption DEF RtcWrite, Accepts
    <3>2. RtcTypeOK'
      BY <1>5, <3>1 DEF RtcWrite
    <3>3. Slow => ~frozen' /\ \A t \in Terminals : Affordable(rtc_freq'[t])
      BY <1>5, <2>1, <3>1 DEF RtcWrite, Slow
    <3> QED BY <3>2, <3>3
  <2>2. CASE ~Accepts(f)
    BY <1>5, <2>2 DEF RtcWrite
  <2> QED BY <2>1, <2>2
<1>6. CASE RtcReadStart
  BY <1>6 DEF RtcReadStart, Calls
<1>7. CASE RtcReadEnd
  BY <1>7 DEF RtcReadEnd
<1>8. CASE UNCHANGED vars
  BY <1>8 DEF vars
<1> QED BY <1>1, <1>2, <1>3, <1>4, <1>5, <1>6, <1>7, <1>8 DEF Next

THEOREM Invariance == Spec => []IInv
BY InitInv, NextKeeps, PTL DEF Spec

(* The clock's state keeps its types; the counters stay below their wrap.   *)
THEOREM TypeCorrect == Spec => []RtcTypeOK
<1>1. IInv => RtcTypeOK
  BY DEF IInv
<1> QED BY <1>1, Invariance, PTL

(* RTC_handler never divides by zero when every frequency programs can get  *)
(* accepted, and the default, fits three times under the clock's.           *)
THEOREM DivisionCorrect == Spec => []NeverFrozen
<1>1. IInv => NeverFrozen
  BY DEF IInv, NeverFrozen, Slow
<1> QED BY <1>1, Invariance, PTL

LEMMA StepEndsOwnRead ==
    ASSUME IInv, [Next]_vars, NEW t \in reading, rtc_flag[t], ~rtc_flag'[t]
    PROVE  RtcTick /\ cur_process = t
<1> USE DEF IInv, RtcTypeOK
<1>0. t \in Terminals
  OBVIOUS
<1>1. CASE RtcTick
  BY <1>0, <1>1 DEF RtcTick, Interrupt
<1>2. ASSUME ~RtcTick PROVE FALSE
  <2>1. ASSUME NEW u \in Terminals, BootTerminal(u) PROVE FALSE
    BY <2>1 DEF BootTerminal
  <2>2. CASE PitTick
    BY <2>2 DEF PitTick
  <2>3. CASE RtcOpen
    BY <1>0, <2>3 DEF RtcOpen, Calls
  <2>4. ASSUME NEW f \in Requests, RtcWrite(f) PROVE FALSE
    BY <2>4 DEF RtcWrite
  <2>5. CASE RtcReadStart
    BY <1>0, <2>5 DEF RtcReadStart
  <2>6. CASE RtcReadEnd
    BY <1>0, <2>6 DEF RtcReadEnd
  <2>7. CASE UNCHANGED vars
    BY <2>7 DEF vars
  <2> QED BY <1>2, <2>1, <2>2, <2>3, <2>4, <2>5, <2>6, <2>7 DEF Next
<1> QED BY <1>1, <1>2

(* Whatever other threads do, a thread's rtc_read goes on until a tick is   *)
(* taken while that thread runs.                                            *)
THEOREM ReadCorrect == Spec => OwnTickEndsRead
<1>1. IInv /\ [Next]_vars =>
          [\A t \in reading : ~rtc_flag'[t] /\ rtc_flag[t] => RtcTick /\ cur_process = t]_vars
  BY StepEndsOwnRead
<1> QED BY <1>1, Invariance, PTL DEF Spec, OwnTickEndsRead
==============================================================================
