----------------------------- MODULE KernelEntry -----------------------------
(* The ways into the kernel and out of it, word by word: the gates, the     *)
(* assembly around system calls and interrupts, the stacks that execute,    *)
(* halt, the timer and the terminal start leave and return to, and the      *)
(* interrupt controller that each handler has to release.                   *)
(*                                                                          *)
(* A step is a run of instructions between which an interrupt would see the *)
(* same stack but for its height.  What the calls compute is left out; what *)
(* they do to ESP, EBP, the registers and the interrupt flag is not.        *)
EXTENDS RoundRobin, Sequences

CONSTANTS
    Startable,  \* the terminals the user starts, of 2 and 3
    Aux,        \* the identifiers of other programs, 4..6 in the code
    MaxWords    \* the stack an interrupt may find, a bound

ASSUME EntryAssumption ==
    /\ Startable \subseteq {2, 3}
    /\ Aux \subseteq Nat \ (0..3)
    /\ MaxWords \in Nat

Boot     == 0
Programs == Terminals \cup Aux
Owners   == {Boot} \cup Programs  \* of a kernel stack

Registers == {"eax", "ebx", "ecx", "edx", "esi", "edi", "ebp"}

(* Words.  The height of a stack stands for an address in it.               *)
Of(p, r)  == <<"own", p, r>>       \* what program p has in register r
Code(l)   == <<"code", l, 0>>      \* an address in the text, by its label
Ptr(h)    == <<"stack", h, 0>>
Flags(b)  == <<"flags", b, 0>>
Sel(u)    == <<"segment", u, 0>>
Result(p) == Of(p, "eax")          \* of a call of program p, p's from then on
Junk      == <<"value", "junk", 0>>

IRQs == {0, 1, 8}  \* timer, keyboard, clock

HandlerOf(q) == CASE q = 0 -> "pit_handler" [] q = 1 -> "keyboard_handler" [] q = 8 -> "RTC_handler"

Handlers == {HandlerOf(q) : q \in IRQs}

(* A frame that nothing may return to any more is set to 0, so that a       *)
(* return to it would be seen: one that has been returned to, one of a      *)
(* program that ended, and one that execute("shell") leaves in the EBP of   *)
(* the program it interrupts, which is written again before it is used.     *)
Lost == 0

VARIABLES
    regs, stack,       \* the registers; the words on each kernel stack
    esp, pc, if_flag,       \* whose stack ESP is on, where the text is, the flag
    EBP, schedEBP,     \* of each PCB
    chain,             \* of each thread, its programs, the newest last
    cur_process, booted,
    unmasked, irr, isr,  \* of the interrupt controller
    rtc_c              \* register C of the clock: it has not been read since

cpu == <<regs, stack, esp, pc, if_flag>>
pcbs == <<EBP, schedEBP, chain, cur_process, booted>>
pic == <<unmasked, irr, isr, rtc_c>>
vars == <<cpu, pcbs, pic>>

Init ==
    /\ regs = [r \in Registers |-> Junk]
    /\ stack = [p \in Owners |-> <<>>]
    /\ esp = Boot /\ pc = "entry" /\ if_flag = FALSE
    /\ EBP = [p \in Programs |-> Lost]
    /\ schedEBP = [p \in Programs |-> Lost]
    /\ chain = [t \in Terminals |-> <<>>]
    /\ cur_process = 1
    /\ booted = {}
    /\ unmasked = {} /\ irr = {} /\ isr = {} /\ rtc_c = FALSE

TopOf(t) == chain[t][Len(chain[t])]

----------------------------------------------------------------------------
(* Runs of instructions, on the registers and the words of one stack.       *)

Pushed(m, words) == [m EXCEPT !.s = @ \o words]

Dropped(m, n) == [m EXCEPT !.s = SubSeq(@, 1, Len(@) - n)]

(* The word n below the top.                                                *)
Word(m, n) == m.s[Len(m.s) - n]

(* pop rs[1]; pop rs[2]; ...  A "-" is popped nowhere.                      *)
Popped(m, rs) ==
    [Dropped(m, Len(rs)) EXCEPT !.r = [r \in Registers |->
        IF \E i \in 1..Len(rs) : rs[i] = r
        THEN Word(m, (CHOOSE i \in 1..Len(rs) : rs[i] = r) - 1)
        ELSE m.r[r]]]

(* push %ebp; mov %esp, %ebp.                                               *)
Framed(m) ==
    LET n == Pushed(m, <<m.r["ebp"]>>)
    IN  [n EXCEPT !.r["ebp"] = Ptr(Len(n.s))]

(* mov %ebp, %esp with frame pointer f.                                     *)
CutTo(m, f) == [m EXCEPT !.s = SubSeq(@, 1, f)]

Frame(m) == m.r["ebp"][2]

(* What compiled code leaves in the registers but EBP.                      *)
Clobbered(m) == [m EXCEPT !.r = [r \in Registers |-> IF r = "ebp" THEN @[r] ELSE Junk]]

(* leave, with the return address then on top.                              *)
Left(m) == Popped(CutTo(m, Frame(m)), <<"ebp">>)

Machine == [r |-> regs, s |-> stack[esp]]

(* The processor goes on at label l with m on p's stack.                    *)
On(p, m, l) ==
    /\ regs' = m.r
    /\ stack' = [stack EXCEPT ![p] = m.s]
    /\ esp' = p
    /\ pc' = l

(* ret.                                                                     *)
Ret(p, m) == On(p, Dropped(m, 1), Word(m, 0)[2])

(* A program begins, or begins again, with an empty kernel stack; it has no *)
(* claim on what its registers hold.                                        *)
Begin(p) ==
    /\ On(p, [r |-> [r \in Registers |-> Of(p, r)], s |-> <<>>], "user")
    /\ if_flag' = TRUE

(* What a gate pushes: in user mode also the user's stack.                  *)
GateWords ==
    (IF pc = "user" THEN <<Of(esp, "ss"), Of(esp, "esp")>> ELSE <<>>)
        \o <<Flags(if_flag), Sel(pc = "user"), Code(pc)>>

Iret(p, m) ==
    LET user == Word(m, 1)[2]
    IN  /\ On(p, Dropped(m, IF user THEN 5 ELSE 3), Word(m, 0)[2])
        /\ if_flag' = Word(m, 2)[2]
----------------------------------------------------------------------------
(* entry().                                                                 *)

(* Every line is masked but the slave's.                                    *)
i8259_init == {2}

enable_irq(q) == unmasked' = unmasked \cup {q}

Entry ==
    /\ pc = "entry"
    /\ unmasked' = i8259_init \cup {1}
    /\ pc' = "RTC_init"
    /\ UNCHANGED <<regs, stack, esp, if_flag, pcbs, irr, isr, rtc_c>>

RTC_init ==
    /\ pc = "RTC_init"
    /\ enable_irq(8)
    /\ if_flag' = TRUE
    /\ pc' = "pit_init"
    /\ UNCHANGED <<regs, stack, esp, pcbs, irr, isr, rtc_c>>

pit_init ==
    /\ pc = "pit_init"
    /\ enable_irq(0)
    /\ pc' = "launch"
    /\ UNCHANGED <<regs, stack, esp, if_flag, pcbs, irr, isr, rtc_c>>

Launch ==
    /\ pc = "launch"
    /\ Begin(1)
    /\ chain' = [chain EXCEPT ![1] = <<1>>]
    /\ booted' = {1}
    /\ UNCHANGED <<EBP, schedEBP, cur_process, pic>>

----------------------------------------------------------------------------
(* System calls.  The gate is a trap gate: the flag stays.  Its linkage     *)
(* saves every register but EAX, and the flags; sys_calls_handler the       *)
(* caller's registers again, then it pushes the arguments and a word in the *)
(* place of a return address, and jumps to the call, which has a frame and  *)
(* locals.  Which call it is, is chosen where it ends.                      *)

Linked == Pushed(Machine, GateWords \o
              <<Flags(if_flag), regs["ebx"], regs["ecx"], regs["edx"], regs["esi"],
                regs["edi"], regs["ebp"], Code("linkage_end")>>)

Saved == Pushed(Framed(Linked), <<regs["ebx"], regs["esi"], regs["edi"]>>)

Call ==
    LET args == Pushed(Saved, <<regs["edx"], regs["ecx"], regs["ebx"], Code("null")>>)
    IN  /\ pc = "user"
        /\ On(esp, Clobbered(Pushed(Framed(args), <<Junk>>)), "call")
        /\ UNCHANGED <<if_flag, pcbs, pic>>

(* A number without a call: the stack is lowered by the five words that the *)
(* end takes off.                                                           *)
CallUnknown ==
    /\ pc = "user"
    /\ On(esp, Pushed([Saved EXCEPT !.r["eax"] = Result(esp)], [i \in 1..5 |-> Junk]),
          "sys_calls_handler_end")
    /\ UNCHANGED <<if_flag, pcbs, pic>>

(* The RETURN of getargs, open, close, vidmap, read and write, of a refused *)
(* execute or an empty terminal_write with interrupts left off.             *)
RETURN ==
    /\ pc = "call"
    /\ LET m == CutTo(Machine, Frame(Machine))
       IN  On(esp, [m EXCEPT !.r["eax"] = Result(esp)], "sys_calls_handler_end")
    /\ if_flag' \in {if_flag, FALSE}
    /\ UNCHANGED <<pcbs, pic>>

(* execute of another program; it ends in iret on the stack it was called   *)
(* on, which keeps its frame.                                               *)
execute ==
    \E p \in Aux :
        /\ pc = "call"
        /\ \A t \in Terminals : \A i \in 1..Len(chain[t]) : chain[t][i] # p
        /\ EBP' = [EBP EXCEPT ![esp] = Frame(Machine)]
        /\ chain' = [chain EXCEPT ![cur_process] = Append(@, p)]
        /\ Begin(p)
        /\ UNCHANGED <<schedEBP, cur_process, booted, pic>>

(* A base shell is started again.                                           *)
HaltBase ==
    /\ pc = "call" /\ Len(chain[cur_process]) = 1
    /\ EBP' = [EBP EXCEPT ![esp] = Lost]
    /\ Begin(esp)
    /\ UNCHANGED <<schedEBP, chain, cur_process, booted, pic>>

halt_return(p) ==
    LET m == CutTo([r |-> regs, s |-> stack[p]], EBP[p])
    IN  [m EXCEPT !.r["eax"] = Result(p), !.r["ebp"] = Ptr(EBP[p])]

(* Back into the parent's execute.                                          *)
HaltAux ==
    /\ pc = "call" /\ Len(chain[cur_process]) > 1
    /\ LET left   == chain[cur_process]
           parent == left[Len(left) - 1]
       IN  /\ regs' = halt_return(parent).r
           /\ stack' = [stack EXCEPT ![parent] = halt_return(parent).s, ![esp] = <<>>]
           /\ esp' = parent
           /\ EBP' = [EBP EXCEPT ![parent] = Lost, ![esp] = Lost]
           /\ chain' = [chain EXCEPT ![cur_process] = SubSeq(@, 1, Len(@) - 1)]
    /\ pc' = "sys_calls_handler_end" /\ if_flag' = FALSE
    /\ UNCHANGED <<schedEBP, cur_process, booted, pic>>

(* set_handler and sigreturn return as C functions do, to the word the      *)
(* dispatcher pushed for a return address; there is no page 0, and the page *)
(* fault stops the machine.                                                 *)
set_handler ==
    /\ pc = "call"
    /\ Ret(esp, Left(Machine))
    /\ UNCHANGED <<if_flag, pcbs, pic>>

(* exc_handler for an exception: of the code at "null", or of a program.    *)
Exception ==
    /\ pc \in {"null", "user"}
    /\ pc' = "frozen" /\ if_flag' = FALSE
    /\ UNCHANGED <<regs, stack, esp, pcbs, pic>>

(* EBX and EDI come back in each other's place; the linkage restores both.  *)
sys_calls_handler_end ==
    /\ pc = "sys_calls_handler_end"
    /\ Ret(esp, Popped(Dropped(Machine, 5), <<"ebx", "esi", "edi", "ebp">>))
    /\ UNCHANGED <<if_flag, pcbs, pic>>

(* Bug: ESI and EDI are popped in the order in which they were pushed.      *)
linkage_endBug ==
    /\ pc = "linkage_end"
    /\ Iret(esp, Dropped(Popped(Machine, <<"ebp", "esi", "edi", "edx", "ecx", "ebx">>), 1))
    /\ UNCHANGED <<pcbs, pic>>

(* ... then popfl and iret.                                                 *)
linkage_end ==
    /\ pc = "linkage_end"
    /\ Iret(esp, Dropped(Popped(Machine, <<"ebp", "edi", "esi", "edx", "ecx", "ebx">>), 1))
    /\ UNCHANGED <<pcbs, pic>>

----------------------------------------------------------------------------
(* Interrupts.                                                              *)

(* The devices.  The clock is silent until its register C is read.          *)
Request(q) ==
    /\ q \notin irr /\ (q = 8 => ~rtc_c)
    /\ irr' = irr \cup {q}
    /\ rtc_c' = (rtc_c \/ q = 8)
    /\ UNCHANGED <<cpu, pcbs, unmasked, isr>>

(* The master serves 0 before 1 before 2, behind which the slave is.        *)
Lines(q) == IF q = 8 THEN {8, 2} ELSE {q}

Blocks(q) == CASE q = 0 -> {0} [] q = 1 -> {0, 1} [] q = 8 -> {0, 1, 2, 8}

Deliverable(q) ==
    /\ q \in irr /\ Lines(q) \subseteq unmasked /\ isr \cap Blocks(q) = {}
    /\ \A r \in irr : r < q => ~(Lines(r) \subseteq unmasked)

(* What the processor takes between two instructions.                       *)
Pending(q) == if_flag /\ Deliverable(q) /\ Len(stack[esp]) <= MaxWords

(* The gate, which is an interrupt gate, the linkage and exc_handler, up to *)
(* the handler proper.                                                      *)
Interrupt(q) ==
    LET m == Pushed(Machine, GateWords \o
                 <<regs["eax"], regs["ecx"], regs["edx"], regs["ebx"], Junk, regs["ebp"],
                   regs["esi"], regs["edi"], Flags(FALSE), Junk, Code("linkage_out")>>)
    IN  /\ Pending(q)
        /\ On(esp, Framed(Pushed(Clobbered(Framed(m)), <<Code("exc_out")>>)), HandlerOf(q))
        /\ if_flag' = FALSE
        /\ irr' = irr \ {q}
        /\ isr' = isr \cup Lines(q)
        /\ UNCHANGED <<pcbs, unmasked, rtc_c>>

send_eoi(q) == isr' = isr \ Lines(q)

(* Bug: nothing is signalled when the same thread goes on.                  *)
PitStaysBug ==
    /\ pc = "pit_handler" /\ NextOf(booted, cur_process) = cur_process
    /\ Ret(esp, Left(Machine))
    /\ UNCHANGED <<if_flag, pcbs, unmasked, irr, isr, rtc_c>>

PitStays ==
    /\ pc = "pit_handler" /\ NextOf(booted, cur_process) = cur_process
    /\ send_eoi(0)
    /\ Ret(esp, Left(Machine))
    /\ UNCHANGED <<if_flag, pcbs, unmasked, irr, rtc_c>>

(* Into the frame in which p was left.                                      *)
return_to_parent(p) ==
    Ret(p, Popped(CutTo([r |-> regs, s |-> stack[p]], schedEBP[p]), <<"ebp">>))

(* The next thread goes on, in its newest program.                          *)
PitSwitches ==
    LET next == NextOf(booted, cur_process)
        top  == TopOf(next)
    IN  /\ pc = "pit_handler" /\ next # cur_process
        /\ schedEBP' = [schedEBP EXCEPT ![esp] = Frame(Machine), ![top] = Lost]
        /\ cur_process' = next
        /\ send_eoi(0)
        /\ return_to_parent(top)
        /\ UNCHANGED <<if_flag, EBP, chain, booted, unmasked, irr, rtc_c>>

(* Bug: the interrupt is not ended before the shell is started.             *)
KeyStartsBug(t) ==
    /\ pc = "keyboard_handler" /\ booted # {} /\ t \notin booted
    /\ schedEBP' = [schedEBP EXCEPT ![esp] = Frame(Machine)]
    /\ cur_process' = t
    /\ chain' = [chain EXCEPT ![t] = <<t>>]
    /\ booted' = booted \cup {t}
    /\ EBP' = [EBP EXCEPT ![esp] = Lost]
    /\ Begin(t)
    /\ UNCHANGED <<unmasked, irr, isr, rtc_c>>

(* Alt+Fn of a terminal without a shell: execute does not return.           *)
KeyStarts(t) ==
    /\ pc = "keyboard_handler" /\ booted # {} /\ t \notin booted
    /\ schedEBP' = [schedEBP EXCEPT ![esp] = Frame(Machine)]
    /\ cur_process' = t
    /\ send_eoi(1)
    /\ chain' = [chain EXCEPT ![t] = <<t>>]
    /\ booted' = booted \cup {t}
    /\ EBP' = [EBP EXCEPT ![esp] = Lost]
    /\ Begin(t)
    /\ UNCHANGED <<unmasked, irr, rtc_c>>

(* Any other key; the handler ends with sti.                                *)
Key ==
    /\ pc = "keyboard_handler"
    /\ send_eoi(1)
    /\ Ret(esp, Left(Machine))
    /\ if_flag' = TRUE
    /\ UNCHANGED <<pcbs, unmasked, irr, rtc_c>>

RtcTick ==
    /\ pc = "RTC_handler"
    /\ rtc_c' = FALSE
    /\ send_eoi(8)
    /\ Ret(esp, Left(Machine))
    /\ UNCHANGED <<if_flag, pcbs, unmasked, irr>>

exc_out ==
    /\ pc = "exc_out"
    /\ Ret(esp, Left(Machine))
    /\ UNCHANGED <<if_flag, pcbs, pic>>

(* The linkage's end: the flags it pushed, popal and iret.                  *)
linkage_out ==
    /\ pc = "linkage_out"
    /\ Iret(esp, Popped(Dropped(Machine, 2),
                        <<"edi", "esi", "ebp", "-", "ebx", "edx", "ecx", "eax">>))
    /\ UNCHANGED <<pcbs, pic>>

----------------------------------------------------------------------------
Instructions ==
    \/ Entry \/ RTC_init \/ pit_init \/ Launch
    \/ Call \/ CallUnknown \/ RETURN
    \/ execute \/ HaltBase \/ HaltAux \/ set_handler \/ Exception
    \/ sys_calls_handler_end \/ linkage_end
    \/ PitStays \/ PitSwitches \/ (\E t \in Startable : KeyStarts(t)) \/ Key \/ RtcTick
    \/ exc_out \/ linkage_out

(* Interrupts come before the next instruction.                             *)
Processor ==
    \/ \E q \in IRQs : Interrupt(q)
    \/ (\A q \in IRQs : ~Pending(q)) /\ Instructions

Next ==
    \/ Processor
    \/ \E q \in IRQs : Request(q)

Spec == Init /\ [][Next]_vars

FairSpec == Spec /\ WF_vars(Processor)
----------------------------------------------------------------------------
(* However a program left user mode, by a call, an interrupt, a call that   *)
(* was interrupted, a child it waited for, or a switch between threads at   *)
(* any of these, it goes on with its own registers, EAX that of the call    *)
(* it made, with interrupts on and with nothing left on its kernel stack.    *)
UserIntact ==
    pc = "user" =>
        /\ \A r \in Registers : regs[r] = Of(esp, r)
        /\ if_flag /\ stack[esp] = <<>> /\ esp = TopOf(cur_process)

(* Interrupts are never on with one in service: each handler, also when it  *)
(* leaves for another thread or starts a shell, ends its own first.         *)
NoneInService == if_flag => isr = {}

(* The timer's interrupt is always taken in the end, whatever comes between *)
(* (what fairness of the timer in Processes rests on), unless the machine   *)
(* was stopped.                                                             *)
EveryTickTaken == (0 \in irr /\ booted # {}) ~> (0 \notin irr \/ pc = "frozen")
=============================================================================
