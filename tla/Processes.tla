----------------------------- MODULE Processes -----------------------------
(* The process core of the kernel: the system calls execute and halt        *)
(* (sys_calls.c), the round-robin thread switch of the timer interrupt      *)
(* (pit.c) and the Alt+Fn branch of the keyboard interrupt, which boots a   *)
(* terminal's shell (keyboard.c).                                           *)
(*                                                                          *)
(* A process is its identifier: process p owns the 8 KB block at            *)
(* 0x800000 - (p + 1) * 0x2000, which holds both its control block (PCB)    *)
(* and its kernel stack, so "the current PCB" is whatever block ESP points  *)
(* into.  Block 0 is the stack the kernel boots on.  Every handler modelled *)
(* here runs with interrupts off from its first read to its last write      *)
(* (cli in the system calls, interrupt gates for the two interrupts), hence *)
(* one action each; read and vidmap do not mask interrupts and are a pair   *)
(* of actions with every interrupt possible in between.                     *)
EXTENDS RoundRobin, FiniteSets

CONSTANTS
    MaxAux,       \* processes that are not base shells, at most (3 in the code)
    EarlySwitch,  \* may Alt+Fn arrive before the kernel started shell 1?
    Faults        \* may a user program raise a processor exception?

ASSUME MaxAuxAssumption == MaxAux \in Nat \ {0}
ASSUME SwitchAssumption == EarlySwitch \in BOOLEAN /\ Faults \in BOOLEAN

AuxPids   == 4..(3 + MaxAux)   \* the base shells' pids are their Terminals
Pids      == 1..(3 + MaxAux)
Blocks    == 0..(3 + MaxAux)  \* PCBs: those of Pids and the boot stack's
Nil       == -1               \* the null pointer of childPCB and parentPCB
Commands  == {"shell", "program"}  \* what execute tells apart

VARIABLES
    booted,          \* base_shell_booted_bitmask, as the set of its bits
    live,            \* base_shell_live_bitmask
    shell_init_boot, \* the terminal whose shell the next execute boots, or 0
    active,          \* pids whose active_processes entry is 1
    aux_processes,   \* the kernel's own count of non-base processes
    childPCB,        \* PCB links: the program execute started from this one
    parentPCB,
    waiting,         \* PCBs whose EBP points to an execute call on their stack
    suspended,       \* PCBs whose schedEBP points to an interrupt frame there
    open,            \* PCBs whose stack holds an interruptible system call
    cur_process,     \* thread (terminal) whose process runs
    page,            \* pid whose 4 MB page pdt[32] maps at 128 MB
    esp0,            \* pid whose kernel stack the TSS names
    mode             \* what the processor runs: see TypeOK

masks   == <<booted, live, shell_init_boot>>
slots   == <<active, aux_processes>>
links   == <<childPCB, parentPCB>>
frames  == <<waiting, suspended, open>>
cpu     == <<page, esp0, mode>>
vars    == <<masks, slots, links, frames, cur_process, cpu>>

(***************************************************************************)
(* "boot": entry() after it enabled interrupts and before its call of      *)
(* execute; "user": the program in page; "kernel": an interruptible system *)
(* call of esp0; "frozen": the loop of exc_handler, interrupts off;        *)
(* "wild": control went to a frame that is not on the stack any more.      *)
(***************************************************************************)
TypeOK ==
    /\ booted \subseteq Terminals /\ live \subseteq Terminals
    /\ shell_init_boot \in {0} \cup Terminals
    /\ active \subseteq Pids
    /\ aux_processes \in 0..MaxAux
    /\ childPCB \in [Blocks -> {Nil} \cup Pids]
    /\ parentPCB \in [Blocks -> {Nil} \cup Blocks]
    /\ waiting \subseteq Blocks /\ suspended \subseteq Blocks /\ open \subseteq Blocks
    /\ cur_process \in Terminals
    /\ page \in Blocks /\ esp0 \in Blocks
    /\ mode \in {"boot", "user", "kernel", "frozen", "wild"}

Init ==
    /\ booted = {} /\ live = {} /\ shell_init_boot = 1
    /\ active = {} /\ aux_processes = 0
    /\ childPCB = [b \in Blocks |-> Nil]
    /\ parentPCB = [b \in Blocks |-> Nil]
    /\ waiting = {} /\ suspended = {} /\ open = {}
    /\ cur_process = 1
    /\ page = 0 /\ esp0 = 0 /\ mode = "boot"

----------------------------------------------------------------------------
(* Walking the PCB links.  get_top_process_pcb follows childPCB to its end; *)
(* the blocks it meets are the smallest set closed under childPCB: no       *)
(* closed set with the first block leaves one of them out.                  *)

ClosedUnder(f, S) == \A p \in S : f[p] # Nil => f[p] \in S

ChainOf(f, t) ==
    {p \in Pids : \A S \in SUBSET (Pids \ {p}) : t \in S => ~ClosedUnder(f, S)}

TopOf(f, t) == CHOOSE p \in ChainOf(f, t) : f[p] = Nil

Chain(t) == ChainOf(childPCB, t)
Top(t)   == TopOf(childPCB, t)

Interruptible == mode \in {"boot", "user", "kernel"}

----------------------------------------------------------------------------
(* execute(command), called with c as the current PCB: from a system call,  *)
(* from halt, from the keyboard interrupt or from entry().  sib and lv are  *)
(* shell_init_boot and the live mask as the caller has just left them.      *)

FreeSlots     == AuxPids \ active
SymDiff(S, T) == (S \ T) \cup (T \ S)

(* The definitions named ...Bug are plausible mistakes in the definition    *)
(* they precede; no specification uses them.  Each is there to show that a  *)
(* property would catch it.                                                 *)

(* Bug: the booted terminal stays in shell_init_boot.                       *)
ChooseBootBug(cmd, sib, next) ==
    /\ cmd = "shell" /\ sib # 0
    /\ next = sib
    /\ active' = active \cup {sib}
    /\ booted' = booted \cup {sib}
    /\ live' = booted'
    /\ shell_init_boot' = sib

(* A shell to boot: shell_init_boot names its terminal.                     *)
ChooseBoot(cmd, sib, next) ==
    /\ cmd = "shell" /\ sib # 0
    /\ next = sib
    /\ active' = active \cup {sib}
    /\ booted' = booted \cup {sib}
    /\ live' = booted'
    /\ shell_init_boot' = 0

(* A shell that halted: the one bit in which the masks differ.  next_pid is *)
(* not assigned when several differ.                                        *)
ChooseReboot(cmd, sib, lv, next) ==
    /\ cmd = "shell" /\ sib = 0 /\ booted # lv
    /\ \/ SymDiff(booted, lv) = {next}
       \/ Cardinality(SymDiff(booted, lv)) > 1
    /\ live' = booted
    /\ shell_init_boot' = sib
    /\ UNCHANGED <<active, booted>>

(* Bug: the slot is not marked as taken.                                    *)
ChooseSlotUnmarkedBug(cmd, sib, lv, next) ==
    /\ cmd = "program" \/ (sib = 0 /\ booted = lv)
    /\ next \in FreeSlots /\ \A p \in FreeSlots : next <= p
    /\ live' = lv
    /\ shell_init_boot' = sib
    /\ UNCHANGED <<active, booted>>

(* Bug: the search takes the first slot without testing it.                 *)
ChooseSlotUntestedBug(cmd, sib, lv, next) ==
    /\ cmd = "program" \/ (sib = 0 /\ booted = lv)
    /\ next = 4
    /\ active' = active \cup {next}
    /\ live' = lv
    /\ shell_init_boot' = sib
    /\ UNCHANGED booted

(* Any other program takes the first free slot.  With none free next_pid is *)
(* not assigned.                                                            *)
ChooseSlot(cmd, sib, lv, next) ==
    /\ cmd = "program" \/ (sib = 0 /\ booted = lv)
    /\ \/ /\ next \in FreeSlots /\ \A p \in FreeSlots : next <= p
          /\ active' = active \cup {next}
       \/ FreeSlots = {} /\ active' = active
    /\ live' = lv
    /\ shell_init_boot' = sib
    /\ UNCHANGED booted

(* Bug: the EBP is saved in the new process's PCB.                          *)
LaunchBug(c, next, base) ==
    /\ page' = next /\ esp0' = next /\ mode' = "user"
    /\ parentPCB' = [parentPCB EXCEPT ![next] = IF base THEN Nil ELSE c]
    /\ childPCB' = [childPCB EXCEPT ![next] = Nil,
                                    ![c] = IF base THEN @ ELSE next]
    /\ waiting' = waiting \cup {next}
    /\ open' = open \ {next}

(* The new process gets its page, PCB and an empty kernel stack.  The EBP   *)
(* of the caller now points to this execute; only one that starts a program *)
(* with a parent is ever returned to.                                       *)
Launch(c, next, base) ==
    /\ page' = next /\ esp0' = next /\ mode' = "user"
    /\ parentPCB' = [parentPCB EXCEPT ![next] = IF base THEN Nil ELSE c]
    /\ childPCB' = [childPCB EXCEPT ![next] = Nil,
                                    ![c] = IF base THEN @ ELSE next]
    /\ waiting' = IF base THEN waiting \ {c, next} ELSE (waiting \ {next}) \cup {c}
    /\ open' = open \ {next}

(* Too many processes: a message, and execute returns 1 to its caller.      *)
Refuse == mode' = "user" /\ UNCHANGED <<page, esp0, links, waiting, open>>

(* Bug: the limit is tested before the new process is counted.              *)
ExecuteFromBug(c, cmd, sib, lv, susp) ==
    \E next \in Pids, base \in BOOLEAN :
        /\ \/ base /\ ChooseBoot(cmd, sib, next)
           \/ base /\ ChooseReboot(cmd, sib, lv, next)
           \/ ~base /\ ChooseSlot(cmd, sib, lv, next)
        /\ IF aux_processes > MaxAux
           THEN Refuse /\ aux_processes' = aux_processes /\ suspended' = susp
           ELSE /\ Launch(c, next, base)
                /\ aux_processes' = IF base THEN aux_processes ELSE aux_processes + 1
                /\ suspended' = susp \ {next}

(* susp is suspended as the caller left it.                                 *)
ExecuteFrom(c, cmd, sib, lv, susp) ==
    \E next \in Pids, base \in BOOLEAN :
        /\ \/ base /\ ChooseBoot(cmd, sib, next)
           \/ base /\ ChooseReboot(cmd, sib, lv, next)
           \/ ~base /\ ChooseSlot(cmd, sib, lv, next)
        /\ LET wanted == IF base THEN aux_processes ELSE aux_processes + 1
           IN  IF wanted > MaxAux
               THEN Refuse /\ aux_processes' = aux_processes /\ suspended' = susp
               ELSE /\ Launch(c, next, base)
                    /\ aux_processes' = wanted
                    /\ suspended' = susp \ {next}

----------------------------------------------------------------------------
(* entry() calls execute("shell") on the boot stack.                        *)
Boot ==
    /\ mode = "boot"
    /\ ExecuteFrom(0, "shell", shell_init_boot, live, suspended)
    /\ UNCHANGED cur_process

(* The execute system call of a program.                                    *)
Execute(cmd) ==
    /\ mode = "user"
    /\ ExecuteFrom(esp0, cmd, shell_init_boot, live, suspended)
    /\ UNCHANGED cur_process

(* No such file, an unreadable inode or no ELF magic: -1 to the caller,     *)
(* before anything is written.                                              *)
ExecuteNotFound ==
    /\ mode = "user"
    /\ UNCHANGED vars

(* The halt system call of a base shell: the shell is started again.        *)
HaltBaseShell ==
    /\ mode = "user" /\ esp0 \in Terminals
    /\ ExecuteFrom(esp0, "shell", shell_init_boot, live \ {esp0}, suspended)
    /\ UNCHANGED cur_process

(* A halt that forgets the counter, one that forgets the parent's link, and *)
(* one that returns to the terminal's base shell.                           *)
HaltAuxWith(parent, aux, child) ==
    /\ mode = "user" /\ esp0 \notin Terminals
    /\ page' = parent /\ esp0' = parent
    /\ active' = active \ {esp0}
    /\ aux_processes' = aux
    /\ childPCB' = child
    /\ mode' = IF parent \in waiting THEN "user" ELSE "wild"
    /\ waiting' = waiting \ {parent}
    /\ UNCHANGED <<masks, parentPCB, suspended, open, cur_process>>

HaltAuxCountBug ==
    HaltAuxWith(parentPCB[esp0], aux_processes, [childPCB EXCEPT ![parentPCB[esp0]] = Nil])

HaltAuxLinkBug == HaltAuxWith(parentPCB[esp0], aux_processes - 1, childPCB)

HaltAuxBaseBug ==
    HaltAuxWith(cur_process, aux_processes - 1, [childPCB EXCEPT ![cur_process] = Nil])

(* The halt system call of any other program: back into the parent's        *)
(* execute, which returns to the parent's user code.                        *)
HaltAux ==
    /\ mode = "user" /\ esp0 \notin Terminals
    /\ LET parent == parentPCB[esp0]
       IN  /\ page' = parent /\ esp0' = parent
           /\ active' = active \ {esp0}
           /\ aux_processes' = aux_processes - 1
           /\ childPCB' = [childPCB EXCEPT ![parent] = Nil]
           /\ mode' = IF parent \in waiting THEN "user" ELSE "wild"
           /\ waiting' = waiting \ {parent}
    /\ UNCHANGED <<masks, parentPCB, suspended, open, cur_process>>

(* A system call that runs with interrupts on, and so may be left and       *)
(* resumed half-way: read spins until a line or an RTC tick is there,       *)
(* vidmap fills in its page table.                                          *)
Enter ==
    /\ mode = "user"
    /\ mode' = "kernel"
    /\ open' = open \cup {esp0}
    /\ UNCHANGED <<masks, slots, links, waiting, suspended, cur_process, page, esp0>>

Leave ==
    /\ mode = "kernel"
    /\ mode' = "user"
    /\ open' = open \ {esp0}
    /\ UNCHANGED <<masks, slots, links, waiting, suspended, cur_process, page, esp0>>

----------------------------------------------------------------------------
(* The timer interrupt.                                                     *)
(* Bug: the page of the thread's base shell is mapped.                      *)
SwitchToBug(n) ==
    LET top == Top(n)
    IN  /\ suspended' = (suspended \cup {esp0}) \ {top}
        /\ page' = n /\ esp0' = top
        /\ mode' = IF top \notin suspended THEN "wild"
                   ELSE IF top \in open THEN "kernel" ELSE "user"

(* Save the frame of the interrupted process and return into that of the    *)
(* top process of thread n.                                                 *)
SwitchTo(n) ==
    LET top == Top(n)
    IN  /\ suspended' = (suspended \cup {esp0}) \ {top}
        /\ page' = top /\ esp0' = top
        /\ mode' = IF top \notin suspended THEN "wild"
                   ELSE IF top \in open THEN "kernel" ELSE "user"

PitTick ==
    /\ Interruptible
    /\ LET n == NextOf(booted, cur_process)
       IN  /\ cur_process' = n
           /\ IF n = cur_process THEN UNCHANGED <<suspended, cpu>> ELSE SwitchTo(n)
    /\ UNCHANGED <<masks, slots, links, waiting, open>>

(* Bug: the frame of the interrupted process is not saved.                  *)
BootTerminalBug(sel) ==
    /\ Interruptible /\ (mode = "boot" => EarlySwitch)
    /\ sel \notin booted
    /\ cur_process' = sel
    /\ ExecuteFrom(esp0, "shell", sel, live, suspended)

(* keyboard_handler, Alt+Fn for a terminal that has no shell yet: start it, *)
(* leaving the interrupted process suspended in the handler.  (For another  *)
(* terminal the branch only changes what the screen shows.)                 *)
BootTerminal(sel) ==
    /\ Interruptible /\ (mode = "boot" => EarlySwitch)
    /\ sel \notin booted
    /\ cur_process' = sel
    /\ ExecuteFrom(esp0, "shell", sel, live, suspended \cup {esp0})

(* exc_handler: any of the processor's exceptions stops the machine in a    *)
(* loop with interrupts off; its call of halt(256) is never reached.        *)
Exception ==
    /\ Faults /\ mode = "user"
    /\ mode' = "frozen"
    /\ UNCHANGED <<masks, slots, links, frames, cur_process, page, esp0>>

Next ==
    \/ Boot
    \/ \E cmd \in Commands : Execute(cmd)
    \/ ExecuteNotFound
    \/ HaltBaseShell
    \/ HaltAux
    \/ Enter
    \/ Leave
    \/ PitTick
    \/ \E sel \in Terminals : BootTerminal(sel)
    \/ Exception

Spec == Init /\ [][Next]_vars

(* The timer raises its interrupt for ever and entry() reaches its call of  *)
(* execute.  Nothing is assumed of the programs or of the user.             *)
FairSpec == Spec /\ WF_vars(PitTick) /\ WF_vars(Boot)
----------------------------------------------------------------------------
(* Safety.                                                                  *)

Running == mode \in {"user", "kernel"}

(* The process table agrees with itself: the kernel's counter is the number *)
(* of taken slots, so a slot is free whenever the counter lets a program    *)
(* start (execute searches the slots before it tests the counter, and would *)
(* use an unassigned next_pid), and the base shells' entries are the booted *)
(* terminals.                                                               *)
SlotsMatch ==
    /\ aux_processes = Cardinality(active \cap AuxPids)
    /\ active \cap Terminals = booted

(* The PCB links are a forest of one chain per booted terminal: childPCB    *)
(* and parentPCB are inverse, a non-base process hangs from an active one,  *)
(* and a link leads only to active processes.  The timer's walk from a base *)
(* PCB depends on it.                                                       *)
LinksInverse ==
    /\ \A p \in Blocks : childPCB[p] # Nil =>
           /\ p \in active
           /\ childPCB[p] \in active \cap AuxPids
           /\ parentPCB[childPCB[p]] = p
    /\ \A p \in active \cap AuxPids :
           parentPCB[p] \in active /\ childPCB[parentPCB[p]] = p

(* No process belongs to two terminals, every active one belongs to one,    *)
(* and the walk from a base PCB ends.                                       *)
ChainsPartition ==
    /\ \A t, u \in booted : t # u => Chain(t) \cap Chain(u) = {}
    /\ active = UNION {Chain(t) : t \in booted}
    /\ \A t \in booted : \E p \in Chain(t) : childPCB[p] = Nil

(* What runs is the newest process of the current thread, on its own page   *)
(* and its own kernel stack: the three are written by execute, halt, the    *)
(* timer and the keyboard handler separately.                               *)
CurrentIsTop ==
    Running => /\ cur_process \in booted
               /\ esp0 = Top(cur_process)
               /\ page = esp0

(* Every booted thread that is not running can be resumed: the frame its    *)
(* top process's schedEBP points to is still on that process's stack.       *)
ResumeFrameLive ==
    /\ Running => \A t \in booted \ {cur_process} : Top(t) \in suspended
    /\ mode # "wild"

(* Every process with a child can be returned to: the frame its EBP points  *)
(* to is the execute call it waits in.  A terminal's boot overwrites the    *)
(* EBP of the process it interrupts, which must therefore have no child.    *)
ReturnFrameLive ==
    \A p \in Pids : childPCB[p] # Nil => p \in waiting

(* Outside execute and halt no shell waits to be booted or rebooted, so the *)
(* next shell a program starts is an ordinary one and the reboot mask never *)
(* has the two bits that leave next_pid unassigned.  Terminal 1, which the  *)
(* timer does not test, has a shell.                                        *)
NoPendingShell ==
    mode # "boot" => live = booted /\ shell_init_boot = 0 /\ 1 \in booted

(* Action properties.                                                       *)

(* A program that starts takes a slot nobody holds; its page and stack are  *)
(* overwritten by the start.                                                *)
LaunchIntoFreeSlot ==
    [][aux_processes' > aux_processes =>
          esp0' \notin active /\ active' = active \cup {esp0'}]_vars

(* A timer tick only ever resumes what it or a terminal boot suspended: the *)
(* comment at pit.c:78 calls it a "prexisting thread".                      *)
SwitchToSuspended ==
    [][PitTick /\ cur_process' # cur_process => esp0' \in suspended]_vars

(* halt keeps the thread: a base shell is restarted under its own pid on    *)
(* its own terminal, any other program gives way to the one that ran it.    *)
HaltKeepsThread ==
    [][/\ HaltBaseShell => esp0' = esp0 /\ cur_process' = cur_process
       /\ HaltAux => esp0' = parentPCB[esp0] /\ esp0' = Top(cur_process)']_vars

(* Liveness: the round robin reaches every terminal that has a shell, again *)
(* and again, unless an exception stops the machine.                        *)
EveryThreadRuns ==
    \A t \in Terminals : t \in booted ~> (cur_process = t \/ mode = "frozen")
=============================================================================
