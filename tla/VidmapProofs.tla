---------------------------- MODULE VidmapProofs ----------------------------
(* Proofs about Vidmap, for every number of process slots: who draws on     *)
(* which page.  They stand on the invariant of the process core.            *)
EXTENDS Vidmap, ProcessesProofs

(***************************************************************************)
(* What the handlers of the core do to threads and interruptible calls.    *)
(***************************************************************************)

(* A process of chain f is still in chain g unless it is one of the dead.   *)
LEMMA ChainKept ==
    ASSUME NEW f \in Links, NEW g \in Links, NEW t \in Pids, NEW dead \in SUBSET Pids,
           \A p \in Pids : f[p] # Nil => f[p] \in dead \/ (p \notin dead /\ g[p] = f[p])
    PROVE  ChainOf(f, t) \subseteq ChainOf(g, t) \cup dead
<1> DEFINE S == ChainOf(g, t) \cup dead
<1>1. S \in SUBSET Pids /\ t \in S
    BY ChainBasics
<1>2. ClosedUnder(f, S)
    <2> SUFFICES ASSUME NEW p \in S, f[p] # Nil
                 PROVE  f[p] \in S
        BY DEF ClosedUnder
    <2>1. p \in Pids /\ ClosedUnder(g, ChainOf(g, t))
        BY <1>1, ChainBasics
    <2>2. CASE f[p] \in dead
        BY <2>2
    <2>3. CASE p \notin dead /\ g[p] = f[p]
        BY <2>1, <2>3 DEF ClosedUnder
    <2> QED
        BY <2>1, <2>2, <2>3
<1> QED
    BY <1>1, <1>2, ChainLeast

(* The base process of every process is the shell of its thread.            *)
LEMMA BaseIsThread ==
    ASSUME IInv, parentPCB \in Links, NEW t \in booted, parentPCB[t] = Nil,
           NEW p \in Chain(t)
    PROVE  Base(p) = t
<1>1. t \in Pids
    BY PidsAreBlocks DEF IInv, TypeOK
<1>2. p \in Pids /\ t \in ChainOf(parentPCB, p)
    BY <1>1, WalkBack DEF Chain
<1> QED
    BY <1>2, TopIsEnd DEF Base

(* The interruptible calls agree with the processor and with the links: the *)
(* running process is inside one exactly in kernel mode, and a process that *)
(* waits for its child is inside none.                                      *)
CallsMatch ==
    /\ parentPCB \in Links
    /\ \A t \in booted : parentPCB[t] = Nil
    /\ mode = "user" => esp0 \notin open
    /\ mode = "kernel" => esp0 \in open
    /\ \A p \in Pids : childPCB[p] # Nil => p \notin open

(* No handler moves a living process to another thread.                     *)
ThreadsKept == \A t \in booted : t \in booted' /\ Chain(t) \cap active' \subseteq Chain(t)'

(* No handler ends the call of a living process.                            *)
CallsKept == open \cap active \subseteq open' \cap active'

LEMMA LinksKeepThreads ==
    ASSUME IInv, childPCB' \in Links, booted \subseteq booted',
           \A p \in Pids : childPCB[p] # Nil =>
               childPCB[p] \notin active' \/ (p \in active' /\ childPCB'[p] = childPCB[p])
    PROVE  ThreadsKept
<1> SUFFICES ASSUME NEW t \in booted
             PROVE  Chain(t) \cap active' \subseteq Chain(t)'
    BY DEF ThreadsKept
<1>1. childPCB \in Links /\ t \in Pids
    BY PidsAreBlocks DEF IInv, TypeOK, Links
<1>2. \A p \in Pids : childPCB[p] # Nil => childPCB[p] \in Pids
    BY <1>1, PidsAreBlocks DEF Links
<1> DEFINE dead == Pids \ active'
<1>3. \A p \in Pids : childPCB[p] # Nil =>
          childPCB[p] \in dead \/ (p \notin dead /\ childPCB'[p] = childPCB[p])
    BY <1>2
<1>4. ChainOf(childPCB, t) \subseteq ChainOf(childPCB', t) \cup dead
    BY <1>1, <1>3, ChainKept
<1> QED
    BY <1>4 DEF Chain

(* entry() starts shell 1.                                                  *)
LEMMA BootCalls ==
    ASSUME IInv, CallsMatch, Boot
    PROVE  CallsMatch' /\ ThreadsKept /\ CallsKept /\ active = {} /\ mode' # "boot" /\ 1 \in booted'
<1>1. Init /\ shell_init_boot = 1 /\ 1 \in Terminals /\ 0 \in Blocks
    BY PidsAreBlocks DEF IInv, Boot, Init, Terminals
<1>2. TypeOK /\ ExecuteFrom(0, "shell", 1, live, suspended)
    BY <1>1 DEF IInv, Boot
<1>3. /\ booted' = {1} /\ esp0' = 1 /\ mode' = "user" /\ open' = {}
      /\ parentPCB' = [parentPCB EXCEPT ![1] = Nil]
      /\ \A p \in Blocks : childPCB'[p] = Nil
    BY <1>1, <1>2, ExecuteBoots DEF Init
<1>4. CallsMatch'
    BY <1>1, <1>3, PidsAreBlocks DEF CallsMatch, Links
<1> QED
    BY <1>1, <1>3, <1>4 DEF Init, ThreadsKept, CallsKept

(* Alt+Fn starts a terminal's shell, over a program or one of its calls.    *)
LEMMA BootTerminalCalls ==
    ASSUME IInv, CallsMatch, Running, NEW sel \in Terminals, BootTerminal(sel)
    PROVE  /\ CallsMatch' /\ ThreadsKept /\ CallsKept
           /\ active' = active \cup {sel} /\ booted' = booted \cup {sel}
           /\ sel \notin active /\ cur_process' = sel /\ Chain(sel)' = {sel} /\ mode' = "user"
<1>1. /\ TypeOK /\ childPCB \in Links
      /\ sel \notin booted /\ sel \in Pids /\ sel \in Blocks /\ cur_process' = sel
      /\ ExecuteFrom(esp0, "shell", sel, live, suspended \cup {esp0})
    BY PidsAreBlocks DEF IInv, BootTerminal, TypeOK, Links
<1>2. /\ active' = active \cup {sel} /\ booted' = booted \cup {sel}
      /\ esp0' = sel /\ mode' = "user"
      /\ parentPCB' = [parentPCB EXCEPT ![sel] = Nil]
      /\ childPCB' \in Links
      /\ \A p \in Blocks : childPCB'[p] = IF p = sel THEN Nil ELSE childPCB[p]
      /\ open' = open \ {sel}
    BY <1>1, RunningFacts, ExecuteBoots
<1>3. sel \notin active
    BY <1>1 DEF IInv, SlotsMatch
<1>4. childPCB[sel] = Nil
    BY <1>1, <1>3 DEF IInv, LinksInverse
<1>5. CallsMatch'
    BY <1>1, <1>2, <1>4, PidsAreBlocks DEF CallsMatch, Links, IInv, TypeOK
<1>6. ThreadsKept
    <2>1. \A p \in Pids : childPCB[p] # Nil => p \in active' /\ childPCB'[p] = childPCB[p]
        BY <1>2, <1>4, PidsAreBlocks DEF IInv, LinksInverse
    <2> QED
        BY <1>2, <2>1, LinksKeepThreads
<1>7. CallsKept
    BY <1>2, <1>3 DEF CallsKept
<1>8. Chain(sel)' = {sel}
    BY <1>1, <1>2, ChainSingle DEF Chain
<1> QED
    BY <1>1, <1>2, <1>3, <1>5, <1>6, <1>7, <1>8

(* A handler that leaves the links and the table alone.                     *)
LEMMA StillThreads ==
    ASSUME IInv, childPCB' = childPCB, booted' = booted
    PROVE  ThreadsKept
BY DEF ThreadsKept, Chain

(* execute starts a program on the running one, or refuses.                 *)
LEMMA ExecuteCalls ==
    ASSUME IInv, CallsMatch, NEW cmd \in Commands, Execute(cmd)
    PROVE  /\ CallsMatch' /\ ThreadsKept /\ CallsKept
           /\ active \subseteq active' /\ booted' = booted /\ cur_process' = cur_process
           /\ mode' = "user"
<1>1. Running /\ cur_process' = cur_process /\ esp0 \notin open
    BY DEF Execute, Running, CallsMatch
<1>2. /\ esp0 \in Pids /\ esp0 \in Blocks /\ childPCB[esp0] = Nil /\ childPCB \in Links
      /\ esp0 \in active
    BY <1>1, RunningFacts DEF IInv, TypeOK, Links
<1>3. Unstarted \/ \E next \in FreeSlots : aux_processes < MaxAux /\ Started(next)
    BY <1>1, ExecuteStarts DEF Execute
<1>4. CASE Unstarted
    <2>1. /\ booted' = booted /\ active' = active /\ childPCB' = childPCB
          /\ parentPCB' = parentPCB /\ open' = open /\ esp0' = esp0 /\ mode' = "user"
        BY <1>4 DEF Unstarted, masks, slots, links
    <2> QED
        BY <1>1, <2>1, StillThreads DEF CallsMatch, CallsKept
<1>5. CASE \E next \in FreeSlots : aux_processes < MaxAux /\ Started(next)
    <2>1. PICK next \in FreeSlots : Started(next)
        BY <1>5
    <2>2. /\ next \in Pids /\ next \in Blocks /\ next \notin active /\ next \notin Terminals
        BY PidsAreBlocks DEF FreeSlots
    <2>3. /\ booted' = booted /\ active' = active \cup {next} /\ esp0' = next
          /\ mode' = "user" /\ open' = open \ {next}
          /\ parentPCB' = [parentPCB EXCEPT ![next] = esp0]
          /\ childPCB' = [childPCB EXCEPT ![next] = Nil, ![esp0] = next]
        BY <2>1 DEF Started, masks
    <2>4. childPCB[next] = Nil
        BY <2>2 DEF IInv, LinksInverse
    <2>5. /\ childPCB' \in Links
          /\ \A p \in Blocks : childPCB'[p] = IF p = esp0 THEN next ELSE childPCB[p]
        BY <1>2, <2>2, <2>3, <2>4 DEF Links
    <2>6. parentPCB' \in Links /\ \A t \in booted' : parentPCB'[t] = Nil
        BY <1>2, <2>2, <2>3, PidsAreBlocks DEF CallsMatch, Links, IInv, TypeOK
    <2>7. CallsMatch'
        BY <1>1, <2>3, <2>5, <2>6, PidsAreBlocks DEF CallsMatch
    <2>8. ThreadsKept
        <3>1. \A p \in Pids : childPCB[p] # Nil => p \in active' /\ childPCB'[p] = childPCB[p]
            BY <1>2, <2>3, <2>5, PidsAreBlocks DEF IInv, LinksInverse
        <3> QED
            BY <2>3, <2>5, <3>1, LinksKeepThreads
    <2> QED
        BY <1>1, <2>2, <2>3, <2>7, <2>8 DEF CallsKept
<1> QED
    BY <1>3, <1>4, <1>5

(* halt of a base shell starts the shell again in its place.                *)
LEMMA HaltBaseShellCalls ==
    ASSUME IInv, CallsMatch, HaltBaseShell
    PROVE  /\ CallsMatch' /\ ThreadsKept /\ CallsKept
           /\ active' = active /\ booted' = booted /\ cur_process' = cur_process
           /\ mode' = "user"
<1>1. Running /\ cur_process' = cur_process /\ esp0 \in Terminals /\ TypeOK /\ esp0 \notin open
    BY DEF HaltBaseShell, Running, IInv, CallsMatch
<1>2. /\ live = booted /\ shell_init_boot = 0 /\ esp0 \in active
      /\ childPCB[esp0] = Nil /\ esp0 \in Blocks
    BY <1>1, RunningFacts
<1>3. esp0 \in booted
    BY <1>1, <1>2 DEF IInv, SlotsMatch
<1>4. /\ active' = active /\ booted' = booted
      /\ esp0' = esp0 /\ mode' = "user"
      /\ parentPCB' = [parentPCB EXCEPT ![esp0] = Nil]
      /\ childPCB' \in Links
      /\ \A p \in Blocks : childPCB'[p] = IF p = esp0 THEN Nil ELSE childPCB[p]
      /\ open' = open \ {esp0}
    BY <1>1, <1>2, <1>3, ExecuteReboots DEF HaltBaseShell
<1>5. childPCB' = childPCB
    BY <1>1, <1>2, <1>4 DEF TypeOK, Links
<1>6. CallsMatch'
    BY <1>1, <1>2, <1>4, <1>5, PidsAreBlocks DEF CallsMatch, Links, TypeOK
<1> QED
    BY <1>1, <1>4, <1>5, <1>6, StillThreads DEF CallsKept

(* halt of any other program gives its thread back to the parent.           *)
LEMMA HaltAuxCalls ==
    ASSUME IInv, CallsMatch, HaltAux
    PROVE  /\ CallsMatch' /\ ThreadsKept /\ CallsKept
           /\ active' = active \ {esp0} /\ booted' = booted /\ cur_process' = cur_process
           /\ mode' = "user"
<1> DEFINE parent == parentPCB[esp0]
<1>1. Running /\ esp0 \notin Terminals /\ TypeOK /\ childPCB \in Links /\ esp0 \notin open
    BY DEF HaltAux, Running, IInv, TypeOK, Links, CallsMatch
<1>2. esp0 \in active /\ esp0 \in Pids /\ esp0 \in Blocks /\ childPCB[esp0] = Nil
    BY <1>1, RunningFacts
<1>3. /\ esp0 \in AuxPids /\ parent \in active /\ childPCB[parent] = esp0
      /\ parent \in Pids /\ parent \in Blocks /\ esp0 # Nil
    BY <1>1, <1>2, PidsAreBlocks DEF IInv, LinksInverse, TypeOK
<1>4. parent \in waiting /\ parent \notin open
    BY <1>3 DEF IInv, ReturnFrameLive, CallsMatch
<1>5. /\ esp0' = parent /\ mode' = "user" /\ active' = active \ {esp0}
      /\ childPCB' = [childPCB EXCEPT ![parent] = Nil] /\ booted' = booted
      /\ UNCHANGED <<parentPCB, open, cur_process>>
    BY <1>4 DEF HaltAux, masks
<1>6. /\ childPCB' \in Links
      /\ \A p \in Blocks : childPCB'[p] = IF p = parent THEN Nil ELSE childPCB[p]
    BY <1>1, <1>3, <1>5 DEF Links
<1>7. CallsMatch'
    BY <1>4, <1>5, <1>6, PidsAreBlocks DEF CallsMatch
<1>8. ThreadsKept
    <2>1. ASSUME NEW p \in Pids, childPCB[p] # Nil
          PROVE  childPCB[p] \notin active' \/ (p \in active' /\ childPCB'[p] = childPCB[p])
        BY <1>2, <1>3, <1>5, <1>6, <2>1, PidsAreBlocks DEF IInv, LinksInverse
    <2> QED
        BY <1>5, <1>6, <2>1, LinksKeepThreads
<1> QED
    BY <1>1, <1>5, <1>7, <1>8 DEF CallsKept

(* The timer resumes the next thread where it was left, inside a call or    *)
(* not.                                                                     *)
LEMMA PitTickCalls ==
    ASSUME IInv, CallsMatch, PitTick
    PROVE  /\ CallsMatch' /\ ThreadsKept /\ CallsKept
           /\ active' = active /\ booted' = booted /\ childPCB' = childPCB
           /\ mode = "boot" => mode' = "boot"
<1> DEFINE n == NextOf(booted, cur_process)
<1>1. /\ active' = active /\ booted' = booted /\ childPCB' = childPCB
      /\ parentPCB' = parentPCB /\ open' = open
    BY DEF PitTick, masks, slots, links
<1>2. mode = "boot" => n = cur_process
    BY DEF IInv, Init, NextOf
<1>3. CASE n = cur_process
    <2>1. UNCHANGED cpu
        BY <1>3 DEF PitTick
    <2> QED
        BY <1>1, <2>1, StillThreads DEF CallsMatch, CallsKept, cpu
<1>4. CASE n # cur_process
    <2>1. SwitchTo(n) /\ mode # "boot"
        BY <1>2, <1>4 DEF PitTick
    <2>2. CallsMatch'
        BY <1>1, <2>1 DEF SwitchTo, CallsMatch
    <2> QED
        BY <1>1, <2>1, <2>2, StillThreads DEF CallsKept
<1> QED
    BY <1>3, <1>4

(* A call opens and closes on the running process.                          *)
LEMMA EnterCalls ==
    ASSUME IInv, CallsMatch, Enter
    PROVE  /\ CallsMatch' /\ ThreadsKept /\ CallsKept
           /\ active' = active /\ booted' = booted /\ cur_process' = cur_process
           /\ Running /\ mode' = "kernel" /\ esp0 \in open'
<1>1. /\ Running /\ active' = active /\ booted' = booted /\ cur_process' = cur_process
      /\ childPCB' = childPCB /\ parentPCB' = parentPCB
      /\ esp0' = esp0 /\ open' = open \cup {esp0} /\ mode' = "kernel"
    BY DEF Enter, Running, masks, slots, links
<1>2. childPCB[esp0] = Nil
    BY <1>1, RunningFacts
<1>3. CallsMatch'
    BY <1>1, <1>2 DEF CallsMatch
<1> QED
    BY <1>1, <1>3, StillThreads DEF CallsKept

LEMMA LeaveCalls ==
    ASSUME IInv, CallsMatch, Leave
    PROVE  /\ CallsMatch' /\ ThreadsKept /\ open' = open \ {esp0}
           /\ active' = active /\ booted' = booted /\ cur_process' = cur_process
           /\ Running /\ mode' = "user"
<1>1. /\ Running /\ active' = active /\ booted' = booted /\ cur_process' = cur_process
      /\ childPCB' = childPCB /\ parentPCB' = parentPCB
      /\ esp0' = esp0 /\ open' = open \ {esp0} /\ mode' = "user"
    BY DEF Leave, Running, masks, slots, links
<1>2. CallsMatch'
    BY <1>1 DEF CallsMatch
<1> QED
    BY <1>1, <1>2, StillThreads

(***************************************************************************)
(* The invariant of the page.                                              *)
(***************************************************************************)

(* The terminal on the screen has a shell.                                  *)
ScreenStarted ==
    /\ mode = "boot" => cur_terminal = 1
    /\ mode # "boot" => cur_terminal \in booted

(* Inside vidmap a process has chosen the screen or its own thread's frame, *)
(* whatever was displayed, started or halted since.                         *)
ChoiceOwn ==
    \A p \in Pids : choice[p] # Nil =>
        p \in open /\ \E t \in booted : p \in Chain(t) /\ choice[p] \in {Screen, t}

(* The entry names the current thread's frame unless nobody of the thread   *)
(* draws: also those that wait for a child and will draw when it ends.      *)
PageOwn ==
    Running => \/ pt_vidmap \in {Screen, Lost, cur_process}
               \/ Chain(cur_process) \cap drawers = {}

PageInv ==
    /\ IInv
    /\ CallsMatch
    /\ VidTypeOK
    /\ ScreenStarted
    /\ ChoiceOwn
    /\ PageOwn

LEMMA PageInit == VidInit => PageInv
<1> SUFFICES ASSUME VidInit PROVE PageInv
    OBVIOUS
<1>1. Init /\ IInv
    BY InitInv DEF VidInit
<1>2. parentPCB \in Links /\ \A p \in Blocks : childPCB[p] = Nil
    BY <1>1 DEF Init, Links
<1>3. CallsMatch
    BY <1>1, <1>2, PidsAreBlocks DEF CallsMatch, Init
<1>4. VidTypeOK
    BY <1>1 DEF IInv, VidInit, VidTypeOK, Terminals, Frames
<1>5. ScreenStarted /\ ChoiceOwn /\ PageOwn
    BY <1>1 DEF Init, VidInit, ScreenStarted, ChoiceOwn, PageOwn, Running
<1> QED
    BY <1>1, <1>3, <1>4, <1>5 DEF PageInv

(* A process that lives on has the thread it had.                           *)
LEMMA SameThread ==
    ASSUME IInv, IInv', ThreadsKept, NEW u \in booted', NEW p \in Chain(u)', p \in active
    PROVE  u \in booted /\ p \in Chain(u)
<1>1. p \in active'
    BY DEF IInv, ChainsPartition
<1>2. PICK t \in booted : p \in Chain(t)
    BY DEF IInv, ChainsPartition
<1>3. t \in booted' /\ p \in Chain(t)'
    BY <1>1, <1>2 DEF ThreadsKept
<1>4. u = t
    BY <1>3 DEF IInv, ChainsPartition
<1> QED
    BY <1>2, <1>4

(* Choices made stay right while other things happen.                       *)
LEMMA ChoiceStays ==
    ASSUME PageInv, ThreadsKept, CallsKept, choice' = choice
    PROVE  ChoiceOwn'
<1> SUFFICES ASSUME NEW p \in Pids, choice[p] # Nil
             PROVE  p \in open' /\ \E t \in booted' : p \in Chain(t)' /\ choice[p] \in {Screen, t}
    BY DEF ChoiceOwn
<1>1. PICK t \in booted : p \in open /\ p \in Chain(t) /\ choice[p] \in {Screen, t}
    BY DEF PageInv, ChoiceOwn
<1>2. p \in active
    BY <1>1 DEF PageInv, IInv, ChainsPartition
<1>3. p \in open' /\ p \in active'
    BY <1>1, <1>2 DEF CallsKept
<1> QED
    BY <1>1, <1>3 DEF ThreadsKept

(* The entry stays right while the thread runs on and nobody begins to      *)
(* draw.                                                                    *)
LEMMA PageStays ==
    ASSUME PageInv, IInv', ThreadsKept, Running, Running',
           cur_process' = cur_process, pt_vidmap' = pt_vidmap, drawers' \subseteq drawers
    PROVE  PageOwn'
<1>1. cur_process \in booted'
    BY DEF IInv, CurrentIsTop
<1>2. CASE pt_vidmap \in {Screen, Lost, cur_process}
    BY <1>2 DEF PageOwn
<1>3. CASE Chain(cur_process) \cap drawers = {}
    <2>1. ASSUME NEW p \in Chain(cur_process)', p \in drawers'
          PROVE  FALSE
        <3>1. p \in active /\ p \in drawers
            BY <2>1 DEF PageInv, VidTypeOK
        <3>2. p \in Chain(cur_process)
            BY <1>1, <2>1, <3>1, SameThread DEF PageInv
        <3> QED
            BY <1>3, <3>1, <3>2
    <2>2. Chain(cur_process)' \cap drawers' = {}
        BY <2>1
    <2> QED
        BY <2>2 DEF PageOwn
<1> QED
    BY <1>2, <1>3 DEF PageInv, PageOwn

LEMMA TypeStays ==
    ASSUME PageInv, IInv', cur_terminal' \in Terminals, pt_vidmap' \in Frames,
           choice' \in [Pids -> {Nil} \cup Frames], drawers' \subseteq active'
    PROVE  VidTypeOK'
BY DEF IInv, VidTypeOK

(* Each action of Vidmap is a step of the core.                             *)
LEMMA PageSteps == VidNext => [Next]_vars
BY DEF VidNext, Start, End, ReadCall, ReadReturn, VidmapChoose, VidmapReturn,
       VidTick, TerminalKey, Next

LEMMA StartKeeps ==
    ASSUME PageInv, IInv', Start
    PROVE  PageInv'
<1>1. /\ cur_terminal' = cur_terminal /\ pt_vidmap' = pt_vidmap
      /\ choice' = choice /\ drawers' = drawers /\ IInv /\ CallsMatch /\ VidTypeOK
    BY DEF Start, vidVars, PageInv
<1>2. CASE Boot
    <2>1. /\ CallsMatch' /\ ThreadsKept /\ CallsKept /\ active = {}
          /\ mode = "boot" /\ mode' # "boot" /\ 1 \in booted'
        BY <1>1, <1>2, BootCalls DEF Boot
    <2>2. VidTypeOK' /\ ScreenStarted'
        BY <1>1, <2>1, TypeStays DEF PageInv, VidTypeOK, ScreenStarted
    <2>3. drawers' = {}
        BY <1>1, <2>1 DEF VidTypeOK
    <2>4. PageOwn'
        BY <2>3 DEF PageOwn
    <2> QED
        BY <1>1, <2>1, <2>2, <2>4, ChoiceStays DEF PageInv
<1>3. CASE \E cmd \in Commands : Execute(cmd)
    <2>1. /\ CallsMatch' /\ ThreadsKept /\ CallsKept
          /\ active \subseteq active' /\ booted' = booted /\ cur_process' = cur_process
          /\ mode' = "user" /\ Running
        BY <1>1, <1>3, ExecuteCalls DEF Execute, Running
    <2>2. VidTypeOK' /\ ScreenStarted'
        BY <1>1, <2>1, TypeStays DEF PageInv, VidTypeOK, ScreenStarted, Running
    <2>3. PageOwn'
        BY <1>1, <2>1, PageStays DEF Running
    <2> QED
        BY <1>1, <2>1, <2>2, <2>3, ChoiceStays DEF PageInv
<1> QED
    BY <1>2, <1>3 DEF Start

LEMMA EndKeeps ==
    ASSUME PageInv, IInv', End
    PROVE  PageInv'
<1>1. /\ cur_terminal' = cur_terminal /\ pt_vidmap' = pt_vidmap /\ choice' = choice
      /\ drawers' = drawers \ {esp0} /\ IInv /\ CallsMatch /\ VidTypeOK
    BY DEF End, PageInv
<1>2. /\ CallsMatch' /\ ThreadsKept /\ CallsKept
      /\ active \ {esp0} \subseteq active' /\ booted' = booted /\ cur_process' = cur_process
      /\ mode' = "user" /\ Running
    BY <1>1, HaltBaseShellCalls, HaltAuxCalls DEF End, HaltBaseShell, HaltAux, Running
<1>3. VidTypeOK' /\ ScreenStarted'
    BY <1>1, <1>2, TypeStays DEF PageInv, VidTypeOK, ScreenStarted, Running
<1>4. PageOwn'
    BY <1>1, <1>2, PageStays DEF Running
<1> QED
    BY <1>1, <1>2, <1>3, <1>4, ChoiceStays DEF PageInv

LEMMA ReadKeeps ==
    ASSUME PageInv, IInv', ReadCall \/ ReadReturn
    PROVE  PageInv'
<1>1. /\ cur_terminal' = cur_terminal /\ pt_vidmap' = pt_vidmap /\ choice' = choice
      /\ drawers' = drawers /\ IInv /\ CallsMatch /\ VidTypeOK
    BY DEF ReadCall, ReadReturn, vidVars, PageInv
<1>2. /\ CallsMatch' /\ ThreadsKept /\ (open \cap active) \ {esp0} \subseteq open'
      /\ active' = active /\ booted' = booted /\ cur_process' = cur_process
      /\ Running /\ Running' /\ mode' # "boot" /\ mode # "boot"
    BY <1>1, EnterCalls, LeaveCalls DEF ReadCall, ReadReturn, CallsKept, Running
<1>3. VidTypeOK' /\ ScreenStarted'
    BY <1>1, <1>2, TypeStays DEF PageInv, VidTypeOK, ScreenStarted
<1>4. PageOwn'
    BY <1>1, <1>2, PageStays
<1>5. ChoiceOwn'
    <2>1. CASE ReadCall
        BY <1>1, <2>1, EnterCalls, ChoiceStays DEF ReadCall
    <2>2. CASE ReadReturn
        <3>1. choice[esp0] = Nil
            BY <2>2 DEF ReadReturn
        <3> SUFFICES ASSUME NEW p \in Pids, choice[p] # Nil
                     PROVE  p \in open' /\ \E t \in booted' : p \in Chain(t)' /\ choice[p] \in {Screen, t}
            BY <1>1 DEF ChoiceOwn
        <3>2. PICK t \in booted : p \in open /\ p \in Chain(t) /\ choice[p] \in {Screen, t}
            BY DEF PageInv, ChoiceOwn
        <3>3. p \in active
            BY <1>1, <3>2 DEF IInv, ChainsPartition
        <3> QED
            BY <1>2, <3>1, <3>2, <3>3 DEF ThreadsKept
    <2> QED
        BY <2>1, <2>2
<1> QED
    BY <1>2, <1>3, <1>4, <1>5 DEF PageInv

(* The frame vidmap chooses is the screen or that of the caller's thread.   *)
LEMMA ChooseKeeps ==
    ASSUME PageInv, IInv', VidmapChoose
    PROVE  PageInv'
<1>1. /\ cur_terminal' = cur_terminal /\ pt_vidmap' = pt_vidmap /\ drawers' = drawers
      /\ choice' = [choice EXCEPT ![esp0] =
                        IF cur_terminal = Base(esp0) THEN Screen ELSE Base(esp0)]
      /\ IInv /\ CallsMatch /\ VidTypeOK
    BY DEF VidmapChoose, PageInv
<1>2. /\ CallsMatch' /\ ThreadsKept /\ CallsKept
      /\ active' = active /\ booted' = booted /\ cur_process' = cur_process
      /\ Running /\ mode' = "kernel" /\ mode # "boot" /\ esp0 \in open'
    BY <1>1, EnterCalls DEF VidmapChoose, Running
<1>3. esp0 \in Pids /\ esp0 \in active /\ esp0 \in Chain(cur_process) /\ cur_process \in booted
    BY <1>1, <1>2, RunningFacts
<1>4. Base(esp0) = cur_process
    BY <1>1, <1>3, BaseIsThread DEF CallsMatch
<1>5. /\ choice' \in [Pids -> {Nil} \cup Frames]
      /\ choice'[esp0] \in {Screen, cur_process}
      /\ \A p \in Pids \ {esp0} : choice'[p] = choice[p]
    BY <1>1, <1>3, <1>4 DEF VidTypeOK, IInv, TypeOK, Frames
<1>6. VidTypeOK' /\ ScreenStarted'
    BY <1>1, <1>2, <1>5, TypeStays DEF PageInv, VidTypeOK, ScreenStarted
<1>7. PageOwn'
    BY <1>1, <1>2, PageStays DEF Running
<1>8. ChoiceOwn'
    <2> SUFFICES ASSUME NEW p \in Pids, choice'[p] # Nil
                 PROVE  p \in open' /\ \E t \in booted' : p \in Chain(t)' /\ choice'[p] \in {Screen, t}
        BY DEF ChoiceOwn
    <2>1. CASE p = esp0
        BY <1>2, <1>3, <1>5, <2>1 DEF ThreadsKept
    <2>2. CASE p # esp0
        <3>1. PICK t \in booted : p \in open /\ p \in Chain(t) /\ choice[p] \in {Screen, t}
            BY <1>5, <2>2 DEF PageInv, ChoiceOwn
        <3>2. p \in active
            BY <1>1, <3>1 DEF IInv, ChainsPartition
        <3> QED
            BY <1>2, <1>5, <2>2, <3>1, <3>2 DEF ThreadsKept, CallsKept
    <2> QED
        BY <2>1, <2>2
<1> QED
    BY <1>2, <1>6, <1>7, <1>8 DEF PageInv

(* What vidmap writes is right for the thread it returns in, however long   *)
(* it was interrupted.                                                      *)
LEMMA ReturnKeeps ==
    ASSUME PageInv, IInv', VidmapReturn
    PROVE  PageInv'
<1>1. /\ cur_terminal' = cur_terminal /\ pt_vidmap' = choice[esp0] /\ choice[esp0] # Nil
      /\ choice' = [choice EXCEPT ![esp0] = Nil] /\ drawers' = drawers \cup {esp0}
      /\ IInv /\ CallsMatch /\ VidTypeOK
    BY DEF VidmapReturn, PageInv
<1>2. /\ CallsMatch' /\ ThreadsKept /\ open' = open \ {esp0}
      /\ active' = active /\ booted' = booted /\ cur_process' = cur_process
      /\ Running /\ mode' = "user" /\ mode # "boot"
    BY <1>1, LeaveCalls DEF VidmapReturn, Running
<1>3. /\ esp0 \in Pids /\ esp0 \in active /\ esp0 \in Chain(cur_process)
      /\ \A t \in booted \ {cur_process} : esp0 \notin Chain(t)
    BY <1>1, <1>2, RunningFacts
<1>4. choice[esp0] \in {Screen, cur_process}
    BY <1>1, <1>3 DEF PageInv, ChoiceOwn
<1>5. /\ choice' \in [Pids -> {Nil} \cup Frames] /\ choice'[esp0] = Nil
      /\ \A p \in Pids \ {esp0} : choice'[p] = choice[p]
    BY <1>1, <1>3 DEF VidTypeOK
<1>6. VidTypeOK' /\ ScreenStarted'
    BY <1>1, <1>2, <1>3, <1>4, <1>5, TypeStays DEF PageInv, VidTypeOK, ScreenStarted, IInv, TypeOK, Frames
<1>7. PageOwn'
    BY <1>1, <1>2, <1>4 DEF PageOwn
<1>8. ChoiceOwn'
    <2> SUFFICES ASSUME NEW p \in Pids, choice'[p] # Nil
                 PROVE  p \in open' /\ \E t \in booted' : p \in Chain(t)' /\ choice'[p] \in {Screen, t}
        BY DEF ChoiceOwn
    <2>1. p # esp0 /\ choice'[p] = choice[p]
        BY <1>5
    <2>2. PICK t \in booted : p \in open /\ p \in Chain(t) /\ choice[p] \in {Screen, t}
        BY <2>1 DEF PageInv, ChoiceOwn
    <2>3. p \in active
        BY <1>1, <2>2 DEF IInv, ChainsPartition
    <2> QED
        BY <1>2, <2>1, <2>2, <2>3 DEF ThreadsKept
<1> QED
    BY <1>2, <1>6, <1>7, <1>8 DEF PageInv

(* The timer writes the screen or no frame at all when it switches, and     *)
(* leaves the entry to the thread it stays with.                            *)
LEMMA TickKeeps ==
    ASSUME PageInv, IInv', VidTick
    PROVE  PageInv'
<1>1. /\ cur_terminal' = cur_terminal /\ choice' = choice /\ drawers' = drawers
      /\ pt_vidmap' = IF cur_process' = cur_process THEN pt_vidmap
                      ELSE IF cur_terminal = cur_process' THEN Screen ELSE Lost
      /\ IInv /\ CallsMatch /\ VidTypeOK
    BY DEF VidTick, PageInv
<1>2. /\ CallsMatch' /\ ThreadsKept /\ CallsKept
      /\ active' = active /\ booted' = booted /\ childPCB' = childPCB
      /\ mode = "boot" => mode' = "boot"
    BY <1>1, PitTickCalls DEF VidTick
<1>3. ScreenStarted'
    <2>1. mode' = "boot" => mode = "boot"
        BY DEF VidTick, PitTick, SwitchTo, cpu
    <2> QED
        BY <1>1, <1>2, <2>1 DEF PageInv, ScreenStarted
<1>4. VidTypeOK'
    BY <1>1, <1>2, TypeStays DEF VidTypeOK, Frames
<1>5. PageOwn'
    <2>1. CASE cur_process' # cur_process
        BY <1>1, <2>1 DEF PageOwn
    <2>2. CASE cur_process' = cur_process
        <3>1. UNCHANGED cpu
            BY <2>2 DEF VidTick, PitTick
        <3> QED
            BY <1>1, <1>2, <2>2, <3>1, PageStays DEF PageOwn, Running, cpu
    <2> QED
        BY <2>1, <2>2
<1> QED
    BY <1>1, <1>2, <1>3, <1>4, <1>5, ChoiceStays DEF PageInv

(* A terminal switch leaves the entry alone; a started thread has no        *)
(* program that draws.                                                      *)
LEMMA KeyKeeps ==
    ASSUME ~EarlySwitch, PageInv, IInv', NEW sel \in Terminals, TerminalKey(sel)
    PROVE  PageInv'
<1>1. /\ cur_terminal' = sel /\ pt_vidmap' = pt_vidmap /\ choice' = choice
      /\ drawers' = drawers /\ IInv /\ CallsMatch /\ VidTypeOK
    BY DEF TerminalKey, PageInv
<1>2. CASE BootTerminal(sel)
    <2>1. Running
        BY <1>2 DEF BootTerminal, Interruptible, Running
    <2>2. /\ CallsMatch' /\ ThreadsKept /\ CallsKept
          /\ active' = active \cup {sel} /\ booted' = booted \cup {sel}
          /\ sel \notin active /\ cur_process' = sel /\ Chain(sel)' = {sel} /\ mode' = "user"
        BY <1>1, <1>2, <2>1, BootTerminalCalls
    <2>3. VidTypeOK' /\ ScreenStarted'
        BY <1>1, <2>2, TypeStays DEF VidTypeOK, ScreenStarted
    <2>4. Chain(cur_process)' = {sel} /\ sel \notin drawers
        BY <1>1, <2>2 DEF VidTypeOK, Chain
    <2>5. PageOwn'
        BY <1>1, <2>4 DEF PageOwn
    <2> QED
        BY <1>1, <2>2, <2>3, <2>5, ChoiceStays DEF PageInv
<1>3. CASE sel \in booted /\ UNCHANGED vars
    <2>1. /\ booted' = booted /\ active' = active /\ childPCB' = childPCB /\ parentPCB' = parentPCB
          /\ open' = open /\ mode' = mode /\ esp0' = esp0 /\ cur_process' = cur_process
        BY <1>3 DEF vars, masks, slots, links, frames, cpu
    <2>2. CallsMatch' /\ ThreadsKept /\ CallsKept
        BY <1>1, <2>1, StillThreads DEF CallsMatch, CallsKept
    <2>3. mode # "boot"
        BY <1>1, <1>3 DEF IInv, Init
    <2>4. VidTypeOK' /\ ScreenStarted'
        BY <1>1, <1>3, <2>1, <2>3, TypeStays DEF VidTypeOK, ScreenStarted
    <2>5. PageOwn'
        BY <1>1, <2>1, <2>2, PageStays DEF PageOwn, Running
    <2> QED
        BY <1>1, <2>2, <2>4, <2>5, ChoiceStays DEF PageInv
<1> QED
    BY <1>2, <1>3 DEF TerminalKey

LEMMA PageKeeps ==
    ASSUME ~EarlySwitch, PageInv, [VidNext]_allVars
    PROVE  PageInv'
<1>1. IInv'
    <2>1. [Next]_vars
        BY PageSteps DEF allVars
    <2> QED
        BY <2>1, NextKeeps DEF PageInv
<1>2. CASE Start
    BY <1>1, <1>2, StartKeeps
<1>3. CASE End
    BY <1>1, <1>3, EndKeeps
<1>4. CASE ReadCall \/ ReadReturn
    BY <1>1, <1>4, ReadKeeps
<1>5. CASE VidmapChoose
    BY <1>1, <1>5, ChooseKeeps
<1>6. CASE VidmapReturn
    BY <1>1, <1>6, ReturnKeeps
<1>7. CASE VidTick
    BY <1>1, <1>7, TickKeeps
<1>8. CASE \E sel \in Terminals : TerminalKey(sel)
    BY <1>1, <1>8, KeyKeeps
<1>9. CASE UNCHANGED allVars
    <2>1. UNCHANGED vars /\ UNCHANGED vidVars
        BY <1>9 DEF allVars
    <2>2. \A t : Chain(t)' = Chain(t)
        BY <2>1 DEF Chain, vars, links
    <2>3. CallsMatch' /\ ScreenStarted' /\ ChoiceOwn' /\ PageOwn'
        BY <2>1, <2>2 DEF PageInv, CallsMatch, ScreenStarted, ChoiceOwn, PageOwn, Running,
            vars, vidVars, masks, slots, links, frames, cpu
    <2>4. VidTypeOK'
        BY <1>1, <2>1, TypeStays DEF PageInv, VidTypeOK, vars, vidVars, slots
    <2> QED
        BY <1>1, <2>3, <2>4 DEF PageInv
<1> QED
    BY <1>2, <1>3, <1>4, <1>5, <1>6, <1>7, <1>8, <1>9 DEF VidNext

(***************************************************************************)
(* Theorems.                                                               *)
(***************************************************************************)

(* The invariant of the page holds in every reachable state, whatever the   *)
(* number of slots, as long as no terminal is selected before shell 1 runs. *)
THEOREM PageInvariance == ~EarlySwitch => (VidSpec => []PageInv)
<1> SUFFICES ASSUME ~EarlySwitch PROVE VidSpec => []PageInv
    OBVIOUS
<1>1. PageInv /\ [VidNext]_allVars => PageInv'
    BY PageKeeps
<1> QED
    BY PageInit, <1>1, PTL DEF VidSpec

(* Only live programs draw, and every frame in the entry is one of memory's *)
(* or the lost one.                                                         *)
THEOREM PageTypeCorrect == ~EarlySwitch => (VidSpec => []VidTypeOK)
<1>1. PageInv => VidTypeOK
    BY DEF PageInv
<1> QED
    BY <1>1, PageInvariance, PTL

(* No program ever draws on the picture kept for another terminal, however  *)
(* vidmap, the timer and the terminal switches interleave.                  *)
THEOREM PageCorrect == ~EarlySwitch => (VidSpec => []NeverOnAnothersPage)
<1>1. PageInv => NeverOnAnothersPage
    <2> SUFFICES ASSUME PageInv, Drawing
                 PROVE  pt_vidmap \in {Screen, Lost, cur_process}
        BY DEF NeverOnAnothersPage
    <2>1. Running /\ esp0 \in drawers
        BY DEF Drawing, Running
    <2>2. esp0 \in Chain(cur_process) \cap drawers
        BY <2>1, RunningFacts DEF PageInv
    <2> QED
        BY <2>1, <2>2 DEF PageInv, PageOwn
<1> QED
    BY <1>1, PageInvariance, PTL

(* The tick that has no thread to switch to leaves the entry alone, and     *)
(* then the only thread's terminal is the one on the screen: so every tick  *)
(* ends the leak of a hidden terminal onto the screen.                      *)
THEOREM LeakCorrect == ~EarlySwitch => (VidSpec => LeakEndsAtTick)
<1>1. PageInv /\ PageInv' /\ [VidNext]_allVars =>
          [VidTick => (Drawing /\ pt_vidmap = Screen => cur_terminal = cur_process)']_allVars
    <2> SUFFICES ASSUME PageInv, PageInv', VidTick, Drawing', pt_vidmap' = Screen
                 PROVE  cur_terminal' = cur_process'
        BY DEF PageInv
    <2>1. /\ cur_terminal' = cur_terminal /\ cur_process' = NextOf(booted, cur_process)
          /\ pt_vidmap' = IF cur_process' = cur_process THEN pt_vidmap
                          ELSE IF cur_terminal = cur_process' THEN Screen ELSE Lost
        BY DEF VidTick, PitTick
    <2>2. CASE cur_process' # cur_process
        BY <2>1, <2>2 DEF Screen, Lost
    <2>3. CASE cur_process' = cur_process
        <3>1. mode = mode' /\ mode # "boot"
            BY <2>3 DEF VidTick, PitTick, cpu, Drawing
        <3>2. 1 \in booted /\ cur_terminal \in booted /\ booted \subseteq 1..3 /\ cur_process \in 1..3
            BY <3>1 DEF PageInv, IInv, NoPendingShell, ScreenStarted, TypeOK, Terminals
        <3> QED
            BY <2>1, <2>3, <3>2 DEF NextOf
    <2> QED
        BY <2>2, <2>3
<1> QED
    BY <1>1, PageInvariance, PTL DEF VidSpec, LeakEndsAtTick

=============================================================================
