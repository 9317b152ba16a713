-------------------------- MODULE ProcessesProofs --------------------------
(* Proofs about Processes, for every number of process slots: its           *)
(* invariants, and that it implements ShellStacks.                          *)
EXTENDS ProcessesRefinement, FiniteSetTheorems, SequenceTheorems, TLAPS

(***************************************************************************)
(* Facts about chains of PCBs, for any link function.                      *)
(***************************************************************************)
Links == [Blocks -> {Nil} \cup Pids]

LEMMA PidsAreBlocks ==
    /\ Terminals \subseteq Pids /\ AuxPids \subseteq Pids /\ Pids \subseteq Blocks
    /\ Terminals \cap AuxPids = {} /\ Pids = Terminals \cup AuxPids
    /\ Nil \notin Blocks /\ 0 \notin Pids /\ 0 \in Blocks
BY MaxAuxAssumption, SMT DEF Terminals, AuxPids, Pids, Blocks, Nil

(* A chain starts at its base, is closed, and is the smallest such set.     *)
LEMMA ChainBasics ==
    ASSUME NEW f \in Links, NEW t \in Pids
    PROVE  /\ t \in ChainOf(f, t)
           /\ ClosedUnder(f, ChainOf(f, t))
           /\ ChainOf(f, t) \subseteq Pids
<1>1. t \in ChainOf(f, t) /\ ChainOf(f, t) \subseteq Pids
    BY DEF ChainOf
<1>2. ASSUME NEW p \in ChainOf(f, t), f[p] # Nil
      PROVE  f[p] \in ChainOf(f, t)
    <2>1. p \in Blocks /\ f[p] \in Pids
        BY <1>1, <1>2, PidsAreBlocks DEF Links
    <2>2. ASSUME NEW S \in SUBSET Pids, t \in S, ClosedUnder(f, S)
          PROVE  f[p] \in S
        BY <1>2, <2>2 DEF ChainOf, ClosedUnder
    <2> QED
        BY <2>1, <2>2 DEF ChainOf
<1> QED
    BY <1>1, <1>2 DEF ClosedUnder

LEMMA ChainLeast ==
    ASSUME NEW f \in Links, NEW t \in Pids,
           NEW S \in SUBSET Pids, t \in S, ClosedUnder(f, S)
    PROVE  ChainOf(f, t) \subseteq S
BY DEF ChainOf

(* A chain has at most one end.                                             *)
LEMMA ChainEndUnique ==
    ASSUME NEW f \in Links, NEW t \in Pids,
           NEW p \in ChainOf(f, t), NEW q \in ChainOf(f, t),
           f[p] = Nil, f[q] = Nil
    PROVE  p = q
<1>1. p \in Pids /\ q \in Pids
    BY ChainBasics
<1> DEFINE Comparable == {y \in Pids : p \in ChainOf(f, y) \/ y \in ChainOf(f, p)}
<1>2. ClosedUnder(f, Comparable)
    <2> SUFFICES ASSUME NEW y \in Comparable, f[y] # Nil
                 PROVE  f[y] \in Comparable
        BY DEF ClosedUnder
    <2>1. y \in Pids /\ f[y] \in Pids
        BY PidsAreBlocks DEF Links
    <2>2. CASE y \in ChainOf(f, p)
        BY <1>1, <2>1, <2>2, ChainBasics DEF ClosedUnder
    <2>3. CASE p \in ChainOf(f, y)
        <3>1. ClosedUnder(f, {y} \cup ChainOf(f, f[y]))
            BY <2>1, ChainBasics DEF ClosedUnder
        <3>2. ChainOf(f, y) \subseteq {y} \cup ChainOf(f, f[y])
            BY <2>1, <3>1, ChainBasics, ChainLeast
        <3>3. p # y
            OBVIOUS
        <3> QED
            BY <2>1, <2>3, <3>2, <3>3
    <2> QED
        BY <2>2, <2>3
<1>3. q \in Comparable
    BY <1>1, <1>2, ChainBasics, ChainLeast
<1>4. \A r \in Pids : f[r] = Nil => ChainOf(f, r) \subseteq {r}
    <2> SUFFICES ASSUME NEW r \in Pids, f[r] = Nil
                 PROVE  ChainOf(f, r) \subseteq {r}
        OBVIOUS
    <2>1. ClosedUnder(f, {r})
        BY DEF ClosedUnder
    <2> QED
        BY <2>1, ChainLeast
<1> QED
    BY <1>1, <1>3, <1>4

LEMMA TopIsEnd ==
    ASSUME NEW f \in Links, NEW t \in Pids,
           NEW p \in ChainOf(f, t), f[p] = Nil
    PROVE  TopOf(f, t) = p
BY ChainEndUnique DEF TopOf

(* A chain none of whose links change stays as it is.                       *)
LEMMA ChainFrame ==
    ASSUME NEW f \in Links, NEW g \in Links, NEW t \in Pids,
           \A p \in ChainOf(f, t) : g[p] = f[p]
    PROVE  ChainOf(g, t) = ChainOf(f, t)
<1>1. ClosedUnder(g, ChainOf(f, t))
    BY ChainBasics DEF ClosedUnder
<1>2. ChainOf(g, t) \subseteq ChainOf(f, t)
    BY <1>1, ChainBasics, ChainLeast
<1>3. ClosedUnder(f, ChainOf(f, t) \cap ChainOf(g, t))
    BY ChainBasics DEF ClosedUnder
<1>4. ChainOf(f, t) \subseteq ChainOf(f, t) \cap ChainOf(g, t)
    BY <1>3, ChainBasics, ChainLeast
<1> QED
    BY <1>2, <1>4

(* A link from the end of a chain to a new process adds that process.       *)
LEMMA ChainPush ==
    ASSUME NEW f \in Links, NEW g \in Links, NEW t \in Pids,
           NEW c \in ChainOf(f, t), NEW n \in Pids,
           f[c] = Nil, n \notin ChainOf(f, t),
           g[n] = Nil, g[c] = n,
           \A p \in Blocks \ {c, n} : g[p] = f[p]
    PROVE  ChainOf(g, t) = ChainOf(f, t) \cup {n}
<1>1. ChainOf(f, t) \subseteq Blocks /\ n # c
    BY ChainBasics, PidsAreBlocks
<1>2. ClosedUnder(g, ChainOf(f, t) \cup {n})
    BY <1>1, ChainBasics DEF ClosedUnder
<1>3. ChainOf(g, t) \subseteq ChainOf(f, t) \cup {n}
    BY <1>2, ChainBasics, ChainLeast
<1>4. ClosedUnder(f, ChainOf(f, t) \cap ChainOf(g, t))
    BY <1>1, ChainBasics DEF ClosedUnder
<1>5. ChainOf(f, t) \subseteq ChainOf(g, t)
    BY <1>4, ChainBasics, ChainLeast
<1>6. n \in ChainOf(g, t)
    BY <1>5, ChainBasics, PidsAreBlocks DEF ClosedUnder
<1> QED
    BY <1>3, <1>5, <1>6

(* Cutting the last link of a chain takes its end away.                     *)
LEMMA ChainPop ==
    ASSUME NEW f \in Links, NEW g \in Links, NEW t \in Pids,
           NEW c \in ChainOf(f, t), NEW n \in Pids, n # t,
           f[c] = n, f[n] = Nil, g[c] = Nil,
           \A p \in Blocks \ {c} : g[p] = f[p] /\ f[p] # n
    PROVE  ChainOf(g, t) = ChainOf(f, t) \ {n}
<1>1. ChainOf(f, t) \subseteq Blocks /\ ChainOf(g, t) \subseteq Blocks
    BY ChainBasics, PidsAreBlocks
<1>2. ClosedUnder(g, ChainOf(f, t) \ {n})
    BY <1>1, ChainBasics DEF ClosedUnder
<1>3. ChainOf(g, t) \subseteq ChainOf(f, t) \ {n}
    BY <1>2, ChainBasics, ChainLeast
<1>4. ClosedUnder(f, ChainOf(g, t) \cup {n})
    BY <1>1, ChainBasics DEF ClosedUnder
<1>5. ChainOf(f, t) \subseteq ChainOf(g, t) \cup {n}
    BY <1>4, ChainBasics, ChainLeast
<1> QED
    BY <1>3, <1>5

(***************************************************************************)
(* The inductive invariant, for a kernel whose first terminal switch comes *)
(* after shell 1 was started.  The properties of Processes are inductive   *)
(* together: the timer needs a resumable, well-linked top process; halt    *)
(* needs the parent's frame and its link; execute needs the slot count.    *)
(***************************************************************************)
IInv ==
    /\ TypeOK
    /\ mode = "boot" => Init
    /\ NoPendingShell
    /\ SlotsMatch
    /\ LinksInverse
    /\ ChainsPartition
    /\ CurrentIsTop
    /\ ResumeFrameLive
    /\ ReturnFrameLive

LEMMA InitInv == Init => IInv
<1> SUFFICES ASSUME Init PROVE IInv
    OBVIOUS
<1>1. TypeOK
    BY PidsAreBlocks, MaxAuxAssumption DEF Init, TypeOK, Terminals, Blocks
<1>2. SlotsMatch
    BY FS_EmptySet DEF Init, SlotsMatch
<1>3. LinksInverse /\ ChainsPartition /\ ReturnFrameLive
    BY PidsAreBlocks DEF Init, LinksInverse, ChainsPartition, ReturnFrameLive
<1>4. NoPendingShell /\ CurrentIsTop /\ ResumeFrameLive
    BY DEF Init, NoPendingShell, CurrentIsTop, ResumeFrameLive, Running
<1> QED
    BY <1>1, <1>2, <1>3, <1>4 DEF IInv

(* What the invariant says of the process a thread would resume.            *)
LEMMA TopFacts ==
    ASSUME IInv, NEW t \in booted
    PROVE  Top(t) \in Chain(t) /\ childPCB[Top(t)] = Nil /\ Top(t) \in active
<1>1. childPCB \in Links /\ t \in Pids
    BY PidsAreBlocks DEF IInv, TypeOK, Links
<1>2. PICK p \in Chain(t) : childPCB[p] = Nil
    BY DEF IInv, ChainsPartition
<1>3. Top(t) = p
    BY <1>1, <1>2, TopIsEnd DEF Top, Chain
<1> QED
    BY <1>2, <1>3 DEF IInv, ChainsPartition

(* What it says of the process that runs.                                   *)
LEMMA RunningFacts ==
    ASSUME IInv, Running
    PROVE  /\ cur_process \in booted /\ cur_process \in Pids
           /\ esp0 = Top(cur_process) /\ page = esp0
           /\ esp0 \in Chain(cur_process) /\ childPCB[esp0] = Nil
           /\ esp0 \in active /\ esp0 \in Pids /\ esp0 \in Blocks
           /\ \A t \in booted \ {cur_process} : esp0 \notin Chain(t)
           /\ live = booted /\ shell_init_boot = 0
<1>1. cur_process \in booted /\ esp0 = Top(cur_process) /\ page = esp0
    BY DEF IInv, CurrentIsTop
<1>2. esp0 \in Chain(cur_process) /\ childPCB[esp0] = Nil /\ esp0 \in active
    BY <1>1, TopFacts
<1>3. \A t \in booted \ {cur_process} : esp0 \notin Chain(t)
    BY <1>1, <1>2 DEF IInv, ChainsPartition
<1>4. live = booted /\ shell_init_boot = 0
    BY DEF IInv, NoPendingShell, Running
<1>5. cur_process \in Pids /\ esp0 \in Pids /\ esp0 \in Blocks
    BY <1>2, PidsAreBlocks DEF IInv, TypeOK
<1> QED
    BY <1>1, <1>2, <1>3, <1>4, <1>5

(* The slot count is exact, so a slot is free when the limit is not         *)
(* reached, and none is when it is.                                         *)
LEMMA SlotFacts ==
    ASSUME TypeOK, SlotsMatch
    PROVE  /\ IsFiniteSet(active \cap AuxPids)
           /\ aux_processes \in Nat /\ aux_processes <= MaxAux
           /\ aux_processes + 1 > MaxAux <=> FreeSlots = {}
<1>1. IsFiniteSet(AuxPids) /\ Cardinality(AuxPids) = MaxAux
    BY MaxAuxAssumption, FS_Interval DEF AuxPids
<1>2. /\ IsFiniteSet(active \cap AuxPids)
      /\ Cardinality(active \cap AuxPids) <= MaxAux
      /\ Cardinality(active \cap AuxPids) = MaxAux => active \cap AuxPids = AuxPids
    BY <1>1, FS_Subset
<1>3. FreeSlots = {} <=> active \cap AuxPids = AuxPids
    BY DEF FreeSlots
<1>4. Cardinality(active \cap AuxPids) \in Nat /\ aux_processes = Cardinality(active \cap AuxPids)
    BY <1>2, FS_CardinalityType DEF SlotsMatch
<1>5. active \cap AuxPids = AuxPids => aux_processes = MaxAux
    BY <1>1, <1>4
<1> QED
    BY <1>2, <1>3, <1>4, <1>5, MaxAuxAssumption

(* The walk up the parents undoes the walk down the children.               *)
LEMMA WalkBack ==
    ASSUME IInv, parentPCB \in Links, NEW t \in Pids, NEW p \in ChainOf(childPCB, t)
    PROVE  p \in Pids /\ t \in ChainOf(parentPCB, p)
<1>1. childPCB \in Links
    BY DEF IInv, TypeOK, Links
<1> DEFINE C == ChainOf(childPCB, t)
<1>2. C \subseteq Pids /\ t \in C /\ ClosedUnder(childPCB, C)
    BY <1>1, ChainBasics
<1> DEFINE S == {q \in C : t \in ChainOf(parentPCB, q)}
<1>3. S \in SUBSET Pids /\ t \in S
    BY <1>2, ChainBasics
<1>4. ClosedUnder(childPCB, S)
    <2> SUFFICES ASSUME NEW q \in S, childPCB[q] # Nil
                 PROVE  childPCB[q] \in S
        BY DEF ClosedUnder
    <2> DEFINE c == childPCB[q]
    <2>1. q \in Pids /\ q \in C /\ t \in ChainOf(parentPCB, q)
        BY <1>2
    <2>2. c \in C /\ c \in Pids
        BY <1>2, <2>1 DEF ClosedUnder
    <2>3. parentPCB[c] = q /\ q # Nil
        BY <2>1, PidsAreBlocks DEF IInv, LinksInverse
    <2>4. c \in ChainOf(parentPCB, c) /\ ClosedUnder(parentPCB, ChainOf(parentPCB, c))
              /\ ChainOf(parentPCB, c) \in SUBSET Pids
        BY <2>2, ChainBasics
    <2>5. q \in ChainOf(parentPCB, c)
        BY <2>3, <2>4 DEF ClosedUnder
    <2>6. ChainOf(parentPCB, q) \subseteq ChainOf(parentPCB, c)
        BY <2>1, <2>4, <2>5, ChainLeast
    <2> QED
        BY <2>1, <2>2, <2>6
<1> QED
    BY <1>1, <1>2, <1>3, <1>4, ChainLeast

(***************************************************************************)
(* What execute does, by the way it was called.                            *)
(***************************************************************************)
LEMMA ExecuteBoots ==
    ASSUME TypeOK, NEW c \in Blocks, NEW sel \in Terminals, NEW susp,
           ExecuteFrom(c, "shell", sel, live, susp)
    PROVE  /\ active' = active \cup {sel} /\ booted' = booted \cup {sel}
           /\ live' = booted' /\ shell_init_boot' = 0
           /\ aux_processes' = aux_processes
           /\ page' = sel /\ esp0' = sel /\ mode' = "user"
           /\ parentPCB' = [parentPCB EXCEPT ![sel] = Nil]
           /\ childPCB' \in Links
           /\ \A p \in Blocks : childPCB'[p] = IF p = sel THEN Nil ELSE childPCB[p]
           /\ waiting' = waiting \ {c, sel} /\ open' = open \ {sel}
           /\ suspended' = susp \ {sel}
<1>1. sel # 0 /\ sel \in Blocks /\ sel \in Pids
    BY PidsAreBlocks
<1>2. /\ ChooseBoot("shell", sel, sel)
      /\ IF aux_processes > MaxAux
         THEN Refuse /\ aux_processes' = aux_processes /\ suspended' = susp
         ELSE /\ Launch(c, sel, TRUE)
              /\ aux_processes' = aux_processes
              /\ suspended' = susp \ {sel}
    BY <1>1 DEF ExecuteFrom, ChooseBoot, ChooseReboot, ChooseSlot
<1>3. ~(aux_processes > MaxAux)
    BY MaxAuxAssumption DEF TypeOK
<1>4. Launch(c, sel, TRUE) /\ aux_processes' = aux_processes /\ suspended' = susp \ {sel}
    BY <1>2, <1>3
<1>5. childPCB' \in Links /\ \A p \in Blocks : childPCB'[p] = IF p = sel THEN Nil ELSE childPCB[p]
    BY <1>1, <1>4 DEF Launch, TypeOK, Links
<1> QED
    BY <1>2, <1>4, <1>5 DEF Launch, ChooseBoot

LEMMA ExecuteReboots ==
    ASSUME TypeOK, NEW c \in booted, c \in Terminals, live = booted,
           ExecuteFrom(c, "shell", 0, live \ {c}, suspended)
    PROVE  /\ active' = active /\ booted' = booted
           /\ live' = booted /\ shell_init_boot' = 0
           /\ aux_processes' = aux_processes
           /\ page' = c /\ esp0' = c /\ mode' = "user"
           /\ parentPCB' = [parentPCB EXCEPT ![c] = Nil]
           /\ childPCB' \in Links
           /\ \A p \in Blocks : childPCB'[p] = IF p = c THEN Nil ELSE childPCB[p]
           /\ waiting' = waiting \ {c} /\ open' = open \ {c}
           /\ suspended' = suspended \ {c}
<1>1. c \in Blocks /\ c \in Pids
    BY PidsAreBlocks
<1>2. SymDiff(booted, live \ {c}) = {c} /\ booted # live \ {c}
    BY DEF SymDiff
<1>3. ~(Cardinality(SymDiff(booted, live \ {c})) > 1)
    <2>1. Cardinality({c}) = 1
        BY FS_Singleton
    <2> QED
        BY <1>2, <2>1
<1>4. /\ ChooseReboot("shell", 0, live \ {c}, c)
      /\ IF aux_processes > MaxAux
         THEN Refuse /\ aux_processes' = aux_processes /\ suspended' = suspended
         ELSE /\ Launch(c, c, TRUE)
              /\ aux_processes' = aux_processes
              /\ suspended' = suspended \ {c}
    BY <1>2, <1>3 DEF ExecuteFrom, ChooseBoot, ChooseReboot, ChooseSlot
<1>5. ~(aux_processes > MaxAux)
    BY MaxAuxAssumption DEF TypeOK
<1>6. Launch(c, c, TRUE) /\ aux_processes' = aux_processes /\ suspended' = suspended \ {c}
    BY <1>4, <1>5
<1>7. childPCB' \in Links /\ \A p \in Blocks : childPCB'[p] = IF p = c THEN Nil ELSE childPCB[p]
    BY <1>1, <1>6 DEF Launch, TypeOK, Links
<1> QED
    BY <1>4, <1>6, <1>7 DEF Launch, ChooseReboot

Unstarted ==
    /\ UNCHANGED <<masks, slots, links, waiting, suspended, open, page, esp0>>
    /\ mode' = "user"

Started(next) ==
    /\ active' = active \cup {next} /\ aux_processes' = aux_processes + 1
    /\ UNCHANGED masks
    /\ page' = next /\ esp0' = next /\ mode' = "user"
    /\ parentPCB' = [parentPCB EXCEPT ![next] = esp0]
    /\ childPCB' = [childPCB EXCEPT ![next] = Nil, ![esp0] = next]
    /\ waiting' = (waiting \ {next}) \cup {esp0} /\ open' = open \ {next}
    /\ suspended' = suspended \ {next}

LEMMA ExecuteStarts ==
    ASSUME IInv, Running, NEW cmd \in Commands,
           ExecuteFrom(esp0, cmd, shell_init_boot, live, suspended)
    PROVE  Unstarted \/ \E next \in FreeSlots : aux_processes < MaxAux /\ Started(next)
<1>1. live = booted /\ shell_init_boot = 0
    BY RunningFacts
<1>2. PICK next \in Pids :
        /\ ChooseSlot(cmd, 0, booted, next)
        /\ IF aux_processes + 1 > MaxAux
           THEN Refuse /\ aux_processes' = aux_processes /\ suspended' = suspended
           ELSE /\ Launch(esp0, next, FALSE)
                /\ aux_processes' = aux_processes + 1
                /\ suspended' = suspended \ {next}
    BY <1>1 DEF ExecuteFrom, ChooseBoot, ChooseReboot
<1>3. /\ aux_processes \in Nat /\ aux_processes <= MaxAux
      /\ aux_processes + 1 > MaxAux <=> FreeSlots = {}
    BY SlotFacts DEF IInv
<1>4. CASE FreeSlots = {}
    BY <1>1, <1>2, <1>3, <1>4 DEF ChooseSlot, Refuse, Unstarted, masks, slots, links
<1>5. CASE FreeSlots # {}
    <2>1. next \in FreeSlots /\ active' = active \cup {next}
        BY <1>2, <1>5 DEF ChooseSlot
    <2>2. Launch(esp0, next, FALSE) /\ aux_processes' = aux_processes + 1
              /\ suspended' = suspended \ {next} /\ aux_processes < MaxAux
        <3>1. ~(aux_processes + 1 > MaxAux)
            BY <1>3, <1>5
        <3>2. aux_processes < MaxAux
            BY <1>3, <3>1, MaxAuxAssumption
        <3> QED
            BY <1>2, <3>1, <3>2
    <2>3. UNCHANGED masks
        BY <1>1, <1>2 DEF ChooseSlot, masks
    <2> QED
        BY <2>1, <2>2, <2>3 DEF Launch, Started
<1> QED
    BY <1>4, <1>5

(***************************************************************************)
(* Each handler preserves the invariant.                                   *)
(***************************************************************************)
LEMMA ChainSingle ==
    ASSUME NEW f \in Links, NEW t \in Pids, f[t] = Nil
    PROVE  ChainOf(f, t) = {t}
<1>1. ClosedUnder(f, {t})
    BY DEF ClosedUnder
<1> QED
    BY <1>1, ChainBasics, ChainLeast

(* entry() starts shell 1.                                                  *)
LEMMA BootKeeps ==
    ASSUME IInv, Boot
    PROVE  IInv'
<1>1. Init /\ mode = "boot" /\ shell_init_boot = 1 /\ cur_process' = cur_process
    BY DEF IInv, Boot, Init
<1>2. TypeOK /\ ExecuteFrom(0, "shell", 1, live, suspended) /\ 1 \in Terminals /\ 0 \in Blocks
    BY <1>1, PidsAreBlocks DEF IInv, Boot, Terminals
<1>3. /\ active' = {1} /\ booted' = {1} /\ live' = booted' /\ shell_init_boot' = 0
      /\ aux_processes' = 0 /\ page' = 1 /\ esp0' = 1 /\ mode' = "user"
      /\ parentPCB' = [parentPCB EXCEPT ![1] = Nil]
      /\ childPCB' \in Links /\ \A p \in Blocks : childPCB'[p] = Nil
      /\ waiting' = {} /\ open' = {} /\ suspended' = {}
    BY <1>1, <1>2, ExecuteBoots DEF Init
<1>4. Chain(1)' = {1} /\ Top(1)' = 1
    BY <1>2, <1>3, PidsAreBlocks, ChainSingle, TopIsEnd DEF Chain, Top
<1>5. TypeOK'
    BY <1>1, <1>2, <1>3, PidsAreBlocks, MaxAuxAssumption DEF TypeOK, Links
<1>6. SlotsMatch'
    <2>1. active' \cap AuxPids = {} /\ active' \cap Terminals = {1}
        BY <1>2, <1>3, PidsAreBlocks
    <2> QED
        BY <1>3, <2>1, FS_EmptySet DEF SlotsMatch
<1>7. LinksInverse' /\ ReturnFrameLive'
    BY <1>2, <1>3, PidsAreBlocks DEF LinksInverse, ReturnFrameLive
<1>8. ChainsPartition'
    BY <1>2, <1>3, <1>4, PidsAreBlocks DEF ChainsPartition
<1>9. NoPendingShell' /\ CurrentIsTop' /\ ResumeFrameLive'
    BY <1>1, <1>3, <1>4 DEF Init, NoPendingShell, CurrentIsTop, ResumeFrameLive, Running
<1> QED
    BY <1>3, <1>5, <1>6, <1>7, <1>8, <1>9 DEF IInv

(* Alt+Fn starts another terminal's shell: a chain of its own.              *)
LEMMA BootTerminalChains ==
    ASSUME IInv, Running, NEW sel \in Terminals, BootTerminal(sel)
    PROVE  /\ sel \notin booted /\ sel \notin active /\ cur_process' = sel
           /\ active' = active \cup {sel} /\ booted' = booted \cup {sel}
           /\ live' = booted' /\ shell_init_boot' = 0
           /\ aux_processes' = aux_processes
           /\ page' = sel /\ esp0' = sel /\ mode' = "user"
           /\ parentPCB' = [parentPCB EXCEPT ![sel] = Nil]
           /\ childPCB' \in Links
           /\ \A p \in Blocks : childPCB'[p] = IF p = sel THEN Nil ELSE childPCB[p]
           /\ waiting' = waiting \ {esp0, sel} /\ open' = open \ {sel}
           /\ suspended' = (suspended \cup {esp0}) \ {sel}
           /\ \A t \in booted : Chain(t)' = Chain(t) /\ Top(t)' = Top(t)
           /\ Chain(sel)' = {sel} /\ Top(sel)' = sel
<1>1. /\ TypeOK /\ childPCB \in Links
      /\ sel \notin booted /\ sel \in Pids /\ sel \in Blocks
      /\ cur_process' = sel
      /\ ExecuteFrom(esp0, "shell", sel, live, suspended \cup {esp0})
    BY PidsAreBlocks DEF IInv, BootTerminal, TypeOK, Links
<1>2. /\ cur_process \in booted /\ esp0 = Top(cur_process)
      /\ childPCB[esp0] = Nil /\ esp0 \in active /\ esp0 \in Blocks
    BY RunningFacts
<1>3. /\ active' = active \cup {sel} /\ booted' = booted \cup {sel}
      /\ live' = booted' /\ shell_init_boot' = 0
      /\ aux_processes' = aux_processes
      /\ page' = sel /\ esp0' = sel /\ mode' = "user"
      /\ parentPCB' = [parentPCB EXCEPT ![sel] = Nil]
      /\ childPCB' \in Links
      /\ \A p \in Blocks : childPCB'[p] = IF p = sel THEN Nil ELSE childPCB[p]
      /\ waiting' = waiting \ {esp0, sel} /\ open' = open \ {sel}
      /\ suspended' = (suspended \cup {esp0}) \ {sel}
    BY <1>1, <1>2, ExecuteBoots
<1>4. sel \notin active /\ esp0 # sel
    BY <1>1, <1>2 DEF IInv, SlotsMatch
<1>5. \A t \in booted : Chain(t)' = Chain(t) /\ Top(t)' = Top(t)
    <2> SUFFICES ASSUME NEW t \in booted
                 PROVE  Chain(t)' = Chain(t) /\ Top(t)' = Top(t)
        OBVIOUS
    <2>1. t \in Pids /\ Chain(t) \subseteq active /\ active \subseteq Blocks
        BY PidsAreBlocks DEF IInv, TypeOK, ChainsPartition
    <2>2. Chain(t)' = Chain(t)
        BY <1>1, <1>3, <1>4, <2>1, ChainFrame DEF Chain
    <2>3. Top(t) \in Chain(t) /\ childPCB[Top(t)] = Nil
        BY TopFacts
    <2>4. Top(t)' = Top(t)
        BY <1>3, <1>4, <2>1, <2>2, <2>3, TopIsEnd DEF Chain, Top
    <2> QED
        BY <2>2, <2>4
<1>6. Chain(sel)' = {sel} /\ Top(sel)' = sel
    BY <1>1, <1>3, ChainSingle, TopIsEnd DEF Chain, Top
<1> QED
    BY <1>1, <1>3, <1>4, <1>5, <1>6

LEMMA BootTerminalKeeps ==
    ASSUME IInv, Running, NEW sel \in Terminals, BootTerminal(sel)
    PROVE  IInv'
<1>1. /\ TypeOK /\ childPCB \in Links
      /\ sel \notin booted /\ sel \in Pids /\ sel \in Blocks
      /\ cur_process' = sel
    BY PidsAreBlocks DEF IInv, BootTerminal, TypeOK, Links
<1>2. /\ cur_process \in booted /\ esp0 = Top(cur_process)
      /\ childPCB[esp0] = Nil /\ esp0 \in active /\ esp0 \in Blocks
    BY RunningFacts
<1>3. /\ active' = active \cup {sel} /\ booted' = booted \cup {sel}
      /\ live' = booted' /\ shell_init_boot' = 0
      /\ aux_processes' = aux_processes
      /\ page' = sel /\ esp0' = sel /\ mode' = "user"
      /\ parentPCB' = [parentPCB EXCEPT ![sel] = Nil]
      /\ childPCB' \in Links
      /\ \A p \in Blocks : childPCB'[p] = IF p = sel THEN Nil ELSE childPCB[p]
      /\ waiting' = waiting \ {esp0, sel} /\ open' = open \ {sel}
      /\ suspended' = (suspended \cup {esp0}) \ {sel}
    BY BootTerminalChains
<1>4. sel \notin active /\ esp0 # sel
    BY <1>2, BootTerminalChains
<1>5. \A t \in booted : Chain(t)' = Chain(t) /\ Top(t)' = Top(t)
    BY BootTerminalChains
<1>6. Chain(sel)' = {sel} /\ Top(sel)' = sel
    BY BootTerminalChains
<1>7. TypeOK'
    BY <1>1, <1>2, <1>3, PidsAreBlocks DEF TypeOK, Links
<1>8. SlotsMatch'
    <2>1. active' \cap AuxPids = active \cap AuxPids /\ active' \cap Terminals = booted'
        BY <1>3, PidsAreBlocks DEF IInv, SlotsMatch
    <2> QED
        BY <1>3, <2>1 DEF IInv, SlotsMatch
<1>9. LinksInverse'
    <2>1. ASSUME NEW p \in Blocks, childPCB'[p] # Nil
          PROVE  /\ p \in active'
                 /\ childPCB'[p] \in active' \cap AuxPids
                 /\ parentPCB'[childPCB'[p]] = p
        <3>1. childPCB'[p] = childPCB[p] /\ childPCB[p] # Nil /\ childPCB[p] # sel
            BY <1>3, <1>4, <2>1 DEF IInv, LinksInverse
        <3> QED
            BY <1>1, <1>3, <3>1, PidsAreBlocks DEF IInv, LinksInverse, TypeOK
    <2>2. ASSUME NEW p \in active' \cap AuxPids
          PROVE  parentPCB'[p] \in active' /\ childPCB'[parentPCB'[p]] = p
        <3>1. p \in active \cap AuxPids /\ p # sel /\ p \in Blocks
            BY <1>3, <2>2, PidsAreBlocks
        <3>2. parentPCB'[p] = parentPCB[p] /\ parentPCB[p] \in active /\ childPCB[parentPCB[p]] = p
            BY <1>1, <1>3, <3>1 DEF IInv, LinksInverse, TypeOK
        <3> QED
            BY <1>3, <1>4, <3>2, PidsAreBlocks DEF IInv, TypeOK
    <2> QED
        BY <2>1, <2>2 DEF LinksInverse
<1>10. ChainsPartition'
    <2>1. \A t \in booted : sel \notin Chain(t)
        BY <1>4 DEF IInv, ChainsPartition
    <2>2. \A t, u \in booted' : t # u => Chain(t)' \cap Chain(u)' = {}
        BY <1>3, <1>5, <1>6, <2>1 DEF IInv, ChainsPartition
    <2>3. active' = UNION {Chain(t)' : t \in booted'}
        BY <1>3, <1>5, <1>6 DEF IInv, ChainsPartition
    <2>4. \A t \in booted' : \E p \in Chain(t)' : childPCB'[p] = Nil
        <3>1. \A t \in booted : Top(t) \in Chain(t)' /\ childPCB'[Top(t)] = Nil
            BY <1>3, <1>4, <1>5, TopFacts, PidsAreBlocks DEF IInv, TypeOK
        <3> QED
            BY <1>1, <1>3, <1>6, <3>1
    <2> QED
        BY <2>2, <2>3, <2>4 DEF ChainsPartition
<1>11. NoPendingShell'
    BY <1>3 DEF IInv, NoPendingShell, Running
<1>12. CurrentIsTop'
    BY <1>1, <1>3, <1>6 DEF CurrentIsTop
<1>13. ResumeFrameLive'
    <2>1. \A t \in booted : Top(t)' \in suspended'
        BY <1>2, <1>3, <1>4, <1>5, TopFacts DEF IInv, ResumeFrameLive
    <2> QED
        BY <1>1, <1>3, <2>1 DEF ResumeFrameLive
<1>14. ReturnFrameLive'
    BY <1>1, <1>2, <1>3, PidsAreBlocks DEF IInv, ReturnFrameLive
<1> QED
    BY <1>3, <1>7, <1>8, <1>9, <1>10, <1>11, <1>12, <1>13, <1>14 DEF IInv

(* A refused execute and the system calls without effect on the process     *)
(* table change at most the mode and the set of open calls.                 *)
LEMMA QuietKeeps ==
    ASSUME IInv, mode # "boot",
           UNCHANGED <<masks, slots, links, waiting, suspended, cur_process, page, esp0>>,
           open' \subseteq Blocks, mode' \in {"user", "kernel", "frozen"}, Running' => Running
    PROVE  IInv'
<1> USE DEF masks, slots, links
<1>1. \A t : Chain(t)' = Chain(t) /\ Top(t)' = Top(t)
    BY DEF Chain, Top
<1>2. TypeOK'
    BY DEF IInv, TypeOK
<1>3. SlotsMatch' /\ LinksInverse' /\ ReturnFrameLive' /\ NoPendingShell'
    BY DEF IInv, SlotsMatch, LinksInverse, ReturnFrameLive, NoPendingShell, Running
<1>4. ChainsPartition'
    BY <1>1 DEF IInv, ChainsPartition
<1>5. CurrentIsTop' /\ ResumeFrameLive'
    BY <1>1 DEF IInv, CurrentIsTop, ResumeFrameLive, Running
<1> QED
    BY <1>2, <1>3, <1>4, <1>5 DEF IInv

(* A program starts on top of the current one and becomes the top.          *)
LEMMA StartedChains ==
    ASSUME IInv, Running, NEW next \in FreeSlots, Started(next), UNCHANGED cur_process
    PROVE  /\ Chain(cur_process)' = Chain(cur_process) \cup {next} /\ Top(cur_process)' = next
           /\ \A t \in booted \ {cur_process} : Chain(t)' = Chain(t) /\ Top(t)' = Top(t)
<1>1. /\ TypeOK /\ childPCB \in Links
      /\ next \in AuxPids /\ next \notin active
      /\ next \in Pids /\ next \in Blocks /\ next \notin Terminals
      /\ next # Nil
    BY PidsAreBlocks DEF IInv, TypeOK, Links, FreeSlots
<1>2. /\ cur_process \in booted /\ cur_process \in Pids /\ esp0 = Top(cur_process)
      /\ esp0 \in Chain(cur_process) /\ childPCB[esp0] = Nil
      /\ esp0 \in active /\ esp0 \in Pids /\ esp0 \in Blocks /\ esp0 # next
      /\ \A t \in booted \ {cur_process} : esp0 \notin Chain(t)
    BY <1>1, RunningFacts
<1>3. /\ childPCB' \in Links
      /\ \A p \in Blocks : childPCB'[p] = IF p = next THEN Nil
                                          ELSE IF p = esp0 THEN next ELSE childPCB[p]
      /\ parentPCB' \in [Blocks -> {Nil} \cup Blocks]
      /\ \A p \in Blocks : parentPCB'[p] = IF p = next THEN esp0 ELSE parentPCB[p]
    BY <1>1, <1>2 DEF Started, TypeOK, Links
<1>4. booted' = booted /\ live' = live /\ shell_init_boot' = shell_init_boot
    BY DEF Started, masks
<1>5. \A t \in booted : t \in Pids /\ Chain(t) \subseteq active /\ Chain(t) \subseteq Blocks
    BY PidsAreBlocks DEF IInv, TypeOK, ChainsPartition
<1>6. Chain(cur_process)' = Chain(cur_process) \cup {next} /\ Top(cur_process)' = next
    <2>1. Chain(cur_process)' = Chain(cur_process) \cup {next}
        BY <1>1, <1>2, <1>3, <1>5, ChainPush DEF Chain
    <2>2. next \in Chain(cur_process)' /\ childPCB'[next] = Nil
        BY <1>1, <1>3, <2>1
    <2> QED
        BY <1>2, <1>3, <2>1, <2>2, TopIsEnd DEF Chain, Top
<1>7. \A t \in booted \ {cur_process} : Chain(t)' = Chain(t) /\ Top(t)' = Top(t)
    <2> SUFFICES ASSUME NEW t \in booted \ {cur_process}
                 PROVE  Chain(t)' = Chain(t) /\ Top(t)' = Top(t)
        OBVIOUS
    <2>1. \A p \in Chain(t) : childPCB'[p] = childPCB[p]
        BY <1>1, <1>2, <1>3, <1>5
    <2>2. Chain(t)' = Chain(t)
        BY <1>1, <1>3, <1>5, <2>1, ChainFrame DEF Chain
    <2>3. Top(t) \in Chain(t) /\ childPCB[Top(t)] = Nil
        BY TopFacts
    <2>4. Top(t)' = Top(t)
        BY <1>3, <1>5, <2>1, <2>2, <2>3, TopIsEnd DEF Chain, Top
    <2> QED
        BY <2>2, <2>4
<1> QED
    BY <1>6, <1>7

LEMMA StartedKeeps ==
    ASSUME IInv, Running, NEW next \in FreeSlots, aux_processes < MaxAux,
           Started(next), UNCHANGED cur_process
    PROVE  IInv'
<1>1. /\ TypeOK /\ childPCB \in Links
      /\ next \in AuxPids /\ next \notin active
      /\ next \in Pids /\ next \in Blocks /\ next \notin Terminals
      /\ next # Nil
    BY PidsAreBlocks DEF IInv, TypeOK, Links, FreeSlots
<1>2. /\ cur_process \in booted /\ cur_process \in Pids /\ esp0 = Top(cur_process)
      /\ esp0 \in Chain(cur_process) /\ childPCB[esp0] = Nil
      /\ esp0 \in active /\ esp0 \in Pids /\ esp0 \in Blocks /\ esp0 # next
      /\ \A t \in booted \ {cur_process} : esp0 \notin Chain(t)
    BY <1>1, RunningFacts
<1>3. /\ childPCB' \in Links
      /\ \A p \in Blocks : childPCB'[p] = IF p = next THEN Nil
                                          ELSE IF p = esp0 THEN next ELSE childPCB[p]
      /\ parentPCB' \in [Blocks -> {Nil} \cup Blocks]
      /\ \A p \in Blocks : parentPCB'[p] = IF p = next THEN esp0 ELSE parentPCB[p]
    BY <1>1, <1>2 DEF Started, TypeOK, Links
<1>4. booted' = booted /\ live' = live /\ shell_init_boot' = shell_init_boot
    BY DEF Started, masks
<1>5. \A t \in booted : t \in Pids /\ Chain(t) \subseteq active /\ Chain(t) \subseteq Blocks
    BY PidsAreBlocks DEF IInv, TypeOK, ChainsPartition
<1>6. Chain(cur_process)' = Chain(cur_process) \cup {next} /\ Top(cur_process)' = next
    BY StartedChains
<1>7. \A t \in booted \ {cur_process} : Chain(t)' = Chain(t) /\ Top(t)' = Top(t)
    BY StartedChains
<1>8. SlotsMatch' /\ aux_processes' \in 0..MaxAux
    <2>1. /\ active' \cap AuxPids = (active \cap AuxPids) \cup {next}
          /\ active' \cap Terminals = active \cap Terminals
        BY <1>1 DEF Started
    <2>2. IsFiniteSet(active \cap AuxPids) /\ next \notin active \cap AuxPids
        BY <1>1, SlotFacts DEF IInv
    <2>3. Cardinality(active' \cap AuxPids) = Cardinality(active \cap AuxPids) + 1
        BY <2>1, <2>2, FS_AddElement
    <2>4. aux_processes' = Cardinality(active' \cap AuxPids)
        BY <2>3 DEF IInv, SlotsMatch, Started
    <2>5. aux_processes' \in 0..MaxAux
        BY <1>1, MaxAuxAssumption DEF Started, TypeOK
    <2> QED
        BY <1>4, <2>1, <2>4, <2>5 DEF IInv, SlotsMatch
<1>9. TypeOK'
    BY <1>1, <1>2, <1>3, <1>4, <1>8 DEF TypeOK, Started, Links
<1>10. LinksInverse'
    <2>1. ASSUME NEW p \in Blocks, childPCB'[p] # Nil
          PROVE  /\ p \in active'
                 /\ childPCB'[p] \in active' \cap AuxPids
                 /\ parentPCB'[childPCB'[p]] = p
        <3>1. CASE p = esp0
            <4>1. childPCB'[p] = next /\ parentPCB'[next] = esp0
                BY <1>1, <1>2, <1>3, <3>1
            <4> QED
                BY <1>1, <1>2, <3>1, <4>1 DEF Started
        <3>2. CASE p # esp0
            <4>1. childPCB'[p] = childPCB[p] /\ childPCB[p] # Nil
                BY <1>3, <2>1, <3>2
            <4>2. p \in active /\ childPCB[p] \in active \cap AuxPids /\ parentPCB[childPCB[p]] = p
                BY <4>1 DEF IInv, LinksInverse
            <4> QED
                BY <1>1, <1>3, <4>1, <4>2, PidsAreBlocks DEF Started
        <3> QED
            BY <3>1, <3>2
    <2>2. ASSUME NEW p \in active' \cap AuxPids
          PROVE  parentPCB'[p] \in active' /\ childPCB'[parentPCB'[p]] = p
        <3>1. CASE p = next
            <4>1. parentPCB'[p] = esp0 /\ childPCB'[esp0] = next
                BY <1>1, <1>2, <1>3, <3>1
            <4>2. esp0 \in active'
                BY <1>2 DEF Started
            <4> QED
                BY <3>1, <4>1, <4>2
        <3>2. CASE p # next
            <4>1. p \in active \cap AuxPids /\ p \in Blocks
                BY <2>2, <3>2, PidsAreBlocks DEF Started
            <4>2. parentPCB[p] \in active /\ childPCB[parentPCB[p]] = p
                BY <4>1 DEF IInv, LinksInverse
            <4>3. parentPCB[p] # esp0 /\ parentPCB[p] # next /\ parentPCB[p] \in Blocks
                BY <1>1, <1>2, <4>1, <4>2, PidsAreBlocks DEF TypeOK
            <4> QED
                BY <1>3, <3>2, <4>1, <4>2, <4>3 DEF Started
        <3> QED
            BY <3>1, <3>2
    <2> QED
        BY <2>1, <2>2 DEF LinksInverse
<1>11. ChainsPartition'
    <2>1. \A t \in booted : next \notin Chain(t)
        BY <1>1, <1>5
    <2>2. \A t, u \in booted : t # u => Chain(t)' \cap Chain(u)' = {}
        BY <1>2, <1>6, <1>7, <2>1 DEF IInv, ChainsPartition
    <2>3. active' = UNION {Chain(t)' : t \in booted}
        BY <1>2, <1>6, <1>7 DEF IInv, ChainsPartition, Started
    <2>4. \A t \in booted : \E p \in Chain(t)' : childPCB'[p] = Nil
        <3>1. next \in Chain(cur_process)' /\ childPCB'[next] = Nil
            BY <1>1, <1>3, <1>6
        <3>2. \A t \in booted \ {cur_process} : Top(t) \in Chain(t)' /\ childPCB'[Top(t)] = Nil
            <4> SUFFICES ASSUME NEW t \in booted \ {cur_process}
                         PROVE  Top(t) \in Chain(t)' /\ childPCB'[Top(t)] = Nil
                OBVIOUS
            <4>1. Top(t) \in Chain(t) /\ childPCB[Top(t)] = Nil /\ Chain(t)' = Chain(t)
                BY <1>7, TopFacts
            <4>2. Top(t) \in Blocks /\ Top(t) # esp0 /\ Top(t) # next
                BY <1>1, <1>2, <1>5, <4>1
            <4> QED
                BY <1>3, <4>1, <4>2
        <3> QED
            BY <3>1, <3>2
    <2> QED
        BY <1>4, <2>2, <2>3, <2>4 DEF ChainsPartition
<1>12. NoPendingShell' /\ CurrentIsTop'
    BY <1>2, <1>4, <1>6 DEF IInv, NoPendingShell, CurrentIsTop, Running, Started
<1>13. ResumeFrameLive'
    <2>1. \A t \in booted \ {cur_process} : Top(t)' \in suspended /\ Top(t)' # next
        BY <1>1, <1>7, TopFacts DEF IInv, ResumeFrameLive
    <2> QED
        BY <1>4, <2>1 DEF ResumeFrameLive, Started
<1>14. ReturnFrameLive'
    BY <1>1, <1>2, <1>3, PidsAreBlocks DEF IInv, ReturnFrameLive, Started
<1> QED
    BY <1>8, <1>9, <1>10, <1>11, <1>12, <1>13, <1>14 DEF IInv, Started

(* execute, as a system call.                                               *)
LEMMA ExecuteKeeps ==
    ASSUME IInv, NEW cmd \in Commands, Execute(cmd)
    PROVE  IInv'
<1>1. Running /\ UNCHANGED cur_process
    BY DEF Execute, Running
<1>2. Unstarted \/ \E next \in FreeSlots : aux_processes < MaxAux /\ Started(next)
    BY <1>1, ExecuteStarts DEF Execute
<1>3. CASE Unstarted
    BY <1>1, <1>3, QuietKeeps DEF Unstarted, IInv, TypeOK, Running
<1>4. CASE \E next \in FreeSlots : aux_processes < MaxAux /\ Started(next)
    BY <1>1, <1>4, StartedKeeps
<1> QED
    BY <1>2, <1>3, <1>4

(* halt of a base shell: the shell starts again in its place.               *)
LEMMA HaltBaseShellKeeps ==
    ASSUME IInv, HaltBaseShell
    PROVE  IInv'
<1>1. Running /\ UNCHANGED cur_process /\ esp0 \in Terminals /\ TypeOK
    BY DEF HaltBaseShell, Running, IInv
<1>2. /\ live = booted /\ shell_init_boot = 0 /\ esp0 \in active
      /\ childPCB[esp0] = Nil /\ page = esp0 /\ esp0 \in Blocks
      /\ cur_process \in booted /\ esp0 = Top(cur_process)
      /\ esp0 \in Chain(cur_process)
    BY <1>1, RunningFacts
<1>3. esp0 \in booted
    BY <1>1, <1>2 DEF IInv, SlotsMatch
<1>4. /\ active' = active /\ booted' = booted
      /\ live' = booted /\ shell_init_boot' = 0
      /\ aux_processes' = aux_processes
      /\ page' = esp0 /\ esp0' = esp0 /\ mode' = "user"
      /\ parentPCB' = [parentPCB EXCEPT ![esp0] = Nil]
      /\ childPCB' \in Links
      /\ \A p \in Blocks : childPCB'[p] = IF p = esp0 THEN Nil ELSE childPCB[p]
      /\ waiting' = waiting \ {esp0} /\ open' = open \ {esp0}
      /\ suspended' = suspended \ {esp0}
    BY <1>1, <1>2, <1>3, ExecuteReboots DEF HaltBaseShell
<1>5. childPCB' = childPCB
    BY <1>1, <1>2, <1>4 DEF TypeOK, Links
<1>6. \A t : Chain(t)' = Chain(t) /\ Top(t)' = Top(t)
    BY <1>5 DEF Chain, Top
<1>7. TypeOK'
    BY <1>1, <1>4, PidsAreBlocks DEF TypeOK, Links
<1>8. SlotsMatch' /\ NoPendingShell'
    BY <1>4 DEF IInv, SlotsMatch, NoPendingShell, HaltBaseShell
<1>9. LinksInverse'
    <2>1. \A p \in Blocks : childPCB[p] # Nil => childPCB[p] # esp0
        BY <1>1, PidsAreBlocks DEF IInv, LinksInverse
    <2>2. \A p \in active \cap AuxPids : p # esp0 /\ p \in Blocks
        BY <1>1, PidsAreBlocks
    <2>3. \A p \in Blocks : p # esp0 => parentPCB'[p] = parentPCB[p]
        BY <1>1, <1>4 DEF TypeOK
    <2>4. \A p \in AuxPids : p \in Blocks
        BY PidsAreBlocks
    <2> QED
        BY <1>4, <1>5, <2>1, <2>2, <2>3, <2>4 DEF IInv, LinksInverse
<1>10. ChainsPartition'
    BY <1>4, <1>5, <1>6 DEF IInv, ChainsPartition
<1>11. CurrentIsTop'
    BY <1>1, <1>2, <1>4, <1>6 DEF CurrentIsTop
<1>12. ResumeFrameLive'
    <2>1. \A t \in booted \ {cur_process} : Top(t) \in suspended /\ Top(t) # esp0
        BY <1>1, TopFacts, RunningFacts DEF IInv, ResumeFrameLive
    <2> QED
        BY <1>1, <1>4, <1>6, <2>1 DEF ResumeFrameLive
<1>13. ReturnFrameLive'
    BY <1>2, <1>4, <1>5, PidsAreBlocks DEF IInv, ReturnFrameLive
<1> QED
    BY <1>4, <1>7, <1>8, <1>9, <1>10, <1>11, <1>12, <1>13 DEF IInv

(* halt of any other program: back into its parent, which becomes the top.  *)
LEMMA HaltAuxChains ==
    ASSUME IInv, HaltAux
    PROVE  /\ parentPCB[esp0] \in Chain(cur_process)
           /\ \A t \in booted \ {cur_process} : parentPCB[esp0] \notin Chain(t)
           /\ Chain(cur_process)' = Chain(cur_process) \ {esp0}
           /\ Top(cur_process)' = parentPCB[esp0]
           /\ \A t \in booted \ {cur_process} : Chain(t)' = Chain(t) /\ Top(t)' = Top(t)
<1> DEFINE parent == parentPCB[esp0]
<1>1. /\ Running /\ UNCHANGED cur_process /\ esp0 \notin Terminals /\ TypeOK
      /\ childPCB \in Links /\ mode # "boot"
    BY DEF HaltAux, Running, IInv, TypeOK, Links
<1>2. /\ cur_process \in booted /\ cur_process \in Pids /\ esp0 = Top(cur_process)
      /\ esp0 \in Chain(cur_process) /\ childPCB[esp0] = Nil
      /\ esp0 \in active /\ esp0 \in Pids /\ esp0 \in Blocks
      /\ \A t \in booted \ {cur_process} : esp0 \notin Chain(t)
    BY <1>1, RunningFacts
<1>3. /\ esp0 \in AuxPids /\ parent \in active /\ childPCB[parent] = esp0
      /\ parent \in Pids /\ parent \in Blocks /\ parent # esp0
      /\ esp0 # cur_process
    BY <1>1, <1>2, PidsAreBlocks DEF IInv, LinksInverse, TypeOK
<1>4. parent \in waiting
    BY <1>2, <1>3, PidsAreBlocks DEF IInv, ReturnFrameLive
<1>5. /\ page' = parent /\ esp0' = parent /\ mode' = "user"
      /\ active' = active \ {esp0} /\ aux_processes' = aux_processes - 1
      /\ childPCB' = [childPCB EXCEPT ![parent] = Nil]
      /\ waiting' = waiting \ {parent}
      /\ booted' = booted /\ live' = live /\ shell_init_boot' = shell_init_boot
      /\ UNCHANGED <<parentPCB, suspended, open, cur_process>>
    BY <1>4 DEF HaltAux, masks
<1>6. /\ childPCB' \in Links
      /\ \A p \in Blocks : childPCB'[p] = IF p = parent THEN Nil ELSE childPCB[p]
    BY <1>1, <1>3, <1>5 DEF Links
<1>7. \A p \in Blocks : p # parent => childPCB[p] # esp0
    BY <1>2, PidsAreBlocks DEF IInv, LinksInverse
<1>8. \A t \in booted : t \in Pids /\ Chain(t) \subseteq active /\ Chain(t) \subseteq Blocks
    BY PidsAreBlocks DEF IInv, TypeOK, ChainsPartition
<1>9. parent \in Chain(cur_process) /\ \A t \in booted \ {cur_process} : parent \notin Chain(t)
    <2>1. PICK u \in booted : parent \in Chain(u)
        BY <1>3 DEF IInv, ChainsPartition
    <2>2. esp0 \in Chain(u)
        <3>1. ClosedUnder(childPCB, Chain(u))
            BY <1>1, <1>8, ChainBasics DEF Chain
        <3> QED
            BY <1>3, <2>1, <3>1, PidsAreBlocks DEF ClosedUnder
    <2>3. u = cur_process
        BY <1>2, <2>2
    <2> QED
        BY <1>2, <2>1, <2>3 DEF IInv, ChainsPartition
<1>10. Chain(cur_process)' = Chain(cur_process) \ {esp0} /\ Top(cur_process)' = parent
    <2>1. Chain(cur_process)' = Chain(cur_process) \ {esp0}
        <3>1. \A p \in Blocks \ {parent} : childPCB'[p] = childPCB[p] /\ childPCB[p] # esp0
            BY <1>6, <1>7
        <3>2. childPCB'[parent] = Nil /\ cur_process' = cur_process
            BY <1>3, <1>5, <1>6
        <3>3. ChainOf(childPCB', cur_process) = ChainOf(childPCB, cur_process) \ {esp0}
            BY <1>1, <1>2, <1>3, <1>6, <1>9, <3>1, <3>2, ChainPop DEF Chain
        <3> QED
            BY <3>2, <3>3 DEF Chain
    <2>2. parent \in Chain(cur_process)' /\ childPCB'[parent] = Nil
        BY <1>3, <1>6, <1>9, <2>1
    <2> QED
        BY <1>2, <1>5, <1>6, <2>1, <2>2, TopIsEnd DEF Chain, Top
<1>11. \A t \in booted \ {cur_process} : Chain(t)' = Chain(t) /\ Top(t)' = Top(t)
    <2> SUFFICES ASSUME NEW t \in booted \ {cur_process}
                 PROVE  Chain(t)' = Chain(t) /\ Top(t)' = Top(t)
        OBVIOUS
    <2>1. \A p \in Chain(t) : childPCB'[p] = childPCB[p]
        BY <1>6, <1>8, <1>9
    <2>2. Chain(t)' = Chain(t)
        BY <1>1, <1>6, <1>8, <2>1, ChainFrame DEF Chain
    <2>3. Top(t) \in Chain(t) /\ childPCB[Top(t)] = Nil
        BY TopFacts
    <2>4. Top(t)' = Top(t)
        BY <1>6, <1>8, <2>1, <2>2, <2>3, TopIsEnd DEF Chain, Top
    <2> QED
        BY <2>2, <2>4
<1> QED
    BY <1>9, <1>10, <1>11

LEMMA HaltAuxKeeps ==
    ASSUME IInv, HaltAux
    PROVE  /\ IInv'
           /\ parentPCB[esp0] = Top(cur_process)'
<1> DEFINE parent == parentPCB[esp0]
<1>1. /\ Running /\ UNCHANGED cur_process /\ esp0 \notin Terminals /\ TypeOK
      /\ childPCB \in Links /\ mode # "boot"
    BY DEF HaltAux, Running, IInv, TypeOK, Links
<1>2. /\ cur_process \in booted /\ cur_process \in Pids /\ esp0 = Top(cur_process)
      /\ esp0 \in Chain(cur_process) /\ childPCB[esp0] = Nil
      /\ esp0 \in active /\ esp0 \in Pids /\ esp0 \in Blocks
      /\ \A t \in booted \ {cur_process} : esp0 \notin Chain(t)
    BY <1>1, RunningFacts
<1>3. /\ esp0 \in AuxPids /\ parent \in active /\ childPCB[parent] = esp0
      /\ parent \in Pids /\ parent \in Blocks /\ parent # esp0
      /\ esp0 # cur_process
    BY <1>1, <1>2, PidsAreBlocks DEF IInv, LinksInverse, TypeOK
<1>4. parent \in waiting
    BY <1>2, <1>3, PidsAreBlocks DEF IInv, ReturnFrameLive
<1>5. /\ page' = parent /\ esp0' = parent /\ mode' = "user"
      /\ active' = active \ {esp0} /\ aux_processes' = aux_processes - 1
      /\ childPCB' = [childPCB EXCEPT ![parent] = Nil]
      /\ waiting' = waiting \ {parent}
      /\ booted' = booted /\ live' = live /\ shell_init_boot' = shell_init_boot
      /\ UNCHANGED <<parentPCB, suspended, open, cur_process>>
    BY <1>4 DEF HaltAux, masks
<1>6. /\ childPCB' \in Links
      /\ \A p \in Blocks : childPCB'[p] = IF p = parent THEN Nil ELSE childPCB[p]
    BY <1>1, <1>3, <1>5 DEF Links
<1>7. \A p \in Blocks : p # parent => childPCB[p] # esp0
    BY <1>2, PidsAreBlocks DEF IInv, LinksInverse
<1>8. \A t \in booted : t \in Pids /\ Chain(t) \subseteq active /\ Chain(t) \subseteq Blocks
    BY PidsAreBlocks DEF IInv, TypeOK, ChainsPartition
<1>9. parent \in Chain(cur_process) /\ \A t \in booted \ {cur_process} : parent \notin Chain(t)
    BY HaltAuxChains
<1>10. Chain(cur_process)' = Chain(cur_process) \ {esp0} /\ Top(cur_process)' = parent
    BY HaltAuxChains
<1>11. \A t \in booted \ {cur_process} : Chain(t)' = Chain(t) /\ Top(t)' = Top(t)
    BY HaltAuxChains
<1>12. SlotsMatch' /\ aux_processes' \in 0..MaxAux
    <2>1. /\ active' \cap AuxPids = (active \cap AuxPids) \ {esp0}
          /\ active' \cap Terminals = active \cap Terminals
        BY <1>1, <1>5
    <2>2. IsFiniteSet(active \cap AuxPids) /\ esp0 \in active \cap AuxPids
        BY <1>1, <1>2, <1>3, SlotFacts DEF IInv
    <2>3. /\ IsFiniteSet(active' \cap AuxPids)
          /\ Cardinality(active' \cap AuxPids) = Cardinality(active \cap AuxPids) - 1
        BY <2>1, <2>2, FS_RemoveElement
    <2>4. aux_processes' = Cardinality(active' \cap AuxPids)
        BY <1>5, <2>3 DEF IInv, SlotsMatch
    <2>5. aux_processes' \in Nat
        BY <2>3, <2>4, FS_CardinalityType
    <2>6. aux_processes' \in 0..MaxAux
        BY <1>1, <1>5, <2>5, MaxAuxAssumption DEF TypeOK
    <2> QED
        BY <1>5, <2>1, <2>4, <2>6 DEF IInv, SlotsMatch
<1>13. TypeOK'
    BY <1>1, <1>3, <1>5, <1>6, <1>12 DEF TypeOK, Links
<1>14. LinksInverse'
    <2>1. ASSUME NEW p \in Blocks, childPCB'[p] # Nil
          PROVE  /\ p \in active'
                 /\ childPCB'[p] \in active' \cap AuxPids
                 /\ parentPCB'[childPCB'[p]] = p
        <3>1. p # parent /\ childPCB'[p] = childPCB[p] /\ childPCB[p] # Nil
            BY <1>6, <2>1
        <3>2. p # esp0 /\ childPCB[p] # esp0
            BY <1>2, <1>7, <3>1
        <3> QED
            <4>1. /\ p \in active /\ childPCB[p] \in active \cap AuxPids
                  /\ parentPCB[childPCB[p]] = p
                BY <3>1 DEF IInv, LinksInverse
            <4>2. active' = active \ {esp0} /\ parentPCB' = parentPCB
                BY <1>5
            <4> QED
                BY <3>1, <3>2, <4>1, <4>2
    <2>2. ASSUME NEW p \in active' \cap AuxPids
          PROVE  parentPCB'[p] \in active' /\ childPCB'[parentPCB'[p]] = p
        <3>1. p \in active \cap AuxPids /\ p # esp0 /\ p \in Blocks /\ p \in Pids
            <4>1. active' = active \ {esp0}
                BY <1>5
            <4> QED
                BY <2>2, <4>1, PidsAreBlocks
        <3>2. parentPCB[p] \in active /\ childPCB[parentPCB[p]] = p
            BY <3>1 DEF IInv, LinksInverse
        <3>3. parentPCB[p] # parent /\ parentPCB[p] # esp0 /\ parentPCB[p] \in Blocks
            BY <1>1, <1>2, <1>3, <3>1, <3>2, PidsAreBlocks DEF TypeOK
        <3> QED
            BY <1>5, <1>6, <3>2, <3>3
    <2> QED
        BY <2>1, <2>2 DEF LinksInverse
<1>15. ChainsPartition'
    <2>1. \A t, u \in booted : t # u => Chain(t)' \cap Chain(u)' = {}
        <3>1. \A t \in booted : Chain(t)' \subseteq Chain(t)
            BY <1>1, <1>10, <1>11
        <3> QED
            BY <3>1 DEF IInv, ChainsPartition
    <2>2. active' = UNION {Chain(t)' : t \in booted}
        BY <1>2, <1>5, <1>10, <1>11 DEF IInv, ChainsPartition
    <2>3. \A t \in booted : \E p \in Chain(t)' : childPCB'[p] = Nil
        <3>1. parent \in Chain(cur_process)' /\ childPCB'[parent] = Nil
            BY <1>3, <1>6, <1>9, <1>10
        <3>2. ASSUME NEW t \in booted \ {cur_process}
              PROVE  Top(t) \in Chain(t)' /\ childPCB'[Top(t)] = Nil
            BY <1>6, <1>8, <1>11, TopFacts
        <3> QED
            BY <1>1, <3>1, <3>2
    <2> QED
        BY <1>5, <2>1, <2>2, <2>3 DEF ChainsPartition
<1>16. NoPendingShell' /\ CurrentIsTop'
    BY <1>1, <1>2, <1>5, <1>10 DEF IInv, NoPendingShell, CurrentIsTop
<1>17. ResumeFrameLive'
    BY <1>1, <1>5, <1>11 DEF IInv, ResumeFrameLive
<1>18. ReturnFrameLive'
    BY <1>5, <1>6, PidsAreBlocks DEF IInv, ReturnFrameLive
<1> QED
    BY <1>5, <1>10, <1>12, <1>13, <1>14, <1>15, <1>16, <1>17, <1>18 DEF IInv

(* The round robin picks a booted terminal whenever terminal 1 is booted.   *)
LEMMA NextOfBooted ==
    ASSUME TypeOK, 1 \in booted
    PROVE  NextOf(booted, cur_process) \in booted
<1>1. cur_process \in 1..3
    BY DEF TypeOK, Terminals
<1> QED
    BY <1>1 DEF NextOf

(* The timer gives the processor to another thread.                         *)
LEMMA PitTickKeeps ==
    ASSUME IInv, PitTick
    PROVE  /\ IInv'
           /\ cur_process' # cur_process => esp0' \in suspended
<1> DEFINE n == NextOf(booted, cur_process)
<1>1. /\ TypeOK /\ cur_process' = n
      /\ UNCHANGED <<masks, slots, links, waiting, open>>
      /\ n = cur_process => UNCHANGED <<suspended, cpu>>
      /\ n # cur_process => SwitchTo(n)
    BY DEF PitTick, IInv
<1>2. CASE mode = "boot"
    <2>1. Init /\ n = cur_process
        BY <1>2 DEF IInv, Init, NextOf
    <2>2. UNCHANGED vars
        BY <1>1, <2>1 DEF vars, masks, slots, links, frames, cpu
    <2>3. Init'
        BY <2>1, <2>2 DEF Init, vars, masks, slots, links, frames, cpu
    <2>4. IInv'
        BY <2>3, InitInv, PTL
    <2> QED
        BY <1>1, <2>1, <2>4
<1>3. CASE mode # "boot" /\ n = cur_process
    <2>1. Running /\ mode' = mode
        BY <1>1, <1>3 DEF PitTick, Interruptible, Running, cpu
    <2>2. IInv'
        BY <1>1, <1>3, <2>1, QuietKeeps DEF IInv, TypeOK, cpu, Running
    <2> QED
        BY <1>1, <1>3, <2>2
<1>4. CASE mode # "boot" /\ n # cur_process
    <2>1. Running
        BY <1>4 DEF PitTick, Interruptible, Running
    <2>2. n \in booted /\ cur_process \in booted /\ n \in Terminals
        BY <1>1, <1>4, <2>1, RunningFacts, NextOfBooted DEF IInv, NoPendingShell, TypeOK
    <2>3. Top(n) \in suspended /\ Top(n) \in Chain(n) /\ Top(n) \in active /\ Top(n) \in Blocks
        BY <1>4, <2>1, <2>2, TopFacts, PidsAreBlocks DEF IInv, ResumeFrameLive, TypeOK
    <2>4. /\ suspended' = (suspended \cup {esp0}) \ {Top(n)}
          /\ page' = Top(n) /\ esp0' = Top(n) /\ mode' \in {"user", "kernel"}
        BY <1>1, <1>4, <2>3 DEF SwitchTo
    <2>5. /\ booted' = booted /\ active' = active /\ childPCB' = childPCB
          /\ live' = live /\ shell_init_boot' = shell_init_boot
          /\ aux_processes' = aux_processes /\ parentPCB' = parentPCB
          /\ waiting' = waiting /\ open' = open
        BY <1>1 DEF masks, slots, links
    <2>6. \A t : Chain(t)' = Chain(t) /\ Top(t)' = Top(t)
        BY <2>5 DEF Chain, Top
    <2>7. TypeOK'
        BY <1>1, <2>2, <2>3, <2>4, <2>5 DEF TypeOK
    <2>8. SlotsMatch' /\ LinksInverse' /\ ReturnFrameLive' /\ NoPendingShell'
        BY <1>4, <2>5 DEF IInv, SlotsMatch, LinksInverse, ReturnFrameLive, NoPendingShell
    <2>9. ChainsPartition'
        BY <2>5, <2>6 DEF IInv, ChainsPartition
    <2>10. CurrentIsTop'
        BY <1>1, <2>2, <2>4, <2>5, <2>6 DEF CurrentIsTop
    <2>11. ResumeFrameLive'
        <3>1. \A t \in booted : t # n => Top(t) # Top(n)
            BY <2>2, TopFacts DEF IInv, ChainsPartition
        <3>2. \A t \in booted : Top(t) \in suspended \cup {esp0}
            BY <2>1, RunningFacts DEF IInv, ResumeFrameLive
        <3> QED
            BY <1>1, <2>4, <2>5, <2>6, <3>1, <3>2 DEF ResumeFrameLive
    <2> QED
        BY <2>3, <2>4, <2>7, <2>8, <2>9, <2>10, <2>11 DEF IInv
<1> QED
    BY <1>2, <1>3, <1>4

LEMMA NextKeeps ==
    ASSUME ~EarlySwitch, IInv, [Next]_vars
    PROVE  IInv'
<1>1. CASE Boot
    BY <1>1, BootKeeps
<1>2. CASE \E cmd \in Commands : Execute(cmd)
    BY <1>2, ExecuteKeeps
<1>3. CASE HaltBaseShell
    BY <1>3, HaltBaseShellKeeps
<1>4. CASE HaltAux
    BY <1>4, HaltAuxKeeps
<1>5. CASE Enter \/ Leave \/ Exception
    <2>1. Running /\ open' \subseteq Blocks /\ mode' \in {"user", "kernel", "frozen"}
        BY <1>5 DEF Enter, Leave, Exception, Running, IInv, TypeOK, frames
    <2> QED
        BY <1>5, <2>1, QuietKeeps DEF Enter, Leave, Exception, frames, Running
<1>6. CASE PitTick
    BY <1>6, PitTickKeeps
<1>7. CASE \E sel \in Terminals : BootTerminal(sel)
    <2>1. Running
        BY <1>7 DEF BootTerminal, Interruptible, Running
    <2> QED
        BY <1>7, <2>1, BootTerminalKeeps
<1>8. CASE UNCHANGED vars
    <2>1. /\ UNCHANGED <<masks, slots, links, waiting, suspended, cur_process, page, esp0>>
          /\ open' = open /\ mode' = mode
        BY <1>8 DEF vars, frames, cpu
    <2>2. CASE mode = "boot"
        <3>1. Init'
            BY <1>8, <2>2 DEF IInv, Init, vars, masks, slots, links, frames, cpu
        <3> QED
            BY <3>1, InitInv, PTL
    <2>3. CASE mode # "boot"
        BY <2>1, <2>3, QuietKeeps DEF IInv, TypeOK, ResumeFrameLive, Running
    <2> QED
        BY <2>2, <2>3
<1> QED
    BY <1>1, <1>2, <1>3, <1>4, <1>5, <1>6, <1>7, <1>8 DEF Next, ExecuteNotFound

(***************************************************************************)
(* Theorems.                                                               *)
(***************************************************************************)

(* The invariant holds in every reachable state, whatever number of slots   *)
(* the kernel is built with.                                                *)
THEOREM Invariance == ~EarlySwitch => (Spec => []IInv)
<1> SUFFICES ASSUME ~EarlySwitch PROVE Spec => []IInv
    OBVIOUS
<1>1. IInv /\ [Next]_vars => IInv'
    BY NextKeeps
<1> QED
    BY InitInv, <1>1, PTL DEF Spec

(* Every variable keeps its range: in particular aux_processes never leaves *)
(* 0..MaxAux, whatever programs are started and halted on which terminal.   *)
THEOREM TypeCorrect == ~EarlySwitch => (Spec => []TypeOK)
<1>1. IInv => TypeOK
    BY DEF IInv
<1> QED
    BY <1>1, Invariance, PTL

(* The counter execute compares with its limit is the number of taken       *)
(* slots, so next_pid is always assigned when it is used.                   *)
THEOREM SlotsCorrect == ~EarlySwitch => (Spec => []SlotsMatch)
<1>1. IInv => SlotsMatch
    BY DEF IInv
<1> QED
    BY <1>1, Invariance, PTL

(* The PCB links form one chain per booted terminal, which the timer's and  *)
(* the clock's walks follow to an end.                                      *)
THEOREM ChainsCorrect == ~EarlySwitch => (Spec => []ChainsPartition)
<1>1. IInv => ChainsPartition
    BY DEF IInv
<1> QED
    BY <1>1, Invariance, PTL

(* Parent and child links agree, so halt returns to the program that        *)
(* started the halting one.                                                 *)
THEOREM LinksCorrect == ~EarlySwitch => (Spec => []LinksInverse)
<1>1. IInv => LinksInverse
    BY DEF IInv
<1> QED
    BY <1>1, Invariance, PTL

(* The page, the kernel stack and the thread number always name the same    *)
(* process: the newest of the current thread.                               *)
THEOREM CurrentCorrect == ~EarlySwitch => (Spec => []CurrentIsTop)
<1>1. IInv => CurrentIsTop
    BY DEF IInv
<1> QED
    BY <1>1, Invariance, PTL

(* The timer always switches to a suspended process: the frame its          *)
(* schedEBP points to is still on its stack.                                *)
THEOREM ResumeCorrect == ~EarlySwitch => (Spec => []ResumeFrameLive)
<1>1. IInv => ResumeFrameLive
    BY DEF IInv
<1> QED
    BY <1>1, Invariance, PTL

(* halt always returns into an execute call that still waits.               *)
THEOREM FramesCorrect == ~EarlySwitch => (Spec => []ReturnFrameLive)
<1>1. IInv => ReturnFrameLive
    BY DEF IInv
<1> QED
    BY <1>1, Invariance, PTL

(* After the boot no shell is ever left pending.                            *)
THEOREM NoPendingCorrect == ~EarlySwitch => (Spec => []NoPendingShell)
<1>1. IInv => NoPendingShell
    BY DEF IInv
<1> QED
    BY <1>1, Invariance, PTL

(* A program is only ever loaded into a slot nobody holds.                  *)
THEOREM LaunchCorrect == ~EarlySwitch => (Spec => LaunchIntoFreeSlot)
<1> SUFFICES ASSUME ~EarlySwitch PROVE Spec => LaunchIntoFreeSlot
    OBVIOUS
<1> DEFINE Launched == aux_processes' > aux_processes =>
                           esp0' \notin active /\ active' = active \cup {esp0'}
<1>1. ASSUME IInv, [Next]_vars PROVE Launched
    <2>1. aux_processes \in Nat
        BY <1>1, SlotFacts DEF IInv
    <2>2. CASE \E cmd \in Commands : Execute(cmd)
        <3>1. PICK cmd \in Commands : Execute(cmd)
            BY <2>2
        <3>2. Unstarted \/ \E next \in FreeSlots : Started(next)
            BY <1>1, <3>1, ExecuteStarts DEF Execute, Running
        <3>3. Unstarted => aux_processes' = aux_processes
            BY DEF Unstarted, slots
        <3> QED
            BY <2>1, <3>2, <3>3 DEF Started, FreeSlots
    <2>3. CASE Boot \/ HaltBaseShell \/ \E sel \in Terminals : BootTerminal(sel)
        <3>1. aux_processes' = aux_processes
            <4>1. CASE Boot
                BY <1>1, <4>1, ExecuteBoots, PidsAreBlocks DEF IInv, Init, Boot, Terminals
            <4>2. CASE HaltBaseShell
                <5>1. Running
                    BY <4>2 DEF HaltBaseShell, Running
                <5>2. live = booted /\ shell_init_boot = 0 /\ esp0 \in booted /\ esp0 \in Terminals
                    BY <1>1, <4>2, <5>1, RunningFacts DEF HaltBaseShell, IInv, SlotsMatch
                <5> QED
                    BY <1>1, <4>2, <5>2, ExecuteReboots DEF HaltBaseShell, IInv
            <4>3. CASE \E sel \in Terminals : BootTerminal(sel)
                BY <1>1, <4>3, ExecuteBoots DEF BootTerminal, IInv, TypeOK
            <4> QED
                BY <2>3, <4>1, <4>2, <4>3
        <3> QED
            BY <2>1, <3>1
    <2>4. CASE HaltAux
        BY <2>1, <2>4 DEF HaltAux
    <2>5. CASE ExecuteNotFound \/ Enter \/ Leave \/ PitTick \/ Exception \/ UNCHANGED vars
        <3>1. aux_processes' = aux_processes
            BY <2>5 DEF ExecuteNotFound, Enter, Leave, PitTick, Exception, vars, slots
        <3> QED
            BY <2>1, <3>1
    <2> QED
        BY <1>1, <2>2, <2>3, <2>4, <2>5 DEF Next
<1>2. Spec => []IInv
    BY Invariance
<1> QED
    BY <1>1, <1>2, PTL DEF Spec, LaunchIntoFreeSlot

(* A timer tick resumes only what was suspended.                            *)
THEOREM SwitchCorrect == ~EarlySwitch => (Spec => SwitchToSuspended)
<1> SUFFICES ASSUME ~EarlySwitch PROVE Spec => SwitchToSuspended
    OBVIOUS
<1>1. ASSUME IInv, [Next]_vars
      PROVE  PitTick /\ cur_process' # cur_process => esp0' \in suspended
    BY <1>1, PitTickKeeps
<1>2. Spec => []IInv
    BY Invariance
<1> QED
    BY <1>1, <1>2, PTL DEF Spec, SwitchToSuspended

(* halt stays on its thread: a base shell comes back in its own place, any  *)
(* other program gives way to its parent, the thread's new top.             *)
THEOREM HaltCorrect == ~EarlySwitch => (Spec => HaltKeepsThread)
<1> SUFFICES ASSUME ~EarlySwitch PROVE Spec => HaltKeepsThread
    OBVIOUS
<1>1. ASSUME IInv, [Next]_vars
      PROVE  /\ HaltBaseShell => esp0' = esp0 /\ cur_process' = cur_process
             /\ HaltAux => esp0' = parentPCB[esp0] /\ esp0' = Top(cur_process)'
    <2>1. ASSUME HaltBaseShell PROVE esp0' = esp0 /\ cur_process' = cur_process
        <3>1. Running
            BY <2>1 DEF HaltBaseShell, Running
        <3>2. live = booted /\ shell_init_boot = 0 /\ esp0 \in booted /\ esp0 \in Terminals
            BY <1>1, <2>1, <3>1, RunningFacts DEF HaltBaseShell, IInv, SlotsMatch
        <3> QED
            BY <1>1, <2>1, <3>2, ExecuteReboots DEF HaltBaseShell, IInv
    <2>2. ASSUME HaltAux PROVE esp0' = parentPCB[esp0] /\ esp0' = Top(cur_process)'
        BY <1>1, <2>2, HaltAuxKeeps DEF HaltAux
    <2> QED
        BY <2>1, <2>2
<1>2. Spec => []IInv
    BY Invariance
<1> QED
    BY <1>1, <1>2, PTL DEF Spec, HaltKeepsThread

(***************************************************************************)
(* The places of the processes in their chains.                            *)
(***************************************************************************)

(* The parent links form chains too, and a base shell ends its own.         *)
ParentsRooted ==
    /\ parentPCB \in Links
    /\ \A t \in booted : parentPCB[t] = Nil

LEMMA ChainFinite ==
    ASSUME NEW f \in Links, NEW t \in Pids
    PROVE  IsFiniteSet(ChainOf(f, t))
<1>1. IsFiniteSet(Pids)
    BY MaxAuxAssumption, FS_Interval DEF Pids
<1> QED
    BY <1>1, ChainBasics, FS_Subset

(* The walk up from a process stays in its chain.                           *)
LEMMA ParentsInChain ==
    ASSUME IInv, ParentsRooted, NEW t \in booted, NEW p \in Chain(t)
    PROVE  p \in Pids /\ ChainOf(parentPCB, p) \subseteq Chain(t)
<1>1. childPCB \in Links /\ t \in Pids /\ parentPCB \in Links
    BY PidsAreBlocks DEF IInv, TypeOK, Links, ParentsRooted
<1>2. Chain(t) \subseteq Pids /\ Chain(t) \subseteq active
    BY <1>1, ChainBasics DEF Chain, IInv, ChainsPartition
<1>3. ClosedUnder(parentPCB, Chain(t))
    <2> SUFFICES ASSUME NEW q \in Chain(t), parentPCB[q] # Nil
                 PROVE  parentPCB[q] \in Chain(t)
        BY DEF ClosedUnder
    <2>1. q \in active /\ q \in Pids
        BY <1>2
    <2>2. q \in AuxPids
        BY <2>1, PidsAreBlocks DEF ParentsRooted, IInv, SlotsMatch
    <2> DEFINE r == parentPCB[q]
    <2>3. r \in active /\ childPCB[r] = q /\ q # Nil
        BY <2>1, <2>2, PidsAreBlocks DEF IInv, LinksInverse
    <2>4. PICK u \in booted : r \in Chain(u)
        BY <2>3 DEF IInv, ChainsPartition
    <2>5. q \in Chain(u)
        BY <1>1, <2>3, <2>4, ChainBasics, PidsAreBlocks DEF Chain, ClosedUnder, IInv, TypeOK
    <2>6. u = t
        BY <2>5 DEF IInv, ChainsPartition
    <2> QED
        BY <2>4, <2>6
<1> QED
    BY <1>1, <1>2, <1>3, ChainLeast

(* From every process of a chain the walk down ends at the chain's end.     *)
LEMMA EndFromAll ==
    ASSUME NEW f \in Links, NEW t \in Pids, NEW e \in ChainOf(f, t), f[e] = Nil,
           NEW p \in ChainOf(f, t)
    PROVE  e \in ChainOf(f, p)
<1> DEFINE S == {q \in ChainOf(f, t) : e \in ChainOf(f, q)}
<1>1. S \in SUBSET Pids /\ t \in S
    BY ChainBasics
<1>2. ClosedUnder(f, S)
    <2> SUFFICES ASSUME NEW q \in S, f[q] # Nil
                 PROVE  f[q] \in S
        BY DEF ClosedUnder
    <2>1. q \in Pids /\ f[q] \in ChainOf(f, t) /\ f[q] \in Pids
        BY <1>1, ChainBasics DEF ClosedUnder
    <2>2. ClosedUnder(f, {q} \cup ChainOf(f, f[q])) /\ {q} \cup ChainOf(f, f[q]) \in SUBSET Pids
        BY <2>1, ChainBasics DEF ClosedUnder
    <2>3. ChainOf(f, q) \subseteq {q} \cup ChainOf(f, f[q])
        BY <2>1, <2>2, ChainLeast
    <2> QED
        BY <2>1, <2>3
<1> QED
    BY <1>1, <1>2, ChainLeast

(* The top's place is the length of its chain, because the walk up from it  *)
(* meets the whole chain; no place is larger.                               *)
TopPlaced ==
    \A t \in booted :
        /\ IsFiniteSet(Chain(t)) /\ Cardinality(Chain(t)) \in Nat \ {0}
        /\ Place(Top(t)) = Cardinality(Chain(t))
        /\ \A p \in Chain(t) : Place(p) \in Nat /\ Place(p) <= Cardinality(Chain(t))

LEMMA TopPlace == IInv /\ ParentsRooted => TopPlaced
<1> SUFFICES ASSUME IInv, ParentsRooted, NEW t \in booted
             PROVE  /\ IsFiniteSet(Chain(t)) /\ Cardinality(Chain(t)) \in Nat \ {0}
                    /\ Place(Top(t)) = Cardinality(Chain(t))
                    /\ \A p \in Chain(t) : Place(p) \in Nat /\ Place(p) <= Cardinality(Chain(t))
    BY DEF TopPlaced
<1>1. childPCB \in Links /\ parentPCB \in Links /\ t \in Pids
    BY PidsAreBlocks DEF IInv, TypeOK, Links, ParentsRooted
<1>2. IsFiniteSet(Chain(t)) /\ t \in Chain(t) /\ Chain(t) \subseteq Pids
    BY <1>1, ChainFinite, ChainBasics DEF Chain
<1>3. Cardinality(Chain(t)) \in Nat \ {0}
    BY <1>2, FS_CardinalityType, FS_EmptySet
<1>4. \A p \in Chain(t) : Place(p) \in Nat /\ Place(p) <= Cardinality(Chain(t))
    <2> SUFFICES ASSUME NEW p \in Chain(t)
                 PROVE  Place(p) \in Nat /\ Place(p) <= Cardinality(Chain(t))
        OBVIOUS
    <2>1. ChainOf(parentPCB, p) \subseteq Chain(t)
        BY ParentsInChain
    <2> QED
        BY <1>2, <2>1, FS_Subset, FS_CardinalityType DEF Place
<1>5. Top(t) \in Chain(t) /\ childPCB[Top(t)] = Nil
    BY TopFacts
<1>6. ChainOf(parentPCB, Top(t)) = Chain(t)
    <2>1. ASSUME NEW p \in Chain(t)
          PROVE  p \in ChainOf(parentPCB, Top(t))
        <3>1. p \in Pids /\ Top(t) \in ChainOf(childPCB, p)
            BY <1>1, <1>2, <1>5, EndFromAll DEF Chain
        <3> QED
            BY <1>1, <3>1, WalkBack
    <2> QED
        BY <1>5, <2>1, ParentsInChain
<1> QED
    BY <1>2, <1>3, <1>4, <1>6 DEF Place

(* Every place of a chain is one process's.                                 *)
PlacesTaken ==
    \A t \in booted : \A i \in 1..Cardinality(Chain(t)) :
        \E p \in Chain(t) : AtPlace(t, i) = {p}

(* The invariant of the refinement.                                         *)
StackInv == IInv /\ ParentsRooted /\ PlacesTaken

(* A chain in order is a sequence of its processes.                         *)
LEMMA OrderFacts ==
    ASSUME StackInv, NEW t \in booted
    PROVE  /\ Cardinality(Chain(t)) \in Nat \ {0} /\ Chain(t) \subseteq active
           /\ ChainInOrder(t) \in Seq(Pids) /\ Len(ChainInOrder(t)) = Cardinality(Chain(t))
           /\ \A i \in 1..Cardinality(Chain(t)) : ChainInOrder(t)[i] \in Chain(t)
<1>1. Cardinality(Chain(t)) \in Nat \ {0}
    BY TopPlace DEF StackInv, TopPlaced
<1>2. Chain(t) \subseteq active /\ active \subseteq Pids
    BY DEF StackInv, IInv, TypeOK, ChainsPartition
<1>3. ASSUME NEW i \in 1..Cardinality(Chain(t))
      PROVE  Only(AtPlace(t, i)) \in Chain(t)
    <2>1. PICK p \in Chain(t) : AtPlace(t, i) = {p}
        BY DEF StackInv, PlacesTaken
    <2> QED
        BY <2>1 DEF Only
<1> QED
    BY <1>1, <1>2, <1>3 DEF ChainInOrder

(* Where no process of a chain gets another parent, all keep their places.  *)
LEMMA PlacesStay ==
    ASSUME IInv, ParentsRooted, parentPCB' \in Links, NEW t \in booted,
           \A p \in Chain(t) : parentPCB'[p] = parentPCB[p]
    PROVE  \A p \in Chain(t) : Place(p)' = Place(p)
<1> SUFFICES ASSUME NEW p \in Chain(t)
             PROVE  Place(p)' = Place(p)
    OBVIOUS
<1>1. p \in Pids /\ ChainOf(parentPCB, p) \subseteq Chain(t) /\ parentPCB \in Links
    BY ParentsInChain DEF ParentsRooted
<1>2. ChainOf(parentPCB', p) = ChainOf(parentPCB, p)
    BY <1>1, ChainFrame
<1> QED
    BY <1>2 DEF Place

(* ... and if the chain has the same processes, it is in the same order.    *)
LEMMA OrderStays ==
    ASSUME StackInv, parentPCB' \in Links, NEW t \in booted,
           \A p \in Chain(t) : parentPCB'[p] = parentPCB[p], Chain(t)' = Chain(t)
    PROVE  /\ ChainInOrder(t)' = ChainInOrder(t)
           /\ \A i \in 1..Cardinality(Chain(t))' : \E p \in Chain(t)' : AtPlace(t, i)' = {p}
<1>1. \A p \in Chain(t) : Place(p)' = Place(p)
    BY PlacesStay DEF StackInv
<1>2. \A i : AtPlace(t, i)' = AtPlace(t, i)
    BY <1>1 DEF AtPlace
<1>3. Cardinality(Chain(t))' = Cardinality(Chain(t))
    OBVIOUS
<1>4. ChainInOrder(t)' = ChainInOrder(t)
    BY <1>2, <1>3 DEF ChainInOrder
<1> QED
    BY <1>2, <1>3, <1>4 DEF StackInv, PlacesTaken

(***************************************************************************)
(* The stacks of a state, and the steps of ShellStacks in their terms.     *)
(***************************************************************************)
Stack == [t \in Terminals |-> IF t \in booted THEN ChainInOrder(t) ELSE <<>>]

RunningTerminal == IF mode = "boot" THEN 0 ELSE cur_process

LEMMA StackFacts ==
    ASSUME StackInv
    PROVE  /\ \A t \in Terminals : Stack[t] # <<>> <=> t \in booted
           /\ \A t \in Terminals : \A i \in 1..Len(Stack[t]) : Stack[t][i] \in active
<1>1. ASSUME NEW t \in booted
      PROVE  /\ ChainInOrder(t) # <<>>
             /\ \A i \in 1..Len(ChainInOrder(t)) : ChainInOrder(t)[i] \in active
    <2>1. /\ Cardinality(Chain(t)) \in Nat \ {0} /\ Chain(t) \subseteq active
          /\ Len(ChainInOrder(t)) = Cardinality(Chain(t))
          /\ \A i \in 1..Cardinality(Chain(t)) : ChainInOrder(t)[i] \in Chain(t)
        BY OrderFacts
    <2>2. ChainInOrder(t) # <<>>
        BY <2>1
    <2> QED
        BY <2>1, <2>2
<1> QED
    BY <1>1 DEF Stack

LEMMA StartMaps ==
    ASSUME NEW t \in Terminals, Stack[t] = <<>>,
           Stack' = [Stack EXCEPT ![t] = <<t>>], RunningTerminal' = t
    PROVE  Stacks!Next
<1>1. Stacks!Start(t)
    BY DEF Stacks!Start, Stacks!Started, Stack, RunningTerminal
<1> QED
    BY <1>1 DEF Stacks!Next

LEMMA PreemptMaps ==
    ASSUME NEW t \in Terminals, Stack[t] # <<>>, RunningTerminal # 0,
           Stack' = Stack, RunningTerminal' = t
    PROVE  Stacks!Next
<1>1. Stacks!Preempt(t)
    BY DEF Stacks!Preempt, Stacks!Started, Stack, RunningTerminal
<1> QED
    BY <1>1 DEF Stacks!Next

LEMMA SpawnMaps ==
    ASSUME NEW p \in AuxPids, RunningTerminal # 0,
           \A t \in Terminals : \A i \in 1..Len(Stack[t]) : Stack[t][i] # p,
           Stack' = [Stack EXCEPT ![RunningTerminal] = Append(@, p)],
           RunningTerminal' = RunningTerminal
    PROVE  Stacks!Next
<1>1. p \notin Stacks!InUse
    BY DEF Stacks!InUse, Stack
<1>2. Stacks!Spawn(p)
    BY <1>1 DEF Stacks!Spawn, Stack, RunningTerminal
<1> QED
    BY <1>2 DEF Stacks!Next

LEMMA ExitMaps ==
    ASSUME RunningTerminal # 0, Len(Stack[RunningTerminal]) > 1,
           Stack' = [Stack EXCEPT ![RunningTerminal] = SubSeq(@, 1, Len(@) - 1)],
           RunningTerminal' = RunningTerminal
    PROVE  Stacks!Next
<1>1. Stacks!Exit
    BY DEF Stacks!Exit, Stack, RunningTerminal
<1> QED
    BY <1>1 DEF Stacks!Next

LEMMA StutterMaps ==
    ASSUME Stack' = Stack, RunningTerminal' = RunningTerminal
    PROVE  UNCHANGED Stacks!vars
BY DEF Stacks!vars, Stack, RunningTerminal

(* A sequence is determined by its length and its elements.                 *)
LEMMA AppendIs ==
    ASSUME NEW n \in Nat, NEW s \in Seq(Pids), Len(s) = n, NEW x \in Pids,
           NEW F \in [1..(n + 1) -> Pids],
           \A i \in 1..n : F[i] = s[i], F[n + 1] = x
    PROVE  F = Append(s, x)
<1>1. F \in Seq(Pids) /\ Len(F) = n + 1
    OBVIOUS
<1>2. Append(s, x) \in Seq(Pids) /\ Len(Append(s, x)) = n + 1
    OBVIOUS
<1>3. ASSUME NEW i \in 1..(n + 1)
      PROVE  F[i] = Append(s, x)[i]
    <2>1. CASE i \in 1..n
        BY <2>1
    <2>2. CASE i = n + 1
        BY <2>2
    <2> QED
        BY <2>1, <2>2
<1> QED
    BY <1>1, <1>2, <1>3, SeqEqual

LEMMA SubSeqIs ==
    ASSUME NEW n \in Nat \ {0}, NEW s \in Seq(Pids), Len(s) = n,
           NEW F \in [1..(n - 1) -> Pids], \A i \in 1..(n - 1) : F[i] = s[i]
    PROVE  F = SubSeq(s, 1, n - 1)
<1>1. \A i \in 1..(n - 1) : s[i] \in Pids
    BY ElementOfSeq
<1>2. F \in Seq(Pids) /\ Len(F) = n - 1
    BY <1>1
<1>3. /\ SubSeq(s, 1, n - 1) \in Seq(Pids) /\ Len(SubSeq(s, 1, n - 1)) = n - 1
      /\ \A i \in 1..(n - 1) : SubSeq(s, 1, n - 1)[i] = s[i]
    <2>1. /\ SubSeq(s, 1, n - 1) \in Seq(Pids)
          /\ Len(SubSeq(s, 1, n - 1)) = IF 1 <= n - 1 THEN (n - 1) - 1 + 1 ELSE 0
          /\ \A i \in 1..((n - 1) - 1 + 1) : SubSeq(s, 1, n - 1)[i] = s[1 + i - 1]
        BY <1>1, SubSeqProperties
    <2> QED
        BY <2>1
<1> QED
    BY <1>2, <1>3, SeqEqual

(***************************************************************************)
(* Each handler keeps the invariant and maps to a step of the stacks.      *)
(***************************************************************************)
Maps == ParentsRooted' /\ PlacesTaken' /\ [Stacks!Next]_Stacks!vars

(* A handler that leaves the links and the terminals alone.                 *)
LEMMA StillStacks ==
    ASSUME StackInv, UNCHANGED <<booted, childPCB, parentPCB>>
    PROVE  ParentsRooted' /\ PlacesTaken' /\ Stack' = Stack
<1>1. \A t, i : Chain(t)' = Chain(t) /\ AtPlace(t, i)' = AtPlace(t, i)
    BY DEF Chain, AtPlace, Place
<1>2. \A t : ChainInOrder(t)' = ChainInOrder(t)
    BY <1>1 DEF ChainInOrder
<1> QED
    BY <1>1, <1>2 DEF StackInv, ParentsRooted, PlacesTaken, Stack

(* entry() starts shell 1.                                                  *)
LEMMA BootMaps ==
    ASSUME StackInv, IInv', Boot
    PROVE  Maps
<1>1. Init /\ shell_init_boot = 1 /\ 1 \in Terminals /\ 0 \in Blocks /\ 1 \in Pids /\ cur_process' = 1
    BY PidsAreBlocks DEF StackInv, IInv, Boot, Init, Terminals
<1>2. TypeOK /\ ExecuteFrom(0, "shell", 1, live, suspended)
    BY <1>1 DEF StackInv, IInv, Boot
<1>3. /\ booted' = {1} /\ mode' = "user"
      /\ parentPCB' = [parentPCB EXCEPT ![1] = Nil]
      /\ childPCB' \in Links /\ \A p \in Blocks : childPCB'[p] = Nil
    BY <1>1, <1>2, ExecuteBoots DEF Init
<1>4. ParentsRooted'
    BY <1>1, <1>3, PidsAreBlocks DEF Init, ParentsRooted, Links
<1>5. Chain(1)' = {1} /\ Place(1)' = 1
    <2>1. childPCB'[1] = Nil /\ parentPCB'[1] = Nil /\ parentPCB' \in Links
        BY <1>1, <1>3, <1>4, PidsAreBlocks DEF ParentsRooted
    <2>2. ChainOf(childPCB', 1) = {1} /\ ChainOf(parentPCB', 1) = {1}
        BY <1>1, <1>3, <2>1, ChainSingle
    <2> QED
        BY <2>2, FS_Singleton DEF Chain, Place
<1>6. AtPlace(1, 1)' = {1} /\ Cardinality(Chain(1))' = 1
    BY <1>5, FS_Singleton DEF AtPlace
<1>7. PlacesTaken'
    BY <1>3, <1>5, <1>6 DEF PlacesTaken
<1>8. ChainInOrder(1)' = <<1>>
    BY <1>6 DEF ChainInOrder, Only
<1>9. Stack[1] = <<>> /\ Stack' = [Stack EXCEPT ![1] = <<1>>] /\ RunningTerminal' = 1
    BY <1>1, <1>3, <1>8 DEF Init, Stack, RunningTerminal
<1> QED
    BY <1>1, <1>4, <1>7, <1>9, StartMaps DEF Maps

(* Alt+Fn starts a terminal: a stack of its own, and no other changes.      *)
LEMMA BootTerminalMaps ==
    ASSUME StackInv, IInv', Running, NEW sel \in Terminals, BootTerminal(sel)
    PROVE  Maps
<1>1. /\ sel \notin booted /\ sel \notin active /\ cur_process' = sel
      /\ booted' = booted \cup {sel} /\ mode' = "user"
      /\ parentPCB' = [parentPCB EXCEPT ![sel] = Nil]
      /\ \A t \in booted : Chain(t)' = Chain(t)
      /\ Chain(sel)' = {sel}
    BY BootTerminalChains DEF StackInv
<1>2. sel \in Pids /\ sel \in Blocks
    BY PidsAreBlocks
<1>3. ParentsRooted'
    BY <1>1, <1>2, PidsAreBlocks DEF StackInv, ParentsRooted, Links
<1>4. ASSUME NEW t \in booted
      PROVE  /\ ChainInOrder(t)' = ChainInOrder(t)
             /\ \A i \in 1..Cardinality(Chain(t))' : \E p \in Chain(t)' : AtPlace(t, i)' = {p}
    <2>1. \A p \in Chain(t) : p # sel /\ p \in Blocks
        BY <1>1, OrderFacts, PidsAreBlocks DEF StackInv, IInv, TypeOK
    <2>2. \A p \in Chain(t) : parentPCB'[p] = parentPCB[p]
        BY <1>1, <2>1 DEF StackInv, ParentsRooted, Links
    <2>3. parentPCB' \in Links /\ Chain(t)' = Chain(t)
        BY <1>1, <1>3 DEF ParentsRooted
    <2> QED
        BY <2>2, <2>3, OrderStays
<1>5. Place(sel)' = 1
    <2>1. ChainOf(parentPCB', sel) = {sel}
        BY <1>1, <1>2, <1>3, ChainSingle DEF ParentsRooted
    <2> QED
        BY <2>1, FS_Singleton DEF Place
<1>6. AtPlace(sel, 1)' = {sel} /\ Cardinality(Chain(sel))' = 1
    BY <1>1, <1>5, FS_Singleton DEF AtPlace
<1>7. PlacesTaken'
    BY <1>1, <1>4, <1>6 DEF PlacesTaken
<1>8. ChainInOrder(sel)' = <<sel>>
    BY <1>6 DEF ChainInOrder, Only
<1>9. Stack[sel] = <<>> /\ Stack' = [Stack EXCEPT ![sel] = <<sel>>] /\ RunningTerminal' = sel
    BY <1>1, <1>4, <1>8 DEF Stack, RunningTerminal
<1> QED
    BY <1>3, <1>7, <1>9, StartMaps DEF Maps

(* A program starts on top of the current thread's stack.                   *)
LEMMA StartedMaps ==
    ASSUME StackInv, IInv', Running, NEW next \in FreeSlots, Started(next), UNCHANGED cur_process
    PROVE  Maps
<1>1. /\ Chain(cur_process)' = Chain(cur_process) \cup {next} /\ Top(cur_process)' = next
      /\ \A t \in booted \ {cur_process} : Chain(t)' = Chain(t)
    BY StartedChains DEF StackInv
<1>2. /\ next \in AuxPids /\ next \notin active /\ next \in Pids /\ next \in Blocks
      /\ next \notin Terminals /\ next # Nil
    BY PidsAreBlocks DEF FreeSlots
<1>3. cur_process \in booted /\ esp0 \in Pids /\ booted \subseteq Terminals
    BY RunningFacts DEF StackInv, IInv, TypeOK
<1>4. /\ booted' = booted /\ mode' = "user" /\ mode # "boot"
      /\ parentPCB' = [parentPCB EXCEPT ![next] = esp0]
    BY DEF Started, masks, Running
<1>5. ParentsRooted'
    BY <1>2, <1>3, <1>4 DEF StackInv, ParentsRooted, Links
<1>6. TopPlaced'
    BY <1>5, TopPlace, PTL
<1>7. ASSUME NEW t \in booted
      PROVE  \A p \in Chain(t) : parentPCB'[p] = parentPCB[p] /\ p # next
    <2>1. \A p \in Chain(t) : p # next /\ p \in Blocks
        BY <1>2, OrderFacts, PidsAreBlocks DEF StackInv, IInv, TypeOK
    <2> QED
        BY <1>4, <2>1 DEF StackInv, ParentsRooted, Links
<1>8. parentPCB' \in Links
    BY <1>5 DEF ParentsRooted
<1>9. ASSUME NEW t \in booted \ {cur_process}
      PROVE  /\ ChainInOrder(t)' = ChainInOrder(t)
             /\ \A i \in 1..Cardinality(Chain(t))' : \E p \in Chain(t)' : AtPlace(t, i)' = {p}
    BY <1>1, <1>7, <1>8, OrderStays
<1> PICK c \in booted : c = cur_process
    BY <1>3
<1> PICK n \in Nat \ {0} : n = Cardinality(Chain(c))
    BY OrderFacts
<1>10. /\ IsFiniteSet(Chain(c)) /\ next \notin Chain(c)
       /\ \A p \in Chain(c) : Place(p) \in Nat /\ Place(p) <= n
    BY <1>3, <1>7, TopPlace DEF StackInv, TopPlaced
<1>11. Chain(c)' = Chain(c) \cup {next} /\ Cardinality(Chain(c))' = n + 1 /\ Top(c)' = next
    <2>1. Chain(c)' = Chain(c) \cup {next} /\ Top(c)' = next
        BY <1>1 DEF Chain, Top
    <2> QED
        BY <1>10, <2>1, FS_AddElement
<1>12. Place(next)' = n + 1
    <2>1. Place(Top(c))' = Cardinality(Chain(c))'
        BY <1>4, <1>6 DEF TopPlaced
    <2> QED
        BY <1>11, <2>1 DEF Place
<1>13. \A p \in Chain(c) : Place(p)' = Place(p)
    BY <1>3, <1>7, <1>8, PlacesStay DEF StackInv
<1>14. AtPlace(c, n + 1)' = {next}
    BY <1>10, <1>11, <1>12, <1>13 DEF AtPlace
<1>15. \A i \in 1..n : AtPlace(c, i)' = AtPlace(c, i)
    BY <1>10, <1>11, <1>12, <1>13 DEF AtPlace
<1>16. PlacesTaken'
    <2>1. ASSUME NEW i \in 1..(n + 1)
          PROVE  \E p \in Chain(c)' : AtPlace(c, i)' = {p}
        <3>1. CASE i = n + 1
            BY <1>11, <1>14, <3>1
        <3>2. CASE i \in 1..n
            BY <1>3, <1>11, <1>15, <3>2 DEF StackInv, PlacesTaken
        <3> QED
            BY <1>10, <3>1, <3>2
    <2> QED
        BY <1>4, <1>9, <1>11, <2>1 DEF PlacesTaken
<1>17. ChainInOrder(c)' = Append(ChainInOrder(c), next)
    <2>1. ChainInOrder(c) \in Seq(Pids) /\ Len(ChainInOrder(c)) = n
        BY <1>3, OrderFacts
    <2>2. ChainInOrder(c)' = [i \in 1..(n + 1) |-> Only(AtPlace(c, i)')]
        BY <1>11 DEF ChainInOrder, Only
    <2>3. ASSUME NEW i \in 1..n
          PROVE  Only(AtPlace(c, i)') = ChainInOrder(c)[i]
        BY <1>15, <2>3 DEF ChainInOrder
    <2>4. Only(AtPlace(c, n + 1)') = next
        BY <1>14 DEF Only
    <2> DEFINE new == [i \in 1..(n + 1) |-> Only(AtPlace(c, i)')]
    <2>5. /\ new \in [1..(n + 1) -> Pids]
          /\ \A i \in 1..n : new[i] = ChainInOrder(c)[i]
          /\ new[n + 1] = next
        <3>1. \A i \in 1..n : ChainInOrder(c)[i] \in Pids
            BY <2>1, ElementOfSeq
        <3>2. ASSUME NEW i \in 1..(n + 1)
              PROVE  Only(AtPlace(c, i)') \in Pids
            <4>1. CASE i \in 1..n
                BY <2>3, <3>1, <4>1
            <4>2. CASE i = n + 1
                BY <1>2, <2>4, <4>2
            <4> QED
                BY <4>1, <4>2
        <3> QED
            BY <2>3, <2>4, <3>2
    <2>6. new = Append(ChainInOrder(c), next)
        <3> HIDE DEF new
        <3> QED
            BY <1>2, <2>1, <2>5, AppendIs
    <2> QED
        BY <2>2, <2>6
<1>18. /\ RunningTerminal = c /\ RunningTerminal' = c /\ c \in Terminals /\ c # 0
    BY <1>3, <1>4 DEF RunningTerminal, Terminals
<1>19. Stack' = [Stack EXCEPT ![c] = Append(@, next)]
    BY <1>3, <1>4, <1>9, <1>17 DEF Stack
<1>20. \A t \in Terminals : \A i \in 1..Len(Stack[t]) : Stack[t][i] # next
    BY <1>2, StackFacts
<1> QED
    BY <1>2, <1>5, <1>16, <1>18, <1>19, <1>20, SpawnMaps DEF Maps

(* halt of another program takes the top off the current thread's stack.    *)
LEMMA HaltAuxMaps ==
    ASSUME StackInv, IInv', HaltAux
    PROVE  Maps
<1>1. Running /\ IInv /\ ParentsRooted
    BY DEF HaltAux, Running, StackInv
<1> PICK c \in booted : c = cur_process
    BY <1>1, RunningFacts
<1> PICK p \in Pids : p = esp0
    BY <1>1, RunningFacts
<1>2. /\ UNCHANGED <<booted, parentPCB, cur_process>>
      /\ mode # "boot" /\ mode' # "boot" /\ parentPCB' \in Links
    BY <1>1 DEF HaltAux, masks, ParentsRooted
<1>3. ParentsRooted'
    BY <1>1, <1>2 DEF ParentsRooted
<1>4. /\ Chain(c)' = Chain(c) \ {p} /\ parentPCB[p] \in Chain(c)' /\ p \in Chain(c)
      /\ p = Top(c) /\ \A t \in booted \ {c} : Chain(t)' = Chain(t)
    <2>1. /\ parentPCB[esp0] = Top(cur_process)'
          /\ Chain(cur_process)' = Chain(cur_process) \ {esp0}
          /\ esp0 \in Chain(cur_process) /\ esp0 = Top(cur_process)
          /\ \A t \in booted \ {cur_process} : Chain(t)' = Chain(t)
        BY <1>1, HaltAuxChains, HaltAuxKeeps, RunningFacts
    <2>2. \A t : t = cur_process => Chain(t)' = Chain(cur_process)' /\ Top(t)' = Top(cur_process)'
        BY <1>2 DEF Chain, Top
    <2>3. parentPCB[esp0] \in Chain(cur_process) /\ parentPCB[esp0] # esp0
        <3>1. /\ esp0 \in active \cap AuxPids /\ esp0 # Nil /\ childPCB[esp0] = Nil
            BY <1>1, RunningFacts, PidsAreBlocks DEF HaltAux
        <3> QED
            BY <1>1, <3>1, HaltAuxChains DEF IInv, LinksInverse
    <2> QED
        BY <2>1, <2>2, <2>3
<1>5. \A t \in booted : \A q \in Chain(t) : parentPCB'[q] = parentPCB[q]
    BY <1>2
<1>6. ASSUME NEW t \in booted \ {c}
      PROVE  /\ ChainInOrder(t)' = ChainInOrder(t)
             /\ \A i \in 1..Cardinality(Chain(t))' : \E q \in Chain(t)' : AtPlace(t, i)' = {q}
    BY <1>2, <1>4, <1>5, OrderStays
<1> PICK n \in Nat \ {0} : n = Cardinality(Chain(c))
    BY OrderFacts
<1>7. IsFiniteSet(Chain(c)) /\ Place(p) = n
    BY <1>1, <1>4, TopPlace DEF TopPlaced
<1>8. Cardinality(Chain(c))' = n - 1
    BY <1>4, <1>7, FS_RemoveElement
<1>9. n > 1
    <2>1. IsFiniteSet(Chain(c)') /\ Chain(c)' # {}
        BY <1>4, <1>7, FS_Subset
    <2>2. Cardinality(Chain(c)') # 0 /\ Cardinality(Chain(c)') \in Nat
        BY <2>1, FS_EmptySet, FS_CardinalityType
    <2> QED
        BY <1>8, <2>2
<1>10. \A q \in Chain(c) : Place(q)' = Place(q)
    BY <1>1, <1>2, <1>5, PlacesStay
<1>11. \A i \in 1..(n - 1) : AtPlace(c, i)' = AtPlace(c, i)
    <2> SUFFICES ASSUME NEW i \in 1..(n - 1)
                 PROVE  AtPlace(c, i)' = AtPlace(c, i)
        OBVIOUS
    <2>1. AtPlace(c, i)' = {q \in Chain(c)' : Place(q)' = i}
        BY DEF AtPlace
    <2>2. i # n
        OBVIOUS
    <2> QED
        BY <1>4, <1>7, <1>10, <2>1, <2>2 DEF AtPlace
<1>12. PlacesTaken'
    <2>1. ASSUME NEW i \in 1..(n - 1)
          PROVE  \E q \in Chain(c)' : AtPlace(c, i)' = {q}
        <3>1. PICK q \in Chain(c) : AtPlace(c, i) = {q}
            BY DEF StackInv, PlacesTaken
        <3>2. Place(q) = i
            BY <3>1 DEF AtPlace
        <3>3. q # p
            BY <1>7, <3>2
        <3> QED
            BY <1>4, <1>11, <3>1, <3>3
    <2> QED
        BY <1>2, <1>6, <1>8, <2>1 DEF PlacesTaken
<1>13. ChainInOrder(c)' = SubSeq(ChainInOrder(c), 1, n - 1)
    <2>1. /\ ChainInOrder(c) \in Seq(Pids) /\ Len(ChainInOrder(c)) = n
          /\ \A i \in 1..n : ChainInOrder(c)[i] \in Pids
        BY OrderFacts, ElementOfSeq
    <2>2. ChainInOrder(c)' = [i \in 1..(n - 1) |-> Only(AtPlace(c, i)')]
        BY <1>8 DEF ChainInOrder, Only
    <2>3. ASSUME NEW i \in 1..(n - 1)
          PROVE  Only(AtPlace(c, i)') = ChainInOrder(c)[i]
        BY <1>11 DEF ChainInOrder
    <2> DEFINE new == [i \in 1..(n - 1) |-> Only(AtPlace(c, i)')]
    <2>4. /\ new \in [1..(n - 1) -> Pids]
          /\ \A i \in 1..(n - 1) : new[i] = ChainInOrder(c)[i]
        BY <2>1, <2>3
    <2>5. new = SubSeq(ChainInOrder(c), 1, n - 1)
        <3> HIDE DEF new
        <3> QED
            BY <2>1, <2>4, SubSeqIs
    <2> QED
        BY <2>2, <2>5
<1>14. c \in Terminals /\ c # 0 /\ RunningTerminal = c /\ RunningTerminal' = c
    BY <1>1, <1>2 DEF IInv, TypeOK, RunningTerminal, Terminals
<1>15. Stack[c] = ChainInOrder(c) /\ Len(Stack[c]) = n
    BY <1>14, OrderFacts DEF Stack
<1>16. Stack' = [Stack EXCEPT ![c] = SubSeq(@, 1, Len(@) - 1)]
    <2>1. \A t \in Terminals : Stack'[t] = IF t = c THEN SubSeq(Stack[c], 1, n - 1) ELSE Stack[t]
        BY <1>2, <1>6, <1>13, <1>15 DEF Stack
    <2> QED
        BY <1>14, <1>15, <2>1 DEF Stack
<1> QED
    BY <1>3, <1>9, <1>12, <1>14, <1>15, <1>16, ExitMaps DEF Maps

(* halt of a base shell: the same links, since the shell has no parent.     *)
LEMMA HaltBaseShellMaps ==
    ASSUME StackInv, HaltBaseShell
    PROVE  Maps
<1>1. /\ Running /\ IInv /\ ParentsRooted /\ TypeOK /\ esp0 \in Terminals
      /\ UNCHANGED cur_process /\ mode # "boot"
    BY DEF HaltBaseShell, Running, StackInv, IInv
<1>2. /\ live = booted /\ shell_init_boot = 0 /\ esp0 \in active
      /\ childPCB[esp0] = Nil /\ esp0 \in Blocks
    BY <1>1, RunningFacts
<1>3. esp0 \in booted
    BY <1>1, <1>2 DEF IInv, SlotsMatch
<1>4. /\ booted' = booted /\ mode' = "user"
      /\ parentPCB' = [parentPCB EXCEPT ![esp0] = Nil] /\ childPCB' \in Links
      /\ \A p \in Blocks : childPCB'[p] = IF p = esp0 THEN Nil ELSE childPCB[p]
    BY <1>1, <1>2, <1>3, ExecuteReboots DEF HaltBaseShell
<1>5. childPCB' = childPCB /\ parentPCB' = parentPCB
    BY <1>1, <1>2, <1>3, <1>4 DEF TypeOK, Links, ParentsRooted
<1>6. ParentsRooted' /\ PlacesTaken' /\ Stack' = Stack
    BY <1>4, <1>5, StillStacks
<1>7. RunningTerminal' = RunningTerminal
    BY <1>1, <1>4 DEF RunningTerminal
<1> QED
    BY <1>6, <1>7, StutterMaps DEF Maps

(* execute, as a system call.                                               *)
LEMMA ExecuteMaps ==
    ASSUME StackInv, IInv', NEW cmd \in Commands, Execute(cmd)
    PROVE  Maps
<1>1. Running /\ UNCHANGED cur_process /\ IInv
    BY DEF Execute, Running, StackInv
<1>2. Unstarted \/ \E next \in FreeSlots : aux_processes < MaxAux /\ Started(next)
    BY <1>1, ExecuteStarts DEF Execute
<1>3. CASE Unstarted
    <2>1. ParentsRooted' /\ PlacesTaken' /\ Stack' = Stack
        BY <1>3, StillStacks DEF Unstarted, masks, links
    <2>2. RunningTerminal' = RunningTerminal
        BY <1>1, <1>3 DEF Unstarted, Running, RunningTerminal
    <2> QED
        BY <2>1, <2>2, StutterMaps DEF Maps
<1>4. CASE \E next \in FreeSlots : aux_processes < MaxAux /\ Started(next)
    BY <1>1, <1>4, StartedMaps
<1> QED
    BY <1>2, <1>3, <1>4

(* The timer gives the processor to another stack.                          *)
LEMMA PitTickMaps ==
    ASSUME StackInv, PitTick
    PROVE  Maps
<1>1. /\ IInv /\ TypeOK /\ UNCHANGED <<booted, childPCB, parentPCB>>
      /\ cur_process' = NextOf(booted, cur_process)
      /\ cur_process' = cur_process => mode' = mode
    BY DEF PitTick, masks, links, cpu, StackInv, IInv
<1>2. ParentsRooted' /\ PlacesTaken' /\ Stack' = Stack
    BY <1>1, StillStacks
<1>3. CASE cur_process' = cur_process
    <2>1. RunningTerminal' = RunningTerminal
        BY <1>1, <1>3 DEF RunningTerminal
    <2> QED
        BY <1>2, <2>1, StutterMaps DEF Maps
<1>4. CASE cur_process' # cur_process
    <2>1. mode # "boot"
        BY <1>1, <1>4 DEF IInv, Init, NextOf
    <2>2. 1 \in booted
        BY <1>1, <2>1 DEF IInv, NoPendingShell
    <2> PICK t \in booted : t = cur_process'
        BY <1>1, <2>2, NextOfBooted
    <2>3. t \in Terminals /\ Stack[t] # <<>>
        BY <1>1, StackFacts DEF TypeOK
    <2>4. mode' # "boot"
        BY <1>1, <1>4 DEF PitTick, SwitchTo
    <2>5. RunningTerminal # 0 /\ RunningTerminal' = t
        BY <1>1, <2>1, <2>4 DEF RunningTerminal, TypeOK, Terminals
    <2> QED
        BY <1>2, <2>3, <2>5, PreemptMaps DEF Maps
<1> QED
    BY <1>3, <1>4

(* Every step of the kernel.                                                *)
LEMMA NextMaps ==
    ASSUME ~EarlySwitch, StackInv, IInv', [Next]_vars
    PROVE  Maps
<1>1. CASE Boot
    BY <1>1, BootMaps
<1>2. CASE \E cmd \in Commands : Execute(cmd)
    BY <1>2, ExecuteMaps
<1>3. CASE HaltBaseShell
    BY <1>3, HaltBaseShellMaps
<1>4. CASE HaltAux
    BY <1>4, HaltAuxMaps
<1>5. CASE Enter \/ Leave \/ Exception \/ UNCHANGED vars
    <2>1. /\ UNCHANGED <<booted, childPCB, parentPCB, cur_process>>
          /\ mode' = mode \/ (mode # "boot" /\ mode' # "boot")
        BY <1>5 DEF Enter, Leave, Exception, vars, masks, links, cpu
    <2>2. ParentsRooted' /\ PlacesTaken' /\ Stack' = Stack
        BY <2>1, StillStacks
    <2>3. RunningTerminal' = RunningTerminal
        BY <2>1 DEF RunningTerminal
    <2> QED
        BY <2>2, <2>3, StutterMaps DEF Maps
<1>6. CASE PitTick
    BY <1>6, PitTickMaps
<1>7. CASE \E sel \in Terminals : BootTerminal(sel)
    <2>1. Running
        BY <1>7 DEF BootTerminal, Interruptible, Running
    <2> QED
        BY <1>7, <2>1, BootTerminalMaps
<1> QED
    BY <1>1, <1>2, <1>3, <1>4, <1>5, <1>6, <1>7 DEF Next, ExecuteNotFound

LEMMA InitMaps == Init => StackInv /\ Stacks!Init
<1> SUFFICES ASSUME Init PROVE StackInv /\ Stacks!Init
    OBVIOUS
<1>1. IInv
    BY InitInv
<1>2. ParentsRooted /\ PlacesTaken
    BY DEF Init, ParentsRooted, PlacesTaken, Links
<1>3. Stacks!Init
    BY DEF Init, Stacks!Init
<1> QED
    BY <1>1, <1>2, <1>3 DEF StackInv

(***************************************************************************)
(* The refinement.                                                         *)
(***************************************************************************)

(* Whatever number of slots the kernel is built with, execute, halt, the    *)
(* timer and the terminal boots, in any order, act on the chains of PCBs as *)
(* on three stacks over one pool of identifiers.                            *)
THEOREM StacksRefined == ~EarlySwitch => (Spec => StacksSpec)
<1> SUFFICES ASSUME ~EarlySwitch PROVE Spec => StacksSpec
    OBVIOUS
<1>1. StackInv /\ [Next]_vars => StackInv' /\ [Stacks!Next]_Stacks!vars
    <2> SUFFICES ASSUME StackInv, [Next]_vars
                 PROVE  StackInv' /\ [Stacks!Next]_Stacks!vars
        OBVIOUS
    <2>1. IInv'
        BY NextKeeps DEF StackInv
    <2>2. Maps
        BY <2>1, NextMaps
    <2> QED
        BY <2>1, <2>2 DEF Maps, StackInv
<1> QED
    BY InitMaps, <1>1, PTL DEF Spec, StacksSpec, Stacks!Spec

============================================================================
