------------------------------- MODULE Vidmap -------------------------------
(* The video page that user programs draw on: the vidmap system call        *)
(* (sys_calls.c), the timer's rewrite of the page (pit.c) and the terminal  *)
(* switch of the keyboard interrupt (keyboard.c), over the process core.    *)
(*                                                                          *)
(* One page table entry, pt_vidmap[0], is shared by all programs.  vidmap   *)
(* runs with interrupts on: it reads cur_terminal, then writes the entry,   *)
(* and anything may happen in between.  The terminal switch does not touch  *)
(* the entry.  Exceptions stop the machine and are left out.                *)
EXTENDS Processes

VARIABLES
    cur_terminal,  \* the terminal on the screen
    pt_vidmap,     \* the frame pt_vidmap[0] maps: see Frames
    choice,        \* of each process inside vidmap, the frame it will write
    drawers        \* programs whose vidmap has returned and that still live

vidVars == <<cur_terminal, pt_vidmap, choice, drawers>>
allVars == <<vars, vidVars>>

(* Frames are counted from 0xB8, the first frame of the video memory: t is  *)
(* where terminal t's picture is kept while another terminal is displayed.  *)
Screen == 0
Lost   == 4   \* frame 0xB8000 + t: no memory is there
Frames == {Screen, Lost} \cup Terminals

VidTypeOK ==
    /\ TypeOK
    /\ cur_terminal \in Terminals
    /\ pt_vidmap \in Frames
    /\ choice \in [Pids -> {Nil} \cup Frames]
    /\ drawers \subseteq active

VidInit ==
    /\ Init
    /\ cur_terminal = 1
    /\ pt_vidmap = Lost
    /\ choice = [p \in Pids |-> Nil]
    /\ drawers = {}

----------------------------------------------------------------------------
(* get_base_process_pcb: parentPCB followed to its end.                     *)
Base(p) == TopOf(parentPCB, p)

(* Bug: the background frame of the terminal on the screen.                 *)
VidmapChooseBug ==
    /\ Enter
    /\ choice' = [choice EXCEPT ![esp0] =
                      IF cur_terminal = Base(esp0) THEN Screen ELSE cur_terminal]
    /\ UNCHANGED <<cur_terminal, pt_vidmap, drawers>>

(* vidmap up to the choice of the frame.                                    *)
VidmapChoose ==
    /\ Enter
    /\ choice' = [choice EXCEPT ![esp0] =
                      IF cur_terminal = Base(esp0) THEN Screen ELSE Base(esp0)]
    /\ UNCHANGED <<cur_terminal, pt_vidmap, drawers>>

(* Bug: the entry is written before the frame is chosen.                    *)
VidmapReturnBug ==
    /\ Leave
    /\ pt_vidmap' = choice[esp0]
    /\ choice' = [choice EXCEPT ![esp0] = Nil]
    /\ drawers' = drawers \cup {esp0}
    /\ UNCHANGED cur_terminal

(* vidmap from the write of the page table entry on.                        *)
VidmapReturn ==
    /\ Leave
    /\ choice[esp0] # Nil
    /\ pt_vidmap' = choice[esp0]
    /\ choice' = [choice EXCEPT ![esp0] = Nil]
    /\ drawers' = drawers \cup {esp0}
    /\ UNCHANGED cur_terminal

(* The other interruptible call, read, does not concern the page.           *)
ReadCall   == Enter /\ UNCHANGED vidVars
ReadReturn == Leave /\ choice[esp0] = Nil /\ UNCHANGED vidVars

Start == (Boot \/ \E cmd \in Commands : Execute(cmd)) /\ UNCHANGED vidVars

End ==
    /\ HaltBaseShell \/ HaltAux
    /\ drawers' = drawers \ {esp0}
    /\ UNCHANGED <<cur_terminal, pt_vidmap, choice>>

(* Bugs: the terminal is compared with the thread before it advances; the   *)
(* entry is left alone.                                                     *)
VidTickBug ==
    /\ PitTick
    /\ pt_vidmap' = IF cur_process' = cur_process THEN pt_vidmap
                    ELSE IF cur_terminal = cur_process THEN Screen ELSE Lost
    /\ UNCHANGED <<cur_terminal, choice, drawers>>

VidTickLeaveBug == PitTick /\ UNCHANGED vidVars

(* The timer: a switch maps the screen if the next thread's terminal is     *)
(* displayed, and otherwise the frame numbered VID_MEM_PHYSICAL plus the    *)
(* thread, where vidmap divides that address by 4096 first.                 *)
VidTick ==
    /\ PitTick
    /\ pt_vidmap' = IF cur_process' = cur_process THEN pt_vidmap
                    ELSE IF cur_terminal = cur_process' THEN Screen ELSE Lost
    /\ UNCHANGED <<cur_terminal, choice, drawers>>

(* Alt+Fn: the terminal is displayed, and started if it has no shell yet.   *)
TerminalKey(sel) ==
    /\ Interruptible
    /\ cur_terminal' = sel
    /\ BootTerminal(sel) \/ (sel \in booted /\ UNCHANGED vars)
    /\ UNCHANGED <<pt_vidmap, choice, drawers>>

VidNext ==
    \/ Start
    \/ End
    \/ ReadCall
    \/ ReadReturn
    \/ VidmapChoose
    \/ VidmapReturn
    \/ VidTick
    \/ \E sel \in Terminals : TerminalKey(sel)

VidSpec == VidInit /\ [][VidNext]_allVars

VidFairSpec == VidSpec /\ WF_allVars(VidTick) /\ WF_allVars(Start /\ Boot)
----------------------------------------------------------------------------
Drawing == mode = "user" /\ esp0 \in drawers

(* A program never draws on the picture kept for another terminal, although *)
(* all programs share the entry, vidmap may be interrupted between choosing *)
(* and writing the frame, and a started terminal leaves the entry as it is. *)
NeverOnAnothersPage == Drawing => pt_vidmap \in {Screen, Lost, cur_process}

(* A program of a terminal that is not displayed may still hold the screen: *)
(* Alt+Fn does not rewrite the entry and an interrupted vidmap writes what  *)
(* it chose before.  The next timer tick takes the screen from it, even if  *)
(* that tick has no thread to switch to.                                    *)
LeakEndsAtTick ==
    [][VidTick => (Drawing /\ pt_vidmap = Screen => cur_terminal = cur_process)']_allVars

(* When the user stays at a terminal, in the end the programs that draw on  *)
(* the screen are that terminal's and no others.                            *)
ScreenFollowsTerminal ==
    \A t \in Terminals :
        <>[](cur_terminal = t) => <>[](Drawing => (pt_vidmap = Screen <=> cur_process = t))

(* The comment at pit.c:68 says the switch updates the video page "to       *)
(* display to the correct terminal": a program that draws gets the screen   *)
(* or its own terminal's frame.                                             *)
SwitchMapsOwnFrame ==
    [][VidTick /\ cur_process' # cur_process =>
           (Drawing => pt_vidmap \in {Screen, cur_process})']_allVars
============================================================================
