# A verification of the 391 operating system kernel

The kernel in `src/src` is a small multi-terminal Unix-like system for one x86
processor: three text terminals, each with a shell that never ends, at most
three further programs, a timer that shares the processor among the terminals,
a keyboard that feeds one of them at a time, a real-time clock shared by all,
and a read-only file system. This directory holds a TLA+ model of it, the
TLC runs that check it, and proofs of its main invariants for every number of
processes, terminals, descriptors and bytes.

File names without a directory below are in `src/src`.

## 1. The system

| Component | State | Operations | Meets the others through |
|---|---|---|---|
| Process management, `sys_calls.c` | `active_processes`, `aux_processes`, the booted and live masks, `shell_init_boot`, the PCBs (parent, child, EBP) | `execute`, `halt` | the PCB links the timer walks; page and TSS; the masks the timer, clock and keyboard read |
| Thread switch, `pit.c` | `cur_process`, `schedEBP` of the PCBs | the timer interrupt | PCB links, page, TSS, `pt_vidmap` |
| Terminal selection, `keyboard.c:249` | `cur_terminal` | Alt+Fn | copies the screens, starts a shell with `execute` from inside the interrupt |
| Line input, `keyboard.c` | `keyboard_buffer`, `keyboard_index`, `enter_flag`, `newline_flag` | key strokes, `terminal_read` | `cur_terminal`, `cur_process`; draws at the terminal's cursor |
| Screen, `lib.c` | `screen_x`, `screen_y`, the video memory and a page for each terminal | `putc`, `clear`, `terminal_write` | `cur_terminal`; who prints is found through the PCB links |
| User video memory, `sys_calls.c:552` | `pt_vidmap[0]`, one entry for all | `vidmap` | rewritten by the timer; follows `cur_terminal` |
| Real-time clock, `RTC.c` | `rtc_flag`, `rtc_counter`, `rtc_freq` of each thread | the clock interrupt, `rtc_open`, `rtc_write`, `rtc_read` | `cur_process`, the booted mask |
| Interrupt controller, `i8259.c` | the masks; requests and what is in service, in the chips | `i8259_init`, `enable_irq`, `send_eoi` | every handler, also where it leaves for another thread |
| Dispatch and linkages, `sys_calls_handler.S`, `interrupts.c` and the assembly around it | the words on the kernel stacks | entry and exit of calls and interrupts, `RETURN`, `halt_return`, `return_to_parent` | cut and pop one another's frames |
| Exceptions, `interrupts.c` | - | 20 vectors, one handler | stops the machine |
| File descriptors, `sys_calls.c:348` | eight descriptors in each PCB | `open`, `close`, `read`, `write` | dispatch to terminal, clock, file, directory |
| File system, `file_sys.c` | none of its own; the position is in the descriptor | lookup, `read_data`, `dir_read`, `file_read` | descriptors, `execute` |
| Program arguments, `sys_calls.c` | a buffer in each PCB | the split of a command by `execute`, `getargs` | a line from the terminal becomes a command |

There is one processor. Concurrency is the interrupts': handlers and the
system calls `execute`, `halt`, `rtc_write` and `terminal_write` run with
interrupts off and are atomic; user code, `read` and `vidmap` can be interrupted
between any two instructions. The hard behaviour is where they meet:

* a process is suspended in three ways (by the timer, by a terminal start, by
  the `execute` of its child), each of which keeps a stack frame that somebody
  later returns into by setting ESP, and the assembly that does so counts words;
* handlers leave without returning, and the keyboard's ends with interrupts on,
  so they nest and each path has to release the interrupt controller itself;
* the newest process of a thread is found by walking links other threads'
  calls change;
* five pieces of state that say "what runs" (page, TSS stack, ESP, `cur_process`,
  links) are written one by one in four places;
* `cur_terminal` changes at any moment, and `vidmap` and `terminal_read` use it
  twice or more; the text of a terminal moves between two places with it;
* the line being typed and the cursor it is drawn at are separate variables that
  every key moves in jumps;
* the clock's arithmetic depends on how many terminals run.

The `hazards` list of `PROJECT.json` has each of these at its line, with the
properties that cover it.

## 2. Modules

| Module | Models | Composes |
|---|---|---|
| `RoundRobin` | the choice of the next thread (`pit.c:32`) | |
| `Processes` | `execute`, `halt`, timer switch, terminal start, exceptions | `RoundRobin` |
| `ShellStacks` | abstract: three stacks of programs, one pool of identifiers | |
| `ProcessesRefinement` | the refinement mapping | `Processes` implements `ShellStacks` |
| `Vidmap` | `vidmap`, terminal selection, the timer's rewrite of the page | extends `Processes` |
| `KernelEntry` | gates, linkages, dispatcher, stacks, interrupt controller, `entry()` | `RoundRobin` |
| `Rtc` | the virtualised clock | `RoundRobin` |
| `TerminalInput` | line editor and `terminal_read` | |
| `Echo` | where the line editor and the programs move the cursors | extends `TerminalInput` |
| `Drawing` | how `putc` and the keys draw on one screen | |
| `TerminalScreens` | abstract: a screen for each terminal | extends `Drawing` |
| `Screen` | the video memory, the pages, Alt+Fn's copies, the blinking cursor | extends `Drawing`, implements `TerminalScreens` |
| `Files` | descriptors of a process block, `read_data`, `file_read`, `dir_read` | |
| `Arguments` | the split of a command and `getargs` | extends `Files` |
| `MCFiles`, `MCEcho`, `MCScreen` | the instances that TLC needs values or a view for | |
| `ProcessesProofs`, `KernelEntryProofs`, `VidmapProofs`, `RtcProofs`, `TerminalInputProofs`, `EchoProofs`, `ScreenProofs`, `FilesProofs` | the theorems | |

**Processes.** A process is its identifier: process *p* owns the 8 KB block that
holds both its PCB and its kernel stack, so the code's "mask ESP to get the
current PCB" is "the block ESP is in", which is `esp0` whenever user code or an
interruptible call runs. `booted`, `live`, `shell_init_boot`, `active`,
`aux_processes`, `childPCB`, `parentPCB` and `cur_process` are the variables of
the code. A saved frame pointer is reduced to whether the frame is still there:
`waiting` has the PCBs whose EBP points to an `execute` on their stack,
`suspended` those whose `schedEBP` points to an interrupt frame, `open` those
with an interruptible system call underneath. Returning through a pointer whose
frame is gone is the mode `wild`. One action is one handler: `Execute`,
`ExecuteNotFound`, `HaltBaseShell`, `HaltAux`, `PitTick`, `BootTerminal`,
`Exception`, `Boot`; `Enter` and `Leave` bracket a call that runs with
interrupts on. The unassigned `next_pid` of `execute` (two bits in the reboot
mask, or no free slot) is any pid. `get_top_process_pcb` and
`get_base_process_pcb` are `TopOf`: the end of the smallest set that holds a PCB
and is closed under `childPCB` or `parentPCB`.

**KernelEntry** is what `Processes` abstracts from: whether each frame has the
words its user will pop. A word is tagged with what it is (a program's register,
a return address, a frame pointer as the height of its stack, flags). An action
is a run of instructions between which an interrupt would see the same stack but
for its height; an interrupt may come between any two actions with the flag on,
and more than one may be nested. A system call enters through the dispatcher
(`Call`) and its kind is chosen where it ends (`RETURN`, `execute`, `HaltBase`,
`HaltAux`, `set_handler`), because nothing that matters here depends on it
before. A frame that nobody may return to any more is set to 0, so that a use of
it would be seen. The identifiers are those of `Processes`, the chains are
sequences. The two 8259 chips are the model's external part: fixed priorities, a
handler's interrupt in service until its end is signalled, the slave behind line
2; and the clock raises no interrupt before register C is read.

**Vidmap** adds the displayed terminal and the shared page table entry, and
splits `vidmap` where it can be interrupted: `VidmapChoose` reads `cur_terminal`
and fixes the frame, `VidmapReturn` writes it. `drawers` has the programs whose
`vidmap` has returned; only they are expected to draw.

**Rtc** is keyed by thread, because the process inside an RTC call stays in its
thread, which `Processes` shows. It keeps the arithmetic as it is written: the
quotient, the remainder and the wrap of the counter.

**TerminalInput** keeps the rows of `keyboard_buffer` as one array, because the
code indexes a row at its length. The handler is a composition of steps on
(buffer, index, `newline_flag`) in the order of the code. A letter is the
terminal it was typed at. Each byte of `terminal_read` is a step; that it reads
the byte twice in one iteration (`keyboard.c:314-315`) is taken as one read.
Whether a tab still fits depends on the cursor and is free here. A read may ask
for any number of bytes, as the shell does with 1023: what lies behind the array
is not modelled, so a byte copied from there is any byte (`Bytes`).

**Echo** adds that cursor: one action is still one scan code, and moves the
index and the cursor as the handler does, with C's signed remainder. Programs
print between any two keys. `start` is a record of the environment: the column
the line began in, as long as nothing but the line's own characters moved the
cursor. A step back looks not where it goes. Where one would write in front of
the first cell (`Reached` is false), the key is `EchoFault` instead: the page
below the video memory is not mapped, the exception code loops, and `stopped`
stays true. What the handler did up to that write is left out, since nobody runs
to see it.

**Drawing, TerminalScreens, Screen.** A screen is its text, cell by cell, and a
cursor. `putc` has two halves, one for the video memory and one for the page of
a hidden terminal, which do the same to either; both are the operators of
`Drawing`, applied in `WriteShown` and `WriteHidden` to one memory or the other.
`TerminalScreens` has one screen per terminal and no text that moves. In
`Screen`, a key is any of the drawings the handler can make; which of them
belongs to which line is the matter of `Echo`, and so a step back, or the four
of a tab, may be made at any place; with no cell left of it (`Room`, `TabRoom`),
it is `KeyFaults`, which stops the machine as in `Echo`. The pages start with
any one character, since nothing clears them.

**Files** has one process block and lets programs come and go in it: a system
call works on the block its own ESP is in and on the image, which nobody writes,
so blocks do not meet. `files` is the array of the PCB, the operations table
reduced to its kind; closed descriptors keep their other fields, as in the code.
`read_data` is written with the code's block arithmetic, and compared with
`Text`, the bytes the image was built from; `ImageAssumption` is what the tool
that builds the image promises, and TLC evaluates it. `taken` is what the reads
of a descriptor delivered since it was opened or rewound; no action looks at it.
Sizes are widened to integers: `read` refuses negative ones, and the unsigned
difference in `read_data` is never negative because `file_read` calls it only
before the end.

**Arguments** is a pure function of the command: three loops cut it, and nothing
but the next program's `execute` writes a block's buffer. `args` is what
`execute` leaves in the block, `getargs` what a call makes of the program's
buffer, and `ArgumentsWhole` compares them, for every command built from a name,
blanks and arguments, with those parts.

## 3. Runs

The constants of the code that matter most are three terminals and three slots;
runs use them where they can, and name a smaller bound otherwise.

| Run | Shows | Bounds |
|---|---|---|
| `processes` | types, process table, links, chains, current process, saved frames, no pending shell; launches, switches, halts; every terminal runs; the core implements `ShellStacks` | the code's own: 3 terminals, 3 slots; exceptions included |
| `entry` | a program goes on with its own registers and an empty kernel stack however it left user mode; interrupts are never on with one in service; no timer interrupt waits for ever | terminals 1 and 2, two other programs, no interrupt on a stack of more than 24 words |
| `vidmap` | nobody draws on another terminal's picture; a leak onto the screen ends at the next tick; the screen ends up with the displayed terminal | 3 terminals, 1 slot: chains of two processes on any terminal |
| `vidmap_stray` (violation) | the timer maps hidden programs outside memory | the same |
| `rtc` | no division by zero at affordable rates; own ticks only; every read returns | 2 of the terminals, clock of 12 Hz, counter modulo 16 |
| `rtc_div` (violation) | a request of 1024 Hz with two terminals divides by zero | the code's constants; counter bounded, never reached |
| `input` | index in its row; undisturbed reads exact; no Enter lost | 2 terminals, rows of 3, break at 1, reads of 5 bytes |
| `input_own` (violation) | a read copies the line of another terminal | 2 terminals, rows of 4 |
| `echo` | lines whole under all keys; `putc` finds every cursor on a cell of the screen, and at the end of the line while only the line moves it | 2 terminals, rows of 11, break at 5, screen of 2 by 6, prompt of 1 |
| `echo_above` (violation) | backspace writes in front of the video memory, and the kernel faults | 1 terminal, the same sizes |
| `screen` | `Screen` implements `TerminalScreens`; every cursor on a cell of its own screen; the blinking cursor follows the terminal shown | 2 terminals, screens of 2 by 2, four outputs |
| `files` | files and directory entries in order, no early end, no inherited or null descriptor, reading ends; arguments as typed | 2 descriptors to open, blocks of 2, names of up to 2, one of full length, files of 5 and 0 bytes, reads of 0, 1, 3; arguments of up to 5 in a buffer of 4, up to 3 blanks |

Why the bounds are enough.

* `processes` needs none. `vidmap` needs a terminal switched away from, one
  switched to and one started, hence all three; a second program of a terminal
  matters for `get_base_process_pcb` and for a halt, a third adds nothing to the
  entry, and the proof covers any number.
* In `entry`, two other programs give a parent that waits while its child runs
  or is interrupted, and two terminals a switch in either direction; 24 words
  let an interrupt come inside a system call and inside another interrupt.
* In `rtc` the numbers scale the code's: the default of 3 fits three times
  under 12 and not four, as 340 does under 1024; 2 and 4 are accepted and 3
  refused; periods that do not divide the counter's wrap occur, as 170 does not
  divide 2^32.
* In `echo` the row and the break leave the remainders modulo the tab's four
  with which a tab of three characters and a tab that a break goes through both
  occur, as 127 and 73 do; in `input` a row still has a break, a full line and
  the terminator's spill into the next row. Its reads of 5 bytes stand for the
  shell's 1023: a copy from the second row that finds no terminator passes the
  7 cells of the array.
* `MCEcho` has a view that drops what lies in the buffers behind the lines. No
  program of that instance reads, and the handler looks only in front of the
  index, so states that differ there behave alike, and no invariant of the run
  looks there. Its constraint `From0At2` keeps the lines of the second terminal
  starting in column 0: that terminal is there for what it does to
  `newline_flag`, and the first one has lines from every column.
* In `screen` two rows and columns have a scroll, a full row and a cell that
  is neither first nor last; the refinement is proved for any size.
* In `files` the blocks are out of order, the last is partly filled and is not
  the last of the image, reads of 3 cross a border and the end and
  are longer than a name, and two
  descriptors on one file with stale positions of every kind occur; a third adds
  nothing, since descriptors do not interact. Arguments stop short of the
  buffer, fill it and pass it, with blanks inside and behind.

Deadlock is checked except where the machine stops: after an exception
(`processes`, `entry`), the division error (`rtc_div`), or a backspace that
leaves the screen (`echo`, `screen`).

### Fairness

* `WF(PitTick)` in `Processes` and `Vidmap`: the timer is a free-running chip,
  unmasked in `entry()`; that none of its interrupts waits for ever, whatever
  handlers nest and wherever they leave to, is `EveryTickTaken` of `KernelEntry`.
* `WF(Processor)` in `KernelEntry`: the processor does not stop between two
  instructions. Nothing is assumed of the devices.
* `WF(Boot)`: nothing in `entry()` waits.
* `Rtc`: strong fairness of "a clock tick while thread *t* runs" and of "thread
  *t* tests its flag". A time slice is 10 ms and the clock ticks 1024 times a
  second, so each slice sees ticks; and a slice runs its thread's loop.
* `TerminalInput`: weak fairness of each thread's steps in `terminal_read`,
  which is `EveryThreadRuns` of `Processes`.
* `Files`: weak fairness of a program's next read of a file or directory it has
  open, which is the loop of `cat`, `ls` and `grep` (`ece391cat.c:21`); it is
  used for `ReadingEnds` alone, and a program may close or end instead.
* Nothing else is assumed of programs, and nothing of the keyboard or the user.

### Disagreements with the comments and logs

`vidmap_stray`, `rtc_div`, `input_own` and `echo_above`; `findings` in
`PROJECT.json` quotes the lines. The last, in the code's numbers: Ctrl+L while a
program other than a base shell runs leaves the cursor at (0, 0) without a
prompt. The user types *k* letters, the program prints 80 - *k* characters, and
the column is reduced to 0 before it is divided into the row (`lib.c:268`), so
the cursor is at (0, 0) again with a line to erase. Backspace steps to column -1
(`keyboard.c:226`), and `putc` writes at 0xB7FFE (`lib.c:265`), where no page is
mapped.

Four more are modelled without a run of their own:

* `entry()` runs with interrupts on from `RTC_init` (`kernel.c:163`) to its call
  of `execute` (`kernel.c:172`), the keyboard enabled. Alt+F2 in that window
  boots terminal 2's shell; the next tick takes terminal 1 to be started without
  testing its bit (`pit.c:34`) and returns into an EBP nobody saved, where the
  comment at `pit.c:78` has a "prexisiting thread". With `EarlySwitch = TRUE` in
  `processes.cfg`, TLC finds `SwitchToSuspended`, checked alone, violated.
* `dir_read` reads "each file name in the directory" (`file_sys.c:141`), but its
  loop stops at a zero and at the bytes asked for, not at the 32 bytes of the
  field. `verylargetextwithverylongname.tx` of `filesys_img` fills its field, and
  the byte behind it is its type, 2; `cat .` asks for 1024 bytes of each name.
  `WithType` of `Files` is that case, and `InOrder` says that it is the only one.
* A program's exception does not end the program: the handler loops in front of
  the `halt(256)` meant for it (`interrupts.c:80`), although the shell has a
  message for "program terminated by exception"
  (`syscalls/ece391shell.c:31`). `Exception` of `Processes` is that stop of the
  whole machine; `EveryThreadRuns` excepts it.
* `set_handler` and `sigreturn` (`sys_calls.c:607`) return like C functions,
  into the 0 that the dispatcher pushed where a return address would be. There
  is no page 0, so the call ends in a page fault, and the machine in the loop
  above (`set_handler` of `KernelEntry`).

What the models of the screen show without a text of the repository that says
otherwise: a text of more than 80 columns is written over its own row, since
`putc` reduces the column before it divides it into the row (`lib.c:265`); after
a line end that scrolls, the blinking cursor is below the screen until the next
character or scan code (`CursorFollows`); below the first row, backspace can
move a cursor left of column 0, by a row at most, and so into the row above
(`CursorBounded`), and over a line break to column 72 also when the line began
behind the prompt.

### Assumptions

* The file system holds an executable named `shell` (`execute("shell")` from the
  kernel does not fail); a program's name that starts with `shell` is a shell.
* No terminal is selected before the first shell runs (`EarlySwitch = FALSE`,
  `booted # {}` in `KernelEntry`); what happens otherwise is told above.
* `Vidmap` leaves out programs that fault, since nothing happens after that.
* A command fits `execute`'s copy of 128 bytes with its zero, as every line of a
  terminal does; a program's name fits in 32.
* Kernel stacks do not overflow their 8 KB.
* Compiled code keeps the calling convention: a call or handler leaves EBP and
  its frame as it found them, and may change every other register.
* Memory a process block never used reads as zero (`Init` of `Files`); the kernel
  does not clear it.

## 4. Proofs

`ProcessesProofs` proves, for any number `MaxAux` of slots and with exceptions
allowed, that `Spec` implies each of `TypeOK`, `SlotsMatch`, `LinksInverse`,
`ChainsPartition`, `CurrentIsTop`, `ResumeFrameLive`, `ReturnFrameLive`,
`NoPendingShell`, `LaunchIntoFreeSlot`, `SwitchToSuspended` and
`HaltKeepsThread`, provided that `EarlySwitch` is `FALSE`; without
the premise, the timer could resume a thread that never ran.

The invariants are not inductive one by one, and the argument goes round: a
launch is into a free slot only if counter and slots agree; the chains stay
disjoint only if the launch is into a free slot and onto the top of the current
chain; the timer finds a suspended process only if the top of every other chain
is suspended, which needs the chains to be disjoint. `IInv` is the conjunction
of the type invariant and the safety invariants, together with the fact that
before the first shell the state is still the initial one; each part is inductive
only with the others.
The lemmas about chains (`ChainFrame`, `ChainPush`, `ChainPop`, `ChainSingle`,
`ChainEndUnique`) say what one assignment to `childPCB` does to the smallest
closed sets; they hold for any function and do the work an induction on the
length of a chain would. `ExecuteFrom` is the body of four actions, so its three
outcomes are three lemmas (`ExecuteBoots`, `ExecuteReboots`, `ExecuteStarts`),
each action being an instance.

It also proves that the core implements `ShellStacks` (`StacksRefined`), for
any number of slots. The stack of a terminal is its chain
in order, and an order would call for a walk, hence induction. Instead the place
of a process is a number: how many processes the walk down from it to the base
shell meets, the cardinality of a smallest closed set under `parentPCB`.
`StackInv` adds to `IInv` that base shells have no parent (`ParentsRooted`) and
that each place of a chain is one process's (`PlacesTaken`). The top's place is
its chain's length (`TopPlace`), so a start adds one element at the end of one
sequence (`StartedMaps`), a halt removes it (`HaltAuxMaps`), and everything else
leaves all places as they are (`OrderStays`).

`KernelEntryProofs` proves `UserIntact` and `NoneInService`, for any set of
programs and any height `MaxWords` of the stacks. Neither is inductive: a program
may enter the kernel, be interrupted there, be switched away from inside the
interrupt and come back from any of it, so its registers are intact only if every
word on its stack still is. `Inv` says that of all stacks at once. A stack is a
ground (the boot's calls, a program's call into the dispatcher, or user mode)
under layers, one for each interrupt in progress. Instead of a recursive
definition of its layers, `Standing` asks for a set of marks, pairs of a label
and a height, of which each is either grounded or the foot of a layer that
returns to another mark. Pushing a layer adds a mark, returning moves to the
mark below, and no induction on the height is needed. `Can` adds what the code at a
label needs in the registers. The rest of `Inv` is what makes the other stacks
still good when ESP comes back to them: no program is in two places of the chains
(`Chains`), ESP is on the stack of the current thread's newest program
(`Turn`), every parent waits at height 22 of a system call, where `execute` left
it (`Waits`), the newest program of every other thread was left inside a
handler's frame (`Asleep`), and a handler runs with interrupts off and its own
interrupt alone in service, everything else with none (`Service`). A step then changes
one stack, the one in use, or leaves it in the shape that `Waits` or `Asleep` asks for.

`VidmapProofs` proves `VidTypeOK`, `NeverOnAnothersPage` and `LeakEndsAtTick`,
for any number of slots. It lifts `IInv` to the steps of `Vidmap` and adds
`PageInv`: a process inside `vidmap` is inside an interruptible call and nobody
waits for a child inside one (`CallsMatch`); what it chose is the screen or the
frame of its own thread (`ChoiceOwn`); and the shared entry is the current
thread's unless none of its living programs draws, waiting parents included
(`PageOwn`), because a halt brings a parent back without touching the entry.
That the base of every process is its thread's shell (`BaseIsThread`) comes from
the inverse links (`WalkBack`), and that no handler moves a living process to
another thread from `ChainKept`.

`ScreenProofs` proves that `Screen` implements `TerminalScreens`
(`ScreensRefined`), for any number of terminals, size of the screen and set of
outputs. The text of a terminal is in the video memory or in its page, as
`cur_terminal` says; a selection saves one and loads the other, the page being
brought up to date before it is read, also if the same terminal is selected
again. Both modules use the same drawing (`SameDrawing`), so what the drawing
does is not needed for it.

It is for `ScreenTypeOK` and `CursorFollows`, proved in the same module for any
size, prompt and output. A screen is `Sound` if its text has its shape, its
cursor is in a row and at most a row left of it, and in the first row not left
of column 0 at all; then the cell `putc` writes is one of the screen
(`PlaceSound`). Characters and line ends keep this, and a step back does where
there is room for it (`RoomSound`); where there is none, the machine stops.
An output is any sequence of characters and `Drawn` draws them one after the
other. That each screen on the way is `Sound` (`DrawnSound`), and that the last
character sets the blinking cursor (`DrawnLast`), would be inductions; they
follow instead from the least place at which they fail (`Least`), since the place
before it holds and one character keeps it (`PutPart`). `CursorFollows` needs the
types, and a selection the places of both terminals.

`RtcProofs` proves that the clock interrupt never divides by zero if three times
every frequency fits, for all constants: the stored frequencies fit
(`IInv`), so the divisor is at most the dividend (`PeriodNotZero`) and the
quotient not zero (`QuotientNotZero`). It also proves the types and that no
thread ends another's read.

`FilesProofs` proves `FilesTypeOK`, `InOrder`, `CleanStart`, `NullRefused` and
`ZeroMeansEnd` for every number of descriptors, block size, directory, image and
set of read sizes that satisfy `ImageAssumption` (the blocks an inode lists
exist and hold the file's text; nothing else about their order or sharing). The
heart is `ReadDataText`: one call of `read_data` delivers a piece of the text
that starts at its offset, and delivers nothing only at the end. Pieces are then
joined by position (`FileReadKeeps`, `DirReadKeeps`). What `dir_read` delivers
of an entry is the beginning of its name or, from a field without a zero and
with more bytes asked for, the name and the low byte of its type (`NamePiece`),
whose next byte is the zero that ends it. `InOrder` is not inductive:
`IInv` adds that a closed descriptor has delivered nothing, on which `open`
builds, and `CleanStart`, on which a new program builds.

It proves `ArgumentsWhole` as well, for every name, number of blanks,
arguments, buffer of the block and buffer of the program: the two searches of
`execute` end where the parts of the command meet (`NameEndFound`,
`ArgsStartFound`), and the rest is read off element by element (`ArgsKept`).

`TerminalInputProofs` proves `InputTypeOK`, `LineWhole` and `QuietRead`, for
any length of the row, any keys and any reads. Backspace erases four characters
when the last is a tab, though a break takes only one of them along when it is
erased and the row's end cuts a tab to three; what keeps the index from falling
below 0 is arithmetic. A run of tabs at places `s` to `e - 1` of the line satisfies
`e % 4 <= s % 4` (`TabsFit`), so that whatever part of a run is not a multiple of
four finds the rest in front of it (`FitEraseTab`). This is an invariant if
neither `MaxLine` nor `BufferSize - 1` is a multiple of 4 (`TabAssumption`), as
73 and 126 are not; with a break at 8, two tabs, an erased break and backspaces
would leave the row. `GoodLine` adds to it what `LineWhole` says, of each row,
because the terminator of a full line (`EnteredKeeps`) and the byte that
`terminal_read` clears (`ReadEndKeeps`) are in the next row (`CellFacts`).
`QuietRead` needs a second invariant, `WayInv`: from the Enter to the next key
the line and its terminator stand in the row, and what has been copied is their
beginning, whatever the reads of other threads clear behind it.

`EchoProofs` proves `CursorBounded` and `CursorTracksLine`, for any size of the
screen and the line that satisfies `EchoAssumption`. The line and the cursor move
in separate variables, so the invariant `EchoInv` ties them: for each terminal,
`AtCursor` relates the text, the index, the cursor and the column the line began
in. Behind a break (a line end in place `MaxLine` before the index) the cursor is
not in the first row, whatever has been printed since, which is why erasing the
break may go up a row. In the first row it is not left of column 0, because the
steps that would take it there stop the machine (`RoomSpot`), so it is on a cell
(`PlaceSpot`). Unless the beginning is lost the line does break at
`MaxLine`, and the cursor is as far from its beginning as the index (`Ends`).
Tabs need one more fact, `TabsWhole`: a run of tabs behind the break is of whole
tabs, or one of them was cut to three by the row's end, which its own end shows
modulo four. So four steps back never take the break along (`BreakStays`), as
they can in front of it. Each edit
of the line then keeps `AtCursor` (`TypedAtCursor`, `TabbedAtCursor`,
`ErasedAtCursor`, `BrokenAtCursor`), and the steps on one terminal leave the rows
of the others as they were but for a first character (`MoveKeeps`).
`EchoEdits` says that every step of `Echo`, also one that stops the machine, is
one of `TerminalInput` or leaves the lines alone, so that what is proved of the lines holds with the cursors too.

Every safety invariant and every action property of the passing runs is a
theorem, and so are both refinements. Only model-checked are

* the liveness properties `EveryThreadRuns`, `ScreenFollowsTerminal`,
  `EveryReadReturns`, `EnterEndsRead`, `ReadingEnds` and `EveryTickTaken`, which
  rest on fairness and so on ENABLED, out of the proof system's reach;
* the counterexamples of the four violation runs.

## 5. Not modelled

* The formatting of `printf` and `itoa`, and the colours of the screen: no
  property is about them. What is printed is any sequence of characters.
* The set-up of the descriptor tables and of paging, which runs once, with
  nothing else running; the multiboot information.
* The bits `vidmap` leaves unset in its entries: they are what the compiler's
  stack holds.
* `disable_irq`, which nothing calls, and the in-kernel tests, whose call is
  commented out (`kernel.c:177`).
* A program's name of more than 32 bytes, and the load of its image.
* The user programs, which are the environment and may make any call at any time.

## 6. Plan

Done, in this order: the process core with its abstract specification and
proofs, because all else stands on it; `Vidmap` over it; the clock with its
proof; line input; the descriptors and the file system with their proofs; the
screens with their abstract specification and its proof; the cursor of the line
editor; the entry paths with the interrupt controller; the arguments with their
proof; the proofs of the video page, of the process refinement and of the line
editor; the proofs of the entry paths, of the cursors of the screens and of the
line editor's cursor.

Left:

* Process blocks in memory that does not start as zero, which `Files` excludes
  by assumption.
