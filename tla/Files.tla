-------------------------------- MODULE Files --------------------------------
(* The descriptors of one process control block, and the read-only file     *)
(* system behind them (sys_calls.c, file_sys.c).  Programs come and go in   *)
(* the block (Processes says when); each system call works on the block of  *)
(* the program that makes it and on nothing that others write, so one block *)
(* is enough.  What the terminal and the clock do in a call is in           *)
(* TerminalInput and Rtc; here they only return.                            *)
EXTENDS Integers, Sequences

CONSTANTS
    NumFds,      \* descriptors in a block, 8 in the code
    BlockSize,   \* BLOCK_SIZE
    MaxName,     \* MAX_FILE_NAME, 32 in the code
    Directory,   \* entries of the boot block: their name, type and inode
    Inodes,      \* number -> size of the file, and its data blocks
    Data,        \* number of a data block -> its bytes
    Text,        \* inode -> the bytes of the file kept in the image
    Names,       \* names programs try to open
    Sizes        \* numbers of bytes programs ask for

Fds == 0..(NumFds - 1)
RTC == 0
DIR == 1
REG == 2

(* What the tool that built the image promises.  The directory is not       *)
(* empty, names are, as in the boot block, at most MaxName bytes.           *)
ASSUME ImageAssumption ==
    /\ NumFds \in Nat /\ NumFds >= 2 /\ BlockSize \in Nat \ {0} /\ MaxName \in Nat
    /\ Sizes \subseteq Int
    /\ Directory \in Seq([name : Seq(Nat), type : {RTC, DIR, REG}, inode : DOMAIN Inodes])
    /\ \A i \in DOMAIN Directory : Len(Directory[i].name) \in 1..MaxName
    /\ \A n \in DOMAIN Inodes :
           /\ n \in Nat
           /\ Text[n] \in Seq(Nat) /\ Inodes[n].size = Len(Text[n])
           /\ \A i \in 0..(Len(Text[n]) - 1) :
                  LET b == Inodes[n].blocks[i \div BlockSize]
                  IN  b \in DOMAIN Data /\ Data[b][i % BlockSize] = Text[n][i + 1]

VARIABLES
    live,     \* is there a program in the block?
    files,    \* current_pcb->files
    result,   \* what the last call returned
    taken     \* of each descriptor, what its reads delivered since its start

vars == <<live, files, result, taken>>

(* The operations table is the kind of the descriptor.                      *)
Kinds == {"none", "stdin", "stdout", "rtc", "dir", "file"}
Descriptors == [kind : Kinds, inode : Nat, position : Nat, flags : {0, 1}]

InUse(fd)  == files[fd].flags # 0
IsFile(fd) == InUse(fd) /\ files[fd].kind = "file"
IsDir(fd)  == InUse(fd) /\ files[fd].kind = "dir"

FilesTypeOK ==
    /\ live \in BOOLEAN
    /\ files \in [Fds -> Descriptors]
    /\ result \in Int
    /\ \A fd \in Fds : IsFile(fd) => files[fd].inode \in DOMAIN Inodes

(* A block nobody used yet reads as zero.  (Nothing in the kernel clears    *)
(* it: it is memory as the machine starts with.)                            *)
Unused == [kind |-> "none", inode |-> 0, position |-> 0, flags |-> 0]

Init ==
    /\ live = FALSE
    /\ files = [fd \in Fds |-> Unused]
    /\ result = 0
    /\ taken = [fd \in Fds |-> <<>>]

----------------------------------------------------------------------------
(* A program starts in the block and ends: execute and halt.                *)
stdin_fd  == [kind |-> "stdin",  inode |-> 0, position |-> 0, flags |-> 1]
stdout_fd == [kind |-> "stdout", inode |-> 0, position |-> 0, flags |-> 1]

Execute ==
    /\ ~live /\ live' = TRUE
    /\ files' = [files EXCEPT ![0] = stdin_fd, ![1] = stdout_fd]
    /\ UNCHANGED <<result, taken>>

(* Bug: the last descriptor is not closed.                                  *)
HaltBug ==
    /\ live /\ live' = FALSE
    /\ files' = [fd \in Fds |-> IF fd < NumFds - 1 THEN [files[fd] EXCEPT !.flags = 0]
                                                   ELSE files[fd]]
    /\ taken' = [fd \in Fds |-> <<>>]
    /\ UNCHANGED result

(* All descriptors are closed; their other fields stay.                     *)
Halt ==
    /\ live /\ live' = FALSE
    /\ files' = [fd \in Fds |-> [files[fd] EXCEPT !.flags = 0]]
    /\ taken' = [fd \in Fds |-> <<>>]
    /\ UNCHANGED result

----------------------------------------------------------------------------
(* read_dentry_by_name and read_dentry_by_index, and the file system's      *)
(* read_data: bytes up to the end of the file or its first bad block.       *)
Matches(name) ==
    {i \in DOMAIN Directory : Len(name) \in 1..MaxName /\ Directory[i].name = name}

Entry(name) ==
    Directory[CHOOSE i \in Matches(name) : \A j \in Matches(name) : i <= j]

(* Bug: the last data block is not accepted.                                *)
BlockOfBug(inode, i) ==
    LET b == Inodes[inode].blocks[i \div BlockSize]
    IN  IF b + 1 \in DOMAIN Data THEN {b} ELSE {}

BlockOf(inode, i) ==
    LET b == Inodes[inode].blocks[i \div BlockSize]
    IN  IF b \in DOMAIN Data THEN {b} ELSE {}

ReadData(inode, offset, length) ==
    LET left   == Inodes[inode].size - offset
        count  == IF length > left THEN left ELSE length
        good   == {k \in 1..count : \A j \in 1..k : BlockOf(inode, offset + j - 1) # {}}
        byte(i) == LET b == CHOOSE x \in BlockOf(inode, i) : TRUE
                   IN  Data[b][i % BlockSize]
    IN  [k \in good |-> byte(offset + k - 1)]

(* What a reader finds at an entry up to the first zero: its name, and      *)
(* after a name of full length the type that follows it in the structure.   *)
NameField(entry) ==
    IF Len(entry.name) = MaxName /\ entry.type # 0
    THEN Append(entry.name, entry.type) ELSE entry.name

----------------------------------------------------------------------------
(* System calls.                                                            *)
Valid(fd, n) == fd \in Fds /\ n >= 0

Returns(value) == result' = value /\ UNCHANGED <<files, taken>>

Rewind(fd) ==
    /\ files' = [files EXCEPT ![fd].position = 0]
    /\ taken' = [taken EXCEPT ![fd] = <<>>]
    /\ result' = 0

(* Delivers what, and moves the position on by step.                        *)
Deliver(fd, what, step, value) ==
    /\ files' = [files EXCEPT ![fd].position = @ + step]
    /\ taken' = [taken EXCEPT ![fd] = @ \o what]
    /\ result' = value

(* Bug: a read that would pass the end is taken for one at the end.         *)
FileReadBug(fd, n) ==
    LET f == files[fd]
    IN  IF f.position + n > Inodes[f.inode].size /\ f.position > 0
        THEN Rewind(fd)
        ELSE LET bytes == ReadData(f.inode, f.position, n)
             IN  Deliver(fd, bytes, Len(bytes), Len(bytes))

FileRead(fd, n) ==
    LET f == files[fd]
    IN  IF f.position >= Inodes[f.inode].size
        THEN Rewind(fd)
        ELSE LET bytes == ReadData(f.inode, f.position, n)
             IN  Deliver(fd, bytes, Len(bytes), Len(bytes))

DirRead(fd, n) ==
    LET at == files[fd].position
    IN  IF at >= Len(Directory)
        THEN Rewind(fd)
        ELSE LET field == NameField(Directory[at + 1])
                 count == IF n < Len(field) THEN n ELSE Len(field)
             IN  Deliver(fd, <<SubSeq(field, 1, count)>>, 1, count)

(* read: it refuses stdout, which has no read.                              *)
Read(fd, n) ==
    /\ live
    /\ IF ~Valid(fd, n) \/ fd = 1 THEN Returns(-1)
       ELSE \/ ~InUse(fd) /\ Returns(-1)
            \/ IsFile(fd) /\ FileRead(fd, n)
            \/ IsDir(fd)  /\ DirRead(fd, n)
            \/ InUse(fd) /\ files[fd].kind = "stdin" /\ \E k \in 0..n : Returns(k)
            \/ InUse(fd) /\ files[fd].kind = "rtc" /\ Returns(0)
    /\ UNCHANGED live

(* write: it refuses stdin, which has no write.  Files and directories are  *)
(* read-only.                                                               *)
Write(fd, n) ==
    /\ live
    /\ IF ~Valid(fd, n) \/ fd = 0 THEN Returns(-1)
       ELSE \/ ~InUse(fd) /\ Returns(-1)
            \/ (IsFile(fd) \/ IsDir(fd)) /\ Returns(-1)
            \/ InUse(fd) /\ files[fd].kind = "stdout" /\ Returns(IF n = 0 THEN -1 ELSE n)
            \/ InUse(fd) /\ files[fd].kind = "rtc" /\ \E k \in {0, -1} : Returns(k)
    /\ UNCHANGED live

Free == {fd \in Fds \ {0, 1} : ~InUse(fd)}

KindOf(type) == IF type = RTC THEN "rtc" ELSE IF type = DIR THEN "dir" ELSE "file"

(* Bug: the position the last user of the descriptor left stays.            *)
OpenedStaleBug(f, entry) ==
    [kind |-> KindOf(entry.type), inode |-> IF entry.type = REG THEN entry.inode ELSE f.inode,
     position |-> f.position, flags |-> 1]

(* Bug: the file's place in the directory for its inode.                    *)
OpenedPlaceBug(f, entry) ==
    [kind |-> KindOf(entry.type), inode |-> CHOOSE i \in DOMAIN Directory : Directory[i] = entry,
     position |-> 0, flags |-> 1]

(* Only a file's descriptor gets an inode.                                  *)
Opened(f, entry) ==
    [kind |-> KindOf(entry.type), inode |-> IF entry.type = REG THEN entry.inode ELSE f.inode,
     position |-> 0, flags |-> 1]

Open(name) ==
    /\ live
    /\ IF Free = {} \/ Matches(name) = {} THEN Returns(-1)
       ELSE LET fd == CHOOSE d \in Free : \A e \in Free : d <= e
            IN  /\ files' = [files EXCEPT ![fd] = Opened(@, Entry(name))]
                /\ result' = fd
                /\ UNCHANGED taken
    /\ UNCHANGED live

(* Bug: stdout may be closed.                                               *)
CloseBug(fd) ==
    /\ live
    /\ IF fd \notin Fds \ {0} \/ ~InUse(fd) THEN Returns(-1)
       ELSE /\ files' = [files EXCEPT ![fd].flags = 0]
            /\ taken' = [taken EXCEPT ![fd] = <<>>]
            /\ result' = 0
    /\ UNCHANGED live

Close(fd) ==
    /\ live
    /\ IF fd \notin Fds \ {0, 1} THEN Returns(-1)
       ELSE IF ~InUse(fd) THEN Returns(-1)
       ELSE /\ files' = [files EXCEPT ![fd].flags = 0]
            /\ taken' = [taken EXCEPT ![fd] = <<>>]
            /\ result' = 0
    /\ UNCHANGED live

(* Programs also pass numbers that are no descriptor.                       *)
Args == -1..NumFds

Next ==
    \/ Execute
    \/ Halt
    \/ \E fd \in Args, n \in Sizes : Read(fd, n) \/ Write(fd, n)
    \/ \E name \in Names : Open(name)
    \/ \E fd \in Args : Close(fd)

Spec == Init /\ [][Next]_vars

(* Programs that read a file or a directory read on until a read returns    *)
(* zero (the loops of ece391cat.c, ece391ls.c, ece391grep.c), or end.       *)
ReadsOn(fd) == (IsFile(fd) \/ IsDir(fd)) /\ \E n \in Sizes : n > 0 /\ Read(fd, n)

FairSpec == Spec /\ \A fd \in Fds : WF_vars(ReadsOn(fd))
----------------------------------------------------------------------------
(* Whatever a program reads in pieces of whatever sizes, at block borders   *)
(* and across them, from a descriptor others used before, is the text of    *)
(* the file from its start (file_read, read_data), and of a directory the   *)
(* names in their order, or beginnings of them (dir_read).  Nothing ends a  *)
(* name of full length, so a read that asks for more gets the type after    *)
(* it, one byte and no more.                                                *)
Total(fd) == IF files[fd].kind = "file" THEN Len(Text[files[fd].inode]) ELSE Len(Directory)

FileInOrder(fd) ==
    LET text == Text[files[fd].inode]
    IN  files[fd].position <= Len(text) /\ taken[fd] = SubSeq(text, 1, files[fd].position)

OfName(piece, entry) == \E k \in 0..Len(entry.name) : piece = SubSeq(entry.name, 1, k)

WithType(piece, entry) ==
    /\ Len(entry.name) = MaxName /\ entry.type \in {DIR, REG}
    /\ \E n \in Sizes : n > MaxName
    /\ piece = Append(entry.name, entry.type)

DirInOrder(fd) ==
    /\ files[fd].position <= Len(Directory)
    /\ Len(taken[fd]) = files[fd].position
    /\ \A i \in 1..Len(taken[fd]) :
           OfName(taken[fd][i], Directory[i]) \/ WithType(taken[fd][i], Directory[i])

InOrder ==
    \A fd \in Fds : (IsFile(fd) => FileInOrder(fd)) /\ (IsDir(fd) => DirInOrder(fd))

(* The loops of the programs take a zero for the end: a read of at least    *)
(* one byte returns it only after everything was delivered.                 *)
ZeroMeansEnd ==
    [][\A fd \in Fds, n \in Sizes :
           (IsFile(fd) \/ IsDir(fd)) /\ n > 0 /\ Read(fd, n) /\ result' = 0 =>
               Len(taken[fd]) = Total(fd)]_vars

(* A program starts with stdin and stdout and nothing a program before it   *)
(* left open: halt closes all, execute opens two.                           *)
CleanStart == ~live => \A fd \in Fds : ~InUse(fd)

(* The descriptors whose table has a null entry stay the two that read and  *)
(* write refuse by number, and are there while the program lives.           *)
NullRefused ==
    live => /\ InUse(0) /\ InUse(1)
            /\ \A fd \in Fds : InUse(fd) =>
                   /\ files[fd].kind # "none"
                   /\ (files[fd].kind = "stdin" <=> fd = 0)
                   /\ (files[fd].kind = "stdout" <=> fd = 1)

(* A program that reads on comes to the end of what it reads.               *)
ReadingEnds ==
    \A fd \in Fds :
        (IsFile(fd) \/ IsDir(fd)) ~> (~InUse(fd) \/ files[fd].position = Total(fd))
============================================================================
