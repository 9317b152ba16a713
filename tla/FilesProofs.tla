----------------------------- MODULE FilesProofs -----------------------------
(* Reading in pieces delivers the file, for every well-formed image, number *)
(* of descriptors, block size and sizes of reads; no program inherits a     *)
(* descriptor, and no call reaches a null table entry.  Every program gets   *)
(* the arguments its command was typed with.                                *)
EXTENDS Arguments, SequenceTheorems, WellFoundedInduction, TLAPS

LEMMA TextShape ==
    ASSUME NEW inode \in DOMAIN Inodes
    PROVE  /\ Text[inode] \in Seq(Nat) /\ Len(Text[inode]) \in Nat
           /\ Inodes[inode].size = Len(Text[inode])
BY ImageAssumption

(* One call of read_data: it delivers a piece of the text that starts at    *)
(* the offset, and delivers something unless it is at the end.              *)
LEMMA ReadDataText ==
    ASSUME NEW inode \in DOMAIN Inodes, NEW offset \in 0..Len(Text[inode]), NEW n \in Nat
    PROVE  \E count \in 0..(Len(Text[inode]) - offset) :
               /\ ReadData(inode, offset, n) = SubSeq(Text[inode], offset + 1, offset + count)
               /\ Len(ReadData(inode, offset, n)) = count
               /\ n > 0 /\ offset < Len(Text[inode]) => count > 0
<1> DEFINE t    == Text[inode]
           left == Inodes[inode].size - offset
           c    == IF n > left THEN left ELSE n
           good == {k \in 1..c : \A j \in 1..k : BlockOf(inode, offset + j - 1) # {}}
           byte(i) == LET b == CHOOSE x \in BlockOf(inode, i) : TRUE
                      IN  Data[b][i % BlockSize]
<1>1. t \in Seq(Nat) /\ Len(t) \in Nat /\ Inodes[inode].size = Len(t)
  BY ImageAssumption
<1>2. c \in Nat /\ c <= Len(t) - offset /\ (n > 0 /\ offset < Len(t) => c > 0)
  BY <1>1
<1>3. ASSUME NEW k \in 1..c
      PROVE  BlockOf(inode, offset + k - 1) # {} /\ byte(offset + k - 1) = t[offset + k]
  <2> DEFINE i == offset + k - 1
             b == Inodes[inode].blocks[i \div BlockSize]
  <2>1. i \in 0..(Len(t) - 1) /\ i + 1 = offset + k
    BY <1>1, <1>2
  <2>2. b \in DOMAIN Data /\ Data[b][i % BlockSize] = t[i + 1]
    BY <2>1, ImageAssumption
  <2>3. BlockOf(inode, i) = {b}
    BY <2>2 DEF BlockOf
  <2>4. (CHOOSE x \in BlockOf(inode, i) : TRUE) = b
    BY <2>3
  <2> QED BY <2>1, <2>2, <2>3, <2>4
<1>4. good = 1..c
  <2>1. ASSUME NEW k \in 1..c, NEW j \in 1..k PROVE j \in 1..c
    BY <1>2
  <2> QED BY <1>3, <2>1
<1>5. ReadData(inode, offset, n) = [k \in good |-> byte(offset + k - 1)]
  BY DEF ReadData
<1>6. ReadData(inode, offset, n) = [k \in 1..c |-> t[offset + k]]
  <2> HIDE DEF good, byte, c, t
  <2> QED BY <1>3, <1>4, <1>5
<1>7. SubSeq(t, offset + 1, offset + c) = [k \in 1..c |-> t[offset + k]]
  <2> HIDE DEF c, t
  <2>1. \A i \in (offset + 1)..(offset + c) : t[i] \in Nat
    BY <1>1, <1>2, ElementOfSeq
  <2> DEFINE s == SubSeq(t, offset + 1, offset + c)
  <2>2. /\ s \in Seq(Nat) /\ Len(s) = c
        /\ \A i \in 1..c : s[i] = t[offset + i]
    BY <1>2, <2>1, SubSeqProperties
  <2>3. s \in [1..c -> Nat]
    BY <2>2, LenProperties
  <2> HIDE DEF s
  <2> QED BY <2>2, <2>3
<1>8. Len([k \in 1..c |-> t[offset + k]]) = c
  <2> HIDE DEF c, t
  <2> QED BY <1>2
<1> HIDE DEF c
<1> QED BY <1>2, <1>6, <1>7, <1>8

----------------------------------------------------------------------------
(* What one descriptor keeps.  Besides the order of what was delivered: a   *)
(* closed descriptor has delivered nothing, so the next open starts afresh. *)
FdOK(fd) ==
    /\ IsFile(fd) => files[fd].inode \in DOMAIN Inodes /\ FileInOrder(fd)
    /\ IsDir(fd) => taken[fd] \in Seq(Seq(Nat)) /\ DirInOrder(fd)
    /\ ~InUse(fd) => taken[fd] = <<>>

Shape ==
    /\ live \in BOOLEAN
    /\ files \in [Fds -> Descriptors]
    /\ result \in Int
    /\ taken = [fd \in Fds |-> taken[fd]]

(* InOrder is not inductive: what open starts from needs the third part of  *)
(* FdOK, and what Execute starts from needs CleanStart.                     *)
IInv == Shape /\ (\A fd \in Fds : FdOK(fd)) /\ CleanStart /\ NullRefused

LEMMA Implied == IInv => FilesTypeOK /\ InOrder /\ CleanStart /\ NullRefused
BY DEF IInv, Shape, FdOK, FilesTypeOK, InOrder

LEMMA InitInv == Init => IInv
<1> SUFFICES ASSUME Init PROVE IInv
  OBVIOUS
<1>1. Unused \in Descriptors /\ Unused.flags = 0
  BY DEF Unused, Descriptors, Kinds
<1>2. \A fd \in Fds : ~InUse(fd) /\ taken[fd] = <<>>
  BY <1>1 DEF Init, InUse
<1>3. Shape
  <2>1. taken = [fd \in Fds |-> <<>>] /\ files = [fd \in Fds |-> Unused]
    BY DEF Init
  <2>2. taken = [fd \in Fds |-> taken[fd]]
    BY <2>1
  <2>3. files \in [Fds -> Descriptors]
    BY <1>1, <2>1
  <2>4. live \in BOOLEAN
    BY DEF Init
  <2>5. result \in Int
    BY DEF Init
  <2> QED BY <2>2, <2>3, <2>4, <2>5, Zenon DEF Shape
<1> QED BY <1>2, <1>3 DEF IInv, FdOK, IsFile, IsDir, CleanStart, NullRefused, Init

(* A descriptor that a step leaves alone stays good.                        *)
LEMMA FdFrame ==
    ASSUME NEW fd \in Fds, FdOK(fd), files'[fd] = files[fd], taken'[fd] = taken[fd]
    PROVE  FdOK(fd)'
BY DEF FdOK, IsFile, IsDir, InUse, FileInOrder, DirInOrder

(* A call that only returns.                                                *)
LEMMA ReturnsKeeps ==
    ASSUME IInv, NEW value \in Int, Returns(value), UNCHANGED live
    PROVE  IInv'
<1>1. files' = files /\ taken' = taken /\ result' = value /\ live' = live
  BY DEF Returns
<1>2. \A fd \in Fds : FdOK(fd)'
  BY <1>1, FdFrame DEF IInv
<1> QED BY <1>1, <1>2 DEF IInv, Shape, CleanStart, NullRefused, InUse

(* A read in progress moves the position of one descriptor.                 *)
LEMMA MoveKeeps ==
    ASSUME IInv, UNCHANGED live, NEW fd \in Fds, NEW position \in Nat, NEW what,
           files' = [files EXCEPT ![fd].position = position],
           taken' = [taken EXCEPT ![fd] = what],
           result' \in Int, InUse(fd), FdOK(fd)'
    PROVE  IInv'
<1>1. files[fd] \in Descriptors
  BY DEF IInv, Shape
<1>2. [files[fd] EXCEPT !.position = position] \in Descriptors
  BY <1>1 DEF Descriptors
<1>3. Shape'
  BY <1>2 DEF IInv, Shape
<1>4. \A d \in Fds : files'[d].kind = files[d].kind /\ files'[d].flags = files[d].flags
  BY <1>1 DEF IInv, Shape, Descriptors
<1>5. ASSUME NEW d \in Fds PROVE FdOK(d)'
  <2>1. CASE d = fd
    BY <2>1
  <2>2. CASE d # fd
    <3>1. files'[d] = files[d] /\ taken'[d] = taken[d]
      BY <2>2 DEF IInv, Shape
    <3> QED BY <3>1, FdFrame DEF IInv
  <2> QED BY <2>1, <2>2
<1>6. CleanStart' /\ NullRefused'
  BY <1>4 DEF IInv, CleanStart, NullRefused, InUse, Fds
<1> QED BY <1>3, <1>5, <1>6 DEF IInv

LEMMA RewindKeeps ==
    ASSUME IInv, UNCHANGED live, NEW fd \in Fds, IsFile(fd) \/ IsDir(fd), Rewind(fd)
    PROVE  IInv'
<1>1. files[fd] \in Descriptors /\ InUse(fd)
  BY DEF IInv, Shape, IsFile, IsDir
<1>2. /\ files'[fd] = [files[fd] EXCEPT !.position = 0]
      /\ taken'[fd] = <<>> /\ result' = 0
  BY DEF Rewind, IInv, Shape
<1>3. /\ files'[fd].position = 0 /\ files'[fd].kind = files[fd].kind
      /\ files'[fd].inode = files[fd].inode /\ files'[fd].flags = files[fd].flags
  BY <1>1, <1>2 DEF Descriptors
<1>4. (IsFile(fd) => FileInOrder(fd) /\ files[fd].inode \in DOMAIN Inodes)'
  <2> SUFFICES ASSUME IsFile(fd) PROVE (FileInOrder(fd) /\ files[fd].inode \in DOMAIN Inodes)'
    BY <1>3 DEF IsFile, InUse
  <2> DEFINE text == Text[files[fd].inode]
  <2>1. files[fd].inode \in DOMAIN Inodes
    BY DEF IInv, FdOK
  <2>2. text \in Seq(Nat) /\ Len(text) \in Nat
    BY <2>1, ImageAssumption
  <2>3. SubSeq(text, 1, 0) = <<>>
    BY SubSeqEmpty
  <2> QED BY <1>2, <1>3, <2>1, <2>2, <2>3 DEF FileInOrder
<1>5. (IsDir(fd) => taken[fd] \in Seq(Seq(Nat)) /\ DirInOrder(fd))'
  <2>1. Len(Directory) \in Nat
    BY ImageAssumption
  <2>2. <<>> \in Seq(Seq(Nat)) /\ Len(<<>>) = 0
    OBVIOUS
  <2> QED BY <1>2, <1>3, <2>1, <2>2 DEF DirInOrder
<1>6. FdOK(fd)'
  BY <1>1, <1>2, <1>3, <1>4, <1>5 DEF FdOK, InUse
<1>7. /\ files' = [files EXCEPT ![fd].position = 0]
      /\ taken' = [taken EXCEPT ![fd] = <<>>] /\ result' \in Int
  BY DEF Rewind
<1> QED BY <1>1, <1>6, <1>7, MoveKeeps

(* A file's next piece is joined to what was delivered.                     *)
LEMMA FileReadKeeps ==
    ASSUME IInv, UNCHANGED live, NEW fd \in Fds, NEW n \in Nat, IsFile(fd), FileRead(fd, n)
    PROVE  IInv'
<1> DEFINE f     == files[fd]
           text  == Text[f.inode]
           bytes == ReadData(f.inode, f.position, n)
<1>1. f \in Descriptors /\ InUse(fd) /\ f.kind = "file"
  BY DEF IInv, Shape, IsFile
<1>2. /\ f.inode \in DOMAIN Inodes /\ f.position \in 0..Len(text)
      /\ taken[fd] = SubSeq(text, 1, f.position)
  BY <1>1 DEF IInv, FdOK, FileInOrder, Descriptors
<1>3. text \in Seq(Nat) /\ Len(text) \in Nat /\ Inodes[f.inode].size = Len(text)
  BY <1>2, ImageAssumption
<1>4. CASE f.position >= Inodes[f.inode].size
  BY <1>4, RewindKeeps DEF FileRead
<1>5. CASE ~(f.position >= Inodes[f.inode].size)
  <2>1. Deliver(fd, bytes, Len(bytes), Len(bytes))
    BY <1>5 DEF FileRead
  <2>2. PICK count \in 0..(Len(text) - f.position) :
          /\ bytes = SubSeq(text, f.position + 1, f.position + count)
          /\ Len(bytes) = count
    BY <1>2, ReadDataText
  <2> DEFINE p == f.position + count
  <2>3. p \in 0..Len(text) /\ p \in Nat /\ f.position \in 0..p
    BY <1>2, <1>3
  <2>4. SubSeq(text, 1, f.position) \o bytes = SubSeq(text, 1, p)
    <3> DEFINE q == f.position
    <3> HIDE DEF p, text
    <3>0. q \in 0..p /\ p \in 0..Len(text) /\ Len(text) \in Nat
      BY <1>3, <2>3
    <3> HIDE DEF q
    <3>1. 1 \in 1..(Len(text) + 1) /\ q \in (1 - 1)..Len(text) /\ p \in q..Len(text)
      BY <3>0
    <3>2. SubSeq(text, 1, q) \o SubSeq(text, q + 1, p) = SubSeq(text, 1, p)
      BY <1>3, <3>1, ConcatAdjacentSubSeq
    <3> QED BY <2>2, <3>2 DEF p, q, text
  <2>5. /\ files' = [files EXCEPT ![fd].position = p]
        /\ taken' = [taken EXCEPT ![fd] = SubSeq(text, 1, p)]
        /\ result' \in Int
    <3>1. /\ files' = [files EXCEPT ![fd].position = f.position + Len(bytes)]
          /\ taken' = [taken EXCEPT ![fd] = taken[fd] \o bytes]
          /\ result' = Len(bytes)
      BY <2>1 DEF Deliver
    <3>2. Len(bytes) = count /\ taken[fd] \o bytes = SubSeq(text, 1, p)
      BY <1>2, <2>2, <2>4
    <3> HIDE DEF bytes, text
    <3> QED BY <3>1, <3>2
  <2>6. files'[fd] = [f EXCEPT !.position = p] /\ taken'[fd] = SubSeq(text, 1, p)
    BY <2>5 DEF IInv, Shape
  <2>7. /\ files'[fd].position = p /\ files'[fd].kind = f.kind
        /\ files'[fd].inode = f.inode /\ files'[fd].flags = f.flags
    BY <1>1, <2>6 DEF Descriptors
  <2>8. FileInOrder(fd)'
    BY <2>3, <2>6, <2>7 DEF FileInOrder
  <2>9. FdOK(fd)'
    BY <1>1, <1>2, <2>7, <2>8 DEF FdOK, InUse, IsFile, IsDir
  <2> HIDE DEF p
  <2> QED BY <1>1, <2>3, <2>5, <2>9, MoveKeeps
<1> QED BY <1>4, <1>5

LEMMA DirectoryDomain == DOMAIN Directory = 1..Len(Directory) /\ Len(Directory) \in Nat
<1> DEFINE Entries == [name : Seq(Nat), type : {RTC, DIR, REG}, inode : DOMAIN Inodes]
<1>1. Directory \in Seq(Entries)
  BY ImageAssumption
<1> HIDE DEF Entries
<1> QED BY <1>1, LenProperties

(* What an entry holds.                                                     *)
LEMMA EntryShape ==
    ASSUME NEW i \in DOMAIN Directory
    PROVE  LET entry == Directory[i]
           IN  /\ entry \in [name : Seq(Nat), type : {RTC, DIR, REG}, inode : DOMAIN Inodes]
               /\ Len(entry.name) \in 1..MaxName
<1> DEFINE Entries == [name : Seq(Nat), type : {RTC, DIR, REG}, inode : DOMAIN Inodes]
<1>1. Directory \in Seq(Entries)
  BY ImageAssumption
<1>2. Directory[i] \in Entries
  <2> HIDE DEF Entries
  <2> QED BY <1>1, DirectoryDomain, ElementOfSeq
<1>3. Len(Directory[i].name) \in 1..MaxName
  BY ImageAssumption
<1> QED BY <1>2, <1>3

(* What a directory read delivers is the start of a name, or all of one and *)
(* the type behind it.                                                      *)
LEMMA NamePiece ==
    ASSUME NEW i \in DOMAIN Directory, NEW n \in Nat
    PROVE  LET field == NameField(Directory[i])
               count == IF n < Len(field) THEN n ELSE Len(field)
               piece == SubSeq(field, 1, count)
           IN  /\ count \in Nat
               /\ piece \in Seq(Nat)
               /\ n > 0 => count > 0
               /\ OfName(piece, Directory[i]) \/ (n \in Sizes => WithType(piece, Directory[i]))
<1> DEFINE entry == Directory[i]
           name  == entry.name
           field == NameField(entry)
           count == IF n < Len(field) THEN n ELSE Len(field)
           piece == SubSeq(field, 1, count)
<1>1. /\ name \in Seq(Nat) /\ Len(name) \in 1..MaxName /\ MaxName \in Nat
      /\ entry.type \in Nat
  <2>1. name \in Seq(Nat) /\ entry.type \in {RTC, DIR, REG} /\ Len(name) \in 1..MaxName
    BY EntryShape
  <2>2. MaxName \in Nat
    BY ImageAssumption
  <2> HIDE DEF entry, name
  <2> QED BY <2>1, <2>2 DEF RTC, DIR, REG
<1>2. /\ field \in Seq(Nat) /\ Len(field) \in {Len(name), Len(name) + 1}
      /\ Len(field) > Len(name) => /\ Len(name) = MaxName /\ entry.type # 0
                                   /\ field = Append(name, entry.type)
      /\ \A j \in 1..Len(name) : field[j] = name[j]
  <2>1. CASE field = name
    BY <1>1, <2>1
  <2>2. CASE Len(name) = MaxName /\ entry.type # 0 /\ field = Append(name, entry.type)
    BY <1>1, <2>2
  <2> QED BY <2>1, <2>2 DEF NameField
<1>3. count \in 0..Len(field) /\ Len(field) \in Nat /\ (n > 0 => count > 0)
  BY <1>1, <1>2
<1> HIDE DEF field, count, name
<1>4. /\ piece \in Seq(Nat) /\ Len(piece) = count
      /\ \A j \in 1..count : piece[j] = field[j]
  <2>1. \A j \in 1..count : field[j] \in Nat
    BY <1>2, <1>3, ElementOfSeq
  <2> QED BY <1>3, <2>1, SubSeqProperties
<1>5. ASSUME count <= Len(name) PROVE OfName(piece, entry)
  <2>1. count \in 0..Len(name)
    BY <1>1, <1>3, <1>5
  <2>2. /\ SubSeq(name, 1, count) \in Seq(Nat) /\ Len(SubSeq(name, 1, count)) = count
        /\ \A j \in 1..count : SubSeq(name, 1, count)[j] = name[j]
    <3>1. \A j \in 1..count : name[j] \in Nat
      BY <1>1, <2>1, ElementOfSeq
    <3> QED BY <2>1, <3>1, SubSeqProperties
  <2>3. \A j \in 1..count : piece[j] = SubSeq(name, 1, count)[j]
    BY <1>2, <1>4, <2>1, <2>2
  <2> HIDE DEF piece
  <2>4. piece = SubSeq(name, 1, count)
    BY <1>4, <2>2, <2>3, SeqEqual
  <2> QED BY <2>1, <2>4 DEF OfName, name
<1>6. ASSUME ~(count <= Len(name)), n \in Sizes PROVE WithType(piece, entry)
  <2>1. /\ count = Len(field) /\ Len(field) = Len(name) + 1 /\ n > Len(name)
        /\ Len(name) = MaxName /\ entry.type # 0 /\ field = Append(name, entry.type)
    <3>1. Len(field) = Len(name) + 1 /\ count = Len(field)
      BY <1>1, <1>2, <1>3, <1>6
    <3>2. n >= count
      BY <1>2, <1>3 DEF count
    <3> QED BY <1>1, <1>2, <3>1, <3>2
  <2>2. piece = field
    BY <1>2, <1>3, <2>1, SubSeqFull
  <2>3. entry.type \in {DIR, REG}
    BY <2>1, EntryShape DEF RTC
  <2>4. \E m \in Sizes : m > MaxName
    BY <1>6, <2>1
  <2> QED BY <2>1, <2>2, <2>3, <2>4 DEF WithType, name
<1> QED BY <1>3, <1>4, <1>5, <1>6 DEF field, count

LEMMA DirReadKeeps ==
    ASSUME IInv, UNCHANGED live, NEW fd \in Fds, NEW n \in Sizes, n \in Nat,
           IsDir(fd), DirRead(fd, n)
    PROVE  IInv'
<1> DEFINE f  == files[fd]
           at == f.position
<1>1. f \in Descriptors /\ InUse(fd) /\ f.kind = "dir" /\ at \in Nat
  BY DEF IInv, Shape, IsDir, Descriptors
<1>2. taken[fd] \in Seq(Seq(Nat)) /\ DirInOrder(fd) /\ Len(Directory) \in Nat
  BY ImageAssumption DEF IInv, FdOK
<1>3. CASE at >= Len(Directory)
  BY <1>3, RewindKeeps DEF DirRead
<1>4. CASE ~(at >= Len(Directory))
  <2> DEFINE entry == Directory[at + 1]
             field == NameField(entry)
             count == IF n < Len(field) THEN n ELSE Len(field)
             piece == SubSeq(field, 1, count)
             now   == taken[fd] \o <<piece>>
  <2>1. Deliver(fd, <<piece>>, 1, count)
    BY <1>4 DEF DirRead
  <2>2. at + 1 \in DOMAIN Directory /\ at + 1 <= Len(Directory) /\ at + 1 \in Nat
    BY <1>1, <1>4, DirectoryDomain
  <2>3. /\ count \in Nat /\ piece \in Seq(Nat)
        /\ OfName(piece, entry) \/ WithType(piece, entry)
    BY <2>2, NamePiece
  <2>4. /\ files' = [files EXCEPT ![fd].position = at + 1]
        /\ taken' = [taken EXCEPT ![fd] = now]
        /\ result' = count
    BY <2>1 DEF Deliver
  <2>5. Len(taken[fd]) = at
    BY <1>2 DEF DirInOrder
  <2> HIDE DEF piece, count
  <2>6. /\ now \in Seq(Seq(Nat)) /\ Len(now) = at + 1 /\ now[at + 1] = piece
        /\ \A i \in 1..at : now[i] = taken[fd][i]
    <3>1. <<piece>> \in Seq(Seq(Nat)) /\ Len(<<piece>>) = 1 /\ <<piece>>[1] = piece
      BY <2>3
    <3> DEFINE one == <<piece>>
    <3> HIDE DEF one
    <3>2. /\ taken[fd] \o one \in Seq(Seq(Nat))
          /\ Len(taken[fd] \o one) = Len(taken[fd]) + Len(one)
          /\ \A i \in 1..(Len(taken[fd]) + Len(one)) :
                 (taken[fd] \o one)[i] = IF i <= Len(taken[fd]) THEN taken[fd][i]
                                         ELSE one[i - Len(taken[fd])]
      BY <1>2, <3>1, ConcatProperties DEF one
    <3>3. Len(one) = 1 /\ one[1] = piece
      BY <3>1 DEF one
    <3>4. now = taken[fd] \o one
      BY DEF one
    <3> HIDE DEF now
    <3> QED BY <1>1, <2>5, <3>2, <3>3, <3>4
  <2> HIDE DEF now
  <2>7. /\ files'[fd] = [f EXCEPT !.position = at + 1] /\ taken'[fd] = now
    BY <2>4 DEF IInv, Shape
  <2>8. /\ files'[fd].position = at + 1 /\ files'[fd].kind = f.kind
        /\ files'[fd].flags = f.flags
    BY <1>1, <2>7 DEF Descriptors
  <2>9. ASSUME NEW i \in 1..(at + 1)
        PROVE  OfName(now[i], Directory[i]) \/ WithType(now[i], Directory[i])
    <3>1. CASE i = at + 1
      BY <2>3, <2>6, <3>1
    <3>2. CASE i # at + 1
      <4>1. i \in 1..at
        BY <1>1, <3>2
      <4> QED BY <1>2, <2>5, <2>6, <4>1 DEF DirInOrder
    <3> QED BY <3>1, <3>2
  <2>10. DirInOrder(fd)'
    BY <2>2, <2>6, <2>7, <2>8, <2>9 DEF DirInOrder
  <2>11. FdOK(fd)'
    BY <1>1, <2>6, <2>7, <2>8, <2>10 DEF FdOK, IsFile, IsDir, InUse
  <2>12. result' \in Int
    BY <2>3, <2>4
  <2> QED BY <1>1, <2>2, <2>4, <2>11, <2>12, MoveKeeps
<1> QED BY <1>3, <1>4

----------------------------------------------------------------------------
(* One lemma for each system call.                                          *)
LEMMA ReadKeeps ==
    ASSUME IInv, NEW fd \in Args, NEW n \in Sizes, Read(fd, n)
    PROVE  IInv'
<1>1. UNCHANGED live /\ n \in Int
  BY ImageAssumption DEF Read
<1>2. CASE ~Valid(fd, n) \/ fd = 1
  BY <1>1, <1>2, ReturnsKeeps DEF Read
<1>3. CASE Valid(fd, n) /\ fd # 1
  <2>1. fd \in Fds /\ n \in Nat
    BY <1>1, <1>3 DEF Valid
  <2>2. CASE Returns(-1) \/ Returns(0)
    BY <1>1, <2>2, ReturnsKeeps
  <2>3. CASE \E k \in 0..n : Returns(k)
    BY <1>1, <2>3, ReturnsKeeps
  <2>4. CASE IsFile(fd) /\ FileRead(fd, n)
    BY <1>1, <2>1, <2>4, FileReadKeeps
  <2>5. CASE IsDir(fd) /\ DirRead(fd, n)
    BY <1>1, <2>1, <2>5, DirReadKeeps
  <2> QED BY <1>3, <2>2, <2>3, <2>4, <2>5 DEF Read
<1> QED BY <1>2, <1>3

LEMMA WriteKeeps ==
    ASSUME IInv, NEW fd \in Args, NEW n \in Sizes, Write(fd, n)
    PROVE  IInv'
<1>1. UNCHANGED live /\ n \in Int
  BY ImageAssumption DEF Write
<1>2. \E value \in Int : Returns(value)
  BY <1>1 DEF Write
<1> QED BY <1>1, <1>2, ReturnsKeeps

LEMMA ExecuteKeeps ==
    ASSUME IInv, Execute
    PROVE  IInv'
<1>1. stdin_fd \in Descriptors /\ stdout_fd \in Descriptors
  BY DEF stdin_fd, stdout_fd, Descriptors, Kinds
<1>2. 0 \in Fds /\ 1 \in Fds
  BY ImageAssumption DEF Fds
<1>3. \A fd \in Fds : ~InUse(fd)
  BY DEF IInv, CleanStart, Execute
<1>4. /\ files'[0] = stdin_fd /\ files'[1] = stdout_fd
      /\ \A fd \in Fds \ {0, 1} : files'[fd] = files[fd]
  BY <1>2 DEF Execute, IInv, Shape
<1>5. live' = TRUE /\ taken' = taken /\ result' = result
  BY DEF Execute
<1>6. Shape'
  BY <1>1, <1>5 DEF Execute, IInv, Shape
<1>7. ASSUME NEW fd \in Fds PROVE FdOK(fd)'
  <2>1. CASE fd \in {0, 1}
    BY <1>4, <2>1 DEF FdOK, IsFile, IsDir, InUse, stdin_fd, stdout_fd
  <2>2. CASE fd \notin {0, 1}
    BY <1>4, <1>5, <2>2, FdFrame DEF IInv
  <2> QED BY <2>1, <2>2
<1>8. NullRefused'
  BY <1>3, <1>4 DEF NullRefused, InUse, stdin_fd, stdout_fd
<1>9. CleanStart'
  BY <1>5 DEF CleanStart
<1> QED BY <1>6, <1>7, <1>8, <1>9 DEF IInv

LEMMA HaltKeeps ==
    ASSUME IInv, Halt
    PROVE  IInv'
<1>1. \A fd \in Fds : [files[fd] EXCEPT !.flags = 0] \in Descriptors
  BY DEF IInv, Shape, Descriptors
<1>2. \A fd \in Fds : files'[fd] = [files[fd] EXCEPT !.flags = 0] /\ taken'[fd] = <<>>
  BY DEF Halt
<1>3. \A fd \in Fds : files'[fd].flags = 0
  BY <1>2 DEF IInv, Shape, Descriptors
<1>4. Shape'
  <2>1. files' \in [Fds -> Descriptors]
    BY <1>1 DEF Halt
  <2>2. taken' = [fd \in Fds |-> taken'[fd]]
    BY <1>2 DEF Halt
  <2>3. live' \in BOOLEAN /\ result' \in Int
    BY DEF Halt, IInv, Shape
  <2> QED BY <2>1, <2>2, <2>3 DEF Shape
<1>5. \A fd \in Fds : FdOK(fd)'
  BY <1>2, <1>3 DEF FdOK, IsFile, IsDir, InUse
<1>6. CleanStart' /\ NullRefused'
  BY <1>3 DEF CleanStart, NullRefused, InUse, Halt
<1> QED BY <1>4, <1>5, <1>6 DEF IInv

LEMMA CloseKeeps ==
    ASSUME IInv, NEW fd \in Args, Close(fd)
    PROVE  IInv'
<1>1. UNCHANGED live
  BY DEF Close
<1>2. CASE Returns(-1)
  BY <1>1, <1>2, ReturnsKeeps
<1>3. CASE ~Returns(-1)
  <2>1. /\ fd \in Fds \ {0, 1} /\ live
        /\ files' = [files EXCEPT ![fd].flags = 0]
        /\ taken' = [taken EXCEPT ![fd] = <<>>]
        /\ result' = 0
    BY <1>3 DEF Close
  <2>2. [files[fd] EXCEPT !.flags = 0] \in Descriptors /\ files[fd] \in Descriptors
    BY <2>1 DEF IInv, Shape, Descriptors
  <2>3. files'[fd].flags = 0 /\ taken'[fd] = <<>>
    BY <2>1, <2>2 DEF IInv, Shape, Descriptors
  <2>4. \A d \in Fds \ {fd} : files'[d] = files[d] /\ taken'[d] = taken[d]
    BY <2>1 DEF IInv, Shape
  <2>5. Shape'
    <3>1. files' \in [Fds -> Descriptors]
      BY <2>1, <2>2 DEF IInv, Shape
    <3>2. taken' = [d \in Fds |-> taken'[d]]
      BY <2>1 DEF IInv, Shape
    <3>3. live' \in BOOLEAN /\ result' \in Int
      BY <1>1, <2>1 DEF IInv, Shape
    <3> QED BY <3>1, <3>2, <3>3 DEF Shape
  <2>6. FdOK(fd)'
    BY <2>3 DEF FdOK, IsFile, IsDir, InUse
  <2>7. \A d \in Fds : FdOK(d)'
    BY <2>4, <2>6, FdFrame DEF IInv
  <2>8. CleanStart' /\ NullRefused'
    <3>1. 0 \in Fds /\ 1 \in Fds
      BY ImageAssumption DEF Fds
    <3> QED BY <1>1, <2>1, <2>3, <2>4, <3>1 DEF IInv, CleanStart, NullRefused, InUse
  <2> QED BY <2>5, <2>7, <2>8 DEF IInv
<1> QED BY <1>2, <1>3

(* A set of numbers has a least one.                                        *)
LEMMA Least ==
    ASSUME NEW S \in SUBSET Nat, S # {}
    PROVE  \E d \in S : \A e \in S : d <= e
<1>1. \E d \in S : \A e \in S : ~(<<e, d>> \in OpToRel(<, Nat))
  BY NatLessThanWellFounded, WFMin
<1>2. ASSUME NEW d \in Nat, NEW e \in Nat, ~(<<e, d>> \in OpToRel(<, Nat))
      PROVE  d <= e
  <2>1. ASSUME e < d PROVE <<e, d>> \in OpToRel(<, Nat)
    BY <2>1 DEF OpToRel
  <2>2. ~(e < d)
    BY <1>2, <2>1, Zenon
  <2> QED BY <2>2
<1> QED BY <1>1, <1>2

LEMMA OpenKeeps ==
    ASSUME IInv, NEW name \in Names, Open(name)
    PROVE  IInv'
<1>1. UNCHANGED live /\ live
  BY DEF Open
<1>2. CASE Free = {} \/ Matches(name) = {}
  BY <1>1, <1>2, ReturnsKeeps DEF Open
<1>3. CASE Free # {} /\ Matches(name) # {}
  <2> DEFINE entry == Entry(name)
  <2>1. PICK fd \in Fds \ {0, 1} :
          /\ ~InUse(fd)
          /\ files' = [files EXCEPT ![fd] = Opened(files[fd], entry)] /\ result' = fd /\ taken' = taken
    <3>1. Free \in SUBSET Nat
      BY ImageAssumption DEF Free, Fds
    <3>2. PICK d \in Free : d = CHOOSE x \in Free : \A e \in Free : x <= e
      BY <1>3, <3>1, Least
    <3>3. files' = [files EXCEPT ![d] = Opened(files[d], entry)] /\ result' = d /\ taken' = taken
      BY <1>3, <3>2 DEF Open
    <3>4. d \in Fds \ {0, 1} /\ ~InUse(d)
      BY <3>2 DEF Free
    <3> QED BY <3>3, <3>4
  <2>2. entry.type \in {RTC, DIR, REG} /\ entry.inode \in DOMAIN Inodes
    <3>1. Matches(name) \in SUBSET Nat /\ Matches(name) \subseteq DOMAIN Directory
      BY DirectoryDomain DEF Matches
    <3>2. PICK i \in DOMAIN Directory : entry = Directory[i]
      BY <1>3, <3>1, Least DEF Entry
    <3> QED BY <3>2, EntryShape
  <2> HIDE DEF entry
  <2> DEFINE new == Opened(files[fd], entry)
  <2>3. files' = [files EXCEPT ![fd] = new] /\ fd \in Int
    BY <2>1, ImageAssumption DEF Fds
  <2>4. /\ files[fd] \in Descriptors /\ taken[fd] = <<>> /\ taken'[fd] = <<>>
        /\ entry.inode \in Nat
    BY <2>1, <2>2, ImageAssumption DEF IInv, Shape, FdOK
  <2>5. /\ new \in Descriptors /\ new.flags = 1 /\ new.position = 0
        /\ new.kind \in {"rtc", "dir", "file"}
        /\ new.kind = "file" => new.inode \in DOMAIN Inodes
    <3>1. KindOf(entry.type) \in {"rtc", "dir", "file"}
      BY DEF KindOf
    <3>2. KindOf(entry.type) = "file" => entry.type = REG
      BY <2>2 DEF KindOf, RTC, DIR, REG
    <3>3. (IF entry.type = REG THEN entry.inode ELSE files[fd].inode) \in Nat
      BY <2>4 DEF Descriptors
    <3> QED BY <2>2, <3>1, <3>2, <3>3 DEF Opened, Descriptors, Kinds
  <2> HIDE DEF new
  <2>6. files'[fd] = new /\ \A d \in Fds \ {fd} : files'[d] = files[d]
    BY <2>3 DEF IInv, Shape
  <2>7. Shape'
    BY <1>1, <2>1, <2>3, <2>5 DEF IInv, Shape
  <2>8. FdOK(fd)'
    <3>1. ASSUME new.kind = "file" PROVE FileInOrder(fd)'
      <4>1. Text[new.inode] \in Seq(Nat) /\ Len(Text[new.inode]) \in Nat
        BY <2>5, <3>1, ImageAssumption
      <4>2. SubSeq(Text[new.inode], 1, 0) = <<>>
        BY SubSeqEmpty
      <4> QED BY <2>4, <2>5, <2>6, <4>1, <4>2 DEF FileInOrder
    <3>2. DirInOrder(fd)' /\ taken'[fd] \in Seq(Seq(Nat))
      <4>1. <<>> \in Seq(Seq(Nat)) /\ Len(<<>>) = 0
        OBVIOUS
      <4> QED BY <2>4, <2>5, <2>6, <4>1, DirectoryDomain DEF DirInOrder
    <3> QED BY <2>5, <2>6, <3>1, <3>2 DEF FdOK, IsFile, IsDir, InUse
  <2>9. \A d \in Fds : FdOK(d)'
    BY <2>1, <2>6, <2>8, FdFrame DEF IInv
  <2>10. CleanStart' /\ NullRefused'
    <3>1. 0 \in Fds /\ 1 \in Fds
      BY ImageAssumption DEF Fds
    <3> QED BY <1>1, <2>1, <2>5, <2>6, <3>1 DEF IInv, CleanStart, NullRefused, InUse
  <2> QED BY <2>7, <2>9, <2>10 DEF IInv
<1> QED BY <1>2, <1>3

LEMMA NextInv == IInv /\ [Next]_vars => IInv'
<1> SUFFICES ASSUME IInv, [Next]_vars PROVE IInv'
  OBVIOUS
<1>1. CASE Execute
  BY <1>1, ExecuteKeeps
<1>2. CASE Halt
  BY <1>2, HaltKeeps
<1>3. CASE \E fd \in Args, n \in Sizes : Read(fd, n) \/ Write(fd, n)
  BY <1>3, ReadKeeps, WriteKeeps
<1>4. CASE \E name \in Names : Open(name)
  BY <1>4, OpenKeeps
<1>5. CASE \E fd \in Args : Close(fd)
  BY <1>5, CloseKeeps
<1>6. CASE UNCHANGED vars
  <2>1. files' = files /\ taken' = taken /\ live' = live /\ result' = result
    BY <1>6 DEF vars
  <2>2. \A fd \in Fds : FdOK(fd)'
    BY <2>1, FdFrame DEF IInv
  <2> QED BY <2>1, <2>2 DEF IInv, Shape, CleanStart, NullRefused, InUse
<1> QED BY <1>1, <1>2, <1>3, <1>4, <1>5, <1>6 DEF Next

THEOREM Invariance == Spec => []IInv
BY InitInv, NextInv, PTL DEF Spec

(* The descriptors keep their types, and an open file's inode exists.       *)
THEOREM TypeCorrect == Spec => []FilesTypeOK
BY Invariance, Implied, PTL

(* Whatever the sizes of the reads, what a program reads of a file is its   *)
(* text from the start, piece by piece; of a directory, for each entry in   *)
(* order the name or a beginning of it, or, only for a name of full length  *)
(* and a read that asks for more, the name and the byte of the entry's type *)
(* (file_read, dir_read, read_data).                                        *)
THEOREM OrderCorrect == Spec => []InOrder
BY Invariance, Implied, PTL

(* A program starts with nothing that one before it left open (halt).       *)
THEOREM StartCorrect == Spec => []CleanStart
BY Invariance, Implied, PTL

(* No call of a live program reaches a null table entry (read, write,       *)
(* close).                                                                  *)
THEOREM NullCorrect == Spec => []NullRefused
BY Invariance, Implied, PTL
----------------------------------------------------------------------------
(* A read that returns zero for at least one byte is at the end.            *)
LEMMA ZeroAtEnd ==
    ASSUME IInv, NEW fd \in Fds, NEW n \in Sizes, n > 0, IsFile(fd) \/ IsDir(fd),
           Read(fd, n), result' = 0
    PROVE  Len(taken[fd]) = Total(fd)
<1>1. n \in Nat /\ Valid(fd, n) /\ InUse(fd)
  BY ImageAssumption DEF Valid, IsFile, IsDir
<1>2. fd # 1 /\ files[fd].kind \in {"file", "dir"} /\ files[fd] \in Descriptors
  <2>1. files[fd].kind \in {"file", "dir"}
    BY DEF IsFile, IsDir
  <2>2. CASE live
    BY <1>1, <2>1, <2>2 DEF IInv, NullRefused, Shape
  <2> QED BY <2>2 DEF Read
<1>3. \/ IsFile(fd) /\ files[fd].kind = "file" /\ FileRead(fd, n)
      \/ IsDir(fd) /\ files[fd].kind = "dir" /\ DirRead(fd, n)
  BY <1>1, <1>2 DEF Read, IsFile, IsDir
<1>4. CASE IsFile(fd) /\ files[fd].kind = "file" /\ FileRead(fd, n)
  <2> DEFINE f     == files[fd]
             text  == Text[f.inode]
             bytes == ReadData(f.inode, f.position, n)
  <2>1. /\ f.inode \in DOMAIN Inodes /\ f.position \in 0..Len(text)
        /\ taken[fd] = SubSeq(text, 1, f.position)
    BY <1>2, <1>4 DEF IInv, FdOK, FileInOrder, Descriptors
  <2>2. text \in Seq(Nat) /\ Len(text) \in Nat /\ Inodes[f.inode].size = Len(text)
    <3>1. f.inode \in DOMAIN Inodes
      BY <2>1
    <3> QED BY <3>1, TextShape
  <2>3. f.position = Len(text)
    <3>1. ASSUME f.position < Len(text) PROVE FALSE
      <4>1. result' = Len(bytes)
        BY <1>4, <2>1, <2>2, <3>1 DEF FileRead, Deliver
      <4>2. Len(bytes) > 0
        BY <1>1, <2>1, <3>1, ReadDataText
      <4> QED BY <4>1, <4>2
    <3> QED BY <2>1, <2>2, <3>1
  <2>4. taken[fd] = text
    BY <2>1, <2>2, <2>3, SubSeqFull
  <2> QED BY <1>4, <2>4 DEF Total
<1>5. CASE IsDir(fd) /\ files[fd].kind = "dir" /\ DirRead(fd, n)
  <2> DEFINE at    == files[fd].position
             field == NameField(Directory[at + 1])
             count == IF n < Len(field) THEN n ELSE Len(field)
  <2>1. Len(taken[fd]) = at /\ at <= Len(Directory) /\ at \in Nat /\ Len(Directory) \in Nat
    BY <1>2, <1>5, DirectoryDomain DEF IInv, FdOK, DirInOrder, Descriptors
  <2>2. ASSUME at < Len(Directory) PROVE FALSE
    <3>1. at + 1 \in DOMAIN Directory
      BY <2>1, <2>2, DirectoryDomain
    <3>2. count > 0
      BY <1>1, <3>1, NamePiece
    <3>3. result' = count
      BY <1>5, <2>1, <2>2 DEF DirRead, Deliver
    <3> QED BY <3>2, <3>3
  <2>3. Len(taken[fd]) = Len(Directory)
    BY <2>1, <2>2
  <2> QED BY <1>5, <2>3 DEF Total
<1> QED BY <1>3, <1>4, <1>5

(* The loops of the programs may take a zero for the end.                   *)
THEOREM EndCorrect == Spec => ZeroMeansEnd
<1> DEFINE A == \A fd \in Fds, n \in Sizes :
                    (IsFile(fd) \/ IsDir(fd)) /\ n > 0 /\ Read(fd, n) /\ result' = 0 =>
                        Len(taken[fd]) = Total(fd)
<1>1. IInv /\ [Next]_vars => [A]_vars
  <2> SUFFICES ASSUME IInv PROVE A
    OBVIOUS
  <2> QED BY ZeroAtEnd
<1>2. ZeroMeansEnd <=> [][A]_vars
  BY DEF ZeroMeansEnd
<1> HIDE DEF A
<1> QED BY <1>1, <1>2, Invariance, PTL DEF Spec

(***************************************************************************)
(* The arguments.  The two searches of execute end where the parts of the  *)
(* command meet; everything else is read off the elements of the command.  *)
(***************************************************************************)
Chars == Nat \ {0}

Parts(word, gap, text) ==
    /\ word \in Seq(Chars \ {Blank}) /\ gap \in Nat /\ text \in Seq(Chars)
    /\ Typed(gap, text)

(* The characters of a command, from its parts.                             *)
LEMMA CommandElements ==
    ASSUME NEW word, NEW gap, NEW text, Parts(word, gap, text),
           NEW c, c = Command(word, gap, text)
    PROVE  /\ c \in Seq(Chars)
           /\ Len(c) = Len(word) + gap + Len(text)
           /\ \A j \in 1..Len(word) : c[j] = word[j] /\ c[j] # Blank
           /\ \A j \in (Len(word) + 1)..(Len(word) + gap) : c[j] = Blank
           /\ \A j \in 1..Len(text) : c[Len(word) + gap + j] = text[j]
<1> DEFINE b == Blanks(gap)
           wb == word \o b
<1>1. word \in Seq(Chars) /\ text \in Seq(Chars) /\ gap \in Nat
  BY DEF Parts
<1>2. b \in Seq(Chars) /\ Len(b) = gap /\ \A j \in 1..gap : b[j] = Blank
  BY <1>1 DEF Blanks, Blank, Chars
<1>3. c = wb \o text
  BY DEF Command
<1> HIDE DEF b
<1>4. /\ wb \in Seq(Chars) /\ Len(wb) = Len(word) + gap
      /\ \A j \in 1..Len(word) : wb[j] = word[j]
      /\ \A j \in 1..gap : wb[Len(word) + j] = b[j]
  <2>1. wb \in Seq(Chars) /\ Len(wb) = Len(word) + gap
    BY <1>1, <1>2
  <2>2. \A j \in 1..Len(word) : wb[j] = word[j]
    BY <1>1, <1>2
  <2>3. \A j \in 1..gap : wb[Len(word) + j] = b[j]
    BY <1>1, <1>2
  <2> QED BY <2>1, <2>2, <2>3
<1> HIDE DEF wb
<1>5. /\ c \in Seq(Chars) /\ Len(c) = Len(wb) + Len(text)
      /\ \A j \in 1..Len(wb) : c[j] = wb[j]
      /\ \A j \in 1..Len(text) : c[Len(wb) + j] = text[j]
  <2>0. wb \in Seq(Chars)
    BY <1>4
  <2>1. c \in Seq(Chars) /\ Len(c) = Len(wb) + Len(text)
    BY <1>1, <1>3, <2>0
  <2>2. \A j \in 1..Len(wb) : c[j] = wb[j]
    BY <1>1, <1>3, <1>4
  <2>3. \A j \in 1..Len(text) : c[Len(wb) + j] = text[j]
    BY <1>1, <1>3, <1>4
  <2> QED BY <2>1, <2>2, <2>3
<1>6. Len(word) \in Nat /\ gap \in Nat /\ Len(text) \in Nat
  BY <1>1
<1>7. ASSUME NEW j \in 1..Len(word)
      PROVE  c[j] = word[j] /\ c[j] # Blank
  <2>1. word[j] # Blank
    BY DEF Parts
  <2>2. j \in 1..Len(wb)
    BY <1>4, <1>6
  <2> QED BY <1>4, <1>5, <2>1, <2>2
<1>8. ASSUME NEW j \in (Len(word) + 1)..(Len(word) + gap)
      PROVE  c[j] = Blank
  <2> DEFINE k == j - Len(word)
  <2>1. k \in 1..gap /\ j = Len(word) + k /\ j \in 1..Len(wb)
    BY <1>4, <1>6
  <2> HIDE DEF k
  <2>2. wb[Len(word) + k] = b[k] /\ b[k] = Blank
    BY <1>2, <1>4, <2>1
  <2> QED BY <1>5, <2>1, <2>2
<1>9. Len(c) = Len(word) + gap + Len(text) /\ c \in Seq(Chars)
  BY <1>4, <1>5
<1>10. \A j \in 1..Len(text) : c[Len(word) + gap + j] = text[j]
  BY <1>4, <1>5
<1> QED BY <1>7, <1>8, <1>9, <1>10

(* execute finds the end of the name ...                                    *)
LEMMA NameEndFound ==
    ASSUME NEW word, NEW gap, NEW text, Parts(word, gap, text)
    PROVE  NameEnd(Command(word, gap, text)) = Len(word)
<1> DEFINE c == Command(word, gap, text)
           P(k) == /\ k < Len(c) => c[k + 1] = Blank
                   /\ \A j \in 1..k : c[j] # Blank
<1>1. /\ c \in Seq(Chars)
      /\ Len(c) = Len(word) + gap + Len(text)
      /\ \A j \in 1..Len(word) : c[j] # Blank
      /\ \A j \in (Len(word) + 1)..(Len(word) + gap) : c[j] = Blank
  BY CommandElements
<1>2. /\ Len(word) \in Nat /\ Len(text) \in Nat /\ gap \in Nat
      /\ gap = 0 => Len(text) = 0
  BY DEF Parts, Typed
<1>3. NameEnd(c) = CHOOSE k \in 0..Len(c) : P(k)
  BY DEF NameEnd
<1> HIDE DEF c
<1>4. Len(word) \in 0..Len(c) /\ P(Len(word))
  BY <1>1, <1>2
<1>5. \A k \in 0..Len(c) : P(k) => k = Len(word)
  <2> SUFFICES ASSUME NEW k \in 0..Len(c), P(k)
               PROVE  k = Len(word)
    OBVIOUS
  <2>1. CASE k < Len(word)
    BY <2>1, <1>1, <1>2
  <2>2. CASE k > Len(word)
    <3>1. gap > 0
      BY <2>2, <1>1, <1>2
    <3>2. Len(word) + 1 \in (Len(word) + 1)..(Len(word) + gap)
      BY <3>1, <1>2
    <3>3. c[Len(word) + 1] = Blank
      BY <3>2, <1>1
    <3>4. Len(word) + 1 \in 1..k
      BY <2>2, <1>2
    <3> QED BY <3>3, <3>4
  <2> QED BY <2>1, <2>2, <1>2
<1> HIDE DEF P
<1>6. NameEnd(c) \in 0..Len(c) /\ P(NameEnd(c))
  BY <1>3, <1>4
<1>7. NameEnd(c) = Len(word)
  BY <1>5, <1>6
<1> QED BY <1>7 DEF c

(* ... and the start of the arguments.                                      *)
LEMMA ArgsStartFound ==
    ASSUME NEW word, NEW gap, NEW text, Parts(word, gap, text)
    PROVE  ArgsStart(Command(word, gap, text)) = Len(word) + gap
<1> DEFINE c == Command(word, gap, text)
           end == Len(word)
           P(k) == /\ k < Len(c) => c[k + 1] # Blank
                   /\ \A j \in (end + 1)..k : c[j] = Blank
<1>1. /\ c \in Seq(Chars)
      /\ Len(c) = end + gap + Len(text)
      /\ \A j \in (end + 1)..(end + gap) : c[j] = Blank
      /\ \A j \in 1..Len(text) : c[end + gap + j] = text[j]
  BY CommandElements
<1>2. /\ end \in Nat /\ Len(text) \in Nat /\ gap \in Nat
      /\ Len(text) > 0 => text[1] # Blank
  BY DEF Parts, Typed
<1>3. ArgsStart(c) = CHOOSE k \in end..Len(c) : P(k)
  BY NameEndFound DEF ArgsStart
<1> HIDE DEF c, end
<1>4. Len(text) > 0 => c[end + gap + 1] # Blank
  BY <1>1, <1>2
<1>5. end + gap \in end..Len(c) /\ P(end + gap)
  BY <1>1, <1>2, <1>4
<1>6. \A k \in end..Len(c) : P(k) => k = end + gap
  <2> SUFFICES ASSUME NEW k \in end..Len(c), P(k)
               PROVE  k = end + gap
    OBVIOUS
  <2>1. CASE k < end + gap
    <3>1. c[k + 1] = Blank /\ k < Len(c)
      BY <2>1, <1>1, <1>2
    <3> QED BY <3>1
  <2>2. CASE k > end + gap
    <3>1. c[end + gap + 1] # Blank /\ end + gap + 1 \in (end + 1)..k
      BY <2>2, <1>1, <1>2, <1>4
    <3> QED BY <3>1
  <2> QED BY <2>1, <2>2, <1>2
<1> HIDE DEF P
<1>7. ArgsStart(c) \in end..Len(c) /\ P(ArgsStart(c))
  BY <1>3, <1>5
<1>8. ArgsStart(c) = end + gap
  BY <1>6, <1>7
<1> QED BY <1>8 DEF c, end

(* What is kept in the process block.                                       *)
LEMMA ArgsKept ==
    ASSUME NEW word, NEW gap, NEW text, Parts(word, gap, text),
           NEW i \in 0..(ArgsSize - 1)
    PROVE  args(Command(word, gap, text))[i] = IF i < Len(text) THEN text[i + 1] ELSE 0
<1> DEFINE c == Command(word, gap, text)
           start == Len(word) + gap
<1>1. args(c)[i] = IF start + i < Len(c) THEN c[start + i + 1] ELSE 0
  BY ArgsStartFound DEF args
<1>2. /\ Len(c) = start + Len(text)
      /\ \A j \in 1..Len(text) : c[start + j] = text[j]
  BY CommandElements
<1>3. i \in Nat /\ Len(text) \in Nat /\ start \in Nat
  BY ArgumentsAssumption DEF Parts
<1> HIDE DEF c, start
<1>4. CASE i < Len(text)
  <2>1. i + 1 \in 1..Len(text) /\ start + (i + 1) = start + i + 1
    BY <1>3, <1>4
  <2>2. c[start + i + 1] = text[i + 1]
    BY <1>2, <2>1
  <2>3. start + i < Len(c)
    BY <1>2, <1>3, <1>4
  <2>4. args(c)[i] = text[i + 1]
    BY <1>1, <2>2, <2>3
  <2> QED BY <1>4, <2>4 DEF c
<1>5. CASE ~(i < Len(text))
  <2>1. ~(start + i < Len(c))
    BY <1>2, <1>3, <1>5
  <2>2. args(c)[i] = 0
    BY <1>1, <2>1
  <2> QED BY <1>5, <2>2 DEF c
<1> QED BY <1>4, <1>5

(* What one program gets.                                                   *)
LEMMA OneReaches ==
    ASSUME NEW word \in Words, NEW gap \in Gaps, NEW text \in Texts,
           NEW n \in Lengths, Typed(gap, text)
    PROVE  Reaches(word, gap, text, n)
<1> DEFINE c == Command(word, gap, text)
           before == [i \in 0..ArgsSize |-> -1]
           kept == args(c)
           got == getargs(kept, before, n)
<1>1. Parts(word, gap, text) /\ n \in Int /\ ArgsSize \in Nat \ {0}
  BY ArgumentsAssumption DEF Parts, Chars
<1>2. /\ text \in Seq(Chars) /\ Len(text) \in Nat
      /\ \A j \in 1..Len(text) : text[j] # 0
      /\ text = <<>> <=> Len(text) = 0
  BY <1>1 DEF Parts, Chars
<1>3. file_name(c) = word
  <2>1. NameEnd(c) = Len(word)
    BY <1>1, NameEndFound
  <2>0. /\ c \in Seq(Chars) /\ Len(c) = Len(word) + gap + Len(text)
        /\ \A j \in 1..Len(word) : c[j] = word[j]
    BY <1>1, CommandElements
  <2> HIDE DEF c
  <2>2. /\ word \in Seq(Chars) /\ c \in Seq(Chars) /\ Len(word) \in Nat
        /\ Len(word) <= Len(c)
        /\ \A j \in 1..Len(word) : c[j] = word[j]
    BY <1>1, <1>2, <2>0 DEF Parts
  <2>3. SubSeq(c, 1, Len(word)) = word
    BY <2>2
  <2> QED BY <2>1, <2>3 DEF file_name
<1>4. \A i \in 0..(ArgsSize - 1) : kept[i] = IF i < Len(text) THEN text[i + 1] ELSE 0
  BY <1>1, ArgsKept
<1> HIDE DEF Reaches, c, kept
<1>5. \A i \in 0..(ArgsSize - 1) : kept[i] = 0 <=> ~(i < Len(text))
  BY <1>1, <1>2, <1>4
<1>6. Refuses(kept, n) <=> text = <<>> \/ n \notin 0..ArgsSize
  <2>1. kept[0] = 0 <=> text = <<>>
    BY <1>1, <1>2, <1>5
  <2> QED BY <1>1, <2>1 DEF Refuses
<1>7. CASE Refuses(kept, n)
  <2>1. got.value = -1 /\ got.buf = before
    BY <1>7 DEF getargs
  <2>2. got.value = -1 <=> text = <<>> \/ n \notin 0..ArgsSize
    BY <1>6, <1>7, <2>1
  <2>3. \A i \in 0..ArgsSize : got.buf[i] = -1
    BY <2>1
  <2>4. got.value # 0
    BY <2>1
  <2> QED BY <1>3, <2>2, <2>3, <2>4 DEF Reaches, c, kept
<1>8. CASE ~Refuses(kept, n)
  <2>1. got.value = 0 /\ got.buf = [i \in 0..ArgsSize |->
            IF i < n /\ \A j \in 0..(i - 1) : kept[j] # 0 THEN kept[i] ELSE -1]
    BY <1>8 DEF getargs
  <2>2. n \in 0..ArgsSize /\ text # <<>>
    BY <1>6, <1>8
  <2>3. ASSUME NEW i \in 0..ArgsSize
        PROVE  got.buf[i] = IF i < n
                            THEN IF i < Len(text) THEN text[i + 1]
                                 ELSE IF i = Len(text) THEN 0 ELSE -1
                            ELSE -1
    <3>1. got.buf[i] = IF i < n /\ \A j \in 0..(i - 1) : kept[j] # 0 THEN kept[i] ELSE -1
      BY <2>1
    <3> HIDE DEF got
    <3>2. CASE ~(i < n)
      BY <3>1, <3>2
    <3>3. CASE i < n
      <4>1. i \in 0..(ArgsSize - 1)
        BY <1>1, <2>2, <3>3
      <4>2. (\A j \in 0..(i - 1) : kept[j] # 0) <=> i <= Len(text)
        <5>1. CASE i <= Len(text)
          BY <1>1, <1>2, <1>5, <4>1, <5>1
        <5>2. CASE i > Len(text)
          <6>1. Len(text) \in 0..(i - 1) /\ kept[Len(text)] = 0
            BY <1>1, <1>2, <1>5, <4>1, <5>2
          <6> QED BY <5>2, <6>1, <1>2
        <5> QED BY <5>1, <5>2, <1>2
      <4>3. kept[i] = IF i < Len(text) THEN text[i + 1] ELSE 0
        BY <1>4, <4>1
      <4> QED BY <3>1, <3>3, <4>2, <4>3, <1>2
    <3> QED BY <3>2, <3>3
  <2>4. 0 # -1
    OBVIOUS
  <2> QED BY <1>3, <2>1, <2>2, <2>3, <2>4 DEF Reaches, c, kept
<1> QED BY <1>7, <1>8

(* The arguments of every command reach its program: file_name and args of  *)
(* execute, and getargs, for all sizes and texts.                           *)
THEOREM ArgumentsCorrect == Spec => []ArgumentsWhole
<1>1. AllReach
  BY OneReaches DEF AllReach
<1>2. ArgumentsWhole
  BY <1>1 DEF ArgumentsWhole
<1> QED BY <1>2, PTL
==============================================================================
