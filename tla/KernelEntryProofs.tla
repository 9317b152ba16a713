-------------------------- MODULE KernelEntryProofs --------------------------
(* However deep interrupts nest in a system call and in each other, each    *)
(* stack can be unwound to user mode, and a program finds its registers     *)
(* there; for any set of programs and any height of the stacks.             *)
EXTENDS KernelEntry, SequenceTheorems, TLAPS

(***************************************************************************)
(* Words, labels and machines.                                             *)
(***************************************************************************)
BootLabels == {"entry", "RTC_init", "pit_init", "launch"}
CallLabels == {"call", "sys_calls_handler_end", "linkage_end"}
IntrLabels == Handlers \cup {"exc_out", "linkage_out"}
Labels     == BootLabels \cup CallLabels \cup IntrLabels \cup {"user", "null", "frozen"}

Words ==
    ({"own"} \X Owners \X (Registers \cup {"ss", "esp"}))
        \cup ({"code"} \X Labels \X {0})
        \cup ({"stack"} \X Nat \X {0})
        \cup ({"flags", "segment"} \X BOOLEAN \X {0})
        \cup {Junk}

Machines == [r : [Registers -> Words], s : Seq(Words)]

LEMMA HandlerLabels ==
    /\ Handlers = {"pit_handler", "keyboard_handler", "RTC_handler"}
    /\ HandlerOf(0) = "pit_handler" /\ HandlerOf(1) = "keyboard_handler"
    /\ HandlerOf(8) = "RTC_handler"
BY DEF Handlers, HandlerOf, IRQs

LEMMA WordsTyped ==
    /\ \A p \in Owners : \A x \in Registers \cup {"ss", "esp"} : Of(p, x) \in Words
    /\ \A l \in Labels : Code(l) \in Words
    /\ \A h \in Nat : Ptr(h) \in Words
    /\ \A b \in BOOLEAN : Flags(b) \in Words /\ Sel(b) \in Words
    /\ Junk \in Words
BY DEF Words, Of, Code, Ptr, Flags, Sel

LEMMA PushedFacts ==
    ASSUME NEW m \in Machines, NEW ws \in Seq(Words)
    PROVE  /\ Pushed(m, ws) \in Machines /\ Pushed(m, ws).r = m.r
           /\ Len(Pushed(m, ws).s) = Len(m.s) + Len(ws)
           /\ \A i \in 1..Len(m.s) : Pushed(m, ws).s[i] = m.s[i]
           /\ \A i \in 1..Len(ws) : Pushed(m, ws).s[Len(m.s) + i] = ws[i]
<1>1. m.r \in [Registers -> Words] /\ m.s \in Seq(Words)
    BY DEF Machines
<1>2. /\ m.s \o ws \in Seq(Words) /\ Len(m.s \o ws) = Len(m.s) + Len(ws)
      /\ \A i \in 1..Len(m.s) : (m.s \o ws)[i] = m.s[i]
      /\ \A i \in 1..Len(ws) : (m.s \o ws)[Len(m.s) + i] = ws[i]
    BY <1>1
<1>3. Pushed(m, ws) = [m EXCEPT !.s = m.s \o ws]
    BY DEF Pushed
<1> DEFINE q == m.s \o ws
<1> HIDE DEF q
<1>4. /\ Pushed(m, ws).s = q /\ Pushed(m, ws).r = m.r /\ Pushed(m, ws) \in Machines
    BY <1>1, <1>2, <1>3 DEF Machines, q
<1> QED
    BY <1>2, <1>4 DEF q

LEMMA CutFacts ==
    ASSUME NEW m \in Machines, NEW f \in 0..Len(m.s)
    PROVE  /\ CutTo(m, f) \in Machines /\ CutTo(m, f).r = m.r
           /\ Len(CutTo(m, f).s) = f
           /\ \A i \in 1..f : CutTo(m, f).s[i] = m.s[i]
<1>1. m.r \in [Registers -> Words] /\ m.s \in Seq(Words) /\ Len(m.s) \in Nat /\ f \in Nat
    BY DEF Machines
<1>2. /\ SubSeq(m.s, 1, f) \in Seq(Words) /\ Len(SubSeq(m.s, 1, f)) = f
      /\ \A i \in 1..f : SubSeq(m.s, 1, f)[i] = m.s[i]
    BY <1>1, SubSeqProperties
<1> DEFINE q == SubSeq(m.s, 1, f)
<1>3. CutTo(m, f) = [m EXCEPT !.s = q]
    BY DEF CutTo
<1> HIDE DEF q
<1>4. CutTo(m, f).s = q /\ CutTo(m, f).r = m.r /\ CutTo(m, f) \in Machines
    BY <1>1, <1>2, <1>3 DEF Machines, q
<1> QED
    BY <1>2, <1>4 DEF q

LEMMA DropFacts ==
    ASSUME NEW m \in Machines, NEW n \in 0..Len(m.s)
    PROVE  /\ Dropped(m, n) \in Machines /\ Dropped(m, n).r = m.r
           /\ Len(Dropped(m, n).s) = Len(m.s) - n
           /\ \A i \in 1..(Len(m.s) - n) : Dropped(m, n).s[i] = m.s[i]
<1> DEFINE f == Len(m.s) - n
<1>1. f \in 0..Len(m.s) /\ Len(m.s) - f = n
    BY DEF Machines
<1>2. Dropped(m, n) = CutTo(m, f)
    BY DEF Dropped, CutTo
<1> HIDE DEF f
<1>3. /\ CutTo(m, f) \in Machines /\ CutTo(m, f).r = m.r
      /\ Len(CutTo(m, f).s) = f
      /\ \A i \in 1..f : CutTo(m, f).s[i] = m.s[i]
    BY <1>1, CutFacts
<1> QED
    BY <1>2, <1>3 DEF f

(* An element of a literal sequence.                                        *)
LEMMA OneWord ==
    ASSUME NEW w \in Words
    PROVE  <<w>> \in Seq(Words) /\ Len(<<w>>) = 1 /\ <<w>>[1] = w
OBVIOUS

LEMMA FramedFacts ==
    ASSUME NEW m \in Machines
    PROVE  /\ Framed(m) \in Machines
           /\ Framed(m).r = [m.r EXCEPT !["ebp"] = Ptr(Len(m.s) + 1)]
           /\ Len(Framed(m).s) = Len(m.s) + 1
           /\ \A i \in 1..Len(m.s) : Framed(m).s[i] = m.s[i]
           /\ Framed(m).s[Len(m.s) + 1] = m.r["ebp"]
<1> DEFINE n == Pushed(m, <<m.r["ebp"]>>)
<1>1. m.r \in [Registers -> Words] /\ Len(m.s) \in Nat /\ "ebp" \in Registers
    BY DEF Machines, Registers
<1>2. <<m.r["ebp"]>> \in Seq(Words) /\ Len(<<m.r["ebp"]>>) = 1 /\ <<m.r["ebp"]>>[1] = m.r["ebp"]
    BY <1>1
<1>3. /\ n \in Machines /\ n.r = m.r /\ Len(n.s) = Len(m.s) + 1
      /\ \A i \in 1..Len(m.s) : n.s[i] = m.s[i]
      /\ n.s[Len(m.s) + 1] = m.r["ebp"]
    <2>1. 1 \in 1..Len(<<m.r["ebp"]>>)
        BY <1>2
    <2> QED
        BY <1>2, <2>1, PushedFacts
<1>4. Framed(m) = [n EXCEPT !.r["ebp"] = Ptr(Len(n.s))]
    BY DEF Framed
<1> HIDE DEF n
<1>5. Ptr(Len(m.s) + 1) \in Words
    BY <1>1, WordsTyped
<1>6. /\ Framed(m).r = [n.r EXCEPT !["ebp"] = Ptr(Len(n.s))] /\ Framed(m).s = n.s
      /\ Framed(m) \in Machines
    BY <1>1, <1>3, <1>4, <1>5 DEF Machines
<1> QED
    BY <1>1, <1>3, <1>6

LEMMA ClobberedFacts ==
    ASSUME NEW m \in Machines
    PROVE  /\ Clobbered(m) \in Machines /\ Clobbered(m).s = m.s
           /\ Clobbered(m).r["ebp"] = m.r["ebp"]
<1> DEFINE q == [r \in Registers |-> IF r = "ebp" THEN m.r[r] ELSE Junk]
<1>1. q \in [Registers -> Words] /\ q["ebp"] = m.r["ebp"]
    BY WordsTyped DEF Machines, Registers
<1>2. Clobbered(m) = [m EXCEPT !.r = q]
    BY DEF Clobbered
<1> HIDE DEF q
<1> QED
    BY <1>1, <1>2 DEF Machines

(* Which words a run of pops puts where.                                    *)
LEMMA PoppedFacts ==
    ASSUME NEW m \in Machines, NEW rs \in Seq(Registers \cup {"-"}), NEW n \in Nat, n = Len(rs), n <= Len(m.s)
    PROVE  /\ Popped(m, rs) \in Machines
           /\ Popped(m, rs).s = CutTo(m, Len(m.s) - n).s
           /\ \A x \in Registers : \A i \in 1..n :
                 rs[i] = x /\ (\A j \in 1..n : rs[j] = x => j = i)
                     => Popped(m, rs).r[x] = m.s[Len(m.s) - i + 1]
           /\ \A x \in Registers : (\A i \in 1..n : rs[i] # x) => Popped(m, rs).r[x] = m.r[x]
<1> DEFINE q == [r \in Registers |->
                    IF \E i \in 1..Len(rs) : rs[i] = r
                    THEN Word(m, (CHOOSE i \in 1..Len(rs) : rs[i] = r) - 1)
                    ELSE m.r[r]]
<1>1. /\ Len(rs) = n /\ n \in Nat /\ Len(m.s) \in Nat /\ m.r \in [Registers -> Words] /\ m.s \in Seq(Words)
    BY DEF Machines
<1>2. \A i \in 1..n : Word(m, i - 1) = m.s[Len(m.s) - i + 1] /\ Word(m, i - 1) \in Words
    BY <1>1 DEF Word
<1>3. ASSUME NEW x \in Registers
      PROVE  /\ q[x] \in Words
             /\ \A i \in 1..n : rs[i] = x /\ (\A j \in 1..n : rs[j] = x => j = i)
                    => q[x] = m.s[Len(m.s) - i + 1]
             /\ (\A i \in 1..n : rs[i] # x) => q[x] = m.r[x]
    <2>1. CASE \E i \in 1..n : rs[i] = x
        <3> DEFINE k == CHOOSE i \in 1..n : rs[i] = x
        <3>1. k \in 1..n /\ rs[k] = x
            BY <2>1
        <3>2. q[x] = Word(m, k - 1)
            BY <1>1, <2>1
        <3> HIDE DEF k, q
        <3> QED
            BY <1>2, <2>1, <3>1, <3>2
    <2>2. CASE \A i \in 1..n : rs[i] # x
        BY <1>1, <2>2
    <2> QED
        BY <2>1, <2>2
<1>4. q \in [Registers -> Words]
    BY <1>3
<1>5. Len(m.s) - n \in 0..Len(m.s)
    BY <1>1
<1>6. Popped(m, rs) = [CutTo(m, Len(m.s) - n) EXCEPT !.r = q]
    <2>1. Dropped(m, Len(rs)) = CutTo(m, Len(m.s) - n)
        BY <1>1 DEF Dropped, CutTo
    <2> QED
        BY <2>1 DEF Popped
<1> HIDE DEF q
<1>7. CutTo(m, Len(m.s) - n) \in Machines
    BY <1>5, CutFacts
<1>8. /\ Popped(m, rs).s = CutTo(m, Len(m.s) - n).s /\ Popped(m, rs).r = q
      /\ Popped(m, rs) \in Machines
    BY <1>4, <1>6, <1>7 DEF Machines
<1> QED
    BY <1>3, <1>8

LEMMA CutCut ==
    ASSUME NEW m \in Machines, NEW f \in 0..Len(m.s), NEW g \in 0..f
    PROVE  CutTo(CutTo(m, f), g).s = CutTo(m, g).s
<1> DEFINE c == CutTo(m, f)
           u == CutTo(c, g).s
           v == CutTo(m, g).s
<1>1. c \in Machines /\ Len(c.s) = f /\ Len(m.s) \in Nat /\ g \in 0..Len(m.s)
    BY CutFacts DEF Machines
<1>2. g \in 0..Len(c.s)
    BY <1>1
<1>3. /\ CutTo(c, g) \in Machines /\ CutTo(m, g) \in Machines
      /\ Len(u) = g /\ Len(v) = g
      /\ \A i \in 1..g : u[i] = c.s[i]
      /\ \A i \in 1..g : v[i] = m.s[i]
      /\ \A i \in 1..f : c.s[i] = m.s[i]
    BY <1>1, <1>2, CutFacts
<1>4. u \in Seq(Words) /\ v \in Seq(Words)
    BY <1>3 DEF Machines
<1>5. Len(u) = Len(v) /\ \A i \in 1..Len(u) : u[i] = v[i]
    BY <1>1, <1>3
<1> HIDE DEF u, v
<1>6. u = v
    BY <1>4, <1>5, SeqEqual
<1> QED
    BY <1>6 DEF u, v

(* leave and ret, with frame pointer f.                                     *)
Leave(m, f) == Popped(CutTo(m, f), <<"ebp">>)

LEMMA LeaveFacts ==
    ASSUME NEW m \in Machines, NEW f \in 2..Len(m.s)
    PROVE  /\ Dropped(Leave(m, f), 1) \in Machines
           /\ Len(Dropped(Leave(m, f), 1).s) = f - 2
           /\ \A i \in 1..(f - 2) : Dropped(Leave(m, f), 1).s[i] = m.s[i]
           /\ Word(Leave(m, f), 0) = m.s[f - 1]
           /\ Dropped(Leave(m, f), 1).r["ebp"] = m.s[f]
<1> DEFINE c == CutTo(m, f)
           rs == <<"ebp">>
           q == Leave(m, f)
<1>1. /\ f \in 0..Len(m.s) /\ Len(m.s) \in Nat /\ f \in Nat /\ f - 1 \in Nat /\ f - 2 \in Nat
      /\ "ebp" \in Registers
    BY DEF Machines, Registers
<1>2. /\ c \in Machines /\ Len(c.s) = f
      /\ \A i \in 1..f : c.s[i] = m.s[i]
    BY <1>1, CutFacts
<1>3. q = Popped(c, rs)
    BY DEF Leave
<1>4. rs \in Seq(Registers \cup {"-"}) /\ 1 = Len(rs) /\ 1 \in 1..1 /\ rs[1] = "ebp"
    BY <1>1
<1> HIDE DEF c, rs, q
<1>5. 1 \in Nat /\ 1 <= Len(c.s) /\ \A i \in 1..1 : i = 1
    BY <1>1, <1>2
<1>6. /\ Popped(c, rs) \in Machines /\ Popped(c, rs).s = CutTo(c, Len(c.s) - 1).s
      /\ \A x \in Registers : \A i \in 1..1 :
            rs[i] = x /\ (\A j \in 1..1 : rs[j] = x => j = i)
                => Popped(c, rs).r[x] = c.s[Len(c.s) - i + 1]
    <2> DEFINE k == 1
    <2>1. /\ rs \in Seq(Registers \cup {"-"}) /\ k \in Nat /\ k = Len(rs) /\ k <= Len(c.s)
          /\ c \in Machines
        BY <1>2, <1>4, <1>5
    <2> HIDE DEF k
    <2>2. /\ Popped(c, rs) \in Machines /\ Popped(c, rs).s = CutTo(c, Len(c.s) - k).s
          /\ \A x \in Registers : \A i \in 1..k :
                rs[i] = x /\ (\A j \in 1..k : rs[j] = x => j = i)
                    => Popped(c, rs).r[x] = c.s[Len(c.s) - i + 1]
        BY <2>1, PoppedFacts, Zenon
    <2> QED
        BY <2>2 DEF k
<1>7. q.r["ebp"] = c.s[Len(c.s) - 1 + 1]
    BY <1>1, <1>3, <1>4, <1>5, <1>6
<1>8. q.r["ebp"] = m.s[f]
    BY <1>1, <1>2, <1>7
<1>9. f - 1 \in 0..Len(c.s) /\ Len(c.s) - 1 = f - 1
    BY <1>1, <1>2
<1>10. Len(q.s) = f - 1 /\ \A i \in 1..(f - 1) : q.s[i] = c.s[i]
    BY <1>2, <1>3, <1>6, <1>9, CutFacts
<1>11. \A i \in 1..(f - 1) : q.s[i] = m.s[i]
    BY <1>1, <1>2, <1>10
<1>12. Word(q, 0) = m.s[f - 1]
    BY <1>1, <1>10, <1>11 DEF Word
<1>13. q \in Machines /\ 1 \in 0..Len(q.s) /\ Len(q.s) - 1 = f - 2
    BY <1>1, <1>3, <1>6, <1>10
<1>14. /\ Dropped(q, 1) \in Machines /\ Dropped(q, 1).r = q.r /\ Len(Dropped(q, 1).s) = f - 2
       /\ \A i \in 1..(f - 2) : Dropped(q, 1).s[i] = q.s[i]
    BY <1>13, DropFacts
<1> QED
    BY <1>1, <1>8, <1>11, <1>12, <1>14 DEF q

LEMMA LeftIsLeave ==
    ASSUME NEW m, NEW f, m.r["ebp"] = Ptr(f)
    PROVE  Left(m) = Leave(m, f)
BY DEF Left, Leave, Frame, Ptr

(***************************************************************************)
(* Stacks that can be unwound.                                             *)
(***************************************************************************)

(* The words of a system call of program p that are restored from.          *)
CallWords(p, s) ==
    /\ s[3] = Flags(TRUE) /\ s[4] = Sel(TRUE) /\ s[5] = Code("user")
    /\ s[7] = Of(p, "ebx") /\ s[8] = Of(p, "ecx") /\ s[9] = Of(p, "edx")
    /\ s[10] = Of(p, "esi") /\ s[11] = Of(p, "edi") /\ s[12] = Of(p, "ebp")

(* The first n words of p's stack are those of code at label l that no      *)
(* interrupt led to.                                                        *)
Grounded(p, s, l, n) ==
    IF p = Boot THEN l \in BootLabels /\ n = 0
    ELSE \/ l = "user" /\ n = 0
         \/ l = "call" /\ n = 23 /\ CallWords(p, s)
              /\ s[13] = Code("linkage_end") /\ s[21] = Code("null")
         \/ l = "sys_calls_handler_end" /\ n = 22 /\ CallWords(p, s)
              /\ s[13] = Code("linkage_end")
         \/ l = "linkage_end" /\ n = 12 /\ CallWords(p, s)
         \/ l = "null"

(* What the code at l needs in the registers, if the stack has n words.     *)
Needs(p, l, n, r) ==
    /\ l = "user" => \A x \in Registers : r[x] = Of(p, x)
    /\ l = "call" => r["ebp"] = Ptr(22)
    /\ l \in {"sys_calls_handler_end", "linkage_end"} => r["eax"] = Of(p, "eax")
    /\ l \in Handlers \cup {"exc_out"} => r["ebp"] = Ptr(n)

(* Where the interrupt linkage saves the registers, and how many words of   *)
(* it stand above the gate's at label l.                                    *)
SlotOf(x) ==
    CASE x = "eax" -> 1 [] x = "ecx" -> 2 [] x = "edx" -> 3 [] x = "ebx" -> 4
      [] x = "ebp" -> 6 [] x = "esi" -> 7 [] x = "edi" -> 8

SavedRegs(s, k) == [x \in Registers |-> s[k + SlotOf(x)]]

Gate(l) == IF l = "user" THEN 5 ELSE 3

Above(l) == IF l = "linkage_out" THEN 10 ELSE IF l = "exc_out" THEN 12 ELSE 14

(* Words h + 1 to n of p's stack are those of an interrupt of code at u,    *)
(* which is now at label l.                                                 *)
Layer(p, s, l, n, u, h) ==
    LET k == h + Gate(u)
    IN  /\ l \in IntrLabels /\ u \notin Handlers \cup {"frozen"}
        /\ n = k + Above(l)
        /\ s[k] = Code(u) /\ s[k - 1] = Sel(u = "user") /\ s[k - 2] = Flags(TRUE)
        /\ Needs(p, u, h, SavedRegs(s, k))
        /\ l # "linkage_out" => s[k + 11] = Code("linkage_out")
        /\ l \in Handlers => s[k + 13] = Code("exc_out") /\ s[k + 14] = Ptr(k + 12)

(* The first n words of p's stack stand below code at l: they can be split  *)
(* into such parts.  marks has the labels and heights where they meet.      *)
Marked(p, s, marks) ==
    \A l \in Labels, n \in Nat :
        <<l, n>> \in marks =>
            /\ n <= Len(s)
            /\ \/ Grounded(p, s, l, n)
               \/ \E u \in Labels, h \in Nat : <<u, h>> \in marks /\ Layer(p, s, l, n, u, h)

Standing(p, s, l, n) ==
    /\ l \in Labels /\ n \in Nat
    /\ \E marks \in SUBSET (Labels \X Nat) : <<l, n>> \in marks /\ Marked(p, s, marks)

(* Two stacks have the same first n words.                                  *)
Agree(s, u, n) ==
    /\ s \in Seq(Words) /\ u \in Seq(Words) /\ n <= Len(s) /\ n <= Len(u)
    /\ \A i \in 1..n : u[i] = s[i]

LEMMA SlotFacts ==
    /\ \A x \in Registers : SlotOf(x) \in 1..8
    /\ SlotOf("eax") = 1 /\ SlotOf("ecx") = 2 /\ SlotOf("edx") = 3 /\ SlotOf("ebx") = 4
    /\ SlotOf("ebp") = 6 /\ SlotOf("esi") = 7 /\ SlotOf("edi") = 8
BY DEF Registers, SlotOf

LEMMA GroundedAgree ==
    ASSUME NEW p, NEW s, NEW t, NEW l, NEW n \in Nat, Agree(s, t, n), Grounded(p, s, l, n)
    PROVE  Grounded(p, t, l, n)
<1>1. \A i \in Nat : 1 <= i /\ i <= n => t[i] = s[i]
    BY DEF Agree
<1> DEFINE saved == {3, 4, 5, 7, 8, 9, 10, 11, 12}
<1>2. n >= 12 => \A i \in saved : t[i] = s[i]
    BY <1>1
<1>3. n >= 12 /\ CallWords(p, s) => CallWords(p, t)
    BY <1>2 DEF CallWords
<1>4. n >= 22 => t[13] = s[13] /\ t[21] = s[21]
    BY <1>1
<1> QED
    BY <1>3, <1>4 DEF Grounded

LEMMA LayerAgree ==
    ASSUME NEW p, NEW s, NEW t, NEW l, NEW n \in Nat, NEW u, NEW h \in Nat,
           Agree(s, t, n), Layer(p, s, l, n, u, h)
    PROVE  Layer(p, t, l, n, u, h) /\ h < n
<1> DEFINE k == h + Gate(u)
<1>1. k \in Nat /\ k >= 3 /\ n = k + Above(l) /\ Above(l) \in {10, 12, 14} /\ h < n
    BY DEF Layer, Gate, Above
<1>2. SavedRegs(t, k) = SavedRegs(s, k)
    <2>1. \A x \in Registers : t[k + SlotOf(x)] = s[k + SlotOf(x)]
        <3> SUFFICES ASSUME NEW x \in Registers
                     PROVE  t[k + SlotOf(x)] = s[k + SlotOf(x)]
            OBVIOUS
        <3>1. SlotOf(x) \in 1..8
            BY SlotFacts
        <3> DEFINE i == k + SlotOf(x)
        <3>2. i \in 1..n
            BY <1>1, <3>1
        <3> HIDE DEF i
        <3>3. t[i] = s[i]
            BY <3>2 DEF Agree
        <3> QED
            BY <3>3 DEF i
    <2> QED
        BY <2>1 DEF SavedRegs
<1>3. t[k] = s[k] /\ t[k - 1] = s[k - 1] /\ t[k - 2] = s[k - 2]
    <2>1. k \in 1..n /\ k - 1 \in 1..n /\ k - 2 \in 1..n
        BY <1>1
    <2> HIDE DEF k
    <2> QED
        BY <2>1 DEF Agree
<1>4. l # "linkage_out" => t[k + 11] = s[k + 11]
    <2>1. l # "linkage_out" => k + 11 \in 1..n
        BY <1>1 DEF Above
    <2> HIDE DEF k
    <2> QED
        BY <2>1 DEF Agree
<1>5. l \in Handlers => t[k + 13] = s[k + 13] /\ t[k + 14] = s[k + 14]
    <2>1. l \in Handlers => k + 13 \in 1..n /\ k + 14 \in 1..n
        BY <1>1, HandlerLabels DEF Above
    <2> HIDE DEF k
    <2> QED
        BY <2>1 DEF Agree
<1> QED
    BY <1>1, <1>2, <1>3, <1>4, <1>5 DEF Layer

(* What stands does so whatever is above it.                                *)
LEMMA MarkedAgree ==
    ASSUME NEW p, NEW s, NEW t, NEW n \in Nat, Agree(s, t, n),
           NEW marks \in SUBSET (Labels \X Nat), Marked(p, s, marks)
    PROVE  Marked(p, t, {x \in marks : x[2] <= n})
<1> DEFINE low == {x \in marks : x[2] <= n}
<1> SUFFICES ASSUME NEW l \in Labels, NEW m \in Nat, <<l, m>> \in low
             PROVE  /\ m <= Len(t)
                    /\ \/ Grounded(p, t, l, m)
                       \/ \E u \in Labels, h \in Nat : <<u, h>> \in low /\ Layer(p, t, l, m, u, h)
    BY DEF Marked
<1>1. <<l, m>> \in marks /\ m <= n
    OBVIOUS
<1>2. Agree(s, t, m) /\ m <= Len(t)
    BY <1>1 DEF Agree
<1>3. \/ Grounded(p, s, l, m)
      \/ \E u \in Labels, h \in Nat : <<u, h>> \in marks /\ Layer(p, s, l, m, u, h)
    BY <1>1 DEF Marked
<1>4. CASE Grounded(p, s, l, m)
    BY <1>2, <1>4, GroundedAgree
<1>5. ASSUME NEW u \in Labels, NEW h \in Nat, <<u, h>> \in marks, Layer(p, s, l, m, u, h)
      PROVE  <<u, h>> \in low /\ Layer(p, t, l, m, u, h)
    <2>1. Layer(p, t, l, m, u, h) /\ h < m
        BY <1>2, <1>5, LayerAgree
    <2> QED
        BY <1>1, <1>5, <2>1
<1> QED
    BY <1>2, <1>3, <1>4, <1>5

LEMMA StandingAgree ==
    ASSUME NEW p, NEW s, NEW t, NEW l, NEW n, Standing(p, s, l, n), Agree(s, t, n)
    PROVE  Standing(p, t, l, n)
<1>1. l \in Labels /\ n \in Nat
    BY DEF Standing
<1>2. PICK marks \in SUBSET (Labels \X Nat) : <<l, n>> \in marks /\ Marked(p, s, marks)
    BY DEF Standing
<1> DEFINE low == {x \in marks : x[2] <= n}
<1>3. low \in SUBSET (Labels \X Nat) /\ <<l, n>> \in low
    BY <1>1, <1>2
<1>4. Marked(p, t, low)
    BY <1>1, <1>2, MarkedAgree
<1> HIDE DEF low
<1> QED
    BY <1>1, <1>3, <1>4 DEF Standing

LEMMA StandingGround ==
    ASSUME NEW p, NEW s, NEW l \in Labels, NEW n \in Nat, n <= Len(s), Grounded(p, s, l, n)
    PROVE  Standing(p, s, l, n)
<1>1. {<<l, n>>} \in SUBSET (Labels \X Nat) /\ <<l, n>> \in {<<l, n>>}
    OBVIOUS
<1>2. Marked(p, s, {<<l, n>>})
    BY DEF Marked
<1> QED
    BY <1>1, <1>2 DEF Standing

(* An interrupt, or its next stage, on top of what stands.                  *)
LEMMA StandingLayer ==
    ASSUME NEW p, NEW s, NEW t, NEW u, NEW h, Standing(p, s, u, h), Agree(s, t, h),
           NEW l \in Labels, NEW n \in Nat, n <= Len(t), Layer(p, t, l, n, u, h)
    PROVE  Standing(p, t, l, n)
<1>1. u \in Labels /\ h \in Nat
    BY DEF Standing
<1>2. Standing(p, t, u, h)
    BY StandingAgree
<1>3. PICK marks \in SUBSET (Labels \X Nat) : <<u, h>> \in marks /\ Marked(p, t, marks)
    BY <1>2 DEF Standing
<1> DEFINE more == marks \cup {<<l, n>>}
<1>4. more \in SUBSET (Labels \X Nat) /\ <<l, n>> \in more /\ <<u, h>> \in more
    BY <1>3
<1>5. Marked(p, t, more)
    <2> SUFFICES ASSUME NEW a \in Labels, NEW b \in Nat, <<a, b>> \in more
                 PROVE  /\ b <= Len(t)
                        /\ \/ Grounded(p, t, a, b)
                           \/ \E v \in Labels, g \in Nat : <<v, g>> \in more /\ Layer(p, t, a, b, v, g)
        BY DEF Marked
    <2>1. CASE <<a, b>> \in marks
        BY <1>3, <2>1 DEF Marked
    <2>2. CASE a = l /\ b = n
        BY <1>1, <1>4, <2>2
    <2> QED
        BY <2>1, <2>2
<1> HIDE DEF more
<1> QED
    BY <1>4, <1>5 DEF Standing

(* Below an interrupt something stands.                                     *)
LEMMA StandingBelow ==
    ASSUME NEW p, NEW s, NEW l \in IntrLabels, NEW n, Standing(p, s, l, n)
    PROVE  \E u \in Labels, h \in Nat : Layer(p, s, l, n, u, h) /\ Standing(p, s, u, h)
<1>1. PICK marks \in SUBSET (Labels \X Nat) : <<l, n>> \in marks /\ Marked(p, s, marks)
    BY DEF Standing
<1>2. ~Grounded(p, s, l, n)
    BY HandlerLabels DEF IntrLabels, Grounded, BootLabels
<1>3. PICK u \in Labels, h \in Nat : <<u, h>> \in marks /\ Layer(p, s, l, n, u, h)
    BY <1>1, <1>2 DEF Marked, Standing
<1> QED
    BY <1>1, <1>3 DEF Standing

LEMMA StandingOther ==
    ASSUME NEW p, NEW s, NEW l, NEW n, Standing(p, s, l, n), l \notin IntrLabels
    PROVE  Grounded(p, s, l, n) /\ n <= Len(s)
BY DEF Standing, Marked, Layer

LEMMA StandingHeight ==
    ASSUME NEW p, NEW s, NEW l, NEW n, Standing(p, s, l, n)
    PROVE  l \in Labels /\ n \in Nat /\ n <= Len(s)
BY DEF Standing, Marked

(* A machine that can go on at label l on p's stack.                        *)
Can(p, m, l) == Standing(p, m.s, l, Len(m.s)) /\ Needs(p, l, Len(m.s), m.r)

(***************************************************************************)
(* The ways out of an interrupt.                                           *)
(***************************************************************************)

(* The next stage of an interrupt stands on the same words.                 *)
LEMMA LayerStage ==
    ASSUME NEW p, NEW s, NEW l, NEW n \in Nat, NEW u, NEW h \in Nat, Layer(p, s, l, n, u, h),
           NEW j \in {"exc_out", "linkage_out"}, j = "exc_out" => l # "linkage_out"
    PROVE  Layer(p, s, j, h + Gate(u) + Above(j), u, h)
BY HandlerLabels DEF Layer, IntrLabels

LEMMA LayerHeights ==
    ASSUME NEW p, NEW s, NEW l, NEW n, NEW u, NEW h \in Nat, Layer(p, s, l, n, u, h)
    PROVE  /\ h + Gate(u) \in Nat /\ h + Gate(u) >= 3 /\ Gate(u) \in {3, 5}
           /\ l = "linkage_out" => n = h + Gate(u) + 10
           /\ l = "exc_out" => n = h + Gate(u) + 12
           /\ l \in Handlers => n = h + Gate(u) + 14
BY HandlerLabels DEF Layer, Gate, Above

LEMMA HandlerLeaves ==
    ASSUME NEW p, NEW m \in Machines, NEW l \in Handlers, NEW n, Standing(p, m.s, l, n)
    PROVE  /\ Word(Leave(m, n), 0) = Code("exc_out")
           /\ Dropped(Leave(m, n), 1) \in Machines
           /\ Can(p, Dropped(Leave(m, n), 1), "exc_out")
<1> DEFINE d == Dropped(Leave(m, n), 1)
<1>1. l \in IntrLabels /\ n \in Nat /\ n <= Len(m.s) /\ Len(m.s) \in Nat /\ m.s \in Seq(Words)
    BY StandingHeight DEF IntrLabels, Machines
<1>2. PICK u \in Labels, h \in Nat : Layer(p, m.s, l, n, u, h) /\ Standing(p, m.s, u, h)
    BY <1>1, StandingBelow
<1> DEFINE k == h + Gate(u)
<1>3. k \in Nat /\ k >= 3 /\ h <= k /\ n = k + 14 /\ n \in 2..Len(m.s) /\ n - 2 = k + 12 /\ n - 1 = k + 13
    <2>1. Gate(u) \in {3, 5} /\ k \in Nat /\ k >= 3 /\ n = k + 14
        BY <1>2, LayerHeights
    <2> QED
        BY <1>1, <2>1
<1>4. m.s[k + 13] = Code("exc_out") /\ m.s[k + 14] = Ptr(k + 12)
    BY <1>2 DEF Layer
<1>5. /\ d \in Machines /\ Len(d.s) = k + 12
      /\ \A i \in 1..(k + 12) : d.s[i] = m.s[i]
      /\ Word(Leave(m, n), 0) = m.s[k + 13]
      /\ d.r["ebp"] = m.s[k + 14]
    <2>1. /\ d \in Machines /\ Len(d.s) = n - 2
          /\ \A i \in 1..(n - 2) : d.s[i] = m.s[i]
          /\ Word(Leave(m, n), 0) = m.s[n - 1]
          /\ d.r["ebp"] = m.s[n]
        BY <1>3, LeaveFacts
    <2> HIDE DEF d
    <2> QED
        BY <1>3, <2>1
<1>6. Layer(p, m.s, "exc_out", k + 12, u, h)
    <2>1. l # "linkage_out" /\ Above("exc_out") = 12 /\ "exc_out" \in {"exc_out", "linkage_out"}
        BY HandlerLabels DEF Above
    <2>2. Layer(p, m.s, "exc_out", h + Gate(u) + Above("exc_out"), u, h)
        BY <1>1, <1>2, <2>1, LayerStage
    <2> QED
        BY <2>1, <2>2
<1>7. "exc_out" \in Labels /\ "exc_out" \in Handlers \cup {"exc_out"} /\ "exc_out" \notin {"user", "call", "sys_calls_handler_end", "linkage_end"}
    BY DEF Labels, IntrLabels
<1> HIDE DEF d, k
<1>8. k + 12 \in Nat /\ k + 12 <= Len(m.s) /\ k + 12 <= Len(d.s) /\ h <= k + 12
    BY <1>1, <1>3, <1>5
<1>9. Agree(m.s, d.s, k + 12) /\ Agree(m.s, d.s, h)
    <2>1. d.s \in Seq(Words)
        BY <1>5 DEF Machines
    <2> QED
        BY <1>1, <1>2, <1>5, <1>8, <2>1 DEF Agree
<1>10. Layer(p, d.s, "exc_out", k + 12, u, h)
    BY <1>6, <1>8, <1>9, LayerAgree
<1>11. Standing(p, d.s, "exc_out", k + 12)
    BY <1>2, <1>7, <1>8, <1>9, <1>10, StandingLayer
<1>12. Needs(p, "exc_out", k + 12, d.r)
    BY <1>4, <1>5, <1>7 DEF Needs
<1> QED
    BY <1>4, <1>5, <1>11, <1>12 DEF Can, d

LEMMA ExcOutLeaves ==
    ASSUME NEW p, NEW m \in Machines, Can(p, m, "exc_out")
    PROVE  /\ Word(Left(m), 0) = Code("linkage_out")
           /\ Dropped(Left(m), 1) \in Machines
           /\ Can(p, Dropped(Left(m), 1), "linkage_out")
<1> DEFINE n == Len(m.s)
           d == Dropped(Leave(m, n), 1)
<1>1. n \in Nat /\ m.s \in Seq(Words)
    BY DEF Machines
<1>2. m.r["ebp"] = Ptr(n) /\ Standing(p, m.s, "exc_out", n) /\ "exc_out" \in IntrLabels
    BY DEF Can, Needs, IntrLabels
<1>3. Left(m) = Leave(m, n)
    BY <1>2, LeftIsLeave
<1>4. PICK u \in Labels, h \in Nat : Layer(p, m.s, "exc_out", n, u, h) /\ Standing(p, m.s, u, h)
    BY <1>2, StandingBelow
<1> DEFINE k == h + Gate(u)
<1>5. k \in Nat /\ k >= 3 /\ h <= k /\ n = k + 12 /\ n \in 2..Len(m.s) /\ n - 2 = k + 10 /\ n - 1 = k + 11
    <2>1. Gate(u) \in {3, 5} /\ k \in Nat /\ k >= 3 /\ n = k + 12
        BY <1>4, LayerHeights
    <2> QED
        BY <1>1, <2>1
<1>6. m.s[k + 11] = Code("linkage_out")
    BY <1>4 DEF Layer
<1>7. /\ d \in Machines /\ Len(d.s) = k + 10
      /\ \A i \in 1..(k + 10) : d.s[i] = m.s[i]
      /\ Word(Leave(m, n), 0) = m.s[k + 11]
    <2>1. /\ d \in Machines /\ Len(d.s) = n - 2
          /\ \A i \in 1..(n - 2) : d.s[i] = m.s[i]
          /\ Word(Leave(m, n), 0) = m.s[n - 1]
          /\ d.r["ebp"] = m.s[n]
        BY <1>5, LeaveFacts
    <2> HIDE DEF d
    <2> QED
        BY <1>5, <2>1
<1>8. Layer(p, m.s, "linkage_out", k + 10, u, h)
    <2>1. Above("linkage_out") = 10 /\ "linkage_out" \in {"exc_out", "linkage_out"}
        BY DEF Above
    <2>2. Layer(p, m.s, "linkage_out", h + Gate(u) + Above("linkage_out"), u, h)
        BY <1>1, <1>4, <2>1, LayerStage
    <2> QED
        BY <2>1, <2>2
<1>9. /\ "linkage_out" \in Labels /\ "linkage_out" \notin Handlers \cup {"exc_out"}
      /\ "linkage_out" \notin {"user", "call", "sys_calls_handler_end", "linkage_end"}
    BY HandlerLabels DEF Labels, IntrLabels
<1> HIDE DEF d, k, n
<1>10. k + 10 \in Nat /\ k + 10 <= Len(m.s) /\ k + 10 <= Len(d.s) /\ h <= k + 10
    BY <1>1, <1>5, <1>7 DEF n
<1>11. Agree(m.s, d.s, k + 10) /\ Agree(m.s, d.s, h)
    <2>1. d.s \in Seq(Words)
        BY <1>7 DEF Machines
    <2> QED
        BY <1>1, <1>4, <1>7, <1>10, <2>1 DEF Agree
<1>12. Layer(p, d.s, "linkage_out", k + 10, u, h)
    BY <1>8, <1>10, <1>11, LayerAgree
<1>13. Standing(p, d.s, "linkage_out", k + 10)
    BY <1>4, <1>9, <1>10, <1>11, <1>12, StandingLayer
<1>14. Needs(p, "linkage_out", k + 10, d.r)
    BY <1>9 DEF Needs
<1> QED
    BY <1>3, <1>6, <1>7, <1>13, <1>14 DEF Can, d

(* popal, and what the interrupt linkage leaves for iret.                   *)
Popal == <<"edi", "esi", "ebp", "-", "ebx", "edx", "ecx", "eax">>

LEMMA PopalFacts ==
    ASSUME NEW m \in Machines, NEW k \in Nat, Len(m.s) = k + 8
    PROVE  /\ Popped(m, Popal) \in Machines
           /\ Len(Popped(m, Popal).s) = k
           /\ \A i \in 1..k : Popped(m, Popal).s[i] = m.s[i]
           /\ \A x \in Registers : Popped(m, Popal).r[x] = m.s[k + SlotOf(x)]
<1> DEFINE rs == Popal
           n == 8
           q == Popped(m, rs)
<1>1. /\ rs \in Seq(Registers \cup {"-"}) /\ Len(rs) = 8
      /\ rs[1] = "edi" /\ rs[2] = "esi" /\ rs[3] = "ebp" /\ rs[4] = "-"
      /\ rs[5] = "ebx" /\ rs[6] = "edx" /\ rs[7] = "ecx" /\ rs[8] = "eax"
    BY DEF Popal, Registers
<1>2. 8 \in Nat /\ 8 = Len(rs) /\ 8 <= Len(m.s)
    BY <1>1
<1> HIDE DEF rs
<1>3. /\ Popped(m, rs) \in Machines
      /\ Popped(m, rs).s = CutTo(m, Len(m.s) - 8).s
      /\ \A x \in Registers : \A i \in 1..8 :
            rs[i] = x /\ (\A j \in 1..8 : rs[j] = x => j = i)
                => Popped(m, rs).r[x] = m.s[Len(m.s) - i + 1]
    BY <1>1, <1>2, PoppedFacts, Zenon
<1> HIDE DEF q
<1>4. k \in 0..Len(m.s) /\ Len(m.s) - 8 = k
    OBVIOUS
<1>5. Len(q.s) = k /\ \A i \in 1..k : q.s[i] = m.s[i]
    BY <1>3, <1>4, CutFacts DEF q
<1>6. \A x \in Registers : 9 - SlotOf(x) \in 1..8 /\ rs[9 - SlotOf(x)] = x
    BY <1>1, SlotFacts DEF Registers
<1>7. \A i, j \in 1..8 : rs[i] = rs[j] => i = j
    <2>1. \A i \in 1..8 : i = 1 \/ i = 2 \/ i = 3 \/ i = 4 \/ i = 5 \/ i = 6 \/ i = 7 \/ i = 8
        OBVIOUS
    <2> QED
        BY <1>1, <2>1
<1>8. ASSUME NEW x \in Registers
      PROVE  q.r[x] = m.s[k + SlotOf(x)]
    <2> DEFINE i == 9 - SlotOf(x)
    <2>1. i \in 1..8 /\ rs[i] = x /\ SlotOf(x) \in 1..8 /\ Len(m.s) - i + 1 = k + SlotOf(x)
        BY <1>6, SlotFacts
    <2> HIDE DEF i
    <2>2. \A j \in 1..8 : rs[j] = x => j = i
        BY <1>7, <2>1
    <2>3. q.r[x] = m.s[Len(m.s) - i + 1]
        BY <1>3, <2>1, <2>2 DEF q
    <2> QED
        BY <2>1, <2>3
<1> QED
    BY <1>3, <1>5, <1>8 DEF q, rs

LEMMA LinkageOutLeaves ==
    ASSUME NEW p, NEW m \in Machines, Can(p, m, "linkage_out")
    PROVE  \E u \in Labels \ (Handlers \cup {"frozen"}) :
              LET q == Popped(Dropped(m, 2), Popal)
                  d == Dropped(q, IF u = "user" THEN 5 ELSE 3)
              IN  /\ Word(q, 0) = Code(u) /\ Word(q, 1) = Sel(u = "user") /\ Word(q, 2) = Flags(TRUE)
                  /\ d \in Machines /\ Can(p, d, u)
<1> DEFINE n == Len(m.s)
           c == Dropped(m, 2)
           q == Popped(c, Popal)
<1>1. n \in Nat /\ m.s \in Seq(Words)
    BY DEF Machines
<1>2. Standing(p, m.s, "linkage_out", n) /\ "linkage_out" \in IntrLabels
    BY DEF Can, IntrLabels
<1>3. PICK u \in Labels, h \in Nat : Layer(p, m.s, "linkage_out", n, u, h) /\ Standing(p, m.s, u, h)
    BY <1>2, StandingBelow
<1> DEFINE k == h + Gate(u)
           d == Dropped(q, Gate(u))
<1>4. Gate(u) \in {3, 5} /\ k \in Nat /\ k >= 3 /\ n = k + 10 /\ 2 \in 0..n /\ n - 2 = k + 8 /\ k - Gate(u) = h
    <2>1. Gate(u) \in {3, 5} /\ k \in Nat /\ k >= 3 /\ n = k + 10
        BY <1>3, LayerHeights
    <2> QED
        BY <1>1, <2>1
<1>5. /\ u \notin Handlers \cup {"frozen"}
      /\ m.s[k] = Code(u) /\ m.s[k - 1] = Sel(u = "user") /\ m.s[k - 2] = Flags(TRUE)
      /\ Needs(p, u, h, SavedRegs(m.s, k))
    BY <1>3 DEF Layer
<1>6. c \in Machines /\ Len(c.s) = k + 8 /\ \A i \in 1..(k + 8) : c.s[i] = m.s[i]
    <2>1. c \in Machines /\ Len(c.s) = n - 2 /\ \A i \in 1..(n - 2) : c.s[i] = m.s[i]
        BY <1>4, DropFacts
    <2> HIDE DEF c
    <2> QED
        BY <1>4, <2>1
<1> HIDE DEF c, k, n
<1>7. /\ q \in Machines /\ Len(q.s) = k
      /\ \A i \in 1..k : q.s[i] = c.s[i]
      /\ \A x \in Registers : q.r[x] = c.s[k + SlotOf(x)]
    BY <1>4, <1>6, PopalFacts
<1> HIDE DEF q
<1>8. q.r = SavedRegs(m.s, k)
    <2>1. \A x \in Registers : q.r[x] = m.s[k + SlotOf(x)]
        <3> SUFFICES ASSUME NEW x \in Registers
                     PROVE  q.r[x] = m.s[k + SlotOf(x)]
            OBVIOUS
        <3> DEFINE i == k + SlotOf(x)
        <3>1. i \in 1..(k + 8)
            BY <1>4, SlotFacts
        <3>2. q.r[x] = c.s[i]
            BY <1>7
        <3> HIDE DEF i
        <3>3. q.r[x] = m.s[i]
            BY <1>6, <3>1, <3>2
        <3> QED
            BY <3>3 DEF i
    <2>2. q.r \in [Registers -> Words]
        BY <1>7 DEF Machines
    <2> QED
        BY <2>1, <2>2 DEF SavedRegs
<1>9. Word(q, 0) = Code(u) /\ Word(q, 1) = Sel(u = "user") /\ Word(q, 2) = Flags(TRUE)
    <2>1. /\ k \in 1..k /\ k - 1 \in 1..k /\ k - 2 \in 1..k /\ k - 0 = k
          /\ k \in 1..(k + 8) /\ k - 1 \in 1..(k + 8) /\ k - 2 \in 1..(k + 8)
        BY <1>4
    <2>2. q.s[k] = m.s[k] /\ q.s[k - 1] = m.s[k - 1] /\ q.s[k - 2] = m.s[k - 2]
        BY <1>6, <1>7, <2>1
    <2> QED
        BY <1>5, <1>7, <2>1, <2>2 DEF Word
<1>10. /\ d \in Machines /\ d.r = q.r /\ Len(d.s) = h
       /\ \A i \in 1..h : d.s[i] = q.s[i]
    <2>1. Gate(u) \in 0..Len(q.s) /\ Len(q.s) - Gate(u) = h
        BY <1>4, <1>7
    <2>2. /\ d \in Machines /\ d.r = q.r /\ Len(d.s) = Len(q.s) - Gate(u)
          /\ \A i \in 1..(Len(q.s) - Gate(u)) : d.s[i] = q.s[i]
        BY <1>7, <2>1, DropFacts
    <2> HIDE DEF d
    <2> QED
        BY <2>1, <2>2
<1> HIDE DEF d
<1>11. Agree(m.s, d.s, h)
    <2>1. d.s \in Seq(Words) /\ h <= Len(m.s) /\ h <= Len(d.s)
        BY <1>3, <1>10, StandingHeight DEF Machines
    <2>2. \A i \in 1..h : i \in 1..k /\ i \in 1..(k + 8)
        BY <1>4
    <2>3. \A i \in 1..h : d.s[i] = m.s[i]
        BY <1>6, <1>7, <1>10, <2>2
    <2> QED
        BY <1>1, <2>1, <2>3 DEF Agree
<1>12. Can(p, d, u)
    <2>1. Standing(p, d.s, u, h)
        BY <1>3, <1>11, StandingAgree
    <2> QED
        BY <1>5, <1>8, <1>10, <2>1 DEF Can
<1>13. d = Dropped(q, IF u = "user" THEN 5 ELSE 3)
    BY DEF d, Gate
<1> QED
    BY <1>5, <1>9, <1>10, <1>12, <1>13 DEF q, c

(***************************************************************************)
(* The ways in.                                                            *)
(***************************************************************************)
LEMMA ConcatFacts ==
    ASSUME NEW a \in Seq(Words), NEW b \in Seq(Words)
    PROVE  /\ a \o b \in Seq(Words) /\ Len(a \o b) = Len(a) + Len(b)
           /\ \A i \in 1..Len(a) : (a \o b)[i] = a[i]
           /\ \A i \in 1..Len(b) : (a \o b)[Len(a) + i] = b[i]
OBVIOUS

CpuTyped ==
    /\ regs \in [Registers -> Words]
    /\ stack \in [Owners -> Seq(Words)]
    /\ esp \in Owners /\ pc \in Labels /\ if_flag \in BOOLEAN

LEMMA MachineTyped ==
    ASSUME CpuTyped
    PROVE  Machine \in Machines /\ Machine.r = regs /\ Machine.s = stack[esp]
BY DEF CpuTyped, Machine, Machines

LEMMA GateFacts ==
    ASSUME CpuTyped
    PROVE  /\ GateWords \in Seq(Words) /\ Len(GateWords) = Gate(pc) /\ Gate(pc) \in {3, 5}
           /\ GateWords[Gate(pc)] = Code(pc) /\ GateWords[Gate(pc) - 1] = Sel(pc = "user")
           /\ GateWords[Gate(pc) - 2] = Flags(if_flag)
<1> DEFINE b == <<Flags(if_flag), Sel(pc = "user"), Code(pc)>>
           a == <<Of(esp, "ss"), Of(esp, "esp")>>
<1>1. /\ Of(esp, "ss") \in Words /\ Of(esp, "esp") \in Words
      /\ Flags(if_flag) \in Words /\ Sel(pc = "user") \in Words /\ Code(pc) \in Words
    BY WordsTyped DEF CpuTyped
<1>2. /\ b \in Seq(Words) /\ Len(b) = 3
      /\ b[1] = Flags(if_flag) /\ b[2] = Sel(pc = "user") /\ b[3] = Code(pc)
    BY <1>1
<1>3. a \in Seq(Words) /\ Len(a) = 2
    BY <1>1
<1>4. GateWords = (IF pc = "user" THEN a ELSE <<>>) \o b
    BY DEF GateWords
<1> HIDE DEF a, b
<1>5. CASE pc = "user"
    <2> DEFINE w == a \o b
    <2>1. GateWords = w /\ Gate(pc) = 5
        BY <1>4, <1>5 DEF Gate
    <2>2. /\ w \in Seq(Words) /\ Len(w) = Len(a) + Len(b)
          /\ \A i \in 1..Len(b) : w[Len(a) + i] = b[i]
        BY <1>2, <1>3, ConcatFacts
    <2> HIDE DEF w
    <2>3. Len(w) = 5 /\ w[2 + 1] = b[1] /\ w[2 + 2] = b[2] /\ w[2 + 3] = b[3]
        BY <1>2, <1>3, <2>2
    <2>4. w[3] = b[1] /\ w[4] = b[2] /\ w[5] = b[3]
        BY <2>3
    <2>5. Gate(pc) - 1 = 4 /\ Gate(pc) - 2 = 3
        BY <2>1
    <2>6. w[Gate(pc)] = b[3] /\ w[Gate(pc) - 1] = b[2] /\ w[Gate(pc) - 2] = b[1]
        BY <2>1, <2>4, <2>5
    <2> QED
        BY <1>2, <2>1, <2>2, <2>3, <2>6
<1>6. CASE pc # "user"
    <2>1. GateWords = <<>> \o b /\ Gate(pc) = 3
        BY <1>4, <1>6 DEF Gate
    <2>2. <<>> \o b = b
        BY <1>2, ConcatEmptySeq
    <2> QED
        BY <1>2, <2>1, <2>2
<1> QED
    BY <1>5, <1>6

(* A program is about to make a call.                                       *)
InUser ==
    /\ CpuTyped /\ pc = "user" /\ if_flag /\ stack[esp] = <<>>
    /\ \A x \in Registers : regs[x] = Of(esp, x)

LEMMA LinkedFacts ==
    ASSUME InUser
    PROVE  /\ Linked \in Machines /\ Linked.r = regs /\ Len(Linked.s) = 13
           /\ CallWords(esp, Linked.s) /\ Linked.s[13] = Code("linkage_end")
<1> DEFINE b == <<Flags(if_flag), regs["ebx"], regs["ecx"], regs["edx"], regs["esi"],
                  regs["edi"], regs["ebp"], Code("linkage_end")>>
           g == GateWords
           ws == g \o b
<1>1. CpuTyped /\ pc = "user" /\ if_flag = TRUE /\ esp \in Owners /\ Gate(pc) = 5
    BY DEF InUser, CpuTyped, Gate
<1>2. /\ g \in Seq(Words) /\ Len(g) = 5
      /\ g[3] = Flags(TRUE) /\ g[4] = Sel(TRUE) /\ g[5] = Code("user")
    <2> DEFINE n == Gate(pc)
    <2>1. /\ g \in Seq(Words) /\ Len(g) = n
          /\ g[n] = Code(pc) /\ g[n - 1] = Sel(pc = "user") /\ g[n - 2] = Flags(if_flag)
        BY <1>1, GateFacts
    <2>2. n = 5 /\ n - 1 = 4 /\ n - 2 = 3
        BY <1>1
    <2> HIDE DEF g, n
    <2> QED
        BY <1>1, <2>1, <2>2
<1>3. /\ b \in Seq(Words) /\ Len(b) = 8
      /\ b[2] = regs["ebx"] /\ b[3] = regs["ecx"] /\ b[4] = regs["edx"] /\ b[5] = regs["esi"]
      /\ b[6] = regs["edi"] /\ b[7] = regs["ebp"] /\ b[8] = Code("linkage_end")
    <2>1. \A x \in Registers : regs[x] \in Words
        BY <1>1 DEF CpuTyped
    <2>2. /\ regs["ebx"] \in Words /\ regs["ecx"] \in Words /\ regs["edx"] \in Words
          /\ regs["esi"] \in Words /\ regs["edi"] \in Words /\ regs["ebp"] \in Words
        BY <2>1 DEF Registers
    <2>3. Flags(if_flag) \in Words /\ Code("linkage_end") \in Words
        BY <1>1, WordsTyped DEF Labels, CallLabels, CpuTyped
    <2> QED
        BY <2>2, <2>3
<1>4. Machine \in Machines /\ Machine.r = regs /\ Machine.s = <<>> /\ Len(Machine.s) = 0
    BY <1>1, MachineTyped DEF InUser
<1>5. Linked = Pushed(Machine, ws)
    BY DEF Linked
<1> HIDE DEF g, b
<1>6. /\ ws \in Seq(Words) /\ Len(ws) = 13
      /\ \A i \in 1..5 : ws[i] = g[i]
      /\ \A i \in 1..8 : ws[5 + i] = b[i]
    <2>1. /\ ws \in Seq(Words) /\ Len(ws) = Len(g) + Len(b)
          /\ \A i \in 1..Len(g) : ws[i] = g[i]
          /\ \A i \in 1..Len(b) : ws[Len(g) + i] = b[i]
        BY <1>2, <1>3, ConcatFacts
    <2> HIDE DEF ws
    <2> QED
        BY <1>2, <1>3, <2>1
<1> HIDE DEF ws
<1>7. /\ Linked \in Machines /\ Linked.r = regs /\ Len(Linked.s) = 13
      /\ \A i \in 1..13 : Linked.s[i] = ws[i]
    <2> DEFINE m == Machine
               l == Linked
    <2>1. /\ l \in Machines /\ l.r = m.r /\ Len(l.s) = Len(m.s) + Len(ws)
          /\ \A i \in 1..Len(ws) : l.s[Len(m.s) + i] = ws[i]
        <3>1. m \in Machines /\ ws \in Seq(Words) /\ l = Pushed(m, ws)
            BY <1>4, <1>5, <1>6
        <3> HIDE DEF m, l
        <3> QED
            BY <3>1, PushedFacts
    <2>2. m.r = regs /\ Len(m.s) = 0
        BY <1>4
    <2> HIDE DEF m, l
    <2>3. l.r = regs /\ Len(l.s) = 13 /\ \A i \in 1..13 : l.s[i] = ws[i]
        BY <1>6, <2>1, <2>2
    <2> QED
        BY <2>1, <2>3 DEF l
<1>8. /\ \A i \in 1..5 : Linked.s[i] = g[i]
      /\ \A i \in 1..8 : Linked.s[5 + i] = b[i]
    <2> DEFINE u == Linked.s
    <2>1. \A i \in 1..13 : u[i] = ws[i]
        BY <1>7
    <2> HIDE DEF u
    <2>2. \A i \in 1..8 : 5 + i \in 1..13
        OBVIOUS
    <2>3. \A i \in 1..5 : i \in 1..13
        OBVIOUS
    <2>4. (\A i \in 1..5 : u[i] = g[i]) /\ \A i \in 1..8 : u[5 + i] = b[i]
        BY <1>6, <2>1, <2>2, <2>3
    <2> QED
        BY <2>4 DEF u
<1>9. Linked.s[3] = g[3] /\ Linked.s[4] = g[4] /\ Linked.s[5] = g[5]
    BY <1>8
<1>10. /\ Linked.s[7] = b[2] /\ Linked.s[8] = b[3] /\ Linked.s[9] = b[4] /\ Linked.s[10] = b[5]
       /\ Linked.s[11] = b[6] /\ Linked.s[12] = b[7] /\ Linked.s[13] = b[8]
    <2>1. /\ Linked.s[5 + 2] = b[2] /\ Linked.s[5 + 3] = b[3] /\ Linked.s[5 + 4] = b[4]
          /\ Linked.s[5 + 5] = b[5] /\ Linked.s[5 + 6] = b[6] /\ Linked.s[5 + 7] = b[7]
          /\ Linked.s[5 + 8] = b[8]
        BY <1>8
    <2> QED
        BY <2>1
<1>11. CallWords(esp, Linked.s)
    BY <1>2, <1>3, <1>9, <1>10 DEF CallWords, InUser, Registers
<1> QED
    BY <1>3, <1>7, <1>10, <1>11

(* The stack of a call keeps the words at which it is left.                 *)
CallStack(p, s) == CallWords(p, s) /\ s[13] = Code("linkage_end")

LEMMA CallStackAgree ==
    ASSUME NEW p, NEW s, NEW t, NEW n \in Nat, n >= 13, \A i \in 1..n : t[i] = s[i], CallStack(p, s)
    PROVE  CallStack(p, t)
<1>1. \A i \in {3, 4, 5, 7, 8, 9, 10, 11, 12, 13} : t[i] = s[i]
    OBVIOUS
<1> QED
    BY <1>1 DEF CallWords, CallStack

LEMMA PushedOnCall ==
    ASSUME NEW p, NEW m \in Machines, NEW ws \in Seq(Words), Len(m.s) >= 13, CallStack(p, m.s)
    PROVE  /\ Pushed(m, ws) \in Machines /\ Pushed(m, ws).r = m.r
           /\ Len(Pushed(m, ws).s) = Len(m.s) + Len(ws) /\ CallStack(p, Pushed(m, ws).s)
           /\ \A i \in 1..Len(m.s) : Pushed(m, ws).s[i] = m.s[i]
           /\ \A i \in 1..Len(ws) : Pushed(m, ws).s[Len(m.s) + i] = ws[i]
<1>1. Len(m.s) \in Nat
    BY DEF Machines
<1>2. /\ Pushed(m, ws) \in Machines /\ Pushed(m, ws).r = m.r
      /\ Len(Pushed(m, ws).s) = Len(m.s) + Len(ws)
      /\ \A i \in 1..Len(m.s) : Pushed(m, ws).s[i] = m.s[i]
      /\ \A i \in 1..Len(ws) : Pushed(m, ws).s[Len(m.s) + i] = ws[i]
    BY PushedFacts, Zenon
<1>3. CallStack(p, Pushed(m, ws).s)
    BY <1>1, <1>2, CallStackAgree, Zenon
<1> QED
    BY <1>2, <1>3, Zenon

LEMMA FramedOnCall ==
    ASSUME NEW p, NEW m \in Machines, Len(m.s) >= 13, CallStack(p, m.s)
    PROVE  /\ Framed(m) \in Machines /\ Framed(m).r["ebp"] = Ptr(Len(m.s) + 1)
           /\ Len(Framed(m).s) = Len(m.s) + 1 /\ CallStack(p, Framed(m).s)
           /\ \A i \in 1..Len(m.s) : Framed(m).s[i] = m.s[i]
<1>1. Len(m.s) \in Nat /\ "ebp" \in Registers /\ m.r \in [Registers -> Words]
    BY DEF Machines, Registers
<1>2. /\ Framed(m) \in Machines
      /\ Framed(m).r = [m.r EXCEPT !["ebp"] = Ptr(Len(m.s) + 1)]
      /\ Len(Framed(m).s) = Len(m.s) + 1
    BY FramedFacts, Zenon
<1>3. \A i \in 1..Len(m.s) : Framed(m).s[i] = m.s[i]
    BY FramedFacts, Zenon
<1>4. CallStack(p, Framed(m).s)
    BY <1>1, <1>3, CallStackAgree, Zenon
<1> QED
    BY <1>1, <1>2, <1>3, <1>4

LEMMA SavedFacts ==
    ASSUME InUser
    PROVE  Saved \in Machines /\ Len(Saved.s) = 17 /\ CallStack(esp, Saved.s)
<1> DEFINE ws == <<regs["ebx"], regs["esi"], regs["edi"]>>
           l == Linked
           f == Framed(l)
           q == Saved
<1>1. ws \in Seq(Words) /\ Len(ws) = 3
    BY DEF InUser, CpuTyped, Registers
<1>2. l \in Machines /\ Len(l.s) = 13 /\ Len(l.s) >= 13 /\ CallStack(esp, l.s)
    BY LinkedFacts DEF CallStack
<1>3. q = Pushed(f, ws)
    BY DEF Saved
<1> HIDE DEF ws, l, q
<1>4. f \in Machines /\ Len(f.s) = Len(l.s) + 1 /\ CallStack(esp, f.s)
    BY <1>2, FramedOnCall, Zenon
<1> HIDE DEF f
<1>5. Len(f.s) >= 13
    BY <1>2, <1>4
<1>6. q \in Machines /\ Len(q.s) = Len(f.s) + Len(ws) /\ CallStack(esp, q.s)
    BY <1>1, <1>3, <1>4, <1>5, PushedOnCall, Zenon
<1> QED
    BY <1>1, <1>2, <1>4, <1>6 DEF q

LEMMA CallStands ==
    ASSUME InUser, esp # Boot
    PROVE  LET args == Pushed(Saved, <<regs["edx"], regs["ecx"], regs["ebx"], Code("null")>>)
               m    == Clobbered(Pushed(Framed(args), <<Junk>>))
           IN  m \in Machines /\ Can(esp, m, "call")
<1> DEFINE ws == <<regs["edx"], regs["ecx"], regs["ebx"], Code("null")>>
           js == <<Junk>>
           v == Saved
           a == Pushed(v, ws)
           f == Framed(a)
           g == Pushed(f, js)
           m == Clobbered(g)
<1>1. ws \in Seq(Words) /\ Len(ws) = 4 /\ ws[4] = Code("null")
    <2>1. Code("null") \in Words
        BY WordsTyped DEF Labels
    <2> QED
        BY <2>1 DEF InUser, CpuTyped, Registers
<1>2. js \in Seq(Words) /\ Len(js) = 1
    BY WordsTyped
<1>3. v \in Machines /\ Len(v.s) = 17 /\ CallStack(esp, v.s)
    BY SavedFacts
<1> HIDE DEF ws, js, v
<1>4. /\ a \in Machines /\ Len(a.s) = Len(v.s) + Len(ws) /\ CallStack(esp, a.s)
      /\ \A i \in 1..Len(ws) : a.s[Len(v.s) + i] = ws[i]
    <2>1. Len(v.s) >= 13
        BY <1>3
    <2> QED
        BY <1>1, <1>3, <2>1, PushedOnCall, Zenon
<1> HIDE DEF a
<1>5. Len(a.s) = 21 /\ Len(a.s) >= 13 /\ a.s[21] = Code("null")
    <2>1. 4 \in 1..Len(ws) /\ Len(v.s) + 4 = 21 /\ Len(a.s) = 21
        BY <1>1, <1>3, <1>4
    <2>2. a.s[Len(v.s) + 4] = ws[4]
        BY <1>4, <2>1
    <2> QED
        BY <1>1, <2>1, <2>2
<1>6. /\ f \in Machines /\ Len(f.s) = Len(a.s) + 1 /\ CallStack(esp, f.s)
      /\ f.r["ebp"] = Ptr(Len(a.s) + 1)
      /\ \A i \in 1..Len(a.s) : f.s[i] = a.s[i]
    BY <1>4, <1>5, FramedOnCall, Zenon
<1> HIDE DEF f
<1>7. Len(f.s) = 22 /\ Len(f.s) >= 13 /\ f.r["ebp"] = Ptr(22) /\ f.s[21] = Code("null")
    <2>1. Len(a.s) + 1 = 22 /\ 21 \in 1..Len(a.s)
        BY <1>5
    <2> QED
        BY <1>5, <1>6, <2>1
<1>8. /\ g \in Machines /\ g.r = f.r /\ Len(g.s) = Len(f.s) + Len(js) /\ CallStack(esp, g.s)
      /\ \A i \in 1..Len(f.s) : g.s[i] = f.s[i]
    BY <1>2, <1>6, <1>7, PushedOnCall, Zenon
<1> HIDE DEF g
<1>9. Len(g.s) = 23 /\ g.s[21] = Code("null") /\ g.r["ebp"] = Ptr(22)
    <2>1. 21 \in 1..Len(f.s) /\ Len(f.s) + Len(js) = 23
        BY <1>2, <1>7
    <2> QED
        BY <1>7, <1>8, <2>1
<1>10. m \in Machines /\ m.s = g.s /\ m.r["ebp"] = g.r["ebp"]
    BY <1>8, ClobberedFacts
<1>11. m \in Machines /\ Len(m.s) = 23 /\ CallStack(esp, m.s) /\ m.s[21] = Code("null") /\ m.r["ebp"] = Ptr(22)
    BY <1>8, <1>9, <1>10
<1> HIDE DEF m
<1>12. Grounded(esp, m.s, "call", 23) /\ "call" \in Labels
    BY <1>11 DEF Grounded, CallStack, Labels, CallLabels
<1>13. Standing(esp, m.s, "call", 23)
    <2>1. 23 \in Nat /\ 23 <= Len(m.s)
        BY <1>11
    <2> QED
        BY <1>12, <2>1, StandingGround, Zenon
<1>14. Needs(esp, "call", 23, m.r)
    BY <1>11, HandlerLabels DEF Needs
<1>15. m \in Machines /\ Can(esp, m, "call")
    BY <1>11, <1>13, <1>14 DEF Can
<1> QED
    BY <1>15 DEF m, g, f, a, v, js, ws

(* A number without a call, and RETURN, leave the five words that           *)
(* sys_calls_handler_end takes off, and EAX.                                *)
LEMMA ReturnStands ==
    ASSUME NEW p \in Programs, NEW m \in Machines, Len(m.s) = 22, CallStack(p, m.s), m.r["eax"] = Of(p, "eax")
    PROVE  Can(p, m, "sys_calls_handler_end")
<1>1. p # Boot /\ "sys_calls_handler_end" \in Labels
    BY EntryAssumption DEF Programs, Boot, Terminals, Labels, CallLabels
<1>2. Grounded(p, m.s, "sys_calls_handler_end", 22)
    BY <1>1 DEF Grounded, CallStack
<1>3. Standing(p, m.s, "sys_calls_handler_end", 22)
    <2>1. 22 \in Nat /\ 22 <= Len(m.s)
        OBVIOUS
    <2> QED
        BY <1>1, <1>2, <2>1, StandingGround, Zenon
<1>4. Needs(p, "sys_calls_handler_end", 22, m.r)
    BY HandlerLabels DEF Needs
<1> QED
    BY <1>3, <1>4 DEF Can

LEMMA EaxFacts ==
    ASSUME NEW m \in Machines, NEW w \in Words
    PROVE  /\ [m EXCEPT !.r["eax"] = w] \in Machines
           /\ [m EXCEPT !.r["eax"] = w].s = m.s
           /\ [m EXCEPT !.r["eax"] = w].r["eax"] = w
BY DEF Machines, Registers

LEMMA CallUnknownStands ==
    ASSUME InUser, esp # Boot
    PROVE  LET m == Pushed([Saved EXCEPT !.r["eax"] = Result(esp)], [i \in 1..5 |-> Junk])
           IN  m \in Machines /\ Can(esp, m, "sys_calls_handler_end")
<1> DEFINE js == [i \in 1..5 |-> Junk]
           v == Saved
           w == Result(esp)
           e == [v EXCEPT !.r["eax"] = w]
           m == Pushed(e, js)
<1>1. js \in Seq(Words) /\ Len(js) = 5
    BY WordsTyped
<1>2. v \in Machines /\ Len(v.s) = 17 /\ CallStack(esp, v.s)
    BY SavedFacts
<1>3. w \in Words /\ w = Of(esp, "eax") /\ esp \in Programs
    BY WordsTyped DEF Result, InUser, CpuTyped, Owners, Registers
<1> HIDE DEF js, v, w
<1>4. e \in Machines /\ e.s = v.s /\ e.r["eax"] = w
    BY <1>2, <1>3, EaxFacts
<1>5. m = Pushed(e, js)
    OBVIOUS
<1> HIDE DEF e, m
<1>6. CallStack(esp, e.s) /\ Len(e.s) = 17
    BY <1>2, <1>4
<1>7. Len(e.s) >= 13
    BY <1>6
<1>8. m \in Machines /\ m.r = e.r /\ Len(m.s) = Len(e.s) + Len(js) /\ CallStack(esp, m.s)
    <2>1. e \in Machines /\ js \in Seq(Words) /\ Len(e.s) >= 13 /\ CallStack(esp, e.s)
        BY <1>1, <1>4, <1>6, <1>7
    <2>2. /\ Pushed(e, js) \in Machines /\ Pushed(e, js).r = e.r
          /\ Len(Pushed(e, js).s) = Len(e.s) + Len(js) /\ CallStack(esp, Pushed(e, js).s)
        BY <2>1, PushedOnCall
    <2> QED
        BY <1>5, <2>2
<1>9. Len(m.s) = 22
    BY <1>1, <1>6, <1>8
<1>10. m \in Machines /\ Can(esp, m, "sys_calls_handler_end")
    BY <1>3, <1>4, <1>8, <1>9, ReturnStands
<1> QED
    BY <1>10 DEF m, e, v, w, js

(***************************************************************************)
(* The ways out of a call.                                                 *)
(***************************************************************************)
LEMMA CallLeaves ==
    ASSUME NEW p \in Owners, NEW m \in Machines, Can(p, m, "call")
    PROVE  /\ p \in Programs /\ Len(m.s) = 23 /\ CallStack(p, m.s) /\ m.s[21] = Code("null")
           /\ m.r["ebp"] = Ptr(22) /\ Frame(m) = 22
<1>1. Standing(p, m.s, "call", Len(m.s)) /\ m.r["ebp"] = Ptr(22) /\ "call" \notin IntrLabels
    BY HandlerLabels DEF Can, Needs, IntrLabels
<1>2. Grounded(p, m.s, "call", Len(m.s))
    BY <1>1, StandingOther
<1>3. Frame(m) = 22
    BY <1>1 DEF Frame, Ptr
<1> QED
    BY <1>1, <1>2, <1>3 DEF Grounded, BootLabels, CallStack, Owners

(* Back to height 22 of a call.                                             *)
LEMMA CutToCall ==
    ASSUME NEW p, NEW m \in Machines, Len(m.s) >= 22, CallStack(p, m.s)
    PROVE  /\ CutTo(m, 22) \in Machines /\ Len(CutTo(m, 22).s) = 22
           /\ CallStack(p, CutTo(m, 22).s)
<1>1. 22 \in 0..Len(m.s) /\ 22 \in Nat /\ 22 >= 13
    BY DEF Machines
<1>2. CutTo(m, 22) \in Machines /\ Len(CutTo(m, 22).s) = 22
    BY <1>1, CutFacts, Zenon
<1>3. \A i \in 1..22 : CutTo(m, 22).s[i] = m.s[i]
    BY <1>1, CutFacts, Zenon
<1>4. CallStack(p, CutTo(m, 22).s)
    BY <1>1, <1>3, CallStackAgree, Zenon
<1> QED
    BY <1>2, <1>4

LEMMA ReturnLeaves ==
    ASSUME NEW p \in Programs, NEW m \in Machines, Len(m.s) >= 22, CallStack(p, m.s)
    PROVE  LET e == [CutTo(m, 22) EXCEPT !.r["eax"] = Result(p)]
           IN  e \in Machines /\ Can(p, e, "sys_calls_handler_end")
<1> DEFINE c == CutTo(m, 22)
           e == [c EXCEPT !.r["eax"] = Result(p)]
<1>1. c \in Machines /\ Len(c.s) = 22 /\ CallStack(p, c.s)
    BY CutToCall
<1>2. Result(p) \in Words /\ Result(p) = Of(p, "eax")
    BY WordsTyped DEF Result, Owners, Registers
<1> HIDE DEF c
<1>3. e \in Machines /\ e.s = c.s /\ e.r["eax"] = Result(p)
    BY <1>1, <1>2, EaxFacts
<1> HIDE DEF e
<1>4. e \in Machines /\ Can(p, e, "sys_calls_handler_end")
    BY <1>1, <1>2, <1>3, ReturnStands
<1> QED
    BY <1>4 DEF e, c

(* halt returns to height 22 of the call in which the parent was left.      *)
LEMMA HaltLeaves ==
    ASSUME NEW p \in Programs, NEW m \in Machines, Len(m.s) >= 22, CallStack(p, m.s)
    PROVE  LET e == [CutTo(m, 22) EXCEPT !.r["eax"] = Result(p), !.r["ebp"] = Ptr(22)]
           IN  e \in Machines /\ Can(p, e, "sys_calls_handler_end")
<1> DEFINE c == CutTo(m, 22)
           b == [c EXCEPT !.r["eax"] = Result(p)]
           e == [c EXCEPT !.r["eax"] = Result(p), !.r["ebp"] = Ptr(22)]
<1>1. c \in Machines /\ Len(c.s) = 22 /\ CallStack(p, c.s)
    BY CutToCall
<1>2. Result(p) \in Words /\ Result(p) = Of(p, "eax") /\ Ptr(22) \in Words
    BY WordsTyped DEF Result, Owners, Registers
<1> HIDE DEF c
<1>3. b \in Machines /\ b.s = c.s /\ b.r["eax"] = Result(p)
    BY <1>1, <1>2, EaxFacts
<1>4. e = [b EXCEPT !.r["ebp"] = Ptr(22)]
    OBVIOUS
<1> HIDE DEF b, e
<1>5. e \in Machines /\ e.s = b.s /\ e.r["eax"] = b.r["eax"]
    BY <1>2, <1>3, <1>4 DEF Machines, Registers
<1>6. e \in Machines /\ Can(p, e, "sys_calls_handler_end")
    BY <1>1, <1>2, <1>3, <1>5, ReturnStands
<1> QED
    BY <1>6 DEF e, c

LEMMA SetHandlerLeaves ==
    ASSUME NEW p \in Owners, NEW m \in Machines, Can(p, m, "call")
    PROVE  /\ Word(Left(m), 0) = Code("null")
           /\ Dropped(Left(m), 1) \in Machines
           /\ Can(p, Dropped(Left(m), 1), "null")
<1> DEFINE d == Dropped(Leave(m, 22), 1)
<1>1. p \in Programs /\ Len(m.s) = 23 /\ m.s[21] = Code("null") /\ m.r["ebp"] = Ptr(22)
    BY CallLeaves
<1>2. Left(m) = Leave(m, 22)
    BY <1>1, LeftIsLeave
<1>3. 22 \in 2..Len(m.s) /\ 22 - 2 = 20 /\ 22 - 1 = 21
    BY <1>1
<1>4. d \in Machines /\ Len(d.s) = 22 - 2 /\ Word(Leave(m, 22), 0) = m.s[22 - 1]
    BY <1>3, LeaveFacts, Zenon
<1> HIDE DEF d
<1>5. p # Boot /\ "null" \in Labels
    BY <1>1, EntryAssumption DEF Programs, Boot, Terminals, Labels
<1>6. Grounded(p, d.s, "null", Len(d.s))
    BY <1>5 DEF Grounded
<1>7. Len(d.s) = 20 /\ Len(d.s) <= Len(d.s) /\ Len(d.s) \in Nat
    BY <1>3, <1>4
<1>8. Standing(p, d.s, "null", Len(d.s))
    BY <1>5, <1>6, <1>7, StandingGround, Zenon
<1>9. Needs(p, "null", Len(d.s), d.r)
    BY HandlerLabels DEF Needs
<1> QED
    BY <1>1, <1>2, <1>3, <1>4, <1>8, <1>9 DEF Can, d

LEMMA SysEndLeaves ==
    ASSUME NEW p \in Owners, NEW m \in Machines, Can(p, m, "sys_calls_handler_end")
    PROVE  LET q == Popped(Dropped(m, 5), <<"ebx", "esi", "edi", "ebp">>)
           IN  /\ Word(q, 0) = Code("linkage_end")
               /\ Dropped(q, 1) \in Machines /\ Can(p, Dropped(q, 1), "linkage_end")
<1> DEFINE c == Dropped(m, 5)
           rs == <<"ebx", "esi", "edi", "ebp">>
           q == Popped(c, rs)
           d == Dropped(q, 1)
<1>1. /\ Standing(p, m.s, "sys_calls_handler_end", Len(m.s)) /\ m.r["eax"] = Of(p, "eax")
      /\ "sys_calls_handler_end" \notin IntrLabels
    BY HandlerLabels DEF Can, Needs, IntrLabels
<1>2. Grounded(p, m.s, "sys_calls_handler_end", Len(m.s))
    BY <1>1, StandingOther
<1>3. p # Boot /\ Len(m.s) = 22 /\ CallWords(p, m.s) /\ m.s[13] = Code("linkage_end")
    BY <1>2 DEF Grounded, BootLabels
<1>4. 5 \in 0..Len(m.s) /\ Len(m.s) - 5 = 17
    BY <1>3
<1>5. c \in Machines /\ c.r = m.r /\ Len(c.s) = 17 /\ \A i \in 1..17 : c.s[i] = m.s[i]
    <2>1. /\ c \in Machines /\ c.r = m.r /\ Len(c.s) = Len(m.s) - 5
          /\ \A i \in 1..(Len(m.s) - 5) : c.s[i] = m.s[i]
        BY <1>4, DropFacts, Zenon
    <2> HIDE DEF c
    <2> QED
        BY <1>4, <2>1
<1>6. /\ rs \in Seq(Registers \cup {"-"}) /\ 4 = Len(rs)
      /\ rs[1] = "ebx" /\ rs[2] = "esi" /\ rs[3] = "edi" /\ rs[4] = "ebp"
    BY DEF Registers
<1> HIDE DEF c, rs
<1>7. 4 \in Nat /\ 4 <= Len(c.s)
    BY <1>5
<1>8. /\ q \in Machines /\ q.s = CutTo(c, Len(c.s) - 4).s
      /\ \A x \in Registers : (\A i \in 1..4 : rs[i] # x) => q.r[x] = c.r[x]
    BY <1>5, <1>6, <1>7, PoppedFacts, Zenon
<1> HIDE DEF q
<1>9. Len(c.s) - 4 \in 0..Len(c.s) /\ Len(c.s) - 4 = 13
    BY <1>5
<1>10. Len(q.s) = 13 /\ \A i \in 1..13 : q.s[i] = c.s[i]
    <2>1. 13 \in 0..Len(c.s) /\ q.s = CutTo(c, 13).s
        BY <1>5, <1>8, <1>9
    <2>2. Len(CutTo(c, 13).s) = 13 /\ \A i \in 1..13 : CutTo(c, 13).s[i] = c.s[i]
        BY <1>5, <2>1, CutFacts, Zenon
    <2> QED
        BY <2>1, <2>2, Zenon
<1>11. q.r["eax"] = Of(p, "eax")
    <2>1. \A i \in 1..4 : i = 1 \/ i = 2 \/ i = 3 \/ i = 4
        OBVIOUS
    <2>2. "eax" \in Registers /\ \A i \in 1..4 : rs[i] # "eax"
        BY <1>6, <2>1 DEF Registers
    <2> QED
        BY <1>1, <1>5, <1>8, <2>2
<1>12. \A i \in 1..13 : q.s[i] = m.s[i]
    BY <1>5, <1>10
<1>13. Word(q, 0) = Code("linkage_end")
    BY <1>3, <1>10, <1>12 DEF Word
<1>14. 1 \in 0..Len(q.s) /\ Len(q.s) - 1 = 12
    BY <1>10
<1>15. d \in Machines /\ d.r = q.r /\ Len(d.s) = 12 /\ \A i \in 1..12 : d.s[i] = m.s[i]
    <2>1. /\ d \in Machines /\ d.r = q.r /\ Len(d.s) = Len(q.s) - 1
          /\ \A i \in 1..(Len(q.s) - 1) : d.s[i] = q.s[i]
        BY <1>8, <1>14, DropFacts, Zenon
    <2> HIDE DEF d
    <2>2. d \in Machines /\ d.r = q.r /\ Len(d.s) = 12 /\ \A i \in 1..12 : d.s[i] = q.s[i]
        BY <1>14, <2>1, Zenon
    <2>3. \A i \in 1..12 : i \in 1..13
        OBVIOUS
    <2> QED
        BY <1>12, <2>2, <2>3
<1> HIDE DEF d
<1>16. CallWords(p, d.s)
    <2>1. \A i \in {3, 4, 5, 7, 8, 9, 10, 11, 12} : d.s[i] = m.s[i]
        BY <1>15
    <2> QED
        BY <1>3, <2>1 DEF CallWords
<1>17. Grounded(p, d.s, "linkage_end", Len(d.s)) /\ "linkage_end" \in Labels
    BY <1>3, <1>15, <1>16 DEF Grounded, Labels, CallLabels
<1>18. Len(d.s) \in Nat /\ Len(d.s) <= Len(d.s)
    BY <1>15
<1>19. Standing(p, d.s, "linkage_end", Len(d.s))
    BY <1>17, <1>18, StandingGround, Zenon
<1>20. Needs(p, "linkage_end", Len(d.s), d.r)
    BY <1>11, <1>15, HandlerLabels DEF Needs
<1>21. Word(q, 0) = Code("linkage_end") /\ d \in Machines /\ Can(p, d, "linkage_end")
    BY <1>13, <1>15, <1>19, <1>20 DEF Can
<1> QED
    BY <1>21 DEF d, q, c, rs

LEMMA LinkageEndLeaves ==
    ASSUME NEW p \in Owners, NEW m \in Machines, Can(p, m, "linkage_end")
    PROVE  LET q == Dropped(Popped(m, <<"ebp", "edi", "esi", "edx", "ecx", "ebx">>), 1)
           IN  /\ Word(q, 0) = Code("user") /\ Word(q, 1) = Sel(TRUE) /\ Word(q, 2) = Flags(TRUE)
               /\ Dropped(q, 5) \in Machines /\ Can(p, Dropped(q, 5), "user")
<1> DEFINE rs == <<"ebp", "edi", "esi", "edx", "ecx", "ebx">>
           c == Popped(m, rs)
           q == Dropped(c, 1)
           d == Dropped(q, 5)
<1>1. /\ Standing(p, m.s, "linkage_end", Len(m.s)) /\ m.r["eax"] = Of(p, "eax")
      /\ "linkage_end" \notin IntrLabels
    BY HandlerLabels DEF Can, Needs, IntrLabels
<1>2. Grounded(p, m.s, "linkage_end", Len(m.s))
    BY <1>1, StandingOther
<1>3. p # Boot /\ Len(m.s) = 12 /\ CallWords(p, m.s)
    BY <1>2 DEF Grounded, BootLabels
<1>4. /\ rs \in Seq(Registers \cup {"-"}) /\ 6 = Len(rs)
      /\ rs[1] = "ebp" /\ rs[2] = "edi" /\ rs[3] = "esi" /\ rs[4] = "edx" /\ rs[5] = "ecx"
      /\ rs[6] = "ebx"
    BY DEF Registers
<1> HIDE DEF rs
<1>5. 6 \in Nat /\ 6 <= Len(m.s)
    BY <1>3
<1>6. /\ c \in Machines /\ c.s = CutTo(m, Len(m.s) - 6).s
      /\ \A x \in Registers : \A i \in 1..6 :
            rs[i] = x /\ (\A j \in 1..6 : rs[j] = x => j = i) => c.r[x] = m.s[Len(m.s) - i + 1]
      /\ \A x \in Registers : (\A i \in 1..6 : rs[i] # x) => c.r[x] = m.r[x]
    BY <1>4, <1>5, PoppedFacts, Zenon
<1> HIDE DEF c
<1>7. c.s = CutTo(m, 6).s /\ 6 \in 0..Len(m.s)
    BY <1>3, <1>6
<1>8. Len(CutTo(m, 6).s) = 6 /\ \A i \in 1..6 : CutTo(m, 6).s[i] = m.s[i]
    BY <1>7, CutFacts, Zenon
<1>9. Len(c.s) = 6 /\ \A i \in 1..6 : c.s[i] = m.s[i]
    BY <1>7, <1>8, Zenon
<1>10. \A i \in 1..6 : i = 1 \/ i = 2 \/ i = 3 \/ i = 4 \/ i = 5 \/ i = 6
    OBVIOUS
<1>11. \A i, j \in 1..6 : rs[i] = rs[j] => i = j
    BY <1>4, <1>10
<1>12. ASSUME NEW i \in 1..6, NEW x \in Registers, rs[i] = x
       PROVE  c.r[x] = m.s[13 - i]
    <2>1. \A j \in 1..6 : rs[j] = x => j = i
        BY <1>11, <1>12
    <2>2. c.r[x] = m.s[Len(m.s) - i + 1]
        BY <1>6, <1>12, <2>1
    <2>3. Len(m.s) - i + 1 = 13 - i
        BY <1>3
    <2> QED
        BY <2>2, <2>3
<1>13. c.r["eax"] = m.r["eax"]
    <2>1. "eax" \in Registers /\ \A i \in 1..6 : rs[i] # "eax"
        BY <1>4, <1>10 DEF Registers
    <2> QED
        BY <1>6, <2>1
<1>14. /\ c.r["ebp"] = m.s[12] /\ c.r["edi"] = m.s[11] /\ c.r["esi"] = m.s[10]
       /\ c.r["edx"] = m.s[9] /\ c.r["ecx"] = m.s[8] /\ c.r["ebx"] = m.s[7]
    <2>1. /\ 1 \in 1..6 /\ 2 \in 1..6 /\ 3 \in 1..6 /\ 4 \in 1..6 /\ 5 \in 1..6 /\ 6 \in 1..6
          /\ 13 - 1 = 12 /\ 13 - 2 = 11 /\ 13 - 3 = 10 /\ 13 - 4 = 9 /\ 13 - 5 = 8 /\ 13 - 6 = 7
        OBVIOUS
    <2>2. /\ c.r["ebp"] = m.s[13 - 1] /\ c.r["edi"] = m.s[13 - 2] /\ c.r["esi"] = m.s[13 - 3]
          /\ c.r["edx"] = m.s[13 - 4] /\ c.r["ecx"] = m.s[13 - 5] /\ c.r["ebx"] = m.s[13 - 6]
        BY <1>4, <1>12, <2>1 DEF Registers
    <2> QED
        BY <2>1, <2>2
<1>15. \A x \in Registers : c.r[x] = Of(p, x)
    BY <1>1, <1>3, <1>13, <1>14 DEF Registers, CallWords
<1>16. 1 \in 0..Len(c.s) /\ Len(c.s) - 1 = 5
    BY <1>9
<1>17. q \in Machines /\ q.r = c.r /\ Len(q.s) = 5 /\ \A i \in 1..5 : q.s[i] = m.s[i]
    <2>1. /\ q \in Machines /\ q.r = c.r /\ Len(q.s) = Len(c.s) - 1
          /\ \A i \in 1..(Len(c.s) - 1) : q.s[i] = c.s[i]
        BY <1>6, <1>16, DropFacts, Zenon
    <2> HIDE DEF q
    <2>2. q \in Machines /\ q.r = c.r /\ Len(q.s) = 5 /\ \A i \in 1..5 : q.s[i] = c.s[i]
        BY <1>16, <2>1, Zenon
    <2>3. \A i \in 1..5 : i \in 1..6
        OBVIOUS
    <2> QED
        BY <1>9, <2>2, <2>3
<1> HIDE DEF q
<1>18. Word(q, 0) = Code("user") /\ Word(q, 1) = Sel(TRUE) /\ Word(q, 2) = Flags(TRUE)
    <2>1. Word(q, 0) = q.s[5] /\ Word(q, 1) = q.s[4] /\ Word(q, 2) = q.s[3]
        BY <1>17 DEF Word
    <2>2. q.s[5] = m.s[5] /\ q.s[4] = m.s[4] /\ q.s[3] = m.s[3]
        BY <1>17
    <2>3. m.s[5] = Code("user") /\ m.s[4] = Sel(TRUE) /\ m.s[3] = Flags(TRUE)
        BY <1>3 DEF CallWords
    <2> QED
        BY <2>1, <2>2, <2>3
<1>19. 5 \in 0..Len(q.s) /\ Len(q.s) - 5 = 0
    BY <1>17
<1>20. d \in Machines /\ d.r = q.r /\ Len(d.s) = 0
    <2>1. d \in Machines /\ d.r = q.r /\ Len(d.s) = Len(q.s) - 5
        BY <1>17, <1>19, DropFacts, Zenon
    <2> HIDE DEF d
    <2> QED
        BY <1>19, <2>1
<1> HIDE DEF d
<1>21. Grounded(p, d.s, "user", Len(d.s)) /\ "user" \in Labels /\ Len(d.s) \in Nat /\ Len(d.s) <= Len(d.s)
    BY <1>3, <1>20 DEF Grounded, Labels
<1>22. Standing(p, d.s, "user", Len(d.s))
    BY <1>21, StandingGround, Zenon
<1>23. Needs(p, "user", Len(d.s), d.r)
    BY <1>15, <1>17, <1>20, HandlerLabels DEF Needs
<1>24. /\ Word(q, 0) = Code("user") /\ Word(q, 1) = Sel(TRUE) /\ Word(q, 2) = Flags(TRUE)
       /\ d \in Machines /\ Can(p, d, "user")
    BY <1>18, <1>20, <1>22, <1>23 DEF Can
<1> QED
    BY <1>24 DEF d, q, c, rs

LEMMA ElevenWords ==
    ASSUME NEW a1 \in Words, NEW a2 \in Words, NEW a3 \in Words, NEW a4 \in Words,
           NEW a5 \in Words, NEW a6 \in Words, NEW a7 \in Words, NEW a8 \in Words,
           NEW a9 \in Words, NEW a10 \in Words, NEW a11 \in Words
    PROVE  LET s == <<a1, a2, a3, a4, a5, a6, a7, a8, a9, a10, a11>>
           IN  /\ s \in Seq(Words) /\ Len(s) = 11
               /\ s[1] = a1 /\ s[2] = a2 /\ s[3] = a3 /\ s[4] = a4 /\ s[6] = a6 /\ s[7] = a7
               /\ s[8] = a8 /\ s[11] = a11
OBVIOUS

(* An interrupt between two instructions.                                   *)
LEMMA InterruptStands ==
    ASSUME CpuTyped, if_flag, pc \notin Handlers \cup {"frozen"}, Can(esp, Machine, pc),
           NEW l \in Handlers
    PROVE  LET m == Pushed(Machine, GateWords \o
                        <<regs["eax"], regs["ecx"], regs["edx"], regs["ebx"], Junk, regs["ebp"],
                          regs["esi"], regs["edi"], Flags(FALSE), Junk, Code("linkage_out")>>)
               e == Framed(Pushed(Clobbered(Framed(m)), <<Code("exc_out")>>))
           IN  e \in Machines /\ Can(esp, e, l)
<1> DEFINE b == <<regs["eax"], regs["ecx"], regs["edx"], regs["ebx"], Junk, regs["ebp"],
                  regs["esi"], regs["edi"], Flags(FALSE), Junk, Code("linkage_out")>>
           js == <<Code("exc_out")>>
           g == GateWords
           ws == g \o b
           m == Pushed(Machine, ws)
           f == Framed(m)
           a == Clobbered(f)
           v == Pushed(a, js)
           e == Framed(v)
           h == Len(stack[esp])
           w == Gate(pc)
           k == h + w
<1>1. /\ g \in Seq(Words) /\ Len(g) = w /\ w \in {3, 5}
      /\ g[w] = Code(pc) /\ g[w - 1] = Sel(pc = "user") /\ g[w - 2] = Flags(TRUE)
    <2>1. if_flag = TRUE
        BY DEF CpuTyped
    <2> QED
        BY <2>1, GateFacts
<1>2. /\ b \in Seq(Words) /\ Len(b) = 11
      /\ b[1] = regs["eax"] /\ b[2] = regs["ecx"] /\ b[3] = regs["edx"] /\ b[4] = regs["ebx"]
      /\ b[6] = regs["ebp"] /\ b[7] = regs["esi"] /\ b[8] = regs["edi"]
      /\ b[11] = Code("linkage_out")
    <2>1. \A x \in Registers : regs[x] \in Words
        BY DEF CpuTyped
    <2>2. /\ regs["eax"] \in Words /\ regs["ecx"] \in Words /\ regs["edx"] \in Words
          /\ regs["ebx"] \in Words /\ regs["ebp"] \in Words /\ regs["esi"] \in Words
          /\ regs["edi"] \in Words
        BY <2>1 DEF Registers
    <2>3. Junk \in Words /\ Flags(FALSE) \in Words /\ Code("linkage_out") \in Words
        BY WordsTyped DEF Labels, IntrLabels
    <2> QED
        BY <2>2, <2>3, ElevenWords
<1>3. Machine \in Machines /\ Machine.r = regs /\ Machine.s = stack[esp] /\ Len(Machine.s) = h
      /\ h \in Nat /\ Machine.s \in Seq(Words)
    BY MachineTyped DEF CpuTyped
<1>4. js \in Seq(Words) /\ Len(js) = 1 /\ js[1] = Code("exc_out")
    BY WordsTyped DEF Labels, IntrLabels
<1>5. Standing(esp, Machine.s, pc, h) /\ Needs(esp, pc, h, regs)
    BY <1>3 DEF Can
<1> HIDE DEF b, js, g, h, w
<1>6. /\ ws \in Seq(Words) /\ Len(ws) = w + 11
      /\ \A i \in 1..w : ws[i] = g[i]
      /\ \A i \in 1..11 : ws[w + i] = b[i]
    <2>1. /\ ws \in Seq(Words) /\ Len(ws) = Len(g) + Len(b)
          /\ \A i \in 1..Len(g) : ws[i] = g[i]
          /\ \A i \in 1..Len(b) : ws[Len(g) + i] = b[i]
        BY <1>1, <1>2, ConcatFacts
    <2> HIDE DEF ws
    <2> QED
        BY <1>1, <1>2, <2>1
<1> HIDE DEF ws
<1>7. /\ m \in Machines /\ m.r = regs /\ Len(m.s) = k + 11
      /\ \A i \in 1..h : m.s[i] = Machine.s[i]
      /\ \A i \in 1..(w + 11) : m.s[h + i] = ws[i]
    <2>1. /\ m \in Machines /\ m.r = Machine.r /\ Len(m.s) = Len(Machine.s) + Len(ws)
          /\ \A i \in 1..Len(Machine.s) : m.s[i] = Machine.s[i]
          /\ \A i \in 1..Len(ws) : m.s[Len(Machine.s) + i] = ws[i]
        BY <1>3, <1>6, PushedFacts
    <2> HIDE DEF m
    <2>2. h + (w + 11) = k + 11
        BY <1>1, <1>3
    <2> QED
        BY <1>3, <1>6, <2>1, <2>2, Zenon
<1> HIDE DEF m
<1>8. k \in Nat /\ k >= 3 /\ h <= k
    BY <1>1, <1>3
<1>9. /\ m.s[k] = Code(pc) /\ m.s[k - 1] = Sel(pc = "user") /\ m.s[k - 2] = Flags(TRUE)
      /\ \A i \in 1..11 : m.s[k + i] = b[i]
    <2>1. /\ w \in 1..(w + 11) /\ w - 1 \in 1..(w + 11) /\ w - 2 \in 1..(w + 11)
          /\ w \in 1..w /\ w - 1 \in 1..w /\ w - 2 \in 1..w
          /\ h + w = k /\ h + (w - 1) = k - 1 /\ h + (w - 2) = k - 2
        BY <1>1, <1>3
    <2>2. m.s[k] = g[w] /\ m.s[k - 1] = g[w - 1] /\ m.s[k - 2] = g[w - 2]
        BY <1>6, <1>7, <2>1
    <2>3. ASSUME NEW i \in 1..11 PROVE m.s[k + i] = b[i]
        <3>1. w + i \in 1..(w + 11) /\ h + (w + i) = k + i
            BY <1>1, <1>3
        <3>2. m.s[h + (w + i)] = ws[w + i]
            BY <1>7, <3>1
        <3> QED
            BY <1>6, <3>1, <3>2
    <2> QED
        BY <1>1, <2>2, <2>3
<1> HIDE DEF k
<1>10. /\ f \in Machines /\ f.r = [m.r EXCEPT !["ebp"] = Ptr(Len(m.s) + 1)]
       /\ Len(f.s) = Len(m.s) + 1
       /\ \A i \in 1..Len(m.s) : f.s[i] = m.s[i]
    BY <1>7, FramedFacts
<1> HIDE DEF f
<1>11. /\ f.r["ebp"] = Ptr(k + 12) /\ Len(f.s) = k + 12
       /\ \A i \in 1..(k + 11) : f.s[i] = m.s[i]
    <2>1. "ebp" \in Registers /\ m.r \in [Registers -> Words] /\ Len(m.s) + 1 = k + 12
        BY <1>7, <1>8 DEF Registers, Machines
    <2> QED
        BY <1>7, <1>10, <2>1
<1>12. a \in Machines /\ a.s = f.s /\ a.r["ebp"] = Ptr(k + 12)
    BY <1>10, <1>11, ClobberedFacts
<1> HIDE DEF a
<1>13. /\ v \in Machines /\ v.r = a.r /\ Len(v.s) = k + 13
       /\ \A i \in 1..(k + 12) : v.s[i] = f.s[i]
       /\ v.s[k + 13] = Code("exc_out")
    <2>1. /\ v \in Machines /\ v.r = a.r /\ Len(v.s) = Len(a.s) + Len(js)
          /\ \A i \in 1..Len(a.s) : v.s[i] = a.s[i]
          /\ \A i \in 1..Len(js) : v.s[Len(a.s) + i] = js[i]
        BY <1>4, <1>12, PushedFacts
    <2> HIDE DEF v
    <2>2. Len(a.s) = k + 12 /\ Len(a.s) + Len(js) = k + 13 /\ 1 \in 1..Len(js) /\ Len(a.s) + 1 = k + 13
        BY <1>4, <1>8, <1>11, <1>12
    <2>3. v.s[Len(a.s) + 1] = js[1]
        BY <2>1, <2>2
    <2>4. \A i \in 1..(k + 12) : v.s[i] = f.s[i]
        BY <1>12, <2>1, <2>2, Zenon
    <2> QED
        BY <1>4, <2>1, <2>2, <2>3, <2>4
<1> HIDE DEF v
<1>14. /\ e \in Machines /\ Len(e.s) = k + 14 /\ e.r["ebp"] = Ptr(k + 14)
       /\ \A i \in 1..(k + 13) : e.s[i] = v.s[i]
       /\ e.s[k + 14] = Ptr(k + 12)
    <2>1. /\ e \in Machines /\ e.r = [v.r EXCEPT !["ebp"] = Ptr(Len(v.s) + 1)]
          /\ Len(e.s) = Len(v.s) + 1
          /\ \A i \in 1..Len(v.s) : e.s[i] = v.s[i]
          /\ e.s[Len(v.s) + 1] = v.r["ebp"]
        BY <1>13, FramedFacts
    <2> HIDE DEF e
    <2>2. "ebp" \in Registers /\ v.r \in [Registers -> Words] /\ Len(v.s) + 1 = k + 14
        BY <1>8, <1>13 DEF Registers, Machines
    <2>3. e.r["ebp"] = Ptr(k + 14)
        BY <2>1, <2>2
    <2>4. e.s[k + 14] = Ptr(k + 12) /\ Len(e.s) = k + 14
        BY <1>12, <1>13, <2>1, <2>2
    <2>5. \A i \in 1..(k + 13) : e.s[i] = v.s[i]
        BY <1>13, <2>1, Zenon
    <2> QED
        BY <2>1, <2>3, <2>4, <2>5
<1> HIDE DEF e
<1>15. e.s[k + 13] = Code("exc_out") /\ \A i \in 1..(k + 11) : e.s[i] = m.s[i]
    <2>1. k + 13 \in 1..(k + 13) /\ \A i \in 1..(k + 11) : i \in 1..(k + 12) /\ i \in 1..(k + 13)
        BY <1>8
    <2> QED
        BY <1>11, <1>13, <1>14, <2>1
<1>16. /\ e.s[k] = Code(pc) /\ e.s[k - 1] = Sel(pc = "user") /\ e.s[k - 2] = Flags(TRUE)
       /\ \A i \in 1..11 : e.s[k + i] = b[i]
    <2>1. k \in 1..(k + 11) /\ k - 1 \in 1..(k + 11) /\ k - 2 \in 1..(k + 11)
        BY <1>8
    <2>2. \A i \in 1..11 : k + i \in 1..(k + 11)
        BY <1>8
    <2>3. \A i \in 1..11 : e.s[k + i] = m.s[k + i]
        BY <1>15, <2>2
    <2> QED
        BY <1>9, <1>15, <2>1, <2>3
<1>17. SavedRegs(e.s, k) = regs
    <2>1. \A x \in Registers : b[SlotOf(x)] = regs[x]
        BY <1>2, SlotFacts DEF Registers
    <2>2. \A x \in Registers : SlotOf(x) \in 1..11
        BY SlotFacts
    <2>3. \A x \in Registers : e.s[k + SlotOf(x)] = regs[x]
        BY <1>16, <2>1, <2>2
    <2>4. regs \in [Registers -> Words]
        BY DEF CpuTyped
    <2> QED
        BY <2>3, <2>4 DEF SavedRegs
<1>18. e.s[k + 11] = Code("linkage_out")
    <2>1. 11 \in 1..11
        OBVIOUS
    <2> QED
        BY <1>2, <1>16, <2>1
<1>19. l \in IntrLabels /\ l \in Labels /\ Above(l) = 14
    BY HandlerLabels DEF IntrLabels, Labels, Above
<1>20. Layer(esp, e.s, l, k + 14, pc, h)
    <2>1. k = h + Gate(pc)
        BY DEF k, w
    <2> QED
        BY <1>5, <1>14, <1>15, <1>16, <1>17, <1>18, <1>19, <2>1 DEF Layer
<1>21. Agree(Machine.s, e.s, h)
    <2>1. \A i \in 1..h : i \in 1..(k + 11)
        BY <1>3, <1>8
    <2>2. \A i \in 1..h : e.s[i] = Machine.s[i]
        BY <1>7, <1>15, <2>1
    <2>3. e.s \in Seq(Words) /\ h <= Len(Machine.s) /\ h <= Len(e.s)
        BY <1>3, <1>8, <1>14 DEF Machines
    <2> QED
        BY <1>3, <2>2, <2>3 DEF Agree
<1>22. k + 14 \in Nat /\ k + 14 <= Len(e.s)
    BY <1>8, <1>14
<1>23. Standing(esp, e.s, l, k + 14)
    BY <1>5, <1>19, <1>20, <1>21, <1>22, StandingLayer
<1>24. Needs(esp, l, k + 14, e.r)
    BY <1>14, HandlerLabels DEF Needs
<1>25. e \in Machines /\ Can(esp, e, l)
    BY <1>14, <1>23, <1>24 DEF Can
<1> QED
    BY <1>25 DEF e, v, a, f, m, ws, g, b, js

(***************************************************************************)
(* The inductive invariant.                                                *)
(***************************************************************************)
Typed ==
    /\ CpuTyped
    /\ EBP \in [Programs -> Nat] /\ schedEBP \in [Programs -> Nat]
    /\ chain \in [Terminals -> Seq(Programs)]
    /\ cur_process \in Terminals /\ booted \subseteq Terminals

(* No program is in two places.                                             *)
Chains ==
    /\ \A t \in Terminals : t \in booted <=> Len(chain[t]) > 0
    /\ \A t \in booted : chain[t][1] = t
    /\ \A t \in Terminals : \A i \in 2..Len(chain[t]) : chain[t][i] \in Aux
    /\ \A t, u \in Terminals : \A i \in 1..Len(chain[t]), j \in 1..Len(chain[u]) :
          chain[t][i] = chain[u][j] => t = u /\ i = j

(* The stack in use is that of the current thread's newest program, or the  *)
(* one that the kernel booted on.                                           *)
Turn ==
    /\ booted = {} => esp = Boot /\ cur_process = 1
    /\ booted # {} => 1 \in booted /\ cur_process \in booted /\ esp = TopOf(cur_process)

(* A program whose child runs was left in a call; another thread's newest   *)
(* program in a handler.                                                    *)
Waits(q)  == EBP[q] = 22 /\ Len(stack[q]) >= 22 /\ CallStack(q, stack[q])
Asleep(q) == \E l \in Handlers : Standing(q, stack[q], l, schedEBP[q])

Parents == \A t \in Terminals : \A i \in 1..(Len(chain[t]) - 1) : Waits(chain[t][i])
Threads == \A t \in booted \ {cur_process} : Asleep(TopOf(t))
Goes    == pc # "frozen" => Can(esp, Machine, pc)

Service ==
    /\ \A q \in IRQs : pc = HandlerOf(q) => isr = Lines(q)
    /\ pc \notin Handlers => isr = {}
    /\ pc \in Handlers \cup {"frozen"} => ~if_flag
    /\ pc = "user" => if_flag

Sound == Typed /\ Chains /\ Turn /\ Parents /\ Threads /\ Goes
Inv   == Sound /\ Service

LEMMA BootApart ==
    /\ Boot \in Owners /\ Boot \notin Programs /\ Programs \subseteq Owners
    /\ Terminals \subseteq Programs /\ Aux \cap Terminals = {}
BY EntryAssumption DEF Boot, Owners, Programs, Terminals

LEMMA OthersApart ==
    ASSUME Typed, Chains, Turn
    PROVE  /\ \A t \in Terminals : \A i \in 1..Len(chain[t]) : chain[t][i] \in Programs
           /\ \A t \in Terminals : \A i \in 1..(Len(chain[t]) - 1) : chain[t][i] # esp
           /\ \A t \in booted : TopOf(t) \in Programs
           /\ \A t \in booted \ {cur_process} : TopOf(t) # esp
           /\ \A t \in booted : Len(chain[t]) \in 1..Len(chain[t])
<1>1. \A t \in Terminals : chain[t] \in Seq(Programs) /\ Len(chain[t]) \in Nat
    BY DEF Typed
<1>2. \A t \in Terminals : \A i \in 1..Len(chain[t]) : chain[t][i] \in Programs
    BY <1>1
<1>3. \A t \in booted : t \in Terminals /\ Len(chain[t]) \in 1..Len(chain[t])
    <2> SUFFICES ASSUME NEW t \in booted
                 PROVE  t \in Terminals /\ Len(chain[t]) \in 1..Len(chain[t])
        OBVIOUS
    <2>1. t \in Terminals
        BY DEF Typed
    <2>2. Len(chain[t]) > 0 /\ Len(chain[t]) \in Nat
        BY <1>1, <2>1 DEF Chains
    <2> QED
        BY <2>1, <2>2
<1>4. \A t \in booted : TopOf(t) \in Programs
    BY <1>2, <1>3 DEF TopOf
<1>5. CASE booted = {}
    BY <1>2, <1>3, <1>4, <1>5, <1>1, BootApart DEF Turn
<1>6. CASE booted # {}
    <2>1. cur_process \in booted /\ esp = chain[cur_process][Len(chain[cur_process])]
        BY <1>6 DEF Turn, TopOf
    <2>2. ASSUME NEW t \in Terminals, NEW i \in 1..(Len(chain[t]) - 1)
          PROVE  chain[t][i] # esp
        <3>1. i \in 1..Len(chain[t]) /\ i # Len(chain[t])
            BY <1>1
        <3> QED
            BY <1>3, <2>1, <3>1 DEF Chains
    <2>3. ASSUME NEW t \in booted \ {cur_process}
          PROVE  TopOf(t) # esp
        BY <1>3, <2>1 DEF Chains, TopOf
    <2> QED
        BY <1>2, <1>3, <1>4, <2>2, <2>3
<1> QED
    BY <1>5, <1>6

(* The processor goes on with m on p's stack.                               *)
LEMMA OnFacts ==
    ASSUME CpuTyped, NEW p \in Owners, NEW m \in Machines, NEW l \in Labels, On(p, m, l),
           if_flag' \in BOOLEAN, Can(p, m, l)
    PROVE  /\ CpuTyped' /\ Goes' /\ esp' = p /\ stack'[p] = m.s
           /\ \A q \in Owners \ {p} : stack'[q] = stack[q]
<1>1. m.r \in [Registers -> Words] /\ m.s \in Seq(Words)
    BY DEF Machines
<1>2. /\ regs' = m.r /\ stack' = [stack EXCEPT ![p] = m.s] /\ esp' = p /\ pc' = l
      /\ stack \in [Owners -> Seq(Words)]
    BY DEF On, CpuTyped
<1>3. stack'[p] = m.s /\ \A q \in Owners \ {p} : stack'[q] = stack[q]
    BY <1>2
<1>4. CpuTyped'
    BY <1>1, <1>2 DEF CpuTyped
<1>5. Machine'.s = m.s /\ Machine'.r = m.r
    BY <1>2, <1>3 DEF Machine
<1>6. Goes'
    BY <1>2, <1>5 DEF Goes, Can
<1> QED
    BY <1>2, <1>3, <1>4, <1>6

(* What only the newest program of the current thread takes part in.        *)
LEMMA Local ==
    ASSUME Sound, NEW m \in Machines, NEW l \in Labels, On(esp, m, l), UNCHANGED pcbs,
           if_flag' \in BOOLEAN, Can(esp, m, l)
    PROVE  Sound'
<1>1. Typed /\ Chains /\ Turn /\ Parents /\ Threads /\ CpuTyped /\ esp \in Owners
    BY DEF Sound, Typed, CpuTyped
<1>2. /\ EBP' = EBP /\ schedEBP' = schedEBP /\ chain' = chain /\ cur_process' = cur_process
      /\ booted' = booted
    BY DEF pcbs
<1>3. CpuTyped' /\ Goes' /\ esp' = esp /\ \A q \in Owners \ {esp} : stack'[q] = stack[q]
    BY <1>1, OnFacts
<1>4. Typed' /\ Chains' /\ Turn'
    BY <1>1, <1>2, <1>3 DEF Typed, Chains, Turn, TopOf
<1>5. Parents'
    <2> SUFFICES ASSUME NEW t \in Terminals, NEW i \in 1..(Len(chain[t]) - 1)
                 PROVE  Waits(chain[t][i])'
        BY <1>2 DEF Parents
    <2> DEFINE q == chain[t][i]
    <2>1. i \in 1..Len(chain[t])
        BY <1>1 DEF Typed
    <2>2. q \in Owners \ {esp} /\ Waits(q)
        BY <1>1, <2>1, OthersApart, BootApart DEF Parents
    <2>3. stack'[q] = stack[q] /\ EBP'[q] = EBP[q] /\ chain'[t][i] = q
        BY <1>2, <1>3, <2>2
    <2> QED
        BY <2>2, <2>3 DEF Waits
<1>6. Threads'
    <2> SUFFICES ASSUME NEW t \in booted \ {cur_process}
                 PROVE  Asleep(TopOf(t))'
        BY <1>2 DEF Threads
    <2> DEFINE q == TopOf(t)
    <2>1. q \in Owners \ {esp} /\ Asleep(q)
        BY <1>1, OthersApart, BootApart DEF Threads
    <2>2. stack'[q] = stack[q] /\ schedEBP'[q] = schedEBP[q] /\ TopOf(t)' = q
        BY <1>2, <1>3, <2>1 DEF TopOf
    <2> QED
        BY <2>1, <2>2 DEF Asleep
<1> QED
    BY <1>3, <1>4, <1>5, <1>6 DEF Sound

LEMMA RetFacts ==
    ASSUME NEW p, NEW m, NEW l, Ret(p, m), Word(m, 0) = Code(l)
    PROVE  On(p, Dropped(m, 1), l)
BY DEF Ret, Code

LEMMA IretFacts ==
    ASSUME NEW p, NEW m, NEW l, NEW b \in BOOLEAN, Iret(p, m),
           Word(m, 0) = Code(l), Word(m, 1) = Sel(b), Word(m, 2) = Flags(TRUE)
    PROVE  On(p, Dropped(m, IF b THEN 5 ELSE 3), l) /\ if_flag' = TRUE
<1>1. Word(m, 0)[2] = l
    BY DEF Code
<1>2. <<"segment", b, 0>>[2] = b /\ <<"flags", TRUE, 0>>[2] = TRUE
    OBVIOUS
<1>3. Word(m, 1)[2] = b
    BY <1>2, Zenon DEF Sel
<1>4. Word(m, 2)[2] = TRUE
    BY <1>2, Zenon DEF Flags
<1> QED
    BY <1>1, <1>3, <1>4, Zenon DEF Iret

Fresh(p) == [r |-> [x \in Registers |-> Of(p, x)], s |-> <<>>]

LEMMA BeginFacts ==
    ASSUME NEW p \in Programs, Begin(p)
    PROVE  /\ Fresh(p) \in Machines /\ Fresh(p).s = <<>> /\ On(p, Fresh(p), "user")
           /\ if_flag' = TRUE /\ Can(p, Fresh(p), "user") /\ "user" \in Labels
<1>1. /\ Fresh(p) \in Machines /\ Fresh(p).s = <<>> /\ Len(Fresh(p).s) = 0
      /\ \A x \in Registers : Fresh(p).r[x] = Of(p, x)
    BY WordsTyped, BootApart DEF Fresh, Machines
<1>2. On(p, Fresh(p), "user") /\ if_flag' = TRUE
    BY DEF Begin, Fresh
<1> HIDE DEF Fresh
<1>3. Grounded(p, Fresh(p).s, "user", 0) /\ "user" \in Labels /\ 0 \in Nat /\ 0 <= Len(Fresh(p).s)
    BY <1>1, BootApart DEF Grounded, Labels
<1>4. Standing(p, Fresh(p).s, "user", 0)
    BY <1>3, StandingGround, Zenon
<1>5. Needs(p, "user", 0, Fresh(p).r)
    BY <1>1, HandlerLabels DEF Needs
<1> QED
    BY <1>1, <1>2, <1>3, <1>4, <1>5 DEF Can

(***************************************************************************)
(* Each instruction preserves it.                                          *)
(***************************************************************************)
LEMMA ServiceOut ==
    ASSUME pc' \notin Handlers, isr' = {}, pc' = "frozen" => ~if_flag', pc' = "user" => if_flag'
    PROVE  Service'
<1>1. \A q \in IRQs : pc' # HandlerOf(q)
    BY DEF Handlers
<1> QED
    BY <1>1 DEF Service

LEMMA GoesOn ==
    ASSUME Inv, pc # "frozen"
    PROVE  /\ Machine \in Machines /\ Can(esp, Machine, pc) /\ esp \in Owners /\ CpuTyped
           /\ if_flag \in BOOLEAN
           /\ Machine.r = regs /\ Machine.s = stack[esp]
           /\ Standing(esp, Machine.s, pc, Len(Machine.s))
           /\ pc \notin IntrLabels => Grounded(esp, Machine.s, pc, Len(Machine.s))
<1>1. CpuTyped /\ Can(esp, Machine, pc)
    BY DEF Inv, Sound, Typed, Goes
<1>2. Standing(esp, Machine.s, pc, Len(Machine.s))
    BY <1>1 DEF Can
<1> QED
    BY <1>1, <1>2, MachineTyped, StandingOther DEF CpuTyped

LEMMA BootFacts ==
    ASSUME Inv, pc \in BootLabels
    PROVE  /\ esp = Boot /\ booted = {} /\ stack[esp] = <<>> /\ isr = {}
           /\ \A l \in BootLabels : Can(esp, Machine, l)
<1>1. pc # "frozen" /\ pc \notin IntrLabels /\ pc \notin CallLabels /\ pc \notin {"user", "null"} /\ pc \notin Handlers
    BY HandlerLabels DEF BootLabels, IntrLabels, CallLabels
<1>2. Grounded(esp, Machine.s, pc, Len(Machine.s)) /\ Machine.s = stack[esp] /\ CpuTyped
    BY <1>1, GoesOn
<1>3. esp = Boot /\ Len(Machine.s) = 0
    BY <1>1, <1>2 DEF Grounded, CallLabels
<1>4. stack[esp] = <<>>
    BY <1>2, <1>3 DEF CpuTyped
<1>5. booted = {}
    BY <1>3, OthersApart, BootApart DEF Inv, Sound, Turn
<1>6. ASSUME NEW l \in BootLabels
      PROVE  Can(esp, Machine, l)
    <2>1. Grounded(esp, Machine.s, l, 0) /\ l \in Labels /\ 0 \in Nat /\ 0 <= Len(Machine.s)
        BY <1>3 DEF Grounded, Labels
    <2>2. Standing(esp, Machine.s, l, 0)
        BY <2>1, StandingGround, Zenon
    <2>3. Needs(esp, l, 0, Machine.r)
        BY HandlerLabels DEF Needs, BootLabels
    <2> QED
        BY <1>3, <2>2, <2>3 DEF Can
<1> QED
    BY <1>1, <1>3, <1>4, <1>5, <1>6 DEF Inv, Service

LEMMA StayOn ==
    ASSUME CpuTyped, UNCHANGED <<regs, stack, esp>>
    PROVE  On(esp, Machine, pc')
<1>1. stack = [stack EXCEPT ![esp] = stack[esp]]
    BY DEF CpuTyped
<1> QED
    BY <1>1, MachineTyped DEF On

LEMMA BootStep ==
    ASSUME Inv, Entry \/ RTC_init \/ pit_init
    PROVE  Inv'
<1>1. /\ pc \in BootLabels /\ pc' \in BootLabels /\ pc' \in Labels /\ if_flag' \in BOOLEAN
      /\ UNCHANGED <<regs, stack, esp>> /\ UNCHANGED pcbs /\ isr' = isr
      /\ pc # "frozen"
    BY GoesOn DEF Entry, RTC_init, pit_init, BootLabels, Labels, Inv, Sound, Typed, CpuTyped
<1>2. On(esp, Machine, pc') /\ Machine \in Machines
    BY <1>1, GoesOn, StayOn
<1>3. Can(esp, Machine, pc')
    BY <1>1, BootFacts
<1>4. Sound'
    BY <1>1, <1>2, <1>3, Local DEF Inv
<1>5. Service'
    <2>1. pc' \notin Handlers /\ pc' # "frozen" /\ pc' # "user"
        BY <1>1, HandlerLabels DEF BootLabels
    <2> QED
        BY <1>1, <2>1, BootFacts, ServiceOut
<1> QED
    BY <1>4, <1>5 DEF Inv

LEMMA UserFacts ==
    ASSUME Inv, pc = "user"
    PROVE  InUser /\ esp \in Programs /\ esp # Boot /\ esp = TopOf(cur_process) /\ isr = {} /\ if_flag
<1>1. pc # "frozen" /\ pc \notin IntrLabels /\ pc \notin BootLabels /\ pc \notin Handlers
    BY HandlerLabels DEF BootLabels, IntrLabels
<1>2. /\ Grounded(esp, Machine.s, pc, Len(Machine.s)) /\ Machine.s = stack[esp] /\ CpuTyped
      /\ Machine.r = regs /\ Can(esp, Machine, pc)
    BY <1>1, GoesOn
<1>3. esp # Boot /\ Len(Machine.s) = 0
    BY <1>1, <1>2 DEF Grounded
<1>4. stack[esp] = <<>> /\ esp \in Programs
    BY <1>2, <1>3 DEF CpuTyped, Owners
<1>5. \A x \in Registers : regs[x] = Of(esp, x)
    BY <1>2 DEF Can, Needs
<1>6. if_flag /\ isr = {} /\ esp = TopOf(cur_process)
    BY <1>1, <1>3 DEF Inv, Sound, Service, Turn
<1> QED
    BY <1>2, <1>3, <1>4, <1>5, <1>6 DEF InUser

(* A step of the current program out of no handler to a label that is none. *)
LEMMA LocalOut ==
    ASSUME Inv, pc \notin Handlers, NEW m \in Machines, NEW l \in Labels, On(esp, m, l),
           UNCHANGED pcbs, isr' = isr, if_flag' \in BOOLEAN, Can(esp, m, l),
           l \notin Handlers, l = "frozen" => ~if_flag', l = "user" => if_flag'
    PROVE  Inv'
<1>1. Sound'
    BY Local DEF Inv
<1>2. isr = {} /\ pc' = l
    BY DEF Inv, Service, On
<1> QED
    BY <1>1, <1>2, ServiceOut DEF Inv

LEMMA OutOfHandlers ==
    /\ \A l \in CallLabels \cup {"null", "exc_out", "linkage_out"} :
          l \in Labels /\ l \notin Handlers /\ l # "frozen" /\ l # "user"
    /\ "user" \in Labels /\ "user" \notin Handlers
BY HandlerLabels DEF Labels, CallLabels, IntrLabels

LEMMA CallStep ==
    ASSUME Inv, Call \/ CallUnknown \/ RETURN \/ set_handler
    PROVE  Inv'
<1>1. /\ "call" \in CallLabels /\ "sys_calls_handler_end" \in CallLabels /\ "call" # "frozen"
      /\ "call" \notin Handlers
    BY OutOfHandlers DEF CallLabels
<1>2. if_flag \in BOOLEAN
    BY DEF Inv, Sound, Typed, CpuTyped
<1>3. CASE Call
    <2> DEFINE args == Pushed(Saved, <<regs["edx"], regs["ecx"], regs["ebx"], Code("null")>>)
               m    == Clobbered(Pushed(Framed(args), <<Junk>>))
    <2>1. pc = "user" /\ On(esp, m, "call") /\ if_flag' = if_flag /\ UNCHANGED pcbs /\ isr' = isr
        BY <1>3 DEF Call, pic
    <2>2. m \in Machines /\ Can(esp, m, "call")
        BY <2>1, UserFacts, CallStands
    <2> HIDE DEF m
    <2> QED
        BY <1>1, <1>2, <2>1, <2>2, OutOfHandlers, LocalOut
<1>4. CASE CallUnknown
    <2> DEFINE m == Pushed([Saved EXCEPT !.r["eax"] = Result(esp)], [i \in 1..5 |-> Junk])
    <2>1. /\ pc = "user" /\ On(esp, m, "sys_calls_handler_end") /\ if_flag' = if_flag
          /\ UNCHANGED pcbs /\ isr' = isr
        BY <1>4 DEF CallUnknown, pic
    <2>2. m \in Machines /\ Can(esp, m, "sys_calls_handler_end")
        BY <2>1, UserFacts, CallUnknownStands
    <2> HIDE DEF m
    <2> QED
        BY <1>1, <1>2, <2>1, <2>2, OutOfHandlers, LocalOut
<1>5. CASE RETURN
    <2> DEFINE m == [CutTo(Machine, Frame(Machine)) EXCEPT !.r["eax"] = Result(esp)]
    <2>1. /\ pc = "call" /\ On(esp, m, "sys_calls_handler_end") /\ if_flag' \in BOOLEAN
          /\ UNCHANGED pcbs /\ isr' = isr
        BY <1>2, <1>5 DEF RETURN, pic
    <2>2. Machine \in Machines /\ Can(esp, Machine, "call") /\ esp \in Owners
        BY <1>1, <2>1, GoesOn
    <2>3. Frame(Machine) = 22 /\ esp \in Programs /\ CallStack(esp, Machine.s) /\ Len(Machine.s) = 23
        BY <2>2, CallLeaves
    <2>4. m = [CutTo(Machine, 22) EXCEPT !.r["eax"] = Result(esp)] /\ Len(Machine.s) >= 22
        BY <2>3
    <2> HIDE DEF m
    <2>5. m \in Machines /\ Can(esp, m, "sys_calls_handler_end")
        BY <2>2, <2>3, <2>4, ReturnLeaves
    <2> QED
        BY <1>1, <2>1, <2>5, OutOfHandlers, LocalOut
<1>6. CASE set_handler
    <2> DEFINE m == Dropped(Left(Machine), 1)
    <2>1. /\ pc = "call" /\ Ret(esp, Left(Machine)) /\ if_flag' = if_flag
          /\ UNCHANGED pcbs /\ isr' = isr
        BY <1>6 DEF set_handler, pic
    <2>2. Machine \in Machines /\ Can(esp, Machine, "call") /\ esp \in Owners
        BY <1>1, <2>1, GoesOn
    <2>3. m \in Machines /\ Can(esp, m, "null") /\ Word(Left(Machine), 0) = Code("null")
        BY <2>2, SetHandlerLeaves
    <2>4. On(esp, m, "null")
        BY <2>1, <2>3, RetFacts
    <2> HIDE DEF m
    <2> QED
        BY <1>1, <1>2, <2>1, <2>3, <2>4, OutOfHandlers, LocalOut
<1> QED
    BY <1>3, <1>4, <1>5, <1>6

LEMMA UnwindStep ==
    ASSUME Inv, sys_calls_handler_end \/ linkage_end \/ exc_out \/ linkage_out
    PROVE  Inv'
<1>1. /\ "sys_calls_handler_end" \in CallLabels /\ "linkage_end" \in CallLabels
      /\ "sys_calls_handler_end" # "frozen" /\ "linkage_end" # "frozen"
      /\ "exc_out" # "frozen" /\ "linkage_out" # "frozen"
    BY DEF CallLabels
<1>2. if_flag \in BOOLEAN
    BY DEF Inv, Sound, Typed, CpuTyped
<1>3. CASE sys_calls_handler_end
    <2> DEFINE q == Popped(Dropped(Machine, 5), <<"ebx", "esi", "edi", "ebp">>)
               m == Dropped(q, 1)
    <2>1. /\ pc = "sys_calls_handler_end" /\ Ret(esp, q) /\ if_flag' = if_flag
          /\ UNCHANGED pcbs /\ isr' = isr
        BY <1>3 DEF sys_calls_handler_end, pic
    <2>2. Machine \in Machines /\ Can(esp, Machine, "sys_calls_handler_end") /\ esp \in Owners
        BY <1>1, <2>1, GoesOn
    <2>3. m \in Machines /\ Can(esp, m, "linkage_end") /\ Word(q, 0) = Code("linkage_end")
        BY <2>2, SysEndLeaves
    <2> HIDE DEF q
    <2>4. On(esp, m, "linkage_end")
        BY <2>1, <2>3, RetFacts
    <2> HIDE DEF m
    <2> QED
        BY <1>1, <1>2, <2>1, <2>3, <2>4, OutOfHandlers, LocalOut
<1>4. CASE linkage_end
    <2> DEFINE q == Dropped(Popped(Machine, <<"ebp", "edi", "esi", "edx", "ecx", "ebx">>), 1)
               m == Dropped(q, 5)
    <2>1. /\ pc = "linkage_end" /\ Iret(esp, q) /\ UNCHANGED pcbs /\ isr' = isr
        BY <1>4 DEF linkage_end, pic
    <2>2. Machine \in Machines /\ Can(esp, Machine, "linkage_end") /\ esp \in Owners
        BY <1>1, <2>1, GoesOn
    <2>3. /\ m \in Machines /\ Can(esp, m, "user")
          /\ Word(q, 0) = Code("user") /\ Word(q, 1) = Sel(TRUE) /\ Word(q, 2) = Flags(TRUE)
        BY <2>2, LinkageEndLeaves
    <2> HIDE DEF q
    <2>4. On(esp, Dropped(q, IF TRUE THEN 5 ELSE 3), "user") /\ if_flag' = TRUE
        BY <2>1, <2>3, IretFacts, Zenon
    <2>5. On(esp, m, "user")
        BY <2>4
    <2> HIDE DEF m
    <2> QED
        BY <1>1, <2>1, <2>3, <2>4, <2>5, OutOfHandlers, LocalOut
<1>5. CASE exc_out
    <2> DEFINE m == Dropped(Left(Machine), 1)
    <2>1. /\ pc = "exc_out" /\ Ret(esp, Left(Machine)) /\ if_flag' = if_flag
          /\ UNCHANGED pcbs /\ isr' = isr
        BY <1>5 DEF exc_out, pic
    <2>2. Machine \in Machines /\ Can(esp, Machine, "exc_out") /\ esp \in Owners
        BY <1>1, <2>1, GoesOn
    <2>3. m \in Machines /\ Can(esp, m, "linkage_out") /\ Word(Left(Machine), 0) = Code("linkage_out")
        BY <2>2, ExcOutLeaves
    <2>4. On(esp, m, "linkage_out")
        BY <2>1, <2>3, RetFacts
    <2> HIDE DEF m
    <2> QED
        BY <1>1, <1>2, <2>1, <2>3, <2>4, OutOfHandlers, LocalOut
<1>6. CASE linkage_out
    <2> DEFINE q == Popped(Dropped(Machine, 2), Popal)
    <2>1. /\ pc = "linkage_out" /\ Iret(esp, q) /\ UNCHANGED pcbs /\ isr' = isr
        BY <1>6 DEF linkage_out, pic, Popal
    <2>2. Machine \in Machines /\ Can(esp, Machine, "linkage_out") /\ esp \in Owners
        BY <1>1, <2>1, GoesOn
    <2>3. PICK u \in Labels \ (Handlers \cup {"frozen"}) :
             /\ Word(q, 0) = Code(u) /\ Word(q, 1) = Sel(u = "user") /\ Word(q, 2) = Flags(TRUE)
             /\ Dropped(q, IF u = "user" THEN 5 ELSE 3) \in Machines
             /\ Can(esp, Dropped(q, IF u = "user" THEN 5 ELSE 3), u)
        BY <2>2, LinkageOutLeaves
    <2> HIDE DEF q
    <2> DEFINE b == u = "user"
               m == Dropped(q, IF b THEN 5 ELSE 3)
    <2>4. b \in BOOLEAN /\ Word(q, 1) = Sel(b)
        BY <2>3
    <2>5. m \in Machines /\ Can(esp, m, u)
        BY <2>3
    <2> HIDE DEF b
    <2>6. On(esp, m, u) /\ if_flag' = TRUE
        BY <2>1, <2>3, <2>4, IretFacts, Zenon
    <2> HIDE DEF m
    <2>7. u \in Labels /\ u \notin Handlers /\ u # "frozen"
        OBVIOUS
    <2> QED
        BY <1>1, <2>1, <2>5, <2>6, <2>7, OutOfHandlers, LocalOut
<1> QED
    BY <1>3, <1>4, <1>5, <1>6

LEMMA HandlerFacts ==
    ASSUME Inv, NEW q \in IRQs, pc = HandlerOf(q)
    PROVE  /\ pc \in Handlers /\ pc # "frozen" /\ isr = Lines(q) /\ ~if_flag /\ if_flag \in BOOLEAN
           /\ Frame(Machine) = Len(stack[esp])
           /\ Left(Machine) = Leave(Machine, Len(stack[esp]))
           /\ Standing(esp, stack[esp], pc, Len(stack[esp]))
<1>1. pc \in Handlers /\ pc # "frozen"
    BY HandlerLabels DEF Handlers
<1>2. /\ Machine.s = stack[esp] /\ Can(esp, Machine, pc)
      /\ Standing(esp, Machine.s, pc, Len(Machine.s)) /\ if_flag \in BOOLEAN
    BY <1>1, GoesOn
<1>3. Machine.r["ebp"] = Ptr(Len(stack[esp]))
    BY <1>1, <1>2 DEF Can, Needs
<1>4. Frame(Machine) = Len(stack[esp])
    BY <1>3 DEF Frame, Ptr
<1>5. Left(Machine) = Leave(Machine, Len(stack[esp]))
    BY <1>3, LeftIsLeave
<1> QED
    BY <1>1, <1>2, <1>4, <1>5 DEF Inv, Service

LEMMA HandlerStep ==
    ASSUME Inv, PitStays \/ Key \/ RtcTick
    PROVE  Inv'
<1>1. PICK q \in IRQs : pc = HandlerOf(q) /\ isr' = isr \ Lines(q)
    <2>1. CASE PitStays
        BY <2>1, HandlerLabels DEF PitStays, send_eoi, IRQs
    <2>2. CASE Key
        BY <2>2, HandlerLabels DEF Key, send_eoi, IRQs
    <2>3. CASE RtcTick
        BY <2>3, HandlerLabels DEF RtcTick, send_eoi, IRQs
    <2> QED
        BY <2>1, <2>2, <2>3
<1>2. /\ pc \in Handlers /\ pc # "frozen" /\ isr = Lines(q) /\ if_flag \in BOOLEAN
      /\ Left(Machine) = Leave(Machine, Len(stack[esp]))
      /\ Standing(esp, stack[esp], pc, Len(stack[esp]))
    BY <1>1, HandlerFacts
<1>3. Ret(esp, Left(Machine)) /\ UNCHANGED pcbs /\ if_flag' \in BOOLEAN
    BY <1>2 DEF PitStays, Key, RtcTick
<1>4. Machine \in Machines /\ Machine.s = stack[esp] /\ esp \in Owners
    BY <1>2, GoesOn
<1> DEFINE n == Len(stack[esp])
           m == Dropped(Leave(Machine, n), 1)
<1>5. /\ Word(Leave(Machine, n), 0) = Code("exc_out") /\ m \in Machines /\ Can(esp, m, "exc_out")
    BY <1>2, <1>4, HandlerLeaves
<1>6. On(esp, m, "exc_out")
    BY <1>2, <1>3, <1>5, RetFacts
<1> HIDE DEF m
<1>7. Sound' /\ pc' = "exc_out" /\ isr' = {}
    BY <1>1, <1>2, <1>3, <1>5, <1>6, OutOfHandlers, Local DEF Inv, On
<1>8. Service'
    BY <1>7, OutOfHandlers, ServiceOut
<1> QED
    BY <1>7, <1>8 DEF Inv

LEMMA InterruptStep ==
    ASSUME Inv, NEW q \in IRQs, Interrupt(q)
    PROVE  Inv'
<1> DEFINE l == HandlerOf(q)
           m0 == Pushed(Machine, GateWords \o
                    <<regs["eax"], regs["ecx"], regs["edx"], regs["ebx"], Junk, regs["ebp"],
                      regs["esi"], regs["edi"], Flags(FALSE), Junk, Code("linkage_out")>>)
           m == Framed(Pushed(Clobbered(Framed(m0)), <<Code("exc_out")>>))
<1>1. /\ On(esp, m, l) /\ if_flag /\ if_flag' = FALSE /\ isr' = isr \cup Lines(q)
      /\ UNCHANGED pcbs
    BY DEF Interrupt, Pending
<1>2. pc \notin Handlers \cup {"frozen"} /\ pc # "frozen" /\ isr = {}
    BY <1>1 DEF Inv, Service
<1>3. Can(esp, Machine, pc) /\ CpuTyped
    BY <1>2, GoesOn
<1>4. l \in Handlers /\ l \in Labels /\ l # "frozen" /\ l # "user"
    BY HandlerLabels DEF Handlers, Labels, IntrLabels
<1>5. m \in Machines /\ Can(esp, m, l)
    BY <1>1, <1>2, <1>3, <1>4, InterruptStands
<1> HIDE DEF m
<1>6. Sound' /\ pc' = l
    BY <1>1, <1>4, <1>5, Local DEF Inv, On
<1>7. Service'
    <2>1. isr' = Lines(q) /\ ~if_flag'
        BY <1>1, <1>2
    <2>2. \A r \in IRQs : HandlerOf(r) = HandlerOf(q) => r = q
        BY HandlerLabels DEF IRQs
    <2> QED
        BY <1>4, <1>6, <2>1, <2>2 DEF Service
<1> QED
    BY <1>6, <1>7 DEF Inv

LEMMA ExceptionStep ==
    ASSUME Inv, Exception
    PROVE  Inv'
<1>1. /\ pc \in {"null", "user"} /\ pc' = "frozen" /\ if_flag' = FALSE
      /\ UNCHANGED <<regs, stack, esp>> /\ UNCHANGED pcbs /\ isr' = isr
    BY DEF Exception, pic
<1>2. pc \notin Handlers /\ "frozen" \in Labels /\ "frozen" \notin Handlers
    BY <1>1, HandlerLabels DEF Labels
<1>3. isr' = {}
    BY <1>1, <1>2 DEF Inv, Service
<1>4. Service'
    BY <1>1, <1>2, <1>3, ServiceOut
<1>5. Typed' /\ Chains' /\ Turn'
    <2>1. Typed'
        BY <1>1, <1>2 DEF Inv, Sound, Typed, CpuTyped, pcbs
    <2>2. Chains' /\ Turn'
        BY <1>1 DEF Inv, Sound, Chains, Turn, TopOf, pcbs
    <2> QED
        BY <2>1, <2>2
<1>8. Goes'
    BY <1>1 DEF Goes
<1>6. Parents'
    BY <1>1 DEF Inv, Sound, Parents, Waits, pcbs
<1>7. Threads'
    BY <1>1 DEF Inv, Sound, Threads, Asleep, TopOf, pcbs
<1> QED
    BY <1>4, <1>5, <1>6, <1>7, <1>8 DEF Inv, Sound

LEMMA RequestStep ==
    ASSUME Inv, UNCHANGED <<cpu, pcbs, isr>>
    PROVE  Inv'
<1>1. /\ regs' = regs /\ stack' = stack /\ esp' = esp /\ pc' = pc /\ if_flag' = if_flag
      /\ EBP' = EBP /\ schedEBP' = schedEBP /\ chain' = chain /\ cur_process' = cur_process
      /\ booted' = booted /\ isr' = isr
    BY DEF cpu, pcbs
<1>2. Typed' /\ Chains' /\ Turn' /\ Service'
    BY <1>1 DEF Inv, Sound, Typed, CpuTyped, Chains, Turn, TopOf, Service
<1>3. Parents' /\ Threads'
    BY <1>1 DEF Inv, Sound, Parents, Waits, Threads, Asleep, TopOf
<1>4. Goes'
    BY <1>1 DEF Inv, Sound, Goes, Machine
<1> QED
    BY <1>2, <1>3, <1>4 DEF Inv, Sound

LEMMA NextOfFacts ==
    /\ NextOf({}, 1) = 1
    /\ \A b \in SUBSET Terminals, t \in Terminals : 1 \in b => NextOf(b, t) \in b
BY DEF NextOf, Terminals

LEMMA LaunchStep ==
    ASSUME Inv, Launch
    PROVE  Inv'
<1>1. /\ pc = "launch" /\ Begin(1) /\ chain' = [chain EXCEPT ![1] = <<1>>] /\ booted' = {1}
      /\ EBP' = EBP /\ schedEBP' = schedEBP /\ cur_process' = cur_process /\ isr' = isr
      /\ pc \in BootLabels
    BY DEF Launch, pic, BootLabels
<1>2. booted = {} /\ isr = {} /\ Typed /\ Chains /\ Turn
    BY <1>1, BootFacts DEF Inv, Sound
<1>3. 1 \in Terminals /\ 1 \in Programs /\ 1 \in Owners /\ CpuTyped
    BY <1>2, BootApart DEF Terminals, Typed
<1>4. CpuTyped' /\ Goes' /\ esp' = 1 /\ pc' = "user" /\ if_flag' = TRUE
    <2>1. /\ Fresh(1) \in Machines /\ On(1, Fresh(1), "user")
          /\ if_flag' = TRUE /\ Can(1, Fresh(1), "user") /\ "user" \in Labels
        BY <1>1, <1>3, BeginFacts
    <2> QED
        BY <1>3, <2>1, OnFacts DEF On
<1>5. /\ chain' \in [Terminals -> Seq(Programs)] /\ chain'[1] = <<1>> /\ Len(chain'[1]) = 1
      /\ chain'[1][1] = 1
      /\ \A t \in Terminals \ {1} : Len(chain'[t]) = 0
    <2>1. \A t \in Terminals : Len(chain[t]) = 0 /\ chain[t] \in Seq(Programs)
        <3> SUFFICES ASSUME NEW t \in Terminals
                     PROVE  Len(chain[t]) = 0 /\ chain[t] \in Seq(Programs)
            OBVIOUS
        <3>1. chain[t] \in Seq(Programs) /\ Len(chain[t]) \in Nat
            BY <1>2 DEF Typed
        <3>2. ~(Len(chain[t]) > 0)
            BY <1>2 DEF Chains
        <3> QED
            BY <3>1, <3>2
    <2>2. <<1>> \in Seq(Programs) /\ Len(<<1>>) = 1 /\ <<1>>[1] = 1
        BY <1>3
    <2>3. chain \in [Terminals -> Seq(Programs)]
        BY <1>2 DEF Typed
    <2> QED
        BY <1>1, <1>3, <2>1, <2>2, <2>3
<1>6. Typed'
    BY <1>1, <1>2, <1>3, <1>4, <1>5 DEF Typed
<1>7. Chains'
    <2>1. \A t \in Terminals : \A i \in 1..Len(chain'[t]) : t = 1 /\ i = 1
        BY <1>5
    <2>2. \A t \in Terminals : \A i \in 2..Len(chain'[t]) : FALSE
        <3> SUFFICES ASSUME NEW t \in Terminals, NEW i \in 2..Len(chain'[t])
                     PROVE  FALSE
            OBVIOUS
        <3> DEFINE n == Len(chain'[t])
        <3>1. n = 0 \/ n = 1
            BY <1>5
        <3>2. i \in 2..n
            OBVIOUS
        <3> HIDE DEF n
        <3> QED
            BY <3>1, <3>2
    <2>3. \A t \in Terminals : t \in booted' <=> Len(chain'[t]) > 0
        BY <1>1, <1>5
    <2> QED
        BY <1>1, <1>5, <2>1, <2>2, <2>3 DEF Chains
<1>8. Turn' /\ Threads'
    BY <1>1, <1>2, <1>4, <1>5 DEF Turn, Threads, TopOf
<1>9. Parents'
    <2>1. \A t \in Terminals : \A i \in 1..(Len(chain'[t]) - 1) : FALSE
        <3> SUFFICES ASSUME NEW t \in Terminals, NEW i \in 1..(Len(chain'[t]) - 1)
                     PROVE  FALSE
            OBVIOUS
        <3> DEFINE n == Len(chain'[t])
        <3>1. n = 0 \/ n = 1
            BY <1>5
        <3>2. i \in 1..(n - 1)
            OBVIOUS
        <3> HIDE DEF n
        <3> QED
            BY <3>1, <3>2
    <2> QED
        BY <2>1 DEF Parents
<1>10. Service'
    BY <1>1, <1>2, <1>4, OutOfHandlers, ServiceOut
<1> QED
    BY <1>4, <1>6, <1>7, <1>8, <1>9, <1>10 DEF Inv, Sound

LEMMA CallFacts ==
    ASSUME Inv, pc = "call"
    PROVE  /\ esp \in Programs /\ Frame(Machine) = 22 /\ CallStack(esp, stack[esp])
           /\ Len(stack[esp]) = 23 /\ isr = {}
           /\ 1 \in booted /\ cur_process \in booted /\ esp = TopOf(cur_process)
           /\ Typed /\ Chains /\ Turn /\ Parents /\ Threads /\ CpuTyped
<1>1. "call" # "frozen" /\ "call" \notin Handlers
    BY HandlerLabels
<1>2. Can(esp, Machine, "call") /\ Machine \in Machines /\ esp \in Owners /\ Machine.s = stack[esp]
    BY <1>1, GoesOn
<1>3. /\ esp \in Programs /\ Frame(Machine) = 22 /\ CallStack(esp, stack[esp])
      /\ Len(stack[esp]) = 23
    BY <1>2, CallLeaves
<1>4. booted # {}
    BY <1>3, BootApart DEF Inv, Sound, Turn
<1> QED
    BY <1>1, <1>3, <1>4 DEF Inv, Sound, Typed, Turn, Service

LEMMA HaltBaseStep ==
    ASSUME Inv, HaltBase
    PROVE  Inv'
<1>1. /\ pc = "call" /\ Begin(esp) /\ EBP' = [EBP EXCEPT ![esp] = Lost]
      /\ schedEBP' = schedEBP /\ chain' = chain /\ cur_process' = cur_process
      /\ booted' = booted /\ isr' = isr
    BY DEF HaltBase, pic
<1>2. esp \in Programs /\ isr = {} /\ Typed /\ Chains /\ Turn /\ Parents /\ Threads /\ CpuTyped
    BY <1>1, CallFacts
<1>3. /\ CpuTyped' /\ Goes' /\ esp' = esp /\ pc' = "user" /\ if_flag' = TRUE
      /\ \A q \in Owners \ {esp} : stack'[q] = stack[q]
    <2>1. /\ Fresh(esp) \in Machines /\ On(esp, Fresh(esp), "user")
          /\ if_flag' = TRUE /\ Can(esp, Fresh(esp), "user") /\ "user" \in Labels
        BY <1>1, <1>2, BeginFacts
    <2>2. esp \in Owners
        BY <1>2, BootApart
    <2> QED
        BY <1>2, <2>1, <2>2, OnFacts DEF On
<1>4. EBP' \in [Programs -> Nat] /\ \A q \in Programs \ {esp} : EBP'[q] = EBP[q]
    BY <1>1, <1>2 DEF Typed, Lost
<1>5. Typed' /\ Chains' /\ Turn'
    <2>1. Typed'
        BY <1>1, <1>2, <1>3, <1>4 DEF Typed
    <2>2. Chains'
        BY <1>1, <1>2 DEF Chains
    <2>3. Turn'
        BY <1>1, <1>2, <1>3 DEF Turn, TopOf
    <2> QED
        BY <2>1, <2>2, <2>3
<1>6. Parents'
    <2> SUFFICES ASSUME NEW t \in Terminals, NEW i \in 1..(Len(chain[t]) - 1)
                 PROVE  Waits(chain[t][i])'
        BY <1>1 DEF Parents
    <2> DEFINE q == chain[t][i]
    <2>1. i \in 1..Len(chain[t])
        BY <1>2 DEF Typed
    <2>2. q \in Programs \ {esp} /\ Waits(q) /\ q \in Owners \ {esp}
        BY <1>2, <2>1, OthersApart, BootApart DEF Parents
    <2>3. stack'[q] = stack[q] /\ EBP'[q] = EBP[q] /\ chain'[t][i] = q
        BY <1>1, <1>3, <1>4, <2>2
    <2> QED
        BY <2>2, <2>3 DEF Waits
<1>7. Threads'
    <2> SUFFICES ASSUME NEW t \in booted \ {cur_process}
                 PROVE  Asleep(TopOf(t))'
        BY <1>1 DEF Threads
    <2> DEFINE q == TopOf(t)
    <2>1. q \in Owners \ {esp} /\ Asleep(q)
        BY <1>2, OthersApart, BootApart DEF Threads
    <2>2. stack'[q] = stack[q] /\ schedEBP'[q] = schedEBP[q] /\ TopOf(t)' = q
        BY <1>1, <1>3, <2>1 DEF TopOf
    <2> QED
        BY <2>1, <2>2 DEF Asleep
<1>8. Service'
    BY <1>1, <1>2, <1>3, OutOfHandlers, ServiceOut
<1> QED
    BY <1>3, <1>5, <1>6, <1>7, <1>8 DEF Inv, Sound

LEMMA executeStep ==
    ASSUME Inv, execute
    PROVE  Inv'
<1>1. PICK p \in Aux :
         /\ pc = "call"
         /\ \A t \in Terminals : \A i \in 1..Len(chain[t]) : chain[t][i] # p
         /\ EBP' = [EBP EXCEPT ![esp] = Frame(Machine)]
         /\ chain' = [chain EXCEPT ![cur_process] = Append(chain[cur_process], p)]
         /\ Begin(p)
         /\ schedEBP' = schedEBP /\ cur_process' = cur_process /\ booted' = booted
         /\ isr' = isr
    BY DEF execute, pic
<1> DEFINE c == cur_process
           k == Len(chain[c])
<1>2. /\ esp \in Programs /\ Frame(Machine) = 22 /\ CallStack(esp, stack[esp])
      /\ Len(stack[esp]) = 23 /\ isr = {}
      /\ 1 \in booted /\ c \in booted /\ esp = TopOf(c)
      /\ Typed /\ Chains /\ Turn /\ Parents /\ Threads /\ CpuTyped
    BY <1>1, CallFacts
<1>3. /\ p \in Programs /\ p \in Owners /\ p \notin Terminals /\ c \in Terminals /\ k \in Nat /\ k > 0
      /\ chain \in [Terminals -> Seq(Programs)] /\ chain[c] \in Seq(Programs)
    BY <1>2, BootApart DEF Programs, Typed, Chains
<1>4. esp = chain[c][k] /\ esp # p
    BY <1>1, <1>2, <1>3 DEF TopOf
<1>5. /\ CpuTyped' /\ Goes' /\ esp' = p /\ pc' = "user" /\ if_flag' = TRUE
      /\ \A q \in Owners \ {p} : stack'[q] = stack[q]
    <2>1. /\ Fresh(p) \in Machines /\ On(p, Fresh(p), "user")
          /\ if_flag' = TRUE /\ Can(p, Fresh(p), "user") /\ "user" \in Labels
        BY <1>1, <1>3, BeginFacts
    <2> QED
        BY <1>2, <1>3, <2>1, OnFacts DEF On
<1>6. EBP' \in [Programs -> Nat] /\ EBP'[esp] = 22 /\ \A q \in Programs \ {esp} : EBP'[q] = EBP[q]
    BY <1>1, <1>2 DEF Typed
<1>7. /\ chain' \in [Terminals -> Seq(Programs)]
      /\ Len(chain'[c]) = k + 1 /\ chain'[c][k + 1] = p
      /\ \A i \in 1..k : chain'[c][i] = chain[c][i]
      /\ \A t \in Terminals \ {c} : chain'[t] = chain[t]
    <2> DEFINE s == Append(chain[c], p)
    <2>1. /\ s \in Seq(Programs) /\ Len(s) = k + 1 /\ s[k + 1] = p
          /\ \A i \in 1..k : s[i] = chain[c][i]
        BY <1>3, AppendProperties
    <2>2. chain' = [chain EXCEPT ![c] = s]
        BY <1>1
    <2> HIDE DEF s
    <2> QED
        BY <1>3, <2>1, <2>2
<1> HIDE DEF k
<1>8. Typed'
    BY <1>1, <1>2, <1>5, <1>6, <1>7 DEF Typed
<1>9. \A t \in Terminals : \A i \in 1..Len(chain'[t]) :
         \/ i \in 1..Len(chain[t]) /\ chain'[t][i] = chain[t][i] /\ chain[t][i] # p
         \/ t = c /\ i = k + 1 /\ chain'[t][i] = p
    <2> SUFFICES ASSUME NEW t \in Terminals, NEW i \in 1..Len(chain'[t])
                 PROVE  \/ i \in 1..Len(chain[t]) /\ chain'[t][i] = chain[t][i] /\ chain[t][i] # p
                        \/ t = c /\ i = k + 1 /\ chain'[t][i] = p
        OBVIOUS
    <2>1. CASE t # c
        BY <1>1, <1>7, <2>1
    <2>2. CASE t = c
        <3>1. i \in 1..k \/ i = k + 1
            BY <1>3, <1>7, <2>2
        <3>2. k = Len(chain[c])
            BY DEF k
        <3> QED
            BY <1>1, <1>7, <2>2, <3>1, <3>2
    <2> QED
        BY <2>1, <2>2
<1>10. Chains'
    <2>1. \A t \in Terminals : t \in booted' <=> Len(chain'[t]) > 0
        <3>1. \A t \in Terminals \ {c} : t \in booted' <=> Len(chain'[t]) > 0
            BY <1>1, <1>2, <1>7 DEF Chains
        <3>2. c \in booted' /\ Len(chain'[c]) > 0
            BY <1>1, <1>2, <1>3, <1>7
        <3> QED
            BY <3>1, <3>2
    <2>2. \A t \in booted' : chain'[t][1] = t
        <3>1. 1 \in 1..k
            BY <1>3
        <3> QED
            BY <1>1, <1>2, <1>7, <3>1 DEF Chains, Typed
    <2>3. \A t \in Terminals : \A i \in 2..Len(chain'[t]) : chain'[t][i] \in Aux
        <3> SUFFICES ASSUME NEW t \in Terminals, NEW i \in 2..Len(chain'[t])
                     PROVE  chain'[t][i] \in Aux
            OBVIOUS
        <3>1. i \in 1..Len(chain'[t])
            BY <1>7
        <3>2. i \in 1..Len(chain[t]) => i \in 2..Len(chain[t])
            BY <1>3
        <3> QED
            BY <1>2, <1>9, <3>1, <3>2 DEF Chains
    <2>4. \A t, u \in Terminals : \A i \in 1..Len(chain'[t]), j \in 1..Len(chain'[u]) :
             chain'[t][i] = chain'[u][j] => t = u /\ i = j
        <3> SUFFICES ASSUME NEW t \in Terminals, NEW u \in Terminals,
                            NEW i \in 1..Len(chain'[t]), NEW j \in 1..Len(chain'[u]),
                            chain'[t][i] = chain'[u][j]
                     PROVE  t = u /\ i = j
            OBVIOUS
        <3>1. CASE chain'[t][i] = p
            BY <1>9, <3>1
        <3>2. CASE chain'[t][i] # p
            BY <1>2, <1>9, <3>2 DEF Chains
        <3> QED
            BY <3>1, <3>2
    <2> QED
        BY <2>1, <2>2, <2>3, <2>4 DEF Chains
<1>11. Turn'
    BY <1>1, <1>2, <1>5, <1>7 DEF Turn, TopOf
<1>12. Parents'
    <2> SUFFICES ASSUME NEW t \in Terminals, NEW i \in 1..(Len(chain'[t]) - 1)
                 PROVE  Waits(chain[t][i])'
        BY DEF Parents
    <2> DEFINE q == chain'[t][i]
    <2>1. i \in 1..Len(chain[t]) /\ q = chain[t][i] /\ q \in Programs /\ q # p
        <3>1. i \in 1..Len(chain'[t]) /\ ~(t = c /\ i = k + 1)
            BY <1>3, <1>7
        <3> QED
            BY <1>2, <1>9, <3>1, OthersApart
    <2>2. stack'[q] = stack[q]
        BY <1>5, <2>1, BootApart
    <2>3. CASE q = esp
        <3>1. EBP'[q] = 22 /\ stack'[q] = stack[esp] /\ CallStack(q, stack[esp])
            BY <1>2, <1>6, <2>2, <2>3
        <3>2. CallStack(q, stack'[q]) /\ Len(stack'[q]) = 23
            BY <1>2, <3>1
        <3> QED
            BY <3>1, <3>2 DEF Waits
    <2>4. CASE q # esp
        <3>1. i \in 1..(Len(chain[t]) - 1)
            <4>1. CASE t = c
                BY <1>3, <1>4, <2>1, <2>4, <4>1 DEF k
            <4>2. CASE t # c
                BY <1>7, <4>2
            <4> QED
                BY <4>1, <4>2
        <3>2. Waits(q)
            BY <1>2, <2>1, <3>1 DEF Parents
        <3>3. EBP'[q] = EBP[q]
            BY <1>6, <2>1, <2>4
        <3> QED
            BY <2>2, <3>2, <3>3 DEF Waits
    <2> QED
        BY <2>3, <2>4
<1>13. Threads'
    <2> SUFFICES ASSUME NEW t \in booted \ {cur_process}
                 PROVE  Asleep(TopOf(t))'
        BY <1>1 DEF Threads
    <2> DEFINE q == TopOf(t)
    <2>1. q \in Owners /\ Asleep(q) /\ q # p /\ t \in Terminals \ {c}
        BY <1>1, <1>2, OthersApart, BootApart DEF Threads, Typed, TopOf
    <2>2. stack'[q] = stack[q] /\ schedEBP'[q] = schedEBP[q] /\ TopOf(t)' = q
        BY <1>1, <1>5, <1>7, <2>1 DEF TopOf
    <2> QED
        BY <2>1, <2>2 DEF Asleep
<1>14. Service'
    BY <1>1, <1>2, <1>5, OutOfHandlers, ServiceOut
<1> QED
    BY <1>5, <1>8, <1>10, <1>11, <1>12, <1>13, <1>14 DEF Inv, Sound

LEMMA HaltAuxStep ==
    ASSUME Inv, HaltAux
    PROVE  Inv'
<1> DEFINE c == cur_process
           k == Len(chain[c])
           p == chain[c][k - 1]
           m == halt_return(p)
<1>1. /\ pc = "call" /\ k > 1
      /\ regs' = m.r /\ stack' = [stack EXCEPT ![p] = m.s, ![esp] = <<>>] /\ esp' = p
      /\ EBP' = [EBP EXCEPT ![p] = Lost, ![esp] = Lost]
      /\ chain' = [chain EXCEPT ![c] = SubSeq(chain[c], 1, k - 1)]
      /\ pc' = "sys_calls_handler_end" /\ if_flag' = FALSE
      /\ schedEBP' = schedEBP /\ cur_process' = cur_process /\ booted' = booted
      /\ isr' = isr
    BY DEF HaltAux, pic
<1>2. /\ esp \in Programs /\ isr = {} /\ 1 \in booted /\ c \in booted /\ esp = TopOf(c)
      /\ Typed /\ Chains /\ Turn /\ Parents /\ Threads /\ CpuTyped
    BY <1>1, CallFacts
<1>3. /\ c \in Terminals /\ k \in Nat /\ k - 1 \in 1..k /\ k - 1 \in 1..(k - 1) /\ k - 1 \in Nat
      /\ chain \in [Terminals -> Seq(Programs)] /\ chain[c] \in Seq(Programs)
    BY <1>1, <1>2 DEF Typed
<1>4. /\ p \in Programs /\ p \in Owners /\ p # esp /\ Waits(p)
    <2>1. k - 1 \in 1..(Len(chain[c]) - 1) /\ k - 1 \in 1..Len(chain[c])
        BY <1>3
    <2> QED
        BY <1>2, <1>3, <2>1, OthersApart, BootApart DEF Parents
<1>5. m \in Machines /\ Can(p, m, "sys_calls_handler_end")
    <2> DEFINE a == [r |-> regs, s |-> stack[p]]
    <2>1. a \in Machines /\ a.s = stack[p]
        BY <1>2, <1>4 DEF Machines, CpuTyped
    <2>2. EBP[p] = 22 /\ Len(a.s) >= 22 /\ CallStack(p, a.s)
        BY <1>4, <2>1 DEF Waits
    <2>3. m = [CutTo(a, 22) EXCEPT !.r["eax"] = Result(p), !.r["ebp"] = Ptr(22)]
        BY <2>2 DEF halt_return
    <2> HIDE DEF a, m
    <2> QED
        BY <1>4, <2>1, <2>2, <2>3, HaltLeaves
<1> HIDE DEF m
<1>6. /\ stack' \in [Owners -> Seq(Words)] /\ stack'[p] = m.s
      /\ \A q \in Owners \ {p, esp} : stack'[q] = stack[q]
    <2>1. m.s \in Seq(Words) /\ <<>> \in Seq(Words) /\ stack \in [Owners -> Seq(Words)] /\ esp \in Owners
        BY <1>2, <1>5 DEF Machines, CpuTyped
    <2> HIDE DEF p
    <2> QED
        BY <1>1, <1>4, <2>1
<1>7. EBP' \in [Programs -> Nat] /\ \A q \in Programs \ {p, esp} : EBP'[q] = EBP[q]
    <2>1. EBP \in [Programs -> Nat] /\ Lost \in Nat
        BY <1>2 DEF Typed, Lost
    <2> HIDE DEF p
    <2> QED
        BY <1>1, <1>2, <1>4, <2>1
<1>8. /\ chain' \in [Terminals -> Seq(Programs)]
      /\ Len(chain'[c]) = k - 1
      /\ \A i \in 1..(k - 1) : chain'[c][i] = chain[c][i]
      /\ \A t \in Terminals \ {c} : chain'[t] = chain[t]
    <2> DEFINE s == SubSeq(chain[c], 1, k - 1)
    <2>1. /\ s \in Seq(Programs) /\ Len(s) = k - 1
          /\ \A i \in 1..(k - 1) : s[i] = chain[c][i]
        BY <1>3, SubSeqProperties
    <2>2. chain' = [chain EXCEPT ![c] = s]
        BY <1>1
    <2> HIDE DEF s, k
    <2> QED
        BY <1>3, <2>1, <2>2
<1>9. TopOf(c)' = p
    BY <1>1, <1>3, <1>8 DEF TopOf
<1>10. Typed' /\ Goes'
    <2>1. Machine'.s = m.s /\ Machine'.r = m.r
        BY <1>1, <1>6 DEF Machine
    <2>2. Goes'
        BY <1>1, <1>5, <2>1 DEF Goes, Can
    <2>3. CpuTyped'
        BY <1>1, <1>4, <1>5, <1>6, OutOfHandlers DEF CpuTyped, Machines, CallLabels
    <2> QED
        BY <1>1, <1>2, <1>7, <1>8, <2>2, <2>3 DEF Typed
<1>11. \A t \in Terminals : \A i \in 1..Len(chain'[t]) :
          /\ i \in 1..Len(chain[t]) /\ chain'[t][i] = chain[t][i]
          /\ t = c => i \in 1..(k - 1)
    <2> SUFFICES ASSUME NEW t \in Terminals, NEW i \in 1..Len(chain'[t])
                 PROVE  /\ i \in 1..Len(chain[t]) /\ chain'[t][i] = chain[t][i]
                        /\ t = c => i \in 1..(k - 1)
        OBVIOUS
    <2>1. CASE t # c
        BY <1>8, <2>1
    <2>2. CASE t = c
        <3>1. i \in 1..(k - 1)
            BY <1>8, <2>2
        <3>2. i \in 1..k
            BY <1>3, <3>1
        <3> QED
            BY <1>8, <2>2, <3>1, <3>2
    <2> QED
        BY <2>1, <2>2
<1>12. Chains'
    <2>1. \A t \in Terminals : t \in booted' <=> Len(chain'[t]) > 0
        <3>1. \A t \in Terminals \ {c} : t \in booted' <=> Len(chain'[t]) > 0
            BY <1>1, <1>2, <1>8 DEF Chains
        <3>2. c \in booted' /\ Len(chain'[c]) > 0
            BY <1>1, <1>2, <1>3, <1>8
        <3> QED
            BY <3>1, <3>2
    <2>2. \A t \in booted' : chain'[t][1] = t
        <3> SUFFICES ASSUME NEW t \in booted
                     PROVE  chain'[t][1] = t
            BY <1>1
        <3>1. 1 \in 1..(k - 1) /\ chain[t][1] = t /\ t \in Terminals
            BY <1>2, <1>3 DEF Chains, Typed
        <3> QED
            BY <1>8, <3>1
    <2>3. \A t \in Terminals : \A i \in 2..Len(chain'[t]) : chain'[t][i] \in Aux
        <3> SUFFICES ASSUME NEW t \in Terminals, NEW i \in 2..Len(chain'[t])
                     PROVE  chain'[t][i] \in Aux
            OBVIOUS
        <3>1. i \in 1..Len(chain'[t])
            BY <1>8
        <3>2. i \in 1..Len(chain[t]) => i \in 2..Len(chain[t])
            BY <1>3
        <3> QED
            BY <1>2, <1>11, <3>1, <3>2 DEF Chains
    <2>4. \A t, u \in Terminals : \A i \in 1..Len(chain'[t]), j \in 1..Len(chain'[u]) :
             chain'[t][i] = chain'[u][j] => t = u /\ i = j
        BY <1>2, <1>11 DEF Chains
    <2> QED
        BY <2>1, <2>2, <2>3, <2>4 DEF Chains
<1>13. Turn'
    BY <1>1, <1>2, <1>9 DEF Turn
<1>14. Parents'
    <2> SUFFICES ASSUME NEW t \in Terminals, NEW i \in 1..(Len(chain'[t]) - 1)
                 PROVE  Waits(chain[t][i])'
        BY DEF Parents
    <2> DEFINE q == chain'[t][i]
    <2>1. i \in 1..Len(chain'[t]) /\ i < Len(chain'[t])
        BY <1>8
    <2>2. i \in 1..Len(chain[t]) /\ q = chain[t][i] /\ i < Len(chain[t])
        <3>1. CASE t = c
            BY <1>3, <1>8, <1>11, <2>1, <3>1
        <3>2. CASE t # c
            BY <1>8, <1>11, <2>1, <3>2
        <3> QED
            BY <3>1, <3>2
    <2>3. i \in 1..(Len(chain[t]) - 1)
        BY <1>3, <2>2
    <2>4. q \in Programs /\ q # esp /\ Waits(q)
        BY <1>2, <2>2, <2>3, OthersApart DEF Parents
    <2>5. q # p
        <3>1. t = c => i # k - 1
            BY <1>8, <2>1
        <3> QED
            BY <1>2, <1>3, <2>2, <3>1 DEF Chains
    <2>6. stack'[q] = stack[q] /\ EBP'[q] = EBP[q]
        BY <1>6, <1>7, <2>4, <2>5, BootApart
    <2> QED
        BY <2>4, <2>6 DEF Waits
<1>15. Threads'
    <2> SUFFICES ASSUME NEW t \in booted \ {cur_process}
                 PROVE  Asleep(TopOf(t))'
        BY <1>1 DEF Threads
    <2> DEFINE q == TopOf(t)
    <2>1. q \in Owners /\ Asleep(q) /\ q # esp /\ t \in Terminals \ {c} /\ Len(chain[t]) \in 1..Len(chain[t])
        BY <1>2, OthersApart, BootApart DEF Threads, Typed
    <2>2. q # p
        BY <1>2, <1>3, <2>1 DEF Chains, TopOf
    <2>3. stack'[q] = stack[q] /\ schedEBP'[q] = schedEBP[q] /\ TopOf(t)' = q
        BY <1>1, <1>6, <1>8, <2>1, <2>2 DEF TopOf
    <2> QED
        BY <2>1, <2>3 DEF Asleep
<1>16. Service'
    BY <1>1, <1>2, OutOfHandlers, ServiceOut DEF CallLabels
<1> QED
    BY <1>10, <1>12, <1>13, <1>14, <1>15, <1>16 DEF Inv, Sound

LEMMA PitSwitchesStep ==
    ASSUME Inv, PitSwitches
    PROVE  Inv'
<1> DEFINE c == cur_process
           n == NextOf(booted, c)
           top == TopOf(n)
           f == schedEBP[top]
           a == [r |-> regs, s |-> stack[top]]
           m == Dropped(Leave(a, f), 1)
<1>1. /\ pc = HandlerOf(0) /\ 0 \in IRQs /\ n # c
      /\ schedEBP' = [schedEBP EXCEPT ![esp] = Frame(Machine), ![top] = Lost]
      /\ cur_process' = n /\ isr' = isr \ Lines(0)
      /\ Ret(top, Leave(a, f))
      /\ if_flag' = if_flag /\ EBP' = EBP /\ chain' = chain /\ booted' = booted
    BY HandlerLabels DEF PitSwitches, send_eoi, return_to_parent, Leave, IRQs
<1>2. /\ pc \in Handlers /\ isr = Lines(0) /\ if_flag \in BOOLEAN
      /\ Frame(Machine) = Len(stack[esp]) /\ Standing(esp, stack[esp], pc, Len(stack[esp]))
    BY <1>1, HandlerFacts
<1>3. Typed /\ Chains /\ Turn /\ Parents /\ Threads /\ CpuTyped
    BY DEF Inv, Sound, Typed
<1>4. /\ booted # {} /\ 1 \in booted /\ c \in booted /\ esp = TopOf(c)
      /\ n \in booted \ {c} /\ n \in Terminals /\ c \in Terminals
    <2>1. booted # {}
        BY <1>1, <1>3, NextOfFacts DEF Turn
    <2> QED
        BY <1>1, <1>3, <2>1, NextOfFacts DEF Turn, Typed
<1>5. top \in Programs /\ top \in Owners /\ top # esp /\ Asleep(top) /\ esp \in Programs
    BY <1>3, <1>4, OthersApart, BootApart DEF Threads
<1> HIDE DEF n
<1>6. /\ Word(Leave(a, f), 0) = Code("exc_out") /\ m \in Machines /\ Can(top, m, "exc_out")
    <2>1. a \in Machines /\ a.s = stack[top]
        BY <1>3, <1>5 DEF Machines, CpuTyped
    <2>2. PICK l \in Handlers : Standing(top, a.s, l, f)
        BY <1>5, <2>1 DEF Asleep
    <2> HIDE DEF a, f, top
    <2> QED
        BY <2>1, <2>2, HandlerLeaves
<1>7. On(top, m, "exc_out")
    BY <1>1, <1>6, RetFacts
<1> HIDE DEF m, a, f
<1>8. /\ CpuTyped' /\ Goes' /\ esp' = top /\ pc' = "exc_out"
      /\ \A q \in Owners \ {top} : stack'[q] = stack[q]
    <2> HIDE DEF top
    <2>1. if_flag' \in BOOLEAN
        BY <1>1, <1>2
    <2> QED
        BY <1>3, <1>5, <1>6, <1>7, <2>1, OnFacts, OutOfHandlers DEF On
<1>9. /\ schedEBP' \in [Programs -> Nat] /\ schedEBP'[esp] = Len(stack[esp])
      /\ \A q \in Programs \ {esp, top} : schedEBP'[q] = schedEBP[q]
    <2>1. schedEBP \in [Programs -> Nat] /\ Lost \in Nat /\ Len(stack[esp]) \in Nat
        BY <1>3 DEF Typed, CpuTyped, Lost
    <2> HIDE DEF top
    <2> QED
        BY <1>1, <1>2, <1>5, <2>1
<1>10. Typed' /\ Chains' /\ Turn'
    <2>1. Typed'
        BY <1>1, <1>3, <1>4, <1>8, <1>9 DEF Typed
    <2>2. Chains'
        BY <1>1, <1>3 DEF Chains
    <2>3. Turn'
        BY <1>1, <1>4, <1>8 DEF Turn, TopOf
    <2> QED
        BY <2>1, <2>2, <2>3
<1>11. Len(chain[n]) \in 1..Len(chain[n]) /\ top = chain[n][Len(chain[n])] /\ Len(chain[n]) \in Nat
    BY <1>3, <1>4, OthersApart DEF TopOf, Typed
<1>12. Parents'
    <2> SUFFICES ASSUME NEW t \in Terminals, NEW i \in 1..(Len(chain[t]) - 1)
                 PROVE  Waits(chain[t][i])'
        BY <1>1 DEF Parents
    <2> DEFINE q == chain[t][i]
    <2>1. i \in 1..Len(chain[t]) /\ i # Len(chain[t])
        BY <1>3 DEF Typed
    <2>2. q \in Owners /\ q # esp /\ Waits(q)
        BY <1>3, <2>1, OthersApart, BootApart DEF Parents
    <2>3. q # top
        BY <1>3, <1>4, <1>11, <2>1 DEF Chains
    <2>4. stack'[q] = stack[q] /\ EBP'[q] = EBP[q] /\ chain'[t][i] = q
        BY <1>1, <1>8, <2>2, <2>3
    <2> QED
        BY <2>2, <2>4 DEF Waits
<1>13. Threads'
    <2> SUFFICES ASSUME NEW t \in booted, t # n
                 PROVE  Asleep(TopOf(t))'
        BY <1>1 DEF Threads
    <2> DEFINE q == TopOf(t)
    <2>1. q \in Programs /\ q \in Owners /\ TopOf(t)' = q /\ t \in Terminals
          /\ Len(chain[t]) \in 1..Len(chain[t])
        BY <1>1, <1>3, OthersApart, BootApart DEF TopOf, Typed
    <2>2. q # top
        BY <1>3, <1>4, <1>11, <2>1 DEF Chains, TopOf
    <2>3. stack'[q] = stack[q]
        BY <1>8, <2>1, <2>2
    <2>4. CASE t = c
        <3>1. q = esp
            BY <1>4, <2>4
        <3> HIDE DEF q
        <3>2. Standing(q, stack'[q], pc, schedEBP'[q])
            BY <1>2, <1>9, <2>3, <3>1
        <3> QED
            BY <1>2, <2>1, <3>2 DEF Asleep
    <2>5. CASE t # c
        <3>1. q # esp /\ Asleep(q)
            BY <1>3, <2>5, OthersApart DEF Threads
        <3>2. schedEBP'[q] = schedEBP[q]
            BY <1>9, <2>1, <2>2, <3>1
        <3> QED
            BY <2>1, <2>3, <3>1, <3>2 DEF Asleep
    <2> QED
        BY <2>4, <2>5
<1>14. Service'
    <2>1. isr' = {}
        BY <1>1, <1>2
    <2> QED
        BY <1>8, <2>1, OutOfHandlers, ServiceOut
<1> QED
    BY <1>8, <1>10, <1>12, <1>13, <1>14 DEF Inv, Sound

LEMMA KeyStartsStep ==
    ASSUME Inv, NEW t \in Startable, KeyStarts(t)
    PROVE  Inv'
<1> DEFINE c == cur_process
<1>1. /\ pc = HandlerOf(1) /\ 1 \in IRQs /\ booted # {} /\ t \notin booted
      /\ schedEBP' = [schedEBP EXCEPT ![esp] = Frame(Machine)]
      /\ cur_process' = t /\ isr' = isr \ Lines(1)
      /\ chain' = [chain EXCEPT ![t] = <<t>>]
      /\ booted' = booted \cup {t}
      /\ EBP' = [EBP EXCEPT ![esp] = Lost]
      /\ Begin(t)
    BY HandlerLabels DEF KeyStarts, send_eoi, IRQs
<1>2. /\ pc \in Handlers /\ isr = Lines(1)
      /\ Frame(Machine) = Len(stack[esp]) /\ Standing(esp, stack[esp], pc, Len(stack[esp]))
    BY <1>1, HandlerFacts
<1>3. Typed /\ Chains /\ Turn /\ Parents /\ Threads /\ CpuTyped
    BY DEF Inv, Sound, Typed
<1>4. /\ 1 \in booted /\ c \in booted /\ esp = TopOf(c) /\ c \in Terminals
      /\ t \in Terminals /\ t \in Programs /\ t \in Owners /\ esp \in Programs
    <2>1. t \in Terminals /\ t \in Programs /\ t \in Owners
        BY EntryAssumption, BootApart DEF Terminals
    <2>2. 1 \in booted /\ c \in booted /\ esp = TopOf(c) /\ c \in Terminals
        BY <1>1, <1>3 DEF Turn, Typed
    <2> QED
        BY <1>3, <2>1, <2>2, OthersApart
<1>5. Len(chain[t]) = 0 /\ \A u \in Terminals : \A i \in 1..Len(chain[u]) : chain[u][i] # t
    <2>1. Len(chain[t]) \in Nat /\ ~(Len(chain[t]) > 0)
        BY <1>1, <1>3, <1>4 DEF Typed, Chains
    <2>2. ASSUME NEW u \in Terminals, NEW i \in 1..Len(chain[u])
          PROVE  chain[u][i] # t
        <3>1. Len(chain[u]) \in Nat /\ u \in booted
            BY <1>3, <2>2 DEF Typed, Chains
        <3>2. CASE i = 1
            BY <1>1, <1>3, <3>1, <3>2 DEF Chains
        <3>3. CASE i # 1
            <4>1. i \in 2..Len(chain[u])
                BY <3>1, <3>3
            <4> QED
                BY <1>3, <1>4, <4>1, BootApart DEF Chains
        <3> QED
            BY <3>2, <3>3
    <2> QED
        BY <2>1, <2>2
<1>6. esp # t
    BY <1>3, <1>4, <1>5, OthersApart DEF TopOf
<1>7. /\ CpuTyped' /\ Goes' /\ esp' = t /\ pc' = "user" /\ if_flag' = TRUE
      /\ \A q \in Owners \ {t} : stack'[q] = stack[q]
    <2>1. /\ Fresh(t) \in Machines /\ On(t, Fresh(t), "user")
          /\ if_flag' = TRUE /\ Can(t, Fresh(t), "user") /\ "user" \in Labels
        BY <1>1, <1>4, BeginFacts
    <2> QED
        BY <1>3, <1>4, <2>1, OnFacts DEF On
<1>8. /\ EBP' \in [Programs -> Nat] /\ \A q \in Programs \ {esp} : EBP'[q] = EBP[q]
      /\ schedEBP' \in [Programs -> Nat] /\ schedEBP'[esp] = Len(stack[esp])
      /\ \A q \in Programs \ {esp} : schedEBP'[q] = schedEBP[q]
    <2>1. /\ EBP \in [Programs -> Nat] /\ schedEBP \in [Programs -> Nat] /\ Lost \in Nat
          /\ Len(stack[esp]) \in Nat
        BY <1>3 DEF Typed, CpuTyped, Lost
    <2> QED
        BY <1>1, <1>2, <1>4, <2>1
<1>9. /\ chain' \in [Terminals -> Seq(Programs)]
      /\ Len(chain'[t]) = 1 /\ chain'[t][1] = t
      /\ \A u \in Terminals \ {t} : chain'[u] = chain[u]
    <2>1. <<t>> \in Seq(Programs) /\ Len(<<t>>) = 1 /\ <<t>>[1] = t
        BY <1>4
    <2>2. chain \in [Terminals -> Seq(Programs)]
        BY <1>3 DEF Typed
    <2> QED
        BY <1>1, <1>4, <2>1, <2>2
<1>10. Typed'
    BY <1>1, <1>3, <1>4, <1>7, <1>8, <1>9 DEF Typed
<1>11. \A u \in Terminals : \A i \in 1..Len(chain'[u]) :
          \/ u # t /\ i \in 1..Len(chain[u]) /\ chain'[u][i] = chain[u][i] /\ chain[u][i] # t
          \/ u = t /\ i = 1 /\ chain'[u][i] = t
    <2> SUFFICES ASSUME NEW u \in Terminals, NEW i \in 1..Len(chain'[u])
                 PROVE  \/ u # t /\ i \in 1..Len(chain[u]) /\ chain'[u][i] = chain[u][i]
                              /\ chain[u][i] # t
                        \/ u = t /\ i = 1 /\ chain'[u][i] = t
        OBVIOUS
    <2>1. CASE u # t
        BY <1>5, <1>9, <2>1
    <2>2. CASE u = t
        <3>1. i \in 1..1
            BY <1>9, <2>2
        <3>2. i = 1
            BY <3>1
        <3> QED
            BY <1>9, <2>2, <3>2
    <2> QED
        BY <2>1, <2>2
<1>12. Chains'
    <2>1. \A u \in Terminals : u \in booted' <=> Len(chain'[u]) > 0
        <3>1. \A u \in Terminals \ {t} : u \in booted' <=> Len(chain'[u]) > 0
            BY <1>1, <1>3, <1>9 DEF Chains
        <3>2. t \in booted' /\ Len(chain'[t]) > 0
            BY <1>1, <1>9
        <3> QED
            BY <3>1, <3>2
    <2>2. \A u \in booted' : chain'[u][1] = u
        BY <1>1, <1>3, <1>9 DEF Chains, Typed
    <2>3. \A u \in Terminals : \A i \in 2..Len(chain'[u]) : chain'[u][i] \in Aux
        <3> SUFFICES ASSUME NEW u \in Terminals, NEW i \in 2..Len(chain'[u])
                     PROVE  chain'[u][i] \in Aux
            OBVIOUS
        <3>1. i \in 1..Len(chain'[u]) /\ i # 1
            BY <1>9
        <3>2. i \in 1..Len(chain[u]) => i \in 2..Len(chain[u])
            BY <3>1
        <3> QED
            BY <1>3, <1>11, <3>1, <3>2 DEF Chains
    <2>4. \A u, v \in Terminals : \A i \in 1..Len(chain'[u]), j \in 1..Len(chain'[v]) :
             chain'[u][i] = chain'[v][j] => u = v /\ i = j
        <3> SUFFICES ASSUME NEW u \in Terminals, NEW v \in Terminals,
                            NEW i \in 1..Len(chain'[u]), NEW j \in 1..Len(chain'[v]),
                            chain'[u][i] = chain'[v][j]
                     PROVE  u = v /\ i = j
            OBVIOUS
        <3>1. CASE u = t
            BY <1>11, <3>1
        <3>2. CASE u # t
            BY <1>3, <1>11, <3>2 DEF Chains
        <3> QED
            BY <3>1, <3>2
    <2> QED
        BY <2>1, <2>2, <2>3, <2>4 DEF Chains
<1>13. Turn'
    BY <1>1, <1>4, <1>7, <1>9 DEF Turn, TopOf
<1>14. Parents'
    <2> SUFFICES ASSUME NEW u \in Terminals, NEW i \in 1..(Len(chain'[u]) - 1)
                 PROVE  Waits(chain[u][i])'
        BY DEF Parents
    <2> DEFINE q == chain'[u][i]
    <2>1. u # t
        <3> DEFINE n == Len(chain'[u])
        <3>1. i \in 1..(n - 1)
            OBVIOUS
        <3> HIDE DEF n
        <3>2. n # 1
            BY <3>1
        <3> QED
            BY <1>9, <3>2 DEF n
    <2>2. chain'[u] = chain[u] /\ i \in 1..(Len(chain[u]) - 1) /\ i \in 1..Len(chain[u])
        <3>1. chain'[u] = chain[u] /\ Len(chain[u]) \in Nat
            BY <1>3, <1>9, <2>1 DEF Typed
        <3> QED
            BY <3>1
    <2>3. q \in Programs /\ q # t /\ q # esp /\ Waits(q)
        BY <1>3, <1>5, <2>2, OthersApart DEF Parents
    <2>4. stack'[q] = stack[q] /\ EBP'[q] = EBP[q]
        BY <1>7, <1>8, <2>3, BootApart
    <2> QED
        BY <2>3, <2>4 DEF Waits
<1>15. Threads'
    <2> SUFFICES ASSUME NEW u \in booted
                 PROVE  Asleep(TopOf(u))'
        BY <1>1 DEF Threads
    <2> DEFINE q == TopOf(u)
    <2>1. u \in Terminals \ {t} /\ Len(chain[u]) \in 1..Len(chain[u])
        BY <1>1, <1>3, OthersApart DEF Typed
    <2>2. q \in Programs /\ q # t /\ TopOf(u)' = q /\ q \in Owners
        BY <1>3, <1>5, <1>9, <2>1, OthersApart, BootApart DEF TopOf
    <2>3. stack'[q] = stack[q]
        BY <1>7, <2>2
    <2>4. CASE u = c
        <3>1. q = esp
            BY <1>4, <2>4
        <3> HIDE DEF q
        <3>2. Standing(q, stack'[q], pc, schedEBP'[q])
            BY <1>2, <1>8, <2>3, <3>1
        <3> QED
            BY <1>2, <2>2, <3>2 DEF Asleep
    <2>5. CASE u # c
        <3>1. q # esp /\ Asleep(q)
            BY <1>3, <2>5, OthersApart DEF Threads
        <3>2. schedEBP'[q] = schedEBP[q]
            BY <1>8, <2>2, <3>1
        <3> QED
            BY <2>2, <2>3, <3>1, <3>2 DEF Asleep
    <2> QED
        BY <2>4, <2>5
<1>16. Service'
    <2>1. isr' = {}
        BY <1>1, <1>2
    <2> QED
        BY <1>7, <2>1, OutOfHandlers, ServiceOut
<1> QED
    BY <1>7, <1>10, <1>12, <1>13, <1>14, <1>15, <1>16 DEF Inv, Sound

LEMMA InitSound == Init => Inv
<1> SUFFICES ASSUME Init PROVE Inv
    OBVIOUS
<1>1. /\ regs \in [Registers -> Words] /\ stack \in [Owners -> Seq(Words)]
      /\ esp = Boot /\ pc = "entry" /\ "entry" \in Labels /\ "entry" \in BootLabels
      /\ stack[Boot] = <<>> /\ if_flag = FALSE
    BY WordsTyped, BootApart DEF Init, Labels, BootLabels
<1>2. CpuTyped
    BY <1>1, BootApart DEF CpuTyped
<1>3. Typed
    BY <1>2 DEF Init, Typed, Lost, Terminals
<1>4. \A t \in Terminals : Len(chain[t]) = 0
    BY DEF Init
<1>5. Chains
    BY <1>4 DEF Chains, Init
<1>6. Turn /\ Threads
    BY DEF Init, Turn, Threads
<1>7. Parents
    BY <1>4 DEF Parents
<1>8. Goes
    <2>1. Machine.s = <<>> /\ Len(Machine.s) = 0
        BY <1>1 DEF Machine
    <2>2. Grounded(esp, Machine.s, pc, 0) /\ 0 \in Nat /\ 0 <= Len(Machine.s)
        BY <1>1, <2>1 DEF Grounded
    <2>3. Standing(esp, Machine.s, pc, 0)
        BY <1>1, <2>2, StandingGround, Zenon
    <2>4. Needs(esp, pc, 0, Machine.r)
        BY <1>1, HandlerLabels DEF Needs
    <2> QED
        BY <2>1, <2>3, <2>4 DEF Goes, Can
<1>9. Service
    BY HandlerLabels DEF Init, Service, IRQs
<1> QED
    BY <1>3, <1>5, <1>6, <1>7, <1>8, <1>9 DEF Inv, Sound

LEMMA NextSound == Inv /\ [Next]_vars => Inv'
<1> SUFFICES ASSUME Inv, [Next]_vars PROVE Inv'
    OBVIOUS
<1>1. CASE UNCHANGED vars
    BY <1>1, RequestStep DEF vars, pic
<1>2. ASSUME NEW q \in IRQs, Request(q) PROVE Inv'
    BY <1>2, RequestStep DEF Request
<1>3. ASSUME NEW q \in IRQs, Interrupt(q) PROVE Inv'
    BY <1>3, InterruptStep
<1>4. CASE Instructions
    <2>1. CASE Entry \/ RTC_init \/ pit_init
        BY <2>1, BootStep
    <2>2. CASE Launch
        BY <2>2, LaunchStep
    <2>3. CASE Call \/ CallUnknown \/ RETURN \/ set_handler
        BY <2>3, CallStep
    <2>4. CASE execute
        BY <2>4, executeStep
    <2>5. CASE HaltBase
        BY <2>5, HaltBaseStep
    <2>6. CASE HaltAux
        BY <2>6, HaltAuxStep
    <2>7. CASE Exception
        BY <2>7, ExceptionStep
    <2>8. CASE sys_calls_handler_end \/ linkage_end \/ exc_out \/ linkage_out
        BY <2>8, UnwindStep
    <2>9. CASE PitStays \/ Key \/ RtcTick
        BY <2>9, HandlerStep
    <2>10. CASE PitSwitches
        BY <2>10, PitSwitchesStep
    <2>11. CASE \E t \in Startable : KeyStarts(t)
        BY <2>11, KeyStartsStep
    <2> QED
        BY <1>4, <2>1, <2>2, <2>3, <2>4, <2>5, <2>6, <2>7, <2>8, <2>9, <2>10, <2>11
        DEF Instructions
<1> QED
    BY <1>1, <1>2, <1>3, <1>4 DEF Next, Processor

(* At any time, what the code in progress is about to return through, of a  *)
(* call, an interrupt, a parent's execute or a switched thread, leads back  *)
(* to user mode; no program stands on two stacks.                           *)
THEOREM AlwaysSound == Spec => []Inv
<1>1. Init => Inv
    BY InitSound
<1>2. Inv /\ [Next]_vars => Inv'
    BY NextSound
<1> QED
    BY <1>1, <1>2, PTL DEF Spec

(* A program that is back in user mode has its own registers, EAX that of   *)
(* the call it made, interrupts on and nothing left on its kernel stack,    *)
(* whatever nested in between (sys_calls_linkage, interrupt_linkage, halt,  *)
(* pit_handler).                                                            *)
THEOREM AlwaysUserIntact == Spec => []UserIntact
<1>1. Inv => UserIntact
    BY UserFacts DEF UserIntact, InUser
<1> QED
    BY <1>1, AlwaysSound, PTL

(* No handler turns interrupts on, or leaves for a program that has them    *)
(* on, before it has ended its own interrupt (send_eoi).                    *)
THEOREM AlwaysNoneInService == Spec => []NoneInService
<1>1. Inv => NoneInService
    BY DEF Inv, Service, NoneInService
<1> QED
    BY <1>1, AlwaysSound, PTL
==============================================================================
