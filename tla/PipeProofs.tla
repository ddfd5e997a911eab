----------------------------- MODULE PipeProofs -----------------------------
(***************************************************************************)
(* Theorems about Pipe: nobody sleeps on a pipe without somebody who will  *)
(* wake it, end of file and EPIPE mean what they say, and a pipe is a      *)
(* first-in first-out channel.                                             *)
(***************************************************************************)
EXTENDS Pipe, FiniteSetTheorems, SequenceTheorems, TLAPS

USE DEF Ip, Ip1, Ip2

(* The other processes are where they were, with what they had.            *)
OthersStay(p) ==
  \A q \in Proc \ {p} :
    /\ pc'[q] = pc[q] /\ todo'[q] = todo[q] /\ want'[q] = want[q]
    /\ at'[q] = at[q] /\ buf'[q] = buf[q]

(* wakeup leaves a process asleep on its channel, or lets it run.          *)
LEMMA WakeupFacts ==
  ASSUME TypeOK, NEW S, Wakeup(S)
  PROVE  /\ wchan' \in [Proc -> {Ip, Ip1, Ip2, None}]
         /\ \A q \in Proc : \/ wchan'[q] = None
                            \/ wchan'[q] = wchan[q] /\ wchan[q] \notin S
BY DEF TypeOK, Wakeup

(* What descriptors count depends on the counts and the closing process.  *)
LEMMA DescriptorsKept ==
  ASSUME DescriptorsOK, UNCHANGED files,
         \A q \in Proc : pc'[q] = "closef" <=> pc[q] = "closef"
  PROVE  DescriptorsOK'
<1>1. Closers' = Closers
  BY DEF Closers
<1>2. \A e \in {"r", "w"} : Holders(e)' = Holders(e) /\ (Owed(e)' <=> Owed(e))
  BY DEF Holders, Owed, files
<1>3. QED BY <1>1, <1>2 DEF DescriptorsOK, One, files

(* The users of the inode are the open ends and who is inside.            *)
LEMMA UsersKept ==
  ASSUME UsersOK, UNCHANGED <<fcount, icount, sync>>,
         \A q \in Proc : pc'[q] = "itrunc" <=> pc[q] = "itrunc"
  PROVE  UsersOK'
BY DEF UsersOK, One

(* A descriptor that is open is counted.                                   *)
LEMMA CountedOpen ==
  ASSUME PipeInv, NEW p \in Proc, NEW e \in {"r", "w"}, e \in fds[p]
  PROVE  fcount[e] = Cardinality(Holders(e)) /\ fcount[e] > 0 /\ ~ Owed(e)
<1>1. p \in Holders(e) /\ IsFiniteSet(Holders(e))
  BY PipeAssumption, FS_Subset DEF Holders
<1>2. ~ Owed(e)
  BY <1>1 DEF Owed
<1>3. fcount[e] = Cardinality(Holders(e))
  BY <1>2 DEF PipeInv, DescriptorsOK
<1>4. Cardinality(Holders(e)) # 0
  BY <1>1, FS_EmptySet
<1>5. QED BY <1>2, <1>3, <1>4 DEF PipeInv, TypeOK

(* With the inode unlocked i_count is the number of open ends.             *)
LEMMA UnlockedCount ==
  ASSUME PipeInv, ~ ilock
  PROVE  /\ ~ sync /\ (\A q \in Proc : ~ Inside(q))
         /\ icount = One(fcount["r"] > 0) + One(fcount["w"] > 0)
<1>1. ~ sync /\ \A q \in Proc : ~ Inside(q)
  BY DEF PipeInv, LockOK
<1>2. \A q \in Proc : pc[q] # "itrunc"
  BY <1>1 DEF Inside
<1>3. QED BY <1>1, <1>2 DEF PipeInv, UsersOK, One, TypeOK

---------------------------------------------------------------------------
(* Steps that change nothing but what one process, which runs, is doing.   *)
LEMMA LocalStep ==
  ASSUME PipeInv, NEW p \in Proc, TypeOK', OthersStay(p),
         UNCHANGED <<inode, files, wchan, sync>>, wchan[p] = None,
         pc[p] # "closef", pc'[p] # "closef", ~ Inside(p), ~ Inside(p)', CallOK(p)'
  PROVE  PipeInv'
<1> USE DEF inode
<1>1. DescriptorsOK'
  BY DescriptorsKept DEF PipeInv, OthersStay
<1>2. UsersOK'
  <2>1. \A q \in Proc : pc'[q] = "itrunc" <=> pc[q] = "itrunc"
    BY DEF OthersStay, Inside
  <2>2. QED BY <2>1, UsersKept DEF PipeInv, files
<1>3. LockOK'
  BY DEF PipeInv, LockOK, OthersStay, Inside
<1>4. OffsetOK'
  BY DEF PipeInv, OffsetOK, files, Size
<1>5. ASSUME NEW q \in Proc PROVE CallOK(q)' /\ SleepOK(q)'
  <2>1. CASE q = p
    BY <2>1, PipeAssumption DEF PipeInv, SleepOK
  <2>2. CASE q # p
    BY <2>2 DEF PipeInv, OthersStay, CallOK, SleepOK, files, Size
  <2>3. QED BY <2>1, <2>2
<1>6. QED BY <1>1, <1>2, <1>3, <1>4, <1>5 DEF PipeInv

(* read is called.                                                        *)
LEMMA StartReadInv ==
  ASSUME PipeInv, NEW p \in Proc, StartRead(p)
  PROVE  PipeInv'
<1> USE DEF StartRead, At, Goto
<1>1. TypeOK'
  BY DEF PipeInv, TypeOK, inode, files, Size
<1>2. OthersStay(p) /\ pc[p] = "idle" /\ pc'[p] = "readp" /\ want'[p] \in Reads
  BY DEF PipeInv, TypeOK, OthersStay
<1>3. CallOK(p)'
  BY <1>2 DEF PipeInv, CallOK, files, inode
<1>4. QED BY <1>1, <1>2, <1>3, LocalStep DEF Inside

(* A read that finds the pipe empty and no writer returns nothing.        *)
LEMMA ReadEofInv ==
  ASSUME PipeInv, NEW p \in Proc, ReadEof(p)
  PROVE  PipeInv'
<1> USE DEF ReadEof, Locks, At, Goto
<1>1. TypeOK'
  BY DEF PipeInv, TypeOK, inode, files, Size
<1>2. OthersStay(p) /\ pc[p] = "readp" /\ pc'[p] = "idle"
  BY DEF PipeInv, TypeOK, OthersStay
<1>3. CallOK(p)'
  BY <1>2 DEF PipeInv, CallOK, files, inode
<1>4. QED BY <1>1, <1>2, <1>3, LocalStep DEF Inside

(* A read gives its bytes to the caller.                                  *)
LEMMA ReadReturnInv ==
  ASSUME PipeInv, NEW p \in Proc, ReadReturn(p)
  PROVE  PipeInv'
<1> USE DEF ReadReturn, At, Goto
<1>1. TypeOK'
  BY DEF PipeInv, TypeOK, inode, files, Size
<1>2. OthersStay(p) /\ pc[p] = "return" /\ pc'[p] = "idle" /\ buf'[p] = <<>>
  BY DEF PipeInv, TypeOK, OthersStay
<1>3. CallOK(p)'
  BY <1>2 DEF PipeInv, CallOK, files, inode
<1>4. QED BY <1>1, <1>2, <1>3, LocalStep DEF Inside

(* write is called, with bytes that are its own.                          *)
LEMMA StartWriteInv ==
  ASSUME PipeInv, NEW p \in Proc, StartWrite(p)
  PROVE  PipeInv'
<1> USE DEF StartWrite, At, Goto
<1>1. TypeOK'
  <2>1. PICK n \in Counts : todo' = [todo EXCEPT ![p] = [i \in 1 .. n |-> <<p, i>>]]
    OBVIOUS
  <2>2. [i \in 1 .. n |-> <<p, i>>] \in Seq(Unit)
    BY PipeAssumption DEF Unit
  <2>3. todo' \in [Proc -> Seq(Unit)]
    BY <2>1, <2>2 DEF PipeInv, TypeOK
  <2>4. QED BY <2>3 DEF PipeInv, TypeOK, inode, files, Size
<1>2. OthersStay(p) /\ pc[p] = "idle" /\ pc'[p] = "writep"
  BY DEF PipeInv, TypeOK, OthersStay
<1>3. CallOK(p)'
  BY <1>2 DEF PipeInv, CallOK, files, inode
<1>4. QED BY <1>1, <1>2, <1>3, LocalStep DEF Inside

(* A write whose bytes are all in the pipe returns.                       *)
LEMMA WriteDoneInv ==
  ASSUME PipeInv, NEW p \in Proc, WriteDone(p)
  PROVE  PipeInv'
<1> USE DEF WriteDone, Locks, At, Goto, local
<1>1. TypeOK'
  BY DEF PipeInv, TypeOK, inode, files, Size
<1>2. OthersStay(p) /\ pc[p] = "writep" /\ pc'[p] = "idle"
  BY DEF PipeInv, TypeOK, OthersStay
<1>3. CallOK(p)'
  BY <1>2 DEF PipeInv, CallOK, files, inode
<1>4. QED BY <1>1, <1>2, <1>3, LocalStep DEF Inside

(* A write that finds no reader gives up.                                 *)
LEMMA WriteBrokenInv ==
  ASSUME PipeInv, NEW p \in Proc, WriteBroken(p)
  PROVE  PipeInv'
<1> USE DEF WriteBroken, Locks, At, Goto
<1>1. TypeOK'
  <2>1. todo' \in [Proc -> Seq(Unit)]
    BY DEF PipeInv, TypeOK
  <2>2. QED BY <2>1 DEF PipeInv, TypeOK, inode, files, Size
<1>2. OthersStay(p) /\ pc[p] = "writep" /\ pc'[p] = "idle" /\ todo'[p] = <<>>
  BY DEF PipeInv, TypeOK, OthersStay
<1>3. CallOK(p)'
  BY <1>2 DEF PipeInv, CallOK, files, inode
<1>4. QED BY <1>1, <1>2, <1>3, LocalStep DEF Inside

---------------------------------------------------------------------------
(* Steps in which a process goes to sleep.                                 *)
LEMMA SleepStep ==
  ASSUME PipeInv, NEW p \in Proc, TypeOK',
         UNCHANGED <<ilock, icount, file, offset, files, pc, local, sync>>,
         NEW c \in {Ip, Ip1, Ip2}, Sleep(p, c), SleepOK(p)',
         iwant => iwant', iread => iread', iwrite => iwrite'
  PROVE  PipeInv'
<1>1. DescriptorsOK'
  BY DescriptorsKept DEF PipeInv
<1>2. UsersOK'
  BY UsersKept DEF PipeInv, files
<1>3. LockOK' /\ OffsetOK'
  BY DEF PipeInv, LockOK, Inside, OffsetOK, files, Size
<1>4. ASSUME NEW q \in Proc PROVE CallOK(q)' /\ SleepOK(q)'
  <2>1. CallOK(q)'
    BY DEF PipeInv, CallOK, files, local, Size
  <2>2. CASE q # p
    <3>1. wchan'[q] = wchan[q]
      BY <2>2 DEF Sleep, PipeInv, TypeOK
    <3>2. QED BY <2>1, <3>1 DEF PipeInv, SleepOK, files, local, Size
  <2>3. QED BY <2>1, <2>2
<1>5. QED BY <1>1, <1>2, <1>3, <1>4 DEF PipeInv

(* plock finds the inode locked.                                          *)
LEMMA PlockSleepInv ==
  ASSUME PipeInv, NEW p \in Proc, PlockSleep(p)
  PROVE  PipeInv'
<1> USE DEF PlockSleep, Sleep
<1>1. TypeOK'
  BY DEF PipeInv, TypeOK, files, local, Size
<1>2. wchan'[p] = Ip
  BY DEF PipeInv, TypeOK
<1>3. SleepOK(p)'
  BY <1>2 DEF SleepOK
<1>4. QED BY <1>1, <1>3, SleepStep

(* A read finds the pipe empty and leaves IREAD.                          *)
LEMMA ReadSleepInv ==
  ASSUME PipeInv, NEW p \in Proc, ReadSleep(p)
  PROVE  PipeInv'
<1> USE DEF ReadSleep, Locks, At, Sleep
<1>1. TypeOK'
  BY DEF PipeInv, TypeOK, files, local, Size
<1>2. wchan'[p] = Ip2
  BY DEF PipeInv, TypeOK
<1>3. fcount["w"] > 0
  BY UnlockedCount DEF One
<1>4. SleepOK(p)'
  BY <1>2, <1>3 DEF SleepOK, files, Size
<1>5. QED BY <1>1, <1>4, SleepStep

(* A write finds the pipe full and leaves IWRITE.                         *)
LEMMA WriteSleepInv ==
  ASSUME PipeInv, NEW p \in Proc, WriteSleep(p)
  PROVE  PipeInv'
<1> USE DEF WriteSleep, Locks, At, Sleep
<1>1. TypeOK'
  BY DEF PipeInv, TypeOK, files, local, Size
<1>2. wchan'[p] = Ip1
  BY DEF PipeInv, TypeOK
<1>3. fcount["r"] > 0
  BY UnlockedCount DEF One
<1>4. SleepOK(p)'
  BY <1>2, <1>3 DEF SleepOK, files, local, Size
<1>5. QED BY <1>1, <1>4, SleepStep

---------------------------------------------------------------------------
(* Transfers.                                                              *)
LEMMA BeginStep ==
  ASSUME PipeInv, NEW p \in Proc, TypeOK', OthersStay(p), ~ ilock, ilock',
         UNCHANGED <<iwant, iread, iwrite, icount, file, offset, files, wchan, sync>>,
         wchan[p] = None, pc[p] \in {"readp", "writep"}, pc'[p] \in {"readi", "writei"},
         CallOK(p)'
  PROVE  PipeInv'
<1>1. DescriptorsOK'
  BY DescriptorsKept DEF PipeInv, OthersStay
<1>2. UsersOK'
  <2>1. \A q \in Proc : pc'[q] = "itrunc" <=> pc[q] = "itrunc"
    BY DEF OthersStay
  <2>2. QED BY <2>1, UsersKept DEF PipeInv, files
<1>3. LockOK'
  <2>1. ~ sync /\ \A q \in Proc : ~ Inside(q)
    BY UnlockedCount
  <2>2. QED BY <2>1 DEF LockOK, OthersStay, Inside
<1>4. OffsetOK'
  BY DEF PipeInv, OffsetOK, files, Size
<1>5. ASSUME NEW q \in Proc PROVE CallOK(q)' /\ SleepOK(q)'
  <2>1. CASE q = p
    BY <2>1, PipeAssumption DEF PipeInv, SleepOK
  <2>2. CASE q # p
    BY <2>2 DEF PipeInv, OthersStay, CallOK, SleepOK, files, Size
  <2>3. QED BY <2>1, <2>2
<1>6. QED BY <1>1, <1>2, <1>3, <1>4, <1>5 DEF PipeInv

(* A read goes into readi.                                                *)
LEMMA ReadBeginInv ==
  ASSUME PipeInv, NEW p \in Proc, ReadBegin(p)
  PROVE  PipeInv'
<1> USE DEF ReadBegin, Locks, At, Goto
<1>1. TypeOK'
  BY DEF PipeInv, TypeOK, files, Size
<1>2. OthersStay(p) /\ pc[p] = "readp" /\ pc'[p] = "readi" /\ at'[p] = offset
  BY DEF PipeInv, TypeOK, OthersStay
<1>3. fcount["r"] > 0
  BY CountedOpen DEF PipeInv, CallOK
<1>4. offset < Size
  BY <1>3 DEF PipeInv, OffsetOK
<1>5. CallOK(p)'
  BY <1>2, <1>4 DEF PipeInv, CallOK, files, Size
<1>6. QED BY <1>1, <1>2, <1>5, BeginStep

(* A write goes into writei.                                              *)
LEMMA WriteBeginInv ==
  ASSUME PipeInv, NEW p \in Proc, WriteBegin(p)
  PROVE  PipeInv'
<1> USE DEF WriteBegin, Locks, At, Goto
<1>1. TypeOK'
  <2>1. Size \in 0 .. 2 * PIPSIZ - 1
    BY PipeAssumption, LenProperties DEF PipeInv, TypeOK, Size
  <2>2. at' \in [Proc -> 0 .. 2 * PIPSIZ - 1] /\ pc' \in [Proc -> {"idle", "readp",
             "readi", "return", "writep", "writei", "closef", "itrunc"}]
    BY <2>1 DEF PipeInv, TypeOK
  <2>3. QED BY <2>2 DEF PipeInv, TypeOK, files, Size
<1>2. OthersStay(p) /\ pc[p] = "writep" /\ pc'[p] = "writei" /\ at'[p] = Size
  BY DEF PipeInv, TypeOK, OthersStay
<1>3. fcount["r"] > 0 /\ fcount["w"] > 0
  BY UnlockedCount DEF One
<1>4. CallOK(p)'
  BY <1>2, <1>3 DEF PipeInv, CallOK, files, Size
<1>5. QED BY <1>1, <1>2, <1>4, BeginStep

(* prele lets those who wait for the inode run, and with it some others.   *)
LEMMA PreleFacts ==
  ASSUME PipeInv, NEW S, Prele(S)
  PROVE  /\ ~ ilock' /\ ilock' \in BOOLEAN /\ iwant' \in BOOLEAN
         /\ wchan' \in [Proc -> {Ip, Ip1, Ip2, None}]
         /\ \A q \in Proc : \/ wchan'[q] = None
                            \/ wchan'[q] = wchan[q] /\ wchan[q] \notin S \cup {Ip}
<1>1. TypeOK /\ \A q \in Proc : wchan[q] = Ip => iwant
  BY DEF PipeInv, SleepOK
<1>2. CASE iwant
  BY <1>1, <1>2, WakeupFacts DEF Prele
<1>3. CASE ~ iwant
  BY <1>1, <1>3, WakeupFacts DEF Prele
<1>4. QED BY <1>2, <1>3

(* A part of a sequence is a sequence of the same elements.               *)
LEMMA SubSeqType ==
  ASSUME NEW S, NEW s \in Seq(S), NEW m \in Nat \ {0}, NEW n \in 0 .. Len(s)
  PROVE  /\ SubSeq(s, m, n) \in Seq(S)
         /\ Len(SubSeq(s, m, n)) = IF m <= n THEN n - m + 1 ELSE 0
<1>1. \A i \in m .. n : s[i] \in S
  BY LenProperties
<1>2. QED BY <1>1, SubSeqProperties

(* The end of a transfer: the inode is unlocked, nobody is inside.         *)
LEMMA EndStep ==
  ASSUME PipeInv, NEW p \in Proc, TypeOK', OthersStay(p), Inside(p), ~ ilock',
         UNCHANGED <<icount, files, sync>>,
         pc[p] # "itrunc", pc'[p] \in {"return", "writep"},
         OffsetOK', CallOK(p)', \A q \in Proc : SleepOK(q)'
  PROVE  PipeInv'
<1>1. DescriptorsOK'
  BY DescriptorsKept DEF PipeInv, OthersStay, Inside
<1>2. UsersOK'
  <2>1. \A q \in Proc : pc'[q] = "itrunc" <=> pc[q] = "itrunc"
    BY DEF OthersStay
  <2>2. QED BY <2>1, UsersKept DEF PipeInv, files
<1>3. \A q \in Proc : ~ Inside(q)' /\ (q # p => ~ Inside(q))
  BY DEF PipeInv, LockOK, OthersStay, Inside
<1>4. ~ sync'
  BY DEF PipeInv, LockOK
<1>5. LockOK'
  BY <1>3, <1>4 DEF LockOK
<1>6. ASSUME NEW q \in Proc PROVE CallOK(q)'
  <2>1. CASE q # p
    BY <1>3, <2>1 DEF PipeInv, OthersStay, CallOK, files, Inside
  <2>2. QED BY <2>1
<1>7. QED BY <1>1, <1>2, <1>5, <1>6 DEF PipeInv

(* What readi leaves: it has read something, as far as the end at most.    *)
LEMMA ReadEndFacts ==
  ASSUME PipeInv, NEW p \in Proc, pc[p] = "readi"
  PROVE  /\ offset \in Nat /\ Size \in Nat /\ Size < 2 * PIPSIZ
         /\ at[p] = offset /\ offset < Size
         /\ After(at[p], want[p]) \in offset + 1 .. Size
         /\ SubSeq(file, at[p] + 1, After(at[p], want[p])) \in Seq(Unit)
<1>1. /\ offset \in Nat /\ Size \in Nat /\ Size < 2 * PIPSIZ
      /\ at[p] = offset /\ offset < Size /\ want[p] \in Nat \ {0}
  <2>1. at[p] = offset /\ offset < Size /\ want[p] \in Reads
    BY DEF PipeInv, CallOK
  <2>2. offset \in Nat /\ Size \in Nat /\ Size < 2 * PIPSIZ
    BY PipeAssumption, LenProperties DEF PipeInv, TypeOK, Size
  <2>3. QED BY <2>1, <2>2, PipeAssumption
<1>2. After(at[p], want[p]) \in offset + 1 .. Size
  BY <1>1 DEF After
<1>3. SubSeq(file, at[p] + 1, After(at[p], want[p])) \in Seq(Unit)
  BY <1>1, <1>2, SubSeqType DEF PipeInv, TypeOK, Size
<1>4. QED BY <1>1, <1>2, <1>3

(* readi is over: the offset moves, or an emptied pipe is rewound.        *)
LEMMA ReadEndInv ==
  ASSUME PipeInv, NEW p \in Proc, ReadEnd(p)
  PROVE  PipeInv'
<1> DEFINE end == After(at[p], want[p])
           S == IF end = Size /\ iwrite THEN {Ip1} ELSE {}
<1>1. /\ pc[p] = "readi" /\ buf' = [buf EXCEPT ![p] = SubSeq(file, at[p] + 1, end)]
      /\ \/ end = Size /\ offset' = 0 /\ file' = <<>> /\ iwrite' = FALSE
         \/ end # Size /\ offset' = end /\ UNCHANGED <<file, iwrite>>
      /\ Prele(S)
      /\ want' = [want EXCEPT ![p] = 0] /\ at' = [at EXCEPT ![p] = 0]
      /\ pc' = [pc EXCEPT ![p] = "return"]
      /\ UNCHANGED <<iread, icount, files, todo, sync>>
  BY DEF ReadEnd, At, Goto
<1>2. /\ offset \in Nat /\ Size \in Nat /\ Size < 2 * PIPSIZ /\ offset < Size
      /\ end \in offset + 1 .. Size /\ SubSeq(file, at[p] + 1, end) \in Seq(Unit)
  BY <1>1, ReadEndFacts
<1> HIDE DEF end, S
<1>3. TypeOK'
  <2>1. /\ ilock' \in BOOLEAN /\ iwant' \in BOOLEAN
        /\ wchan' \in [Proc -> {Ip, Ip1, Ip2, None}]
    BY <1>1, PreleFacts
  <2>2. PIPSIZ \in Nat /\ 0 \in 0 .. 2 * PIPSIZ - 1 /\ end \in Nat
    BY <1>2, PipeAssumption
  <2>3. file' \in Seq(Unit) /\ Size' < 2 * PIPSIZ /\ offset' \in 0 .. 2 * PIPSIZ - 1
        /\ iwrite' \in BOOLEAN
    <3>1. CASE file' = <<>> /\ offset' = 0 /\ iwrite' = FALSE
      <4>1. file' \in Seq(Unit) /\ Size' = 0
        BY <3>1 DEF Size
      <4>2. 0 < 2 * PIPSIZ
        BY PipeAssumption
      <4>3. QED BY <2>2, <3>1, <4>1, <4>2
    <3>2. CASE offset' = end /\ end # Size /\ UNCHANGED <<file, iwrite>>
      BY <1>2, <2>2, <3>2 DEF PipeInv, TypeOK, Size
    <3>3. QED BY <1>1, <3>1, <3>2
  <2>4. /\ pc' \in [Proc -> {"idle", "readp", "readi", "return", "writep", "writei",
                             "closef", "itrunc"}]
        /\ want' \in [Proc -> Reads \cup {0}] /\ at' \in [Proc -> 0 .. 2 * PIPSIZ - 1]
        /\ buf' \in [Proc -> Seq(Unit)]
    BY <1>1, <1>2, <2>2 DEF PipeInv, TypeOK
  <2>5. QED BY <1>1, <2>1, <2>3, <2>4 DEF PipeInv, TypeOK, files
<1>4. OthersStay(p) /\ pc'[p] = "return"
  BY <1>1 DEF PipeInv, TypeOK, OthersStay
<1>5. OffsetOK'
  BY <1>1, <1>2 DEF OffsetOK, Size
<1>6. CallOK(p)'
  BY <1>1, <1>4 DEF PipeInv, CallOK
<1>7. ASSUME NEW q \in Proc PROVE SleepOK(q)'
  <2>1. \/ wchan'[q] = None
        \/ wchan'[q] = wchan[q] /\ wchan[q] \notin S \cup {Ip}
    BY <1>1, PreleFacts
  <2>2. wchan[q] # Ip2
    BY <1>2 DEF PipeInv, SleepOK
  <2>3. CASE wchan'[q] = Ip1
    <3>1. wchan[q] = Ip1 /\ iwrite /\ Ip1 \notin S
      BY <2>1, <2>3, PipeAssumption DEF PipeInv, SleepOK
    <3>2. end # Size
      BY <3>1 DEF S
    <3>3. q # p
      BY <1>1, <3>1 DEF PipeInv, SleepOK
    <3>4. QED BY <1>1, <1>4, <2>3, <3>1, <3>2, <3>3
             DEF PipeInv, SleepOK, files, Size, OthersStay
  <2>4. QED BY <2>1, <2>2, <2>3, PipeAssumption DEF SleepOK
<1>8. QED BY <1>1, <1>3, <1>4, <1>5, <1>6, <1>7, PreleFacts, EndStep DEF Inside

(* What writei appends: something, and at most PIPSIZ of it.               *)
LEMMA WriteEndFacts ==
  ASSUME PipeInv, NEW p \in Proc, pc[p] = "writei"
  PROVE  /\ Size \in Nat /\ at[p] = Size /\ Size < PIPSIZ
         /\ Chunk(p) \in 1 .. PIPSIZ /\ Chunk(p) <= Len(todo[p])
         /\ SubSeq(todo[p], 1, Chunk(p)) \in Seq(Unit)
         /\ Len(SubSeq(todo[p], 1, Chunk(p))) = Chunk(p)
         /\ SubSeq(todo[p], Chunk(p) + 1, Len(todo[p])) \in Seq(Unit)
         /\ SubSeq(file, 1, at[p]) = file
<1>1. /\ Size \in Nat /\ at[p] = Size /\ Size < PIPSIZ /\ todo[p] # <<>>
      /\ todo[p] \in Seq(Unit) /\ file \in Seq(Unit) /\ PIPSIZ \in Nat \ {0}
  BY PipeAssumption, LenProperties DEF PipeInv, TypeOK, CallOK, Size
<1>2. Len(todo[p]) \in Nat \ {0}
  BY <1>1, EmptySeq, LenProperties
<1>3. Chunk(p) \in 1 .. PIPSIZ /\ Chunk(p) <= Len(todo[p])
  BY <1>1, <1>2 DEF Chunk
<1> DEFINE c == Chunk(p)
<1> HIDE DEF c
<1>4. SubSeq(todo[p], 1, c) \in Seq(Unit) /\ Len(SubSeq(todo[p], 1, c)) = c
  <2>1. c \in 1 .. Len(todo[p])
    BY <1>1, <1>2, <1>3 DEF c
  <2>2. QED BY <1>1, <1>2, <2>1, SubSeqType
<1>5. SubSeq(todo[p], c + 1, Len(todo[p])) \in Seq(Unit)
  <2>1. c + 1 \in Nat \ {0} /\ Len(todo[p]) \in 0 .. Len(todo[p])
    BY <1>1, <1>2, <1>3 DEF c
  <2>2. QED BY <1>1, <2>1, SubSeqType
<1>6. SubSeq(file, 1, at[p]) = file
  BY <1>1, SubSeqFull DEF Size
<1>7. QED BY <1>1, <1>3, <1>4, <1>5, <1>6 DEF c

(* writei is over: the file is longer by one piece.                       *)
LEMMA WriteEndInv ==
  ASSUME PipeInv, NEW p \in Proc, WriteEnd(p)
  PROVE  PipeInv'
<1> DEFINE c == Chunk(p)
           piece == SubSeq(todo[p], 1, c)
           rest == SubSeq(todo[p], c + 1, Len(todo[p]))
           S == IF iread THEN {Ip2} ELSE {}
<1>1. /\ pc[p] = "writei" /\ file' = SubSeq(file, 1, at[p]) \o piece
      /\ todo' = [todo EXCEPT ![p] = rest] /\ at' = [at EXCEPT ![p] = 0]
      /\ iread' = FALSE /\ Prele(S)
      /\ pc' = [pc EXCEPT ![p] = "writep"]
      /\ UNCHANGED <<iwrite, icount, offset, files, want, buf, sync>>
  BY DEF WriteEnd, At, Goto
<1>2. /\ Size \in Nat /\ Size < PIPSIZ /\ c \in 1 .. PIPSIZ
      /\ piece \in Seq(Unit) /\ Len(piece) = c /\ rest \in Seq(Unit)
      /\ SubSeq(file, 1, at[p]) = file
  BY <1>1, WriteEndFacts
<1> HIDE DEF c, piece, rest, S
<1>3. file' \in Seq(Unit) /\ Size' = Size + c
  BY <1>1, <1>2, ConcatProperties DEF PipeInv, TypeOK, Size
<1>4. TypeOK'
  <2>1. /\ ilock' \in BOOLEAN /\ iwant' \in BOOLEAN
        /\ wchan' \in [Proc -> {Ip, Ip1, Ip2, None}]
    BY <1>1, PreleFacts
  <2>2. Size' < 2 * PIPSIZ
    BY <1>2, <1>3, PipeAssumption
  <2>5. 0 \in 0 .. 2 * PIPSIZ - 1
    BY PipeAssumption
  <2>3. /\ pc' \in [Proc -> {"idle", "readp", "readi", "return", "writep", "writei",
                             "closef", "itrunc"}]
        /\ at' \in [Proc -> 0 .. 2 * PIPSIZ - 1] /\ todo' \in [Proc -> Seq(Unit)]
    BY <1>1, <1>2, <2>5 DEF PipeInv, TypeOK
  <2>4. QED BY <1>1, <1>3, <2>1, <2>2, <2>3 DEF PipeInv, TypeOK, files
<1>5. OthersStay(p) /\ pc'[p] = "writep"
  BY <1>1 DEF PipeInv, TypeOK, OthersStay
<1>6. OffsetOK'
  <2>1. OffsetOK /\ offset \in Nat /\ offset' = offset /\ fcount' = fcount
    BY <1>1 DEF PipeInv, TypeOK, files
  <2>2. QED BY <1>2, <1>3, <2>1 DEF OffsetOK
<1>7. CallOK(p)'
  BY <1>1, <1>5 DEF PipeInv, CallOK, files
<1>8. ASSUME NEW q \in Proc PROVE SleepOK(q)'
  <2>1. \/ wchan'[q] = None
        \/ wchan'[q] = wchan[q] /\ wchan[q] \notin S \cup {Ip}
    BY <1>1, PreleFacts
  <2>2. wchan[q] # Ip1
    BY <1>2, PipeAssumption DEF PipeInv, SleepOK
  <2>3. wchan[q] = Ip2 => Ip2 \in S
    BY DEF PipeInv, SleepOK, S
  <2>4. QED BY <2>1, <2>2, <2>3, PipeAssumption DEF SleepOK
<1>9. QED BY <1>1, <1>4, <1>5, <1>6, <1>7, <1>8, PreleFacts, EndStep DEF Inside

(* A signal ends the call of a process that sleeps on the pipe.            *)
LEMMA SignalInv ==
  ASSUME PipeInv, NEW p \in Proc, Signal(p)
  PROVE  PipeInv'
<1> USE DEF Signal, Goto
<1>1. /\ wchan' \in [Proc -> {Ip, Ip1, Ip2, None}]
      /\ \A q \in Proc : \/ wchan'[q] = None
                         \/ wchan'[q] = wchan[q] /\ wchan[q] # wchan[p]
  BY WakeupFacts DEF PipeInv
<1>2. pc[p] \in {"readp", "writep"}
  BY DEF PipeInv, SleepOK
<1>3. OthersStay(p) /\ pc'[p] = "idle" /\ todo'[p] = <<>>
  BY DEF PipeInv, TypeOK, OthersStay
<1>4. TypeOK'
  <2>1. todo' \in [Proc -> Seq(Unit)]
    BY DEF PipeInv, TypeOK
  <2>2. QED BY <1>1, <2>1 DEF PipeInv, TypeOK, inode, files, Size
<1>5. DescriptorsOK'
  BY <1>2, <1>3, DescriptorsKept DEF PipeInv, OthersStay
<1>6. UsersOK'
  <2>1. \A q \in Proc : pc'[q] = "itrunc" <=> pc[q] = "itrunc"
    BY <1>2, <1>3 DEF OthersStay
  <2>2. QED BY <2>1, UsersKept DEF PipeInv, files, inode
<1>7. LockOK' /\ OffsetOK'
  BY <1>3 DEF PipeInv, LockOK, OthersStay, Inside, OffsetOK, files, Size, inode
<1>8. ASSUME NEW q \in Proc PROVE CallOK(q)' /\ SleepOK(q)'
  <2>1. CASE q = p
    <3>1. wchan'[p] = None
      BY <1>1
    <3>2. SleepOK(p)'
      BY <3>1, PipeAssumption DEF SleepOK
    <3>3. CallOK(p)'
      BY <1>2, <1>3 DEF PipeInv, CallOK
    <3>4. QED BY <2>1, <3>2, <3>3
  <2>2. CASE q # p
    <3>1. CallOK(q)'
      BY <1>3, <2>2 DEF PipeInv, OthersStay, CallOK, inode, files, Size
    <3>2. SleepOK(q)'
      BY <1>1, <1>3, <2>2, PipeAssumption
      DEF PipeInv, OthersStay, SleepOK, inode, files, Size
    <3>3. QED BY <3>1, <3>2
  <2>3. QED BY <2>1, <2>2
<1>9. QED BY <1>4, <1>5, <1>6, <1>7, <1>8 DEF PipeInv

---------------------------------------------------------------------------
(* update locks the inode and counts itself.                               *)
LEMMA SyncBeginInv ==
  ASSUME PipeInv, SyncBegin
  PROVE  PipeInv'
<1> USE DEF SyncBegin
<1>1. /\ ~ sync /\ \A q \in Proc : ~ Inside(q)
      /\ icount = One(fcount["r"] > 0) + One(fcount["w"] > 0)
  BY UnlockedCount
<1>2. TypeOK'
  BY <1>1 DEF PipeInv, TypeOK, files, local, Size, One
<1>3. DescriptorsOK'
  BY DescriptorsKept DEF PipeInv
<1>4. UsersOK'
  <2>1. \A q \in Proc : pc'[q] # "itrunc"
    BY <1>1 DEF Inside
  <2>2. QED BY <1>1, <2>1 DEF UsersOK, One, files
<1>5. LockOK' /\ OffsetOK'
  BY <1>1 DEF PipeInv, LockOK, Inside, OffsetOK, files, Size
<1>6. ASSUME NEW q \in Proc PROVE CallOK(q)' /\ SleepOK(q)'
  BY DEF PipeInv, CallOK, SleepOK, files, local, Size
<1>7. QED BY <1>2, <1>3, <1>4, <1>5, <1>6 DEF PipeInv

(* update unlocks the inode and drops its count.                          *)
LEMMA SyncEndInv ==
  ASSUME PipeInv, SyncEnd
  PROVE  PipeInv'
<1> USE DEF SyncEnd
<1>1. /\ ~ ilock' /\ ilock' \in BOOLEAN /\ iwant' \in BOOLEAN
      /\ wchan' \in [Proc -> {Ip, Ip1, Ip2, None}]
      /\ \A q \in Proc : wchan'[q] = None \/ (wchan'[q] = wchan[q] /\ wchan[q] # Ip)
  BY PreleFacts
<1>2. \A q \in Proc : ~ Inside(q) /\ ~ Inside(q)'
  BY DEF PipeInv, LockOK, Inside
<1>3. icount = One(fcount["r"] > 0) + One(fcount["w"] > 0) + 1
  <2>1. \A q \in Proc : pc[q] # "itrunc"
    BY <1>2 DEF Inside
  <2>2. QED BY <2>1 DEF PipeInv, UsersOK, One
<1>4. UsersOK'
  <2>1. \A q \in Proc : pc'[q] # "itrunc"
    BY <1>2 DEF Inside
  <2>2. QED BY <1>3, <2>1 DEF UsersOK, One, files
<1>5. TypeOK'
  <2>1. icount' \in 0 .. 3
    BY <1>3 DEF One
  <2>2. QED BY <1>1, <2>1 DEF PipeInv, TypeOK, files, local, Size
<1>6. DescriptorsOK'
  BY DescriptorsKept DEF PipeInv
<1>7. LockOK' /\ OffsetOK'
  BY <1>2 DEF PipeInv, LockOK, OffsetOK, files, Size
<1>8. ASSUME NEW q \in Proc PROVE CallOK(q)' /\ SleepOK(q)'
  <2>1. CallOK(q)'
    BY DEF PipeInv, CallOK, files, local, Size
  <2>2. SleepOK(q)'
    BY <1>1, PipeAssumption DEF PipeInv, SleepOK, files, local, Size
  <2>3. QED BY <2>1, <2>2
<1>9. QED BY <1>4, <1>5, <1>6, <1>7, <1>8 DEF PipeInv

---------------------------------------------------------------------------
(* close, of one descriptor among several or of the last of its end.       *)
LEMMA CloseInv ==
  ASSUME PipeInv, NEW p \in Proc, NEW e \in {"r", "w"}, Close(p, e)
  PROVE  PipeInv'
<1> DEFINE o == IF e = "r" THEN "w" ELSE "r"
<1>1. /\ pc[p] = "idle" /\ wchan[p] = None /\ e \in fds[p]
      /\ fds' = [fds EXCEPT ![p] = @ \ {e}]
      /\ \/ /\ fcount[e] > 1 /\ fcount' = [fcount EXCEPT ![e] = @ - 1] /\ pc' = pc
         \/ fcount[e] <= 1 /\ pc' = [pc EXCEPT ![p] = "closef"] /\ fcount' = fcount
      /\ UNCHANGED <<inode, wchan, local, sync>>
  BY DEF Close, At, Goto, PipeInv, TypeOK
<1>2. /\ fcount[e] = Cardinality(Holders(e)) /\ fcount[e] \in Nat \ {0} /\ ~ Owed(e)
      /\ IsFiniteSet(Holders(e)) /\ p \in Holders(e)
  <2>1. fcount[e] = Cardinality(Holders(e)) /\ fcount[e] > 0 /\ ~ Owed(e)
    BY <1>1, CountedOpen
  <2>2. IsFiniteSet(Holders(e)) /\ p \in Holders(e)
    BY <1>1, PipeAssumption, FS_Subset DEF Holders
  <2>3. QED BY <2>1, <2>2 DEF PipeInv, TypeOK
<1>3. /\ fds' \in [Proc -> SUBSET {"r", "w"}]
      /\ fcount' \in [{"r", "w"} -> 0 .. Cardinality(Proc)]
      /\ pc' \in [Proc -> {"idle", "readp", "readi", "return", "writep", "writei",
                           "closef", "itrunc"}]
  <2>1. Cardinality(Proc) \in Nat
    BY PipeAssumption, FS_CardinalityType
  <2>2. fcount' \in [{"r", "w"} -> 0 .. Cardinality(Proc)]
    BY <1>1, <1>2, <2>1 DEF PipeInv, TypeOK
  <2>3. QED BY <1>1, <2>2 DEF PipeInv, TypeOK
<1>4. TypeOK'
  BY <1>1, <1>3 DEF PipeInv, TypeOK, inode, local, Size
<1>5. /\ Holders(e)' = Holders(e) \ {p} /\ Holders(o)' = Holders(o)
      /\ \A q \in Proc \ {p} : fds'[q] = fds[q] /\ pc'[q] = pc[q]
  BY <1>1 DEF Holders, PipeInv, TypeOK
<1>6. /\ fcount'[o] = fcount[o] /\ (Owed(o)' <=> Owed(o))
      /\ o \in {"r", "w"} /\ {e, o} = {"r", "w"} /\ e # o
  BY <1>1, <1>5 DEF Owed, PipeInv, TypeOK
<1>7. Cardinality(Holders(e)') = Cardinality(Holders(e)) - 1
  BY <1>2, <1>5, FS_RemoveElement
<1>8. /\ fcount'[e] = Cardinality(Holders(e)') \/ Owed(e)'
      /\ fcount'[e] > 0
      /\ \/ pc' = pc /\ ~ Owed(e)'
         \/ pc' = [pc EXCEPT ![p] = "closef"] /\ Owed(e)'
  <2>1. CASE fcount[e] > 1
    <3>1. fcount'[e] = fcount[e] - 1 /\ pc' = pc
      BY <1>1, <2>1 DEF PipeInv, TypeOK
    <3>2. fcount'[e] = Cardinality(Holders(e)') /\ fcount'[e] > 0
      BY <1>2, <1>7, <2>1, <3>1
    <3>3. Holders(e)' # {}
      BY <3>2, FS_EmptySet
    <3>4. QED BY <3>1, <3>2, <3>3 DEF Owed
  <2>2. CASE fcount[e] <= 1
    <3>1. fcount'[e] = 1 /\ pc' = [pc EXCEPT ![p] = "closef"]
      BY <1>1, <1>2, <2>2
    <3>2. Cardinality(Holders(e)') = 0
      BY <1>2, <1>7, <2>2
    <3>3. Holders(e)' = {}
      <4>1. IsFiniteSet(Holders(e)')
        BY <1>2, <1>5, FS_RemoveElement
      <4>2. QED BY <3>2, <4>1, FS_EmptySet
    <3>4. QED BY <3>1, <3>3 DEF Owed
  <2>3. QED BY <1>2, <2>1, <2>2
<1>9. Cardinality(Closers') = One(Owed(e)') + One(Owed(o)')
  <2>1. Cardinality(Closers) = One(Owed(o)) /\ IsFiniteSet(Closers) /\ p \notin Closers
    <3>1. IsFiniteSet(Closers) /\ p \notin Closers
      BY <1>1, PipeAssumption, FS_Subset DEF Closers
    <3>2. QED BY <1>2, <1>6, <3>1 DEF PipeInv, DescriptorsOK, One
  <2>2. CASE pc' = pc /\ ~ Owed(e)'
    <3>1. Closers' = Closers
      BY <2>2 DEF Closers
    <3>2. QED BY <1>6, <2>1, <2>2, <3>1 DEF One
  <2>3. CASE pc' = [pc EXCEPT ![p] = "closef"] /\ Owed(e)'
    <3>1. Closers' = Closers \cup {p}
      BY <2>3 DEF Closers, PipeInv, TypeOK
    <3>2. Cardinality(Closers') = Cardinality(Closers) + 1
      BY <2>1, <3>1, FS_AddElement
    <3>3. QED BY <1>6, <2>1, <2>3, <3>2 DEF One
  <2>4. QED BY <1>8, <2>2, <2>3
<1>10. DescriptorsOK'
  <2>1. fcount'[o] = Cardinality(Holders(o)') \/ Owed(o)'
    BY <1>5, <1>6 DEF PipeInv, DescriptorsOK
  <2>2. One(Owed(e)') + One(Owed(o)') = One(Owed("r")') + One(Owed("w")')
    BY <1>6 DEF One
  <2>3. QED BY <1>6, <1>8, <1>9, <2>1, <2>2 DEF DescriptorsOK
<1>11. \A d \in {"r", "w"} : fcount'[d] > 0 <=> fcount[d] > 0
  BY <1>2, <1>6, <1>8
<1>12. UsersOK'
  <2>1. \A q \in Proc : pc'[q] = "itrunc" <=> pc[q] = "itrunc"
    BY <1>1, <1>5, <1>8 DEF PipeInv, TypeOK
  <2>2. QED BY <1>1, <1>11, <2>1 DEF PipeInv, UsersOK, One, inode
<1>13. \A q \in Proc : (Inside(q)' <=> Inside(q)) /\ (pc'[q] # pc[q] => q = p)
  BY <1>1, <1>5, <1>8 DEF Inside, PipeInv, TypeOK
<1>14. LockOK' /\ OffsetOK'
  BY <1>1, <1>11, <1>13 DEF PipeInv, LockOK, OffsetOK, Size, inode
<1>15. ASSUME NEW q \in Proc PROVE CallOK(q)' /\ SleepOK(q)'
  <2>1. fcount \in [{"r", "w"} -> Nat] /\ fcount' \in [{"r", "w"} -> Nat]
    BY <1>3 DEF PipeInv, TypeOK
  <2>2. CASE q = p
    <3>1. CallOK(p)'
      BY <1>1, <1>8 DEF PipeInv, CallOK, TypeOK, local
    <3>2. SleepOK(p)'
      BY <1>1, PipeAssumption DEF SleepOK
    <3>3. QED BY <2>2, <3>1, <3>2
  <2>3. CASE q # p
    BY <1>1, <1>5, <1>11, <2>1, <2>3 DEF PipeInv, CallOK, SleepOK, local, inode, Size
  <2>4. QED BY <2>2, <2>3
<1>16. QED BY <1>4, <1>10, <1>12, <1>14, <1>15 DEF PipeInv

(* The end whose last close a process in closef goes on with.              *)
LEMMA ClosingFacts ==
  ASSUME PipeInv, NEW p \in Proc, pc[p] = "closef"
  PROVE  Closing(p) \in {"r", "w"} /\ Owed(Closing(p))
<1>1. IsFiniteSet(Closers) /\ Cardinality(Closers) # 0
  <2>1. IsFiniteSet(Closers) /\ p \in Closers
    BY PipeAssumption, FS_Subset DEF Closers
  <2>2. QED BY <2>1, FS_EmptySet
<1>2. \E e \in {"r", "w"} : Owed(e)
  BY <1>1 DEF PipeInv, DescriptorsOK, One
<1>3. \A e \in {"r", "w"} :
        Owed(e) <=> fcount[e] = 1 /\ \A q \in Proc : e \notin fds[q]
  BY DEF Owed, Holders
<1>4. QED BY <1>2, <1>3 DEF Closing

(* closef shuts an end, wakes the sleepers and releases the inode.        *)
LEMMA ClosefInv ==
  ASSUME PipeInv, NEW p \in Proc, Closef(p)
  PROVE  PipeInv'
<1>0. PICK e \in {"r", "w"} : e = Closing(p) /\ Owed(e)
  BY ClosingFacts DEF Closef, Locks, At
<1> DEFINE o == IF e = "r" THEN "w" ELSE "r"
<1>1. /\ pc[p] = "closef" /\ wchan[p] = None /\ ~ ilock
      /\ fcount' = [fcount EXCEPT ![e] = 0] /\ iread' = FALSE /\ iwrite' = FALSE
      /\ \/ /\ icount = 1 /\ ilock' = TRUE /\ Wakeup({Ip1, Ip2})
            /\ pc' = [pc EXCEPT ![p] = "itrunc"] /\ UNCHANGED <<iwant, icount>>
         \/ /\ icount # 1 /\ icount' = icount - 1 /\ Prele({Ip1, Ip2})
            /\ pc' = [pc EXCEPT ![p] = "idle"]
      /\ UNCHANGED <<file, offset, fds, local, sync>>
  BY <1>0 DEF Closef, Locks, At, Goto
<1>2. e \in {"r", "w"} /\ Owed(e) /\ fcount[e] = 1 /\ Holders(e) = {}
  BY <1>0 DEF Owed
<1>3. o \in {"r", "w"} /\ {e, o} = {"r", "w"} /\ e # o
  BY <1>2
<1>4. fcount'[e] = 0 /\ fcount'[o] = fcount[o] /\ fcount[o] \in Nat
  BY <1>1, <1>2, <1>3 DEF PipeInv, TypeOK
<1>5. ~ sync /\ (\A q \in Proc : ~ Inside(q)) /\ icount = 1 + One(fcount[o] > 0)
  BY <1>1, <1>2, <1>3, UnlockedCount DEF One
<1>6. /\ ilock' \in BOOLEAN /\ iwant' \in BOOLEAN
      /\ wchan' \in [Proc -> {Ip, Ip1, Ip2, None}]
      /\ \A q \in Proc : wchan'[q] = None
  <2>1. \A q \in Proc : wchan[q] # Ip
    BY <1>1 DEF PipeInv, SleepOK
  <2>2. CASE Wakeup({Ip1, Ip2}) /\ ilock' = TRUE /\ UNCHANGED iwant
    BY <2>1, <2>2, WakeupFacts DEF PipeInv, TypeOK
  <2>3. CASE Prele({Ip1, Ip2})
    BY <2>1, <2>3, PreleFacts DEF PipeInv, TypeOK
  <2>4. QED BY <1>1, <2>2, <2>3
<1>7. /\ pc' \in [Proc -> {"idle", "readp", "readi", "return", "writep", "writei",
                           "closef", "itrunc"}]
      /\ \A q \in Proc \ {p} : pc'[q] = pc[q]
      /\ \/ icount = 1 /\ pc'[p] = "itrunc" /\ ilock' /\ icount' = 1 /\ fcount[o] = 0
         \/ icount = 2 /\ pc'[p] = "idle" /\ icount' = 1 /\ fcount[o] > 0
  <2>1. /\ pc' \in [Proc -> {"idle", "readp", "readi", "return", "writep", "writei",
                             "closef", "itrunc"}]
        /\ \A q \in Proc \ {p} : pc'[q] = pc[q]
    BY <1>1 DEF PipeInv, TypeOK
  <2>2. icount = 1 <=> fcount[o] = 0
    BY <1>4, <1>5 DEF One
  <2>3. \/ icount = 1 /\ pc'[p] = "itrunc" /\ ilock' /\ icount' = 1 /\ fcount[o] = 0
        \/ icount = 2 /\ pc'[p] = "idle" /\ icount' = 1 /\ fcount[o] > 0
    <3>1. CASE icount = 1
      BY <1>1, <2>2, <3>1 DEF PipeInv, TypeOK
    <3>2. CASE icount # 1
      BY <1>1, <1>4, <1>5, <2>2, <3>2 DEF PipeInv, TypeOK, One
    <3>3. QED BY <3>1, <3>2
  <2>4. QED BY <2>1, <2>3
<1>8. TypeOK'
  <2>1. fcount' \in [{"r", "w"} -> 0 .. Cardinality(Proc)]
    <3>1. Cardinality(Proc) \in Nat
      BY PipeAssumption, FS_CardinalityType
    <3>2. 0 \in 0 .. Cardinality(Proc)
      BY <3>1
    <3>3. QED BY <1>1, <1>2, <3>2 DEF PipeInv, TypeOK
  <2>2. /\ icount' \in 0 .. 3 /\ iread' \in BOOLEAN /\ iwrite' \in BOOLEAN
        /\ sync' \in BOOLEAN
    <3>1. icount' \in 0 .. 3
      BY <1>7
    <3>2. sync' \in BOOLEAN
      BY <1>1 DEF PipeInv, TypeOK
    <3>3. QED BY <1>1, <3>1, <3>2
  <2>3. QED BY <1>1, <1>6, <1>7, <2>1, <2>2 DEF PipeInv, TypeOK, local, Size
<1>9. DescriptorsOK'
  <2>1. Holders(e)' = {} /\ Holders(o)' = Holders(o) /\ ~ Owed(e)' /\ (Owed(o)' <=> Owed(o))
    <3>1. Holders(e)' = Holders(e) /\ Holders(o)' = Holders(o)
      BY <1>1 DEF Holders
    <3>2. QED BY <1>2, <1>4, <3>1 DEF Owed
  <2>2. fcount'[e] = Cardinality(Holders(e)')
    BY <1>4, <2>1, FS_EmptySet
  <2>3. fcount'[o] = Cardinality(Holders(o)') \/ Owed(o)'
    BY <1>3, <1>4, <2>1 DEF PipeInv, DescriptorsOK
  <2>4. Closers' = Closers \ {p} /\ p \in Closers /\ IsFiniteSet(Closers)
    BY <1>1, <1>7, PipeAssumption, FS_Subset DEF Closers
  <2>5. Cardinality(Closers') = Cardinality(Closers) - 1
    BY <2>4, FS_RemoveElement
  <2>6. Cardinality(Closers) = 1 + One(Owed(o))
    BY <1>2, <1>3 DEF PipeInv, DescriptorsOK, One
  <2>7. Cardinality(Closers') = One(Owed(e)') + One(Owed(o)')
    BY <2>1, <2>5, <2>6 DEF One
  <2>8. One(Owed(e)') + One(Owed(o)') = One(Owed("r")') + One(Owed("w")')
    <3>1. CASE e = "r"
      BY <3>1
    <3>2. CASE e = "w"
      BY <3>2 DEF One
    <3>3. QED BY <1>2, <3>1, <3>2
  <2>9. \A d \in {"r", "w"} : fcount'[d] = Cardinality(Holders(d)') \/ Owed(d)'
    BY <1>3, <2>2, <2>3
  <2>10. QED BY <2>7, <2>8, <2>9 DEF DescriptorsOK
<1>10. \A q \in Proc : pc[q] # "itrunc" /\ (q # p => pc'[q] # "itrunc")
  BY <1>5, <1>7 DEF Inside
<1>11. UsersOK'
  <2>1. One(fcount'[e] > 0) + One(fcount'[o] > 0)
          = One(fcount'["r"] > 0) + One(fcount'["w"] > 0)
    BY <1>2 DEF One
  <2>2. One(fcount'[e] > 0) = 0 /\ sync' = FALSE
    BY <1>1, <1>4, <1>5 DEF One, PipeInv, TypeOK
  <2>3. CASE pc'[p] = "itrunc" /\ icount' = 1 /\ fcount'[o] = 0
    BY <2>1, <2>2, <2>3 DEF UsersOK, One
  <2>4. CASE pc'[p] = "idle" /\ icount' = 1 /\ fcount'[o] > 0
    <3>1. \A q \in Proc : pc'[q] # "itrunc"
      BY <1>10, <2>4
    <3>2. QED BY <2>1, <2>2, <2>4, <3>1 DEF UsersOK, One
  <2>5. QED BY <1>4, <1>7, <2>3, <2>4
<1>12. LockOK'
  <2>1. \A q \in Proc : Inside(q)' => q = p /\ ilock'
    BY <1>5, <1>7 DEF Inside
  <2>2. ~ sync'
    BY <1>1, <1>5
  <2>3. QED BY <2>1, <2>2 DEF LockOK
<1>13. OffsetOK'
  BY <1>1, <1>2, <1>4 DEF PipeInv, OffsetOK, Size
<1>14. ASSUME NEW q \in Proc PROVE CallOK(q)' /\ SleepOK(q)'
  <2>1. SleepOK(q)'
    BY <1>6, PipeAssumption DEF SleepOK
  <2>2. CASE q = p
    BY <1>1, <1>2, <1>3, <1>4, <1>7, <2>1, <2>2 DEF PipeInv, CallOK, local
  <2>3. CASE q # p
    BY <1>1, <1>5, <1>7, <2>1, <2>3 DEF PipeInv, CallOK, local, Inside, Size
  <2>4. QED BY <2>2, <2>3
<1>15. QED BY <1>8, <1>9, <1>11, <1>12, <1>13, <1>14 DEF PipeInv

(* iput of the last user truncates the file.                               *)
LEMMA IputLastInv ==
  ASSUME PipeInv, NEW p \in Proc, IputLast(p)
  PROVE  PipeInv'
<1>1. /\ pc[p] = "itrunc" /\ file' = <<>> /\ icount' = 0 /\ Prele({})
      /\ pc' = [pc EXCEPT ![p] = "idle"]
      /\ UNCHANGED <<iread, iwrite, offset, files, local, sync>>
  BY DEF IputLast, At, Goto
<1>2. /\ ilock' \in BOOLEAN /\ iwant' \in BOOLEAN /\ ~ ilock'
      /\ wchan' \in [Proc -> {Ip, Ip1, Ip2, None}]
      /\ \A q \in Proc : \/ wchan'[q] = None
                         \/ wchan'[q] = wchan[q] /\ wchan[q] # Ip
  BY <1>1, PreleFacts
<1>3. /\ fcount["r"] = 0 /\ fcount["w"] = 0 /\ ~ sync
      /\ \A q \in Proc \ {p} : ~ Inside(q)
  BY <1>1 DEF PipeInv, CallOK, LockOK, Inside
<1>4. /\ OthersStay(p) /\ pc'[p] = "idle"
  BY <1>1 DEF PipeInv, TypeOK, OthersStay, local
<1>5. TypeOK'
  <2>1. file' \in Seq(Unit) /\ Size' = 0
    BY <1>1 DEF Size
  <2>2. Size' < 2 * PIPSIZ
    BY <2>1, PipeAssumption
  <2>3. pc' \in [Proc -> {"idle", "readp", "readi", "return", "writep", "writei",
                          "closef", "itrunc"}]
    BY <1>1 DEF PipeInv, TypeOK
  <2>4. QED BY <1>1, <1>2, <2>1, <2>2, <2>3 DEF PipeInv, TypeOK, files, local
<1>6. DescriptorsOK'
  BY <1>1, <1>4, DescriptorsKept DEF PipeInv, OthersStay
<1>7. UsersOK'
  <2>1. \A q \in Proc : pc'[q] # "itrunc"
    BY <1>3, <1>4 DEF Inside, OthersStay
  <2>2. QED BY <1>1, <1>3, <2>1 DEF UsersOK, One, files
<1>8. LockOK' /\ OffsetOK'
  BY <1>1, <1>3, <1>4 DEF LockOK, OffsetOK, Inside, OthersStay, files
<1>9. ASSUME NEW q \in Proc PROVE CallOK(q)' /\ SleepOK(q)'
  <2>1. wchan'[q] = None
    <3>1. wchan[q] # Ip1 /\ wchan[q] # Ip2
      BY <1>3 DEF PipeInv, SleepOK
    <3>2. QED BY <1>2, <3>1 DEF PipeInv, TypeOK
  <2>2. SleepOK(q)'
    BY <2>1, PipeAssumption DEF SleepOK
  <2>3. CallOK(q)'
    BY <1>1, <1>3, <1>4 DEF PipeInv, CallOK, OthersStay, Inside, files, local
  <2>4. QED BY <2>2, <2>3
<1>10. QED BY <1>5, <1>6, <1>7, <1>8, <1>9 DEF PipeInv

---------------------------------------------------------------------------
(* pipe() has been called and the descriptors are handed out.              *)
LEMMA InitInv == Init => PipeInv
<1> SUFFICES ASSUME Init PROVE PipeInv
  OBVIOUS
<1> USE DEF Init
<1>1. \A e \in {"r", "w"} :
        /\ Holders(e) = {p \in Proc : e \in Ends[p]} /\ fcount[e] = Cardinality(Holders(e))
        /\ fcount[e] \in 1 .. Cardinality(Proc) /\ ~ Owed(e)
  <2> TAKE e \in {"r", "w"}
  <2>1. Holders(e) = {p \in Proc : e \in Ends[p]} /\ fcount[e] = Cardinality(Holders(e))
    BY DEF Holders
  <2>2. Holders(e) # {} /\ Holders(e) \in SUBSET Proc
    BY PipeAssumption DEF Holders
  <2>3. /\ IsFiniteSet(Holders(e)) /\ Cardinality(Holders(e)) <= Cardinality(Proc)
        /\ Cardinality(Proc) \in Nat
    BY <2>2, PipeAssumption, FS_Subset, FS_CardinalityType
  <2>4. Cardinality(Holders(e)) \in Nat \ {0}
    BY <2>2, <2>3, FS_EmptySet, FS_CardinalityType
  <2>5. QED BY <2>1, <2>2, <2>3, <2>4 DEF Owed
<1>2. TypeOK
  <2>1. PIPSIZ \in Nat \ {0} /\ 0 \in 0 .. 2 * PIPSIZ - 1
    BY PipeAssumption
  <2>2. file \in Seq(Unit) /\ Size = 0
    BY DEF Size
  <2>3. fcount \in [{"r", "w"} -> 0 .. Cardinality(Proc)]
    BY <1>1
  <2>4. fds \in [Proc -> SUBSET {"r", "w"}]
    BY PipeAssumption
  <2>5. /\ todo \in [Proc -> Seq(Unit)] /\ buf \in [Proc -> Seq(Unit)]
        /\ at \in [Proc -> 0 .. 2 * PIPSIZ - 1] /\ want \in [Proc -> Reads \cup {0}]
    BY <2>1
  <2>6. /\ pc \in [Proc -> {"idle", "readp", "readi", "return", "writep", "writei",
                            "closef", "itrunc"}]
        /\ wchan \in [Proc -> {Ip, Ip1, Ip2, None}] /\ icount \in 0 .. 3
    OBVIOUS
  <2>7. Size < 2 * PIPSIZ /\ offset \in 0 .. 2 * PIPSIZ - 1
    BY <2>1, <2>2
  <2>8. {ilock, iwant, iread, iwrite, sync} \subseteq BOOLEAN
    OBVIOUS
  <2>9. QED BY <2>2, <2>3, <2>4, <2>5, <2>6, <2>7, <2>8 DEF TypeOK
<1>3. DescriptorsOK
  <2>1. Cardinality(Closers) = 0
    BY FS_EmptySet DEF Closers
  <2>2. QED BY <1>1, <2>1 DEF DescriptorsOK, One
<1>4. UsersOK
  <2>1. fcount["r"] > 0 /\ fcount["w"] > 0
    BY <1>1
  <2>2. QED BY <2>1 DEF UsersOK, One
<1>5. LockOK /\ OffsetOK
  BY DEF LockOK, Inside, OffsetOK, Size
<1>6. \A p \in Proc : CallOK(p) /\ SleepOK(p)
  BY PipeAssumption DEF CallOK, SleepOK
<1>7. QED BY <1>2, <1>3, <1>4, <1>5, <1>6 DEF PipeInv

(* A step that changes nothing preserves the inductive invariant.         *)
LEMMA StutterInv == PipeInv /\ UNCHANGED vars => PipeInv'
<1> SUFFICES ASSUME PipeInv, UNCHANGED vars PROVE PipeInv'
  OBVIOUS
<1> USE DEF vars, inode, files, local
<1>1. TypeOK'
  BY DEF PipeInv, TypeOK, Size
<1>2. DescriptorsOK' /\ UsersOK'
  BY DescriptorsKept, UsersKept DEF PipeInv
<1>3. LockOK' /\ OffsetOK' /\ \A p \in Proc : CallOK(p)' /\ SleepOK(p)'
  BY DEF PipeInv, LockOK, Inside, OffsetOK, CallOK, SleepOK, Size
<1>4. QED BY <1>1, <1>2, <1>3 DEF PipeInv

(* Every step preserves the inductive invariant.                           *)
LEMMA NextInv == PipeInv /\ [Next]_vars => PipeInv'
<1> SUFFICES ASSUME PipeInv, [Next]_vars PROVE PipeInv'
  OBVIOUS
<1>1. ASSUME NEW p \in Proc, Step(p) \/ Call(p) \/ Signal(p) PROVE PipeInv'
  BY <1>1, PlockSleepInv, ReadEofInv, ReadSleepInv, ReadBeginInv, ReadEndInv,
     ReadReturnInv, WriteDoneInv, WriteBrokenInv, WriteSleepInv, WriteBeginInv,
     WriteEndInv, ClosefInv, IputLastInv, StartReadInv, StartWriteInv, SignalInv
  DEF Step, Call
<1>2. ASSUME NEW p \in Proc, NEW e \in {"r", "w"}, Close(p, e) PROVE PipeInv'
  BY <1>2, CloseInv
<1>3. CASE SyncBegin \/ SyncEnd
  BY <1>3, SyncBeginInv, SyncEndInv
<1>4. CASE UNCHANGED vars
  BY <1>4, StutterInv
<1>5. QED BY <1>1, <1>2, <1>3, <1>4 DEF Next

(* The inductive invariant holds of every behaviour of the pipe.           *)
THEOREM Invariance == Spec => []PipeInv
BY InitInv, NextInv, PTL DEF Spec

(* pipe.c: "make sure the pipe protocol does not constipate": whoever      *)
(* sleeps on a pipe has left its flag, the condition it waits for does not *)
(* hold, and the other end is open, whatever signals, closes and update do *)
(* while the processes sleep.                                              *)
THEOREM SleepersAreDue == Spec => []NoConstipation
<1>1. PipeInv => NoConstipation
  BY DEF PipeInv, SleepOK, NoConstipation
<1>2. QED BY <1>1, Invariance, PTL

(* readp and writep test i_count, which update and the other end's close   *)
(* change: end of file is said of an empty pipe without writers only, and  *)
(* EPIPE of one without readers only.                                      *)
THEOREM EndsAreTold == Spec => EndsMeetCalls
<1>1. ASSUME PipeInv, NEW p \in Proc
      PROVE  /\ ReadEof(p) => fcount["w"] = 0 /\ Size = 0
             /\ WriteBroken(p) => fcount["r"] = 0
  <2>1. fcount["r"] \in Nat /\ fcount["w"] \in Nat
    BY <1>1 DEF PipeInv, TypeOK
  <2>2. CASE ReadEof(p)
    <3>1. ~ ilock /\ icount < 2 /\ Size = 0 /\ "r" \in fds[p]
      BY <1>1, <2>2 DEF ReadEof, Locks, At, PipeInv, CallOK
    <3>2. fcount["r"] > 0 /\ icount = One(fcount["r"] > 0) + One(fcount["w"] > 0)
      BY <1>1, <3>1, CountedOpen, UnlockedCount
    <3>3. fcount["w"] = 0
      BY <2>1, <3>1, <3>2 DEF One
    <3>4. QED BY <2>2, <3>1, <3>3 DEF ReadEof, WriteBroken, Locks, At
  <2>3. CASE WriteBroken(p)
    <3>1. ~ ilock /\ icount < 2 /\ "w" \in fds[p]
      BY <1>1, <2>3 DEF WriteBroken, Locks, At, PipeInv, CallOK
    <3>2. fcount["w"] > 0 /\ icount = One(fcount["r"] > 0) + One(fcount["w"] > 0)
      BY <1>1, <3>1, CountedOpen, UnlockedCount
    <3>3. fcount["r"] = 0
      BY <2>1, <3>1, <3>2 DEF One
    <3>4. QED BY <2>3, <3>3 DEF ReadEof, WriteBroken, Locks, At
  <2>4. QED BY <2>2, <2>3
<1>2. PipeInv => \A p \in Proc : /\ ReadEof(p) => fcount["w"] = 0 /\ Size = 0
                                 /\ WriteBroken(p) => fcount["r"] = 0
  BY <1>1
<1>3. QED BY <1>2, Invariance, PTL DEF EndsMeetCalls

---------------------------------------------------------------------------
(* The pipe as a channel: every step is a step of Channel, or changes      *)
(* nothing that Channel speaks of.                                         *)
Queue == SubSeq(file, offset + 1, Size)
Open == {e \in {"r", "w"} : fcount[e] > 0}
AbstractStep == [Abstract!Next]_(Abstract!vars)

(* Whatever leaves queue, ends and calls alone is a stutter.              *)
LEMMA StutterStep ==
  ASSUME UNCHANGED <<file, offset, fcount, todo, buf>>
  PROVE  AbstractStep
BY DEF AbstractStep, Abstract!vars, Size

(* What a read took is given to its caller.                               *)
LEMMA ReadReturnChannel ==
  ASSUME NEW p \in Proc, ReadReturn(p)
  PROVE  AbstractStep
<1>1. Abstract!Taken(p)
  BY DEF ReadReturn, Abstract!Taken, inode, files, Size
<1>2. QED BY <1>1 DEF AbstractStep, Abstract!Next

(* A write puts its bytes before the channel.                             *)
LEMMA StartWriteChannel ==
  ASSUME PipeInv, NEW p \in Proc, StartWrite(p)
  PROVE  AbstractStep
<1>1. "w" \in Open /\ todo[p] = <<>>
  BY CountedOpen DEF StartWrite, At, Open, PipeInv, CallOK
<1>2. PICK n \in Counts : todo' = [todo EXCEPT ![p] = [i \in 1 .. n |-> <<p, i>>]]
  BY DEF StartWrite
<1>3. Abstract!Write(p, n)
  BY <1>1, <1>2 DEF StartWrite, Abstract!Write, Open, inode, files, Size
<1>4. QED BY <1>3 DEF AbstractStep, Abstract!Next

(* EPIPE, or a signal, ends a write before it is complete.                 *)
LEMMA GiveUpChannel ==
  ASSUME PipeInv, NEW p \in Proc, todo' = [todo EXCEPT ![p] = <<>>],
         UNCHANGED <<file, offset, fcount, buf>>
  PROVE  AbstractStep
<1>1. CASE todo[p] = <<>>
  <2>1. todo' = todo
    BY <1>1 DEF PipeInv, TypeOK
  <2>2. QED BY <2>1, StutterStep
<1>2. CASE todo[p] # <<>>
  <2>1. Abstract!GiveUp(p)
    BY <1>2 DEF Abstract!GiveUp, Size
  <2>2. QED BY <2>1 DEF AbstractStep, Abstract!Next
<1>3. QED BY <1>1, <1>2

(* readi takes a first part of what is queued.                             *)
LEMMA ReadEndChannel ==
  ASSUME PipeInv, NEW p \in Proc, ReadEnd(p)
  PROVE  AbstractStep
<1> DEFINE end == After(at[p], want[p])
           n == end - offset
<1>1. /\ pc[p] = "readi" /\ buf' = [buf EXCEPT ![p] = SubSeq(file, at[p] + 1, end)]
      /\ \/ end = Size /\ offset' = 0 /\ file' = <<>>
         \/ end # Size /\ offset' = end /\ file' = file
      /\ UNCHANGED <<fcount, todo>>
  BY DEF ReadEnd, At, files
<1>2. /\ offset \in Nat /\ Size \in Nat /\ offset < Size /\ at[p] = offset
      /\ end \in offset + 1 .. Size /\ file \in Seq(Unit)
  BY <1>1, ReadEndFacts DEF PipeInv, TypeOK
<1> HIDE DEF end
<1>3. n \in 1 .. Size - offset /\ offset + n = end
  BY <1>2
<1>4. Queue \in Seq(Unit) /\ Len(Queue) = Size - offset
  BY <1>2, SubSeqType DEF Queue, Size
<1>5. SubSeq(Queue, 1, n) = SubSeq(file, at[p] + 1, end)
  <2>1. /\ offset + 1 \in 1 .. Len(file) /\ Size \in 1 .. Len(file)
        /\ 1 \in 1 .. Size - (offset + 1) + 1 /\ n \in 1 .. Size - (offset + 1) + 1
        /\ offset + 1 + 1 - 1 = at[p] + 1 /\ offset + 1 + n - 1 = end
    BY <1>2, <1>3 DEF Size
  <2> HIDE DEF n
  <2>2. SubSeq(SubSeq(file, offset + 1, Size), 1, n)
          = SubSeq(file, offset + 1 + 1 - 1, offset + 1 + n - 1)
    BY <1>2, <2>1, SubSeqOfSubSeq
  <2>3. QED BY <2>1, <2>2 DEF Queue
<1>6. SubSeq(file', offset' + 1, Size') = SubSeq(Queue, n + 1, Len(Queue))
  <2>1. CASE end = Size
    <3>1. Size' = 0 /\ offset' = 0
      BY <1>1, <2>1 DEF Size
    <3>2. SubSeq(file', offset' + 1, Size') = <<>>
      BY <3>1, SubSeqEmpty
    <3>3. Len(Queue) \in Int /\ n + 1 \in Int /\ Len(Queue) < n + 1
      BY <1>2, <1>3, <1>4, <2>1
    <3> HIDE DEF n
    <3>4. SubSeq(Queue, n + 1, Len(Queue)) = <<>>
      BY <3>3, SubSeqEmpty
    <3>5. QED BY <3>2, <3>4
  <2>2. CASE end # Size
    <3>1. /\ offset + 1 \in 1 .. Len(file) /\ Size \in 1 .. Len(file)
          /\ n + 1 \in 1 .. Size - (offset + 1) + 1
          /\ Len(Queue) \in 1 .. Size - (offset + 1) + 1
          /\ offset + 1 + (n + 1) - 1 = end + 1 /\ offset + 1 + Len(Queue) - 1 = Size
      BY <1>2, <1>3, <1>4, <2>2 DEF Size
    <3> DEFINE m == n + 1
               l == Len(Queue)
    <3> HIDE DEF m, l
    <3>2. SubSeq(SubSeq(file, offset + 1, Size), m, l)
            = SubSeq(file, offset + 1 + m - 1, offset + 1 + l - 1)
      BY <1>2, <3>1, SubSeqOfSubSeq DEF m, l
    <3>3. file' = file /\ offset' = end /\ Size' = Size
      BY <1>1, <2>2 DEF Size
    <3>4. QED BY <3>1, <3>2, <3>3 DEF Queue, m, l
  <2>3. QED BY <2>1, <2>2
<1>7. "r" \in Open /\ buf[p] = <<>>
  BY <1>1, CountedOpen DEF Open, PipeInv, CallOK
<1> HIDE DEF n
<1>8. Abstract!Receive(p)
  <2>1. n \in 1 .. Len(Queue)
    BY <1>3, <1>4
  <2>2. /\ buf' = [buf EXCEPT ![p] = SubSeq(Queue, 1, n)]
        /\ SubSeq(file', offset' + 1, Size') = SubSeq(Queue, n + 1, Len(Queue))
    BY <1>1, <1>5, <1>6
  <2>3. QED BY <1>1, <1>7, <2>1, <2>2 DEF Abstract!Receive, Queue, Open
<1>9. QED BY <1>8 DEF AbstractStep, Abstract!Next

(* writei appends one piece.                                               *)
LEMMA WriteEndChannel ==
  ASSUME PipeInv, NEW p \in Proc, WriteEnd(p)
  PROVE  AbstractStep
<1> DEFINE c == Chunk(p)
           piece == SubSeq(todo[p], 1, c)
           rest == SubSeq(todo[p], c + 1, Len(todo[p]))
<1>1. /\ pc[p] = "writei" /\ file' = SubSeq(file, 1, at[p]) \o piece
      /\ todo' = [todo EXCEPT ![p] = rest]
      /\ UNCHANGED <<offset, fcount, buf>>
  BY DEF WriteEnd, At, files
<1>2. /\ Size \in Nat /\ Size < PIPSIZ /\ c \in 1 .. PIPSIZ
      /\ piece \in Seq(Unit) /\ Len(piece) = c
      /\ SubSeq(file, 1, at[p]) = file /\ file \in Seq(Unit)
  BY <1>1, WriteEndFacts DEF PipeInv, TypeOK
<1>3. fcount["r"] > 0 /\ fcount["w"] > 0 /\ offset \in Nat
      /\ (offset < Size \/ (offset = 0 /\ Size = 0))
  <2>1. fcount["r"] > 0 /\ fcount["w"] > 0
    BY <1>1 DEF PipeInv, CallOK
  <2>2. offset \in Nat
    BY DEF PipeInv, TypeOK
  <2>3. fcount["r"] > 0 => offset < Size \/ (offset = 0 /\ Size = 0)
    BY DEF PipeInv, OffsetOK
  <2>4. QED BY <2>1, <2>2, <2>3
<1> HIDE DEF c, piece, rest
<1>4. file' = file \o piece /\ file' \in Seq(Unit) /\ Size' = Size + c /\ offset' = offset
  <2>1. file' = file \o piece /\ offset' = offset
    BY <1>1, <1>2
  <2>2. QED BY <1>2, <2>1, ConcatProperties DEF Size
<1>5. Queue \in Seq(Unit) /\ Len(Queue) < PIPSIZ
  <2>1. CASE offset < Size
    <3>1. offset + 1 \in Nat \ {0} /\ Size \in 0 .. Len(file) /\ offset + 1 <= Size
      BY <1>2, <1>3, <2>1 DEF Size
    <3>2. Queue \in Seq(Unit) /\ Len(Queue) = Size - (offset + 1) + 1
      BY <1>2, <3>1, SubSeqType DEF Queue
    <3>3. QED BY <1>2, <1>3, <3>2, PipeAssumption
  <2>2. CASE offset = 0 /\ Size = 0
    <3>1. Queue = <<>>
      BY <1>2, <1>3, <2>2, SubSeqEmpty DEF Queue
    <3>2. QED BY <1>2, <2>2, <3>1, PipeAssumption
  <2>3. QED BY <1>3, <2>1, <2>2
<1>6. SubSeq(file', offset' + 1, Size') = Queue \o piece
  <2>1. SubSeq(file', Size + 1, Size') = piece
    <3> DEFINE m == Size + 1
               k == Size + c
    <3>1. /\ m \in Len(file) + 1 .. Len(file) + Len(piece)
          /\ k \in Len(file) + 1 .. Len(file) + Len(piece)
          /\ m - Len(file) = 1 /\ k - Len(file) = Len(piece)
      BY <1>2 DEF Size
    <3>2. k = Size'
      BY <1>4
    <3> HIDE DEF m, k
    <3>3. SubSeq(file \o piece, m, k) = SubSeq(piece, m - Len(file), k - Len(file))
      BY <1>2, <3>1, SubSeqOfConcat2
    <3>4. SubSeq(piece, 1, Len(piece)) = piece
      BY <1>2, SubSeqFull
    <3>5. QED BY <1>4, <3>1, <3>2, <3>3, <3>4 DEF m
  <2>2. SubSeq(file', offset + 1, Size) = Queue
    <3>1. CASE Size = 0
      <4>1. offset + 1 \in Int /\ Size \in Int /\ Size < offset + 1
        BY <1>3, <3>1
      <4>2. QED BY <4>1, SubSeqEmpty DEF Queue
    <3>2. CASE Size > 0
      <4>1. offset + 1 \in 1 .. Len(file) /\ Size \in 1 .. Len(file)
        BY <1>2, <1>3, <3>2 DEF Size
      <4> DEFINE m == offset + 1
                 k == Size
      <4> HIDE DEF m, k
      <4>2. SubSeq(file \o piece, m, k) = SubSeq(file, m, k)
        BY <1>2, <4>1, SubSeqOfConcat1 DEF m, k
      <4>3. QED BY <1>4, <4>2 DEF Queue, m, k
    <3>3. QED BY <1>2, <3>1, <3>2
  <2>3. /\ offset + 1 \in 1 .. Len(file') + 1 /\ Size \in (offset + 1) - 1 .. Len(file')
        /\ Size' \in Size .. Len(file')
    BY <1>2, <1>3, <1>4 DEF Size
  <2>4. SubSeq(file', offset + 1, Size) \o SubSeq(file', Size + 1, Size')
          = SubSeq(file', offset + 1, Size')
    <3> DEFINE m == offset + 1
               k == Size
               l == Size'
               f == file'
    <3> HIDE DEF m, k, l, f
    <3>1. SubSeq(f, m, k) \o SubSeq(f, k + 1, l) = SubSeq(f, m, l)
      BY <1>4, <2>3, ConcatAdjacentSubSeq DEF m, k, l, f
    <3>2. QED BY <3>1 DEF m, k, l, f
  <2>5. QED BY <1>4, <2>1, <2>2, <2>4
<1>7. Abstract!Send(p)
  <2>1. c = IF Len(todo[p]) < PIPSIZ THEN Len(todo[p]) ELSE PIPSIZ
    BY DEF Chunk, c
  <2>2. c > 0 /\ {e \in {"r", "w"} : fcount[e] > 0} = {"r", "w"}
    BY <1>2, <1>3
  <2>3. todo' = [todo EXCEPT ![p] = SubSeq(@, c + 1, Len(@))]
    BY <1>1 DEF rest
  <2>4. SubSeq(file', offset' + 1, Size') = Queue \o SubSeq(todo[p], 1, c)
    BY <1>6 DEF piece
  <2>5. QED BY <1>1, <1>5, <2>1, <2>2, <2>3, <2>4 DEF Abstract!Send, Queue
<1>8. QED BY <1>7 DEF AbstractStep, Abstract!Next

(* close of one descriptor leaves its end open ...                         *)
LEMMA CloseChannel ==
  ASSUME PipeInv, NEW p \in Proc, NEW e \in {"r", "w"}, Close(p, e)
  PROVE  AbstractStep
<1>1. \A d \in {"r", "w"} : fcount'[d] > 0 <=> fcount[d] > 0
  <2>1. fcount \in [{"r", "w"} -> Nat]
    BY DEF PipeInv, TypeOK
  <2>2. CASE fcount[e] > 1 /\ fcount' = [fcount EXCEPT ![e] = fcount[e] - 1]
    BY <2>1, <2>2
  <2>3. CASE fcount' = fcount
    BY <2>3
  <2>4. QED BY <2>2, <2>3 DEF Close
<1>2. Open' = Open
  BY <1>1 DEF Open
<1>3. QED BY <1>2 DEF Close, Open, AbstractStep, Abstract!vars, inode, local, Size

(* ... which closef shuts.                                                 *)
LEMMA ClosefChannel ==
  ASSUME PipeInv, NEW p \in Proc, Closef(p)
  PROVE  AbstractStep
<1>1. PICK e \in {"r", "w"} : e = Closing(p) /\ Owed(e)
  BY ClosingFacts DEF Closef, Locks, At
<1>2. fcount' = [fcount EXCEPT ![e] = 0] /\ fcount[e] = 1
  BY <1>1 DEF Closef, Owed
<1>3. {d \in {"r", "w"} : fcount'[d] > 0} = {d \in {"r", "w"} : fcount[d] > 0} \ {e}
  BY <1>2 DEF PipeInv, TypeOK
<1>4. Abstract!Shut(e)
  BY <1>2, <1>3 DEF Closef, Abstract!Shut, local, Size
<1>5. QED BY <1>4 DEF AbstractStep, Abstract!Next

(* The last iput forgets what nobody can read.                            *)
LEMMA IputLastChannel ==
  ASSUME PipeInv, NEW p \in Proc, IputLast(p)
  PROVE  AbstractStep
<1>1. fcount["r"] = 0 /\ fcount["w"] = 0 /\ offset \in Nat
  BY DEF IputLast, At, PipeInv, CallOK, TypeOK
<1>2. SubSeq(file', offset' + 1, Size') = <<>>
  <2>1. offset' + 1 \in Int /\ Size' \in Int /\ Size' < offset' + 1
    BY <1>1 DEF IputLast, Size
  <2>2. QED BY <2>1, SubSeqEmpty
<1>3. Abstract!Drop
  BY <1>1, <1>2 DEF IputLast, Abstract!Drop, files, local
<1>4. QED BY <1>3 DEF AbstractStep, Abstract!Next

(* A pipe is a first-in first-out channel: what is read is what was        *)
(* written, in order, each unit once, and a write of at most PIPSIZ goes   *)
(* in whole, however reads, writes, closes and update interleave.          *)
THEOREM Implementation == Spec => ImplementsChannel
<1>1. Init => Abstract!Init
  <2> SUFFICES ASSUME Init PROVE Abstract!Init
    OBVIOUS
  <2>1. Queue = <<>>
    <3>1. offset + 1 \in Int /\ Size \in Int /\ Size < offset + 1
      BY DEF Init, Size
    <3>2. QED BY <3>1, SubSeqEmpty DEF Queue
  <2>2. {e \in {"r", "w"} : fcount[e] > 0} = {"r", "w"}
    <3>1. \A p \in Proc : pc[p] # "itrunc"
      BY DEF Init
    <3>2. 2 = One(fcount["r"] > 0) + One(fcount["w"] > 0)
      BY InitInv, <3>1 DEF Init, PipeInv, UsersOK, One
    <3>3. QED BY <3>2 DEF One
  <2>3. QED BY <2>1, <2>2 DEF Init, Abstract!Init, Queue
<1>2. PipeInv /\ [Next]_vars => AbstractStep
  <2> SUFFICES ASSUME PipeInv, [Next]_vars PROVE AbstractStep
    OBVIOUS
  <2>1. ASSUME NEW p \in Proc,
               \/ PlockSleep(p) \/ ReadEof(p) \/ ReadSleep(p) \/ ReadBegin(p)
               \/ WriteDone(p) \/ WriteSleep(p) \/ WriteBegin(p) \/ StartRead(p)
        PROVE  AbstractStep
    BY <2>1, StutterStep
    DEF PlockSleep, ReadEof, ReadSleep, ReadBegin, WriteDone, WriteSleep, WriteBegin,
        StartRead, inode, files, local
  <2>2. ASSUME NEW p \in Proc, WriteBroken(p) \/ Signal(p) PROVE AbstractStep
    BY <2>2, GiveUpChannel DEF WriteBroken, Signal, inode, files
  <2>3. ASSUME NEW p \in Proc, Step(p) \/ Call(p) \/ Signal(p) PROVE AbstractStep
    BY <2>1, <2>2, <2>3, ReadEndChannel, ReadReturnChannel, WriteEndChannel,
       ClosefChannel, IputLastChannel, StartWriteChannel
    DEF Step, Call
  <2>4. CASE SyncBegin \/ SyncEnd \/ UNCHANGED vars
    BY <2>4, StutterStep DEF SyncBegin, SyncEnd, vars, inode, files, local
  <2>5. QED BY <2>3, <2>4, CloseChannel DEF Next
<1>3. PipeInv /\ [Next]_vars => [Abstract!Next]_(Abstract!vars)
  BY <1>2 DEF AbstractStep
<1>4. QED BY <1>1, <1>3, Invariance, PTL DEF Spec, ImplementsChannel, Abstract!Spec
=============================================================================
