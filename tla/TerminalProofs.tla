--------------------------- MODULE TerminalProofs ---------------------------
(***************************************************************************)
(* t_delct is the number of delimiters in the raw queue, and a read that   *)
(* returns nothing has seen an end of file, for any number of processes    *)
(* that have the terminal open and any size of its queues.                 *)
(***************************************************************************)
EXTENDS Terminal, FiniteSetTheorems, SequenceTheorems, TLAPS

(* The parts of DelctInv: what each variable ranges over, the count, and   *)
(* who may sleep.                                                          *)
Ranges ==
  /\ rawq \in Seq(Chars \cup {"delim"}) /\ canq \in Seq({"char", "nl"})
  /\ line \in Seq({"char", "nl"}) /\ last \in Chars \cup {"none"}
  /\ outq \in Nat
  /\ {stopped, asleep, tout, cut, early, split} \subseteq BOOLEAN
  /\ pc \in [Proc -> Places]
  /\ cpu \in Proc \cup {None}

InDelct == \E p \in Proc : pc[p] = "delct"

CountOK ==
  /\ delct \in Int
  /\ delct + (IF early THEN 1 ELSE 0) = Delims + (IF InDelct THEN 1 ELSE 0)

SleepersOK == \A p \in Proc : pc[p] = "readsleep" /\ Delims > 0 => early

Parts == Ranges /\ CountOK /\ SleepersOK /\ CpuOK

-----------------------------------------------------------------------------
(* A queue holds no more delimiters than characters.                       *)
LEMMA DelimsBound ==
  ASSUME NEW S, NEW q \in Seq(S)
  PROVE  /\ IsFiniteSet({i \in 1 .. Len(q) : q[i] = "delim"})
         /\ DelimsOf(q) \in 0 .. Len(q)
<1> DEFINE D == {i \in 1 .. Len(q) : q[i] = "delim"}
<1>1. Len(q) \in Nat
  BY LenProperties
<1>2. IsFiniteSet(1 .. Len(q)) /\ Cardinality(1 .. Len(q)) = Len(q)
  BY <1>1, FS_Interval
<1>3. IsFiniteSet(D) /\ Cardinality(D) <= Len(q)
  BY <1>2, FS_Subset
<1>4. Cardinality(D) \in Nat
  BY <1>3, FS_CardinalityType
<1>5. QED BY <1>1, <1>3, <1>4 DEF DelimsOf

(* The count is a number.                                                  *)
LEMMA DelimsNat ==
  ASSUME NEW q \in Seq(Chars \cup {"delim"})
  PROVE  DelimsOf(q) \in Nat /\ Len(q) \in Nat
<1>1. Len(q) \in Nat
  BY LenProperties
<1>2. DelimsOf(q) \in 0 .. Len(q)
  BY DelimsBound
<1>3. QED BY <1>1, <1>2

(* An empty queue holds none.                                              *)
LEMMA DelimsEmpty == DelimsOf(<<>>) = 0
<1>1. {i \in 1 .. Len(<<>>) : <<>>[i] = "delim"} = {}
  OBVIOUS
<1>2. QED BY <1>1, FS_EmptySet DEF DelimsOf

(* A character put at the end of a queue.                                  *)
LEMMA DelimsAppend ==
  ASSUME NEW S, NEW q \in Seq(S), NEW c
  PROVE  DelimsOf(Append(q, c)) = DelimsOf(q) + (IF c = "delim" THEN 1 ELSE 0)
<1> DEFINE r == Append(q, c)
           D(s) == {i \in 1 .. Len(s) : s[i] = "delim"}
<1>1. Len(q) \in Nat /\ Len(r) = Len(q) + 1
  BY LenProperties, AppendProperties
<1>2. /\ r[Len(q) + 1] = c
      /\ \A i \in 1 .. Len(q) : r[i] = q[i]
  BY <1>1, AppendProperties
<1>3. IsFiniteSet(D(q)) /\ Len(q) + 1 \notin D(q)
  BY <1>1, DelimsBound
<1>4. D(r) = IF c = "delim" THEN D(q) \cup {Len(q) + 1} ELSE D(q)
  BY <1>1, <1>2
<1>5. Cardinality(D(r)) = Cardinality(D(q)) + (IF c = "delim" THEN 1 ELSE 0)
  <2>1. Cardinality(D(q)) \in Nat
    BY <1>3, FS_CardinalityType
  <2>2. Cardinality(D(q) \cup {Len(q) + 1}) = Cardinality(D(q)) + 1
    BY <1>3, FS_AddElement
  <2> HIDE DEF D
  <2>3. QED BY <1>4, <2>1, <2>2
<1>6. QED BY <1>5 DEF DelimsOf

(* A character taken from the head of a queue.                             *)
LEMMA DelimsTail ==
  ASSUME NEW S, NEW q \in Seq(S), q # <<>>
  PROVE  /\ Head(q) = "delim" => DelimsOf(q) = DelimsOf(Tail(q)) + 1
         /\ Head(q) # "delim" => DelimsOf(q) = DelimsOf(Tail(q))
<1> DEFINE r == Tail(q)
           D(s) == {i \in 1 .. Len(s) : s[i] = "delim"}
           f == [i \in D(r) |-> i + 1]
<1>1. /\ Len(q) \in Nat \ {0} /\ Len(r) = Len(q) - 1 /\ r \in Seq(S)
      /\ \A i \in 1 .. Len(r) : r[i] = q[i + 1]
      /\ Head(q) = q[1]
  BY LenProperties, HeadTailProperties, EmptySeq
<1>2. IsFiniteSet(D(r)) /\ IsFiniteSet(D(q))
  BY <1>1, DelimsBound
<1>3. f \in Bijection(D(r), D(q) \ {1})
  <2>1. \A i \in D(r) : f[i] \in D(q) \ {1}
    BY <1>1
  <2>2. \A i, j \in D(r) : f[i] = f[j] => i = j
    BY <1>1
  <2>3. ASSUME NEW j \in D(q) \ {1} PROVE \E i \in D(r) : f[i] = j
    <3>1. j - 1 \in D(r) /\ f[j - 1] = j
      BY <1>1
    <3>2. QED BY <3>1
  <2> HIDE DEF D
  <2>4. f \in [D(r) -> D(q) \ {1}]
    BY <2>1
  <2> DEFINE T == D(q) \ {1}
             R == D(r)
  <2> HIDE DEF f, T, R
  <2>5. f \in Bijection(R, T)
    <3>1. f \in [R -> T] /\ \A i, j \in R : f[i] = f[j] => i = j
      BY <2>2, <2>4 DEF R, T
    <3>2. \A j \in T : \E i \in R : f[i] = j
      BY <2>3 DEF R, T
    <3>3. QED BY <3>1, <3>2 DEF Bijection, Injection, Surjection, IsInjective
  <2>6. QED BY <2>5 DEF R, T
<1> HIDE DEF f
<1>4. Cardinality(D(q) \ {1}) = Cardinality(D(r))
  BY <1>2, <1>3, FS_Bijection DEF ExistsBijection
<1>5. Cardinality(D(q) \ {1})
        = IF 1 \in D(q) THEN Cardinality(D(q)) - 1 ELSE Cardinality(D(q))
  BY <1>2, FS_RemoveElement
<1>6. 1 \in D(q) <=> Head(q) = "delim"
  BY <1>1
<1>7. Cardinality(D(q)) \in Nat
  BY <1>2, FS_CardinalityType
<1>8. DelimsOf(q) = Cardinality(D(q)) /\ DelimsOf(r) = Cardinality(D(r))
  BY DEF DelimsOf
<1> HIDE DEF D, r
<1>9. ASSUME Head(q) = "delim" PROVE DelimsOf(q) = DelimsOf(r) + 1
  <2>1. Cardinality(D(r)) = Cardinality(D(q)) - 1
    BY <1>4, <1>5, <1>6, <1>9
  <2>2. QED BY <1>7, <1>8, <2>1
<1>10. ASSUME Head(q) # "delim" PROVE DelimsOf(q) = DelimsOf(r)
  BY <1>4, <1>5, <1>6, <1>8, <1>10
<1>11. QED BY <1>9, <1>10 DEF r
-----------------------------------------------------------------------------
(* The count keeps delct in the range that TypeOK gives it.                *)
LEMMA PartsInv == Parts <=> DelctInv
<1>1. ASSUME Parts PROVE DelctInv
  <2>1. rawq \in Seq(Chars \cup {"delim"}) /\ Delims \in 0 .. Len(rawq) /\ Len(rawq) \in Nat
    BY <1>1, DelimsBound, LenProperties DEF Parts, Ranges, Delims
  <2>2. delct \in -1 .. Len(rawq) + 1
    BY <1>1, <2>1 DEF Parts, CountOK
  <2>3. TypeOK
    BY <1>1, <2>2 DEF Parts, Ranges, TypeOK
  <2>4. QED BY <1>1, <2>3
            DEF Parts, DelctInv, DelctCounts, CountOK, InDelct, SleepersOK
<1>2. ASSUME DelctInv PROVE Parts
  <2>1. Ranges
    BY <1>2 DEF DelctInv, DelctCounts, TypeOK, Ranges
  <2>2. delct \in Int
    BY <1>2 DEF DelctInv, DelctCounts, TypeOK
  <2>3. QED BY <1>2, <2>1, <2>2
            DEF Parts, DelctInv, DelctCounts, CountOK, InDelct, SleepersOK
<1>3. QED BY <1>1, <1>2

(* A step that leaves the raw queue and its count alone, moves nobody into *)
(* or out of "delct" and puts nobody to sleep on the queue.                *)
LEMMA CountKept ==
  ASSUME Parts, UNCHANGED <<rawq, delct, early>>,
         \A q \in Proc : /\ pc'[q] = "delct" <=> pc[q] = "delct"
                         /\ pc'[q] = "readsleep" => pc[q] = "readsleep"
  PROVE  CountOK' /\ SleepersOK'
<1>1. Delims' = Delims /\ InDelct' = InDelct
  BY DEF Delims, InDelct
<1>2. QED BY <1>1 DEF Parts, CountOK, SleepersOK

(* A process that has the processor goes on ...                            *)
LEMMA GoesOn ==
  ASSUME Parts, NEW p \in Proc, NEW from, NEW to \in Places,
         At(p, from), Goes(p, to)
  PROVE  /\ pc[p] = from
         /\ pc' \in [Proc -> Places] /\ cpu' \in Proc \cup {None} /\ CpuOK'
         /\ pc'[p] = to /\ \A q \in Proc \ {p} : pc'[q] = pc[q]
         /\ \A q \in Proc \ {p} : pc[q] \notin Running
BY TerminalAssumption DEF Parts, Ranges, CpuOK, At, Goes

(* ... or gives it up.                                                     *)
LEMMA StopsThere ==
  ASSUME Parts, NEW p \in Proc, NEW from, NEW to \in Places \ Running,
         At(p, from), Stops(p, to)
  PROVE  /\ pc[p] = from
         /\ pc' \in [Proc -> Places] /\ cpu' \in Proc \cup {None} /\ CpuOK'
         /\ pc'[p] = to /\ \A q \in Proc \ {p} : pc'[q] = pc[q]
         /\ \A q \in Proc \ {p} : pc[q] \notin Running
BY TerminalAssumption DEF Parts, Ranges, CpuOK, At, Stops

(* wakeup moves sleepers only, and back to their test.                     *)
LEMMA WokenFacts ==
  ASSUME Parts, NEW in \in BOOLEAN, NEW out \in BOOLEAN
  PROVE  /\ Woken(in, out) \in [Proc -> Places]
         /\ \A q \in Proc : /\ Woken(in, out)[q] \in Running <=> pc[q] \in Running
                            /\ Woken(in, out)[q] = "delct" <=> pc[q] = "delct"
                            /\ Woken(in, out)[q] = "readsleep"
                                 => ~ in /\ pc[q] = "readsleep"
BY DEF Parts, Ranges, Woken, Reader, Running, Places

(* scstart leaves a number of characters and a flag.                       *)
LEMMA ScstartFacts ==
  ASSUME NEW n \in Nat, Scstart(n)
  PROVE  outq' \in Nat /\ tout' \in BOOLEAN
BY DEF Scstart

-----------------------------------------------------------------------------
(* The steps of a write and of TIOCSETP up to the flush.                   *)
LEMMA WriteSteps ==
  ASSUME Parts, NEW p \in Proc,
         \/ StartWrite(p) \/ WriteTest(p) \/ WritePut(p) \/ WriteEnd(p)
         \/ StartSetp(p) \/ SetpSleep(p)
  PROVE  Parts'
<1>1. /\ UNCHANGED <<rawq, canq, delct, stopped, line, last, cut, early, split>>
      /\ outq' \in Nat /\ asleep' \in BOOLEAN /\ tout' \in BOOLEAN
  <2>1. CASE StartWrite(p) \/ StartSetp(p) \/ WritePut(p)
    BY <2>1 DEF Parts, Ranges, StartWrite, StartSetp, WritePut, queues, output, canonb
  <2>2. CASE WriteTest(p)
    BY <2>2, ScstartFacts DEF Parts, Ranges, WriteTest, queues, canonb
  <2>3. CASE WriteEnd(p)
    BY <2>3, ScstartFacts DEF Parts, Ranges, WriteEnd, Ttstart, queues, canonb
  <2>4. CASE SetpSleep(p)
    BY <2>4, ScstartFacts DEF Parts, Ranges, SetpSleep, queues, canonb
  <2>5. QED BY <2>1, <2>2, <2>3, <2>4
<1>2. PICK from \in {"user", "write", "put", "start", "setp"},
           to \in {"user", "write", "put", "start", "writesleep", "setp", "setsleep"} :
        At(p, from) /\ (Goes(p, to) \/ (Stops(p, to) /\ to \notin Running))
  BY DEF StartWrite, WriteTest, WritePut, WriteEnd, StartSetp, SetpSleep, Running
<1>3. /\ pc' \in [Proc -> Places] /\ cpu' \in Proc \cup {None} /\ CpuOK'
      /\ \A q \in Proc : /\ pc'[q] = "delct" <=> pc[q] = "delct"
                         /\ pc'[q] = "readsleep" => pc[q] = "readsleep"
  BY <1>2, GoesOn, StopsThere DEF Places
<1>4. Ranges'
  BY <1>1, <1>3 DEF Parts, Ranges
<1>5. QED BY <1>1, <1>3, <1>4, CountKept DEF Parts
-----------------------------------------------------------------------------
(* flushtty empties the queues; a process that has taken a delimiter and   *)
(* not counted it is remembered in early.                                  *)
LEMMA FlushFacts ==
  ASSUME Parts, Flushtty, \A q \in Proc : pc'[q] = "delct" <=> pc[q] = "delct"
  PROVE  /\ rawq' \in Seq(Chars \cup {"delim"}) /\ canq' \in Seq({"char", "nl"})
         /\ outq' \in Nat /\ {stopped', cut', early', split'} \subseteq BOOLEAN
         /\ CountOK' /\ SleepersOK'
<1>1. /\ rawq' = <<>> /\ canq' = <<>> /\ delct' = 0 /\ outq' = 0 /\ outq' \in Nat
      /\ early' = InDelct /\ InDelct' = InDelct /\ InDelct \in BOOLEAN
  BY DEF Flushtty, InDelct
<1>2. Delims' = 0
  BY <1>1, DelimsEmpty DEF Delims
<1>3. CountOK' /\ SleepersOK'
  BY <1>1, <1>2 DEF CountOK, SleepersOK
<1>4. cut' \in BOOLEAN /\ early' \in BOOLEAN /\ stopped' = FALSE /\ split' = FALSE
  BY <1>1 DEF Flushtty
<1>5. rawq' \in Seq(Chars \cup {"delim"}) /\ canq' \in Seq({"char", "nl"})
  BY <1>1
<1>6. QED BY <1>1, <1>3, <1>4, <1>5

(* TIOCSETP empties the queues.                                            *)
LEMMA SetpFlushInv ==
  ASSUME Parts, NEW p \in Proc, SetpFlush(p)
  PROVE  Parts'
<1>1. /\ At(p, "setp") /\ Flushtty
      /\ pc' = [Woken(TRUE, TRUE) EXCEPT ![p] = "user"] /\ cpu' = None
      /\ UNCHANGED <<asleep, tout, line, last>>
  BY DEF SetpFlush
<1>2. /\ pc' \in [Proc -> Places] /\ pc'[p] = "user" /\ pc[p] = "setp"
      /\ \A q \in Proc \ {p} : pc'[q] = Woken(TRUE, TRUE)[q]
  BY <1>1, WokenFacts DEF At, Places
<1>3. \A q \in Proc : pc'[q] = "delct" <=> pc[q] = "delct"
  BY <1>2, WokenFacts
<1>4. CpuOK'
  <2>1. \A q \in Proc : pc[q] \notin Running
    BY <1>1, <1>2, TerminalAssumption DEF Parts, CpuOK, At, Running
  <2>2. QED BY <1>2, <2>1, WokenFacts DEF CpuOK, Running
<1>5. QED BY <1>1, <1>2, <1>3, <1>4, FlushFacts DEF Parts, Ranges

(* The steps of a read that leave the raw queue and its count alone.       *)
LEMMA ReadSteps ==
  ASSUME Parts, NEW p \in Proc,
         \/ StartRead(p) \/ CanonBegin(p) \/ CanonEmpty(p) \/ CanonEnd(p)
         \/ CopyFirst(p) \/ Copy(p) \/ CopyPassc(p)
  PROVE  Parts'
<1>1. UNCHANGED <<rawq, delct, early, output>>
  BY DEF StartRead, CanonBegin, CanonEmpty, CanonEnd, CopyFirst, Copy, CopyPassc, queues,
    canonb
<1>2. /\ canq' \in Seq({"char", "nl"}) /\ line' \in Seq({"char", "nl"})
      /\ last' \in Chars \cup {"none"} /\ cut' \in BOOLEAN /\ split' \in BOOLEAN
  <2>1. CASE CanonEnd(p)
    <3>1. canq \o line \in Seq({"char", "nl"})
      BY ConcatProperties DEF Parts, Ranges
    <3>2. split' \in BOOLEAN
      BY <2>1 DEF CanonEnd
    <3>3. line' = <<>> /\ last' = "none" /\ cut' = FALSE /\ canq' = canq \o line
      BY <2>1 DEF CanonEnd
    <3>4. <<>> \in Seq({"char", "nl"})
      OBVIOUS
    <3>5. QED BY <3>1, <3>2, <3>3, <3>4
  <2>2. CASE CopyPassc(p)
    BY <2>2, HeadTailProperties DEF CopyPassc, Parts, Ranges, canonb
  <2>3. CASE StartRead(p) \/ CanonBegin(p) \/ CanonEmpty(p) \/ Copy(p)
    BY <2>3 DEF StartRead, CanonBegin, CanonEmpty, Copy, Parts, Ranges, queues, canonb
  <2>4. CASE CopyFirst(p)
    BY <2>4 DEF CopyFirst, Parts, Ranges, queues
  <2>5. QED BY <2>1, <2>2, <2>3, <2>4
<1>3. PICK from \in {"user", "canon", "getc", "canonend", "first", "copy", "passc"},
           to \in {"user", "canon", "getc", "canonend", "first", "copy", "passc"} :
        At(p, from) /\ (Goes(p, to) \/ (Stops(p, to) /\ to \notin Running))
  BY DEF StartRead, CanonBegin, CanonEmpty, CanonEnd, CopyFirst, Copy, CopyPassc, Running
<1>4. /\ pc' \in [Proc -> Places] /\ cpu' \in Proc \cup {None} /\ CpuOK'
      /\ \A q \in Proc : /\ pc'[q] = "delct" <=> pc[q] = "delct"
                         /\ pc'[q] = "readsleep" => pc[q] = "readsleep"
  BY <1>3, GoesOn, StopsThere DEF Places
<1>5. Ranges'
  BY <1>1, <1>2, <1>4 DEF Parts, Ranges, output
<1>6. QED BY <1>1, <1>4, <1>5, CountKept DEF Parts

(* canon sleeps only while no delimiter is counted: then there is none, or *)
(* the count is one behind.                                                *)
LEMMA CanonSleepInv ==
  ASSUME Parts, NEW p \in Proc, CanonSleep(p)
  PROVE  Parts'
<1>1. /\ At(p, "canon") /\ Stops(p, "readsleep") /\ delct = 0
      /\ UNCHANGED <<queues, output, canonb>>
  BY DEF CanonSleep
<1>2. /\ pc' \in [Proc -> Places] /\ cpu' \in Proc \cup {None} /\ CpuOK'
      /\ pc'[p] = "readsleep" /\ pc[p] = "canon" /\ \A q \in Proc \ {p} : pc'[q] = pc[q]
  BY <1>1, StopsThere DEF Places, Running
<1>3. Ranges'
  BY <1>1, <1>2 DEF Parts, Ranges, queues, output, canonb
<1>4. InDelct' = InDelct
  BY <1>2 DEF InDelct
<1>5. Delims' = Delims
  BY <1>1 DEF Delims, queues
<1>6. CountOK'
  BY <1>1, <1>4, <1>5 DEF Parts, CountOK, queues, canonb
<1>7. Delims > 0 => early
  <2>1. Delims \in Nat
    BY DelimsNat DEF Parts, Ranges, Delims
  <2>2. QED BY <1>1, <2>1 DEF Parts, CountOK
<1>8. SleepersOK'
  BY <1>1, <1>5, <1>7 DEF SleepersOK, canonb
<1>9. QED BY <1>2, <1>3, <1>6, <1>8 DEF Parts

(* canon takes a character; a delimiter stays to be counted down.          *)
LEMMA CanonGetcInv ==
  ASSUME Parts, NEW p \in Proc, CanonGetc(p)
  PROVE  Parts'
<1> DEFINE c == Head(rawq)
<1>1. /\ At(p, "getc") /\ rawq # <<>> /\ rawq' = Tail(rawq)
      /\ UNCHANGED <<canq, delct, output, cut, early, split>>
      /\ \/ c = "delim" /\ Goes(p, "delct") /\ UNCHANGED <<line, last>>
         \/ /\ c # "delim" /\ line' = Edited(c) /\ last' = c
            /\ Goes(p, IF Len(line') >= CANBSIZ THEN "canonend" ELSE "getc")
  BY DEF CanonGetc
<1>2. /\ rawq \in Seq(Chars \cup {"delim"}) /\ rawq' \in Seq(Chars \cup {"delim"})
      /\ c \in Chars \cup {"delim"}
  BY <1>1, HeadTailProperties DEF Parts, Ranges
<1>3. line' \in Seq({"char", "nl"}) /\ last' \in Chars \cup {"none"}
  <2>1. CASE c = "delim"
    BY <1>1, <2>1 DEF Parts, Ranges
  <2>2. CASE c # "delim"
    <3>1. line \in Seq({"char", "nl"}) /\ Len(line) \in Nat
      BY LenProperties DEF Parts, Ranges
    <3>2. SubSeq(line, 1, Len(line) - 1) \in Seq({"char", "nl"})
      <4>1. \A i \in 1 .. Len(line) - 1 : line[i] \in {"char", "nl"}
        BY <3>1
      <4>2. QED BY <3>1, <4>1, SubSeqProperties
    <3>3. c \in {"char", "nl"} => Append(line, c) \in Seq({"char", "nl"})
      BY <3>1, AppendProperties
    <3>4. Edited(c) \in Seq({"char", "nl"})
      <4>1. c \in {"char", "erase", "kill", "nl", "eof"}
        BY <1>2, <2>2 DEF Chars
      <4>2. CASE c \in {"char", "nl"}
        BY <3>3, <4>2 DEF Edited
      <4>3. CASE c \in {"erase", "kill", "eof"}
        BY <3>1, <3>2, <4>3 DEF Edited
      <4>4. QED BY <4>1, <4>2, <4>3
    <3>5. QED BY <1>1, <1>2, <2>2, <3>4
  <2>3. QED BY <2>1, <2>2
<1>4. PICK to \in {"delct", "canonend", "getc"} :
        Goes(p, to) /\ (to = "delct" <=> c = "delim")
  BY <1>1
<1>5. /\ pc' \in [Proc -> Places] /\ cpu' \in Proc \cup {None} /\ CpuOK'
      /\ pc'[p] = to /\ pc[p] = "getc" /\ \A q \in Proc \ {p} : pc'[q] = pc[q]
      /\ \A q \in Proc \ {p} : pc[q] \notin Running
  BY <1>1, <1>4, GoesOn DEF Places
<1>6. Ranges'
  BY <1>1, <1>2, <1>3, <1>5 DEF Parts, Ranges, output
<1>7. ~ InDelct /\ (InDelct' <=> c = "delim")
  BY <1>4, <1>5 DEF InDelct, Running
<1>8. /\ c = "delim" => Delims = Delims' + 1
      /\ c # "delim" => Delims = Delims'
      /\ Delims \in Nat /\ Delims' \in Nat
  BY <1>1, <1>2, DelimsTail, DelimsNat DEF Delims
<1> HIDE DEF c
<1>9. delct' = delct /\ early' = early /\ delct \in Int
      /\ delct + (IF early THEN 1 ELSE 0) = Delims
  <2>1. delct' = delct /\ early' = early
    BY <1>1
  <2>2. /\ delct \in Int
        /\ delct + (IF early THEN 1 ELSE 0) = Delims + (IF InDelct THEN 1 ELSE 0)
    BY DEF Parts, CountOK
  <2>3. ~ InDelct /\ Delims \in Nat
    BY <1>7, <1>8
  <2>4. QED BY <2>1, <2>2, <2>3
<1>10. CountOK'
  <2>1. CASE c = "delim"
    BY <1>7, <1>8, <1>9, <2>1 DEF CountOK
  <2>2. CASE c # "delim"
    <3>1. Delims' = Delims /\ ~ InDelct'
      BY <1>7, <1>8, <2>2
    <3>2. QED BY <1>7, <1>9, <3>1 DEF CountOK
  <2>3. QED BY <2>1, <2>2
<1>11. SleepersOK'
  <2>1. Delims' > 0 => Delims > 0
    <3>1. Delims \in Nat /\ Delims' \in Nat /\ (Delims = Delims' + 1 \/ Delims = Delims')
      BY <1>8
    <3>2. \A a, b \in Nat : (a = b + 1 \/ a = b) /\ b > 0 => a > 0
      OBVIOUS
    <3>3. QED BY <3>1, <3>2
  <2>2. \A q \in Proc : pc'[q] = "readsleep" => pc[q] = "readsleep"
    BY <1>4, <1>5
  <2>3. QED BY <1>9, <2>1, <2>2 DEF Parts, SleepersOK
<1>12. QED BY <1>5, <1>6, <1>10, <1>11 DEF Parts

(* It is counted down.                                                     *)
LEMMA CanonDelctInv ==
  ASSUME Parts, NEW p \in Proc, CanonDelct(p)
  PROVE  Parts'
<1>1. /\ At(p, "delct") /\ Goes(p, "canonend") /\ delct' = delct - 1
      /\ UNCHANGED <<rawq, canq, output, canonb>>
  BY DEF CanonDelct
<1>2. /\ pc' \in [Proc -> Places] /\ cpu' \in Proc \cup {None} /\ CpuOK'
      /\ pc'[p] = "canonend" /\ pc[p] = "delct" /\ \A q \in Proc \ {p} : pc'[q] = pc[q]
      /\ \A q \in Proc \ {p} : pc[q] \notin Running
  BY <1>1, GoesOn DEF Places
<1>3. Ranges'
  BY <1>1, <1>2 DEF Parts, Ranges, output, canonb
<1>4. InDelct /\ ~ InDelct'
  BY <1>2 DEF InDelct, Running
<1>5. Delims' = Delims /\ Delims \in Nat
  BY <1>1, DelimsNat DEF Parts, Ranges, Delims
<1>6. CountOK'
  BY <1>1, <1>4, <1>5 DEF Parts, CountOK, canonb
<1>7. SleepersOK'
  BY <1>1, <1>2, <1>5 DEF Parts, SleepersOK, canonb
<1>8. QED BY <1>2, <1>3, <1>6, <1>7 DEF Parts

(* A signal ends a call that sleeps; nobody has the processor then.        *)
LEMMA InterruptedInv ==
  ASSUME Parts, NEW p \in Proc, Interrupted(p)
  PROVE  Parts'
<1>1. /\ pc[p] \in {"readsleep", "writesleep", "setsleep", "canon", "write", "setp"}
      /\ pc' = [pc EXCEPT ![p] = "user"] /\ cpu' = None /\ cpu = None
      /\ UNCHANGED <<queues, output, canonb>>
  BY DEF Interrupted, Stops
<1>2. Ranges' /\ CpuOK'
  BY <1>1 DEF Parts, Ranges, CpuOK, Running, Places, queues, output, canonb
<1>3. \A q \in Proc : /\ pc'[q] = "delct" <=> pc[q] = "delct"
                      /\ pc'[q] = "readsleep" => pc[q] = "readsleep"
  BY <1>1 DEF Parts, Ranges
<1>4. QED BY <1>1, <1>2, <1>3, CountKept DEF Parts, queues, canonb

-----------------------------------------------------------------------------
(* The stop and start keys and the callout.                                *)
LEMMA OutputSteps ==
  ASSUME Parts, KeyStop \/ KeyStart \/ Scxint
  PROVE  Parts'
<1>1. /\ UNCHANGED <<queues, canonb, cpu>> /\ outq' \in Nat
      /\ {stopped', asleep', tout'} \subseteq BOOLEAN
      /\ pc' \in {pc, Woken(FALSE, TRUE)}
  <2>1. CASE KeyStop
    BY <2>1 DEF KeyStop, Parts, Ranges, place
  <2>2. CASE KeyStart
    BY <2>2, ScstartFacts DEF KeyStart, Parts, Ranges, place
  <2>3. CASE Scxint
    <3>1. tout' \in BOOLEAN
      BY <2>3 DEF Scxint
    <3>2. QED BY <2>3, <3>1 DEF Scxint, Parts, Ranges
  <2>4. QED BY <2>1, <2>2, <2>3
<1>2. /\ pc' \in [Proc -> Places]
      /\ \A q \in Proc : /\ pc'[q] \in Running <=> pc[q] \in Running
                         /\ pc'[q] = "delct" <=> pc[q] = "delct"
                         /\ pc'[q] = "readsleep" => pc[q] = "readsleep"
  BY <1>1, WokenFacts DEF Parts, Ranges
<1>3. Ranges' /\ CpuOK'
  BY <1>1, <1>2 DEF Parts, Ranges, CpuOK, queues, canonb
<1>4. QED BY <1>1, <1>2, <1>3, CountKept DEF Parts, queues, canonb

(* The interrupt key, and a queue that is too long.                        *)
LEMMA KeyFlushInv ==
  ASSUME Parts, KeyFlush
  PROVE  Parts'
<1>1. /\ Flushtty /\ pc' = Woken(TRUE, TRUE) /\ tout' \in BOOLEAN
      /\ UNCHANGED <<asleep, line, last, cpu>>
  BY DEF KeyFlush
<1>2. /\ pc' \in [Proc -> Places]
      /\ \A q \in Proc : /\ pc'[q] \in Running <=> pc[q] \in Running
                         /\ pc'[q] = "delct" <=> pc[q] = "delct"
  BY <1>1, WokenFacts
<1>3. CpuOK'
  BY <1>1, <1>2 DEF Parts, CpuOK
<1>4. QED BY <1>1, <1>2, <1>3, FlushFacts DEF Parts, Ranges

(* A key is put in the queue, and one that ends a line wakes the sleepers. *)
LEMMA KeyCharInv ==
  ASSUME Parts, NEW c \in Chars, KeyChar(c)
  PROVE  Parts'
<1> DEFINE ends == c \in {"nl", "eof"}
<1>1. /\ rawq' = IF ends THEN rawq \o <<c, "delim">> ELSE Append(rawq, c)
      /\ delct' = IF ends THEN delct + 1 ELSE delct
      /\ pc' = IF ends THEN Woken(TRUE, FALSE) ELSE pc
      /\ UNCHANGED <<canq, asleep, canonb, cpu>>
      /\ stopped' = FALSE
  BY DEF KeyChar
<1>2. outq' \in Nat /\ tout' \in BOOLEAN
  <2>1. outq + (IF c = "eof" THEN 0 ELSE 1) \in Nat
    BY DEF Parts, Ranges
  <2>2. QED BY <2>1, ScstartFacts DEF KeyChar
<1>3. rawq \o <<c, "delim">> = Append(Append(rawq, c), "delim")
  BY DEF Parts, Ranges
<1>4. Append(rawq, c) \in Seq(Chars \cup {"delim"})
  BY AppendProperties DEF Parts, Ranges
<1>5. rawq' \in Seq(Chars \cup {"delim"})
  <2>1. Append(Append(rawq, c), "delim") \in Seq(Chars \cup {"delim"})
    BY <1>4, AppendProperties
  <2>2. QED BY <1>1, <1>3, <1>4, <2>1
<1>6. Delims \in Nat /\ Delims' = Delims + (IF ends THEN 1 ELSE 0)
  <2>1. Delims \in Nat /\ rawq \in Seq(Chars \cup {"delim"}) /\ c # "delim"
    BY DelimsNat DEF Parts, Ranges, Delims, Chars
  <2>2. DelimsOf(Append(rawq, c)) = Delims
    BY <2>1, DelimsAppend DEF Delims
  <2>3. DelimsOf(Append(Append(rawq, c), "delim")) = Delims + 1
    BY <1>4, <2>1, <2>2, DelimsAppend
  <2>4. Delims' = DelimsOf(rawq')
    BY DEF Delims
  <2> HIDE DEF ends
  <2>5. CASE ends
    BY <1>1, <1>3, <2>1, <2>3, <2>4, <2>5
  <2>6. CASE ~ ends
    BY <1>1, <2>1, <2>2, <2>4, <2>6
  <2>7. QED BY <2>5, <2>6
<1>7. /\ pc' \in [Proc -> Places]
      /\ \A q \in Proc : /\ pc'[q] \in Running <=> pc[q] \in Running
                         /\ pc'[q] = "delct" <=> pc[q] = "delct"
                         /\ pc'[q] = "readsleep" => pc[q] = "readsleep" /\ ~ ends
  BY <1>1, WokenFacts DEF Parts, Ranges
<1> HIDE DEF ends
<1>8. Ranges' /\ CpuOK'
  BY <1>1, <1>2, <1>5, <1>7 DEF Parts, Ranges, CpuOK, canonb
<1>9. InDelct' = InDelct
  BY <1>7 DEF InDelct
<1>10. CountOK'
  BY <1>1, <1>6, <1>9 DEF Parts, CountOK, canonb
<1>11. SleepersOK'
  <2>1. ~ ends => Delims' = Delims
    BY <1>6
  <2>2. early' = early
    BY <1>1 DEF canonb
  <2>3. QED BY <1>7, <2>1, <2>2 DEF Parts, SleepersOK
<1>12. QED BY <1>8, <1>10, <1>11 DEF Parts

-----------------------------------------------------------------------------
(* The terminal is opened with empty queues.                               *)
LEMMA InitInv == Init => Parts
<1> SUFFICES ASSUME Init PROVE Parts
  OBVIOUS
<1>1. rawq = <<>> /\ delct = 0 /\ early = FALSE /\ \A p \in Proc : pc[p] = "user"
  BY DEF Init
<1>2. Delims = 0 /\ ~ InDelct
  BY <1>1, DelimsEmpty DEF Delims, InDelct
<1>3. Ranges
  <2>1. pc \in [Proc -> Places] /\ cpu \in Proc \cup {None}
    BY DEF Init, Places
  <2>2. \A S : <<>> \in Seq(S)
    OBVIOUS
  <2>3. {stopped, asleep, tout, cut, early, split} \subseteq BOOLEAN /\ outq \in Nat
    BY DEF Init
  <2>4. QED BY <2>1, <2>2, <2>3 DEF Init, Ranges
<1>4. QED BY <1>1, <1>2, <1>3 DEF Parts, CountOK, SleepersOK, CpuOK, Running

(* Every step preserves the inductive invariant.                           *)
LEMMA NextInv == Parts /\ [Next]_vars => Parts'
<1> SUFFICES ASSUME Parts, [Next]_vars PROVE Parts'
  OBVIOUS
<1>1. CASE UNCHANGED vars
  BY <1>1 DEF Parts, Ranges, CountOK, SleepersOK, CpuOK, Delims, InDelct,
    vars, queues, output, canonb, place
<1>2. ASSUME NEW p \in Proc, Calls(p) PROVE Parts'
  BY <1>2, InterruptedInv, ReadSteps, WriteSteps DEF Calls
<1>3. ASSUME NEW p \in Proc, Rest(p) PROVE Parts'
  BY <1>3, WriteSteps, SetpFlushInv, CanonSleepInv, ReadSteps, CanonGetcInv,
    CanonDelctInv DEF Rest
<1>4. CASE Keyboard \/ Scxint
  BY <1>4, OutputSteps, KeyFlushInv, KeyCharInv DEF Keyboard
<1>5. QED BY <1>1, <1>2, <1>3, <1>4 DEF Next

(* DelimitersCounted: at every moment t_delct is the number of delimiters  *)
(* in the raw queue, one more while canon has taken one and not counted it *)
(* down, one less from a flush that came just then until the next; and     *)
(* unless it is less nobody sleeps in canon while a line waits (tty.c).    *)
THEOREM DelimitersCounted == Spec => []DelctCounts
<1>1. Parts => DelctCounts
  BY PartsInv DEF DelctInv
<1>2. QED BY <1>1, InitInv, NextInv, PTL DEF Spec

-----------------------------------------------------------------------------
(* Why a read that returns nothing saw an end of file.  canon takes the    *)
(* keys of the raw queue in these places; what the queue holds, and what   *)
(* canon has taken already, tells what it will end with.                   *)
Canoning == {"getc", "delct", "canonend"}
Idle == \A p \in Proc : pc[p] \notin Canoning
AtDelim == rawq # <<>> /\ rawq[1] = "delim"

(* A delimiter comes behind the key that ends the line.                    *)
LinesOK == \A i \in 2 .. Len(rawq) : rawq[i] = "delim" => rawq[i - 1] \in {"nl", "eof"}

(* At the head that key is gone: canon has just taken it, or has given the *)
(* line back because canonb was full.                                      *)
HeadOK ==
  AtDelim =>
    /\ Idle => split
    /\ \A p \in Proc :
         /\ pc[p] = "getc" => last \in {"nl", "eof"} \/ (last = "none" /\ split)
         /\ pc[p] # "delct"
         /\ pc[p] = "canonend" => Len(line) >= CANBSIZ

(* Between reads canonb is empty; within one it has the last key taken, if *)
(* that was no editing key; canon finds no key at all only if its line was *)
(* taken away, was never there or lost its end to the read before.         *)
CanonOK ==
  /\ Idle => line = <<>> /\ last = "none"
  /\ last \in {"char", "nl"} => line # <<>>
  /\ \A p \in Proc :
       /\ pc[p] = "getc" => Len(line) < CANBSIZ
       /\ pc[p] = "getc" /\ last = "none" => rawq # <<>> \/ cut \/ early
       /\ pc[p] \in {"delct", "canonend"} /\ last = "none" => split \/ cut \/ early

EofParts == LinesOK /\ HeadOK /\ CanonOK

-----------------------------------------------------------------------------
(* A step that leaves the raw queue and canonb alone, and what processes   *)
(* do in canon.                                                            *)
LEMMA EofKept ==
  ASSUME EofParts, UNCHANGED <<rawq, line, last, cut, early, split>>,
         \A q \in Proc, w \in Canoning : pc'[q] = w <=> pc[q] = w
  PROVE  EofParts'
<1>1. Idle' <=> Idle
  BY DEF Idle, Canoning
<1>2. \A q \in Proc : /\ pc'[q] = "getc" <=> pc[q] = "getc"
                      /\ pc'[q] = "delct" <=> pc[q] = "delct"
                      /\ pc'[q] = "canonend" <=> pc[q] = "canonend"
  BY DEF Canoning
<1>3. LinesOK' /\ AtDelim' = AtDelim
  BY DEF EofParts, LinesOK, AtDelim
<1>4. HeadOK'
  BY <1>1, <1>2, <1>3 DEF EofParts, HeadOK
<1>5. CanonOK'
  BY <1>1, <1>2 DEF EofParts, CanonOK
<1>6. QED BY <1>3, <1>4, <1>5 DEF EofParts

(* wakeup moves nobody in canon.                                           *)
LEMMA WokenEof ==
  ASSUME Parts, NEW in \in BOOLEAN, NEW out \in BOOLEAN
  PROVE  \A q \in Proc, w \in Canoning : Woken(in, out)[q] = w <=> pc[q] = w
BY DEF Parts, Ranges, Woken, Reader, Canoning, Places

(* A process that is in canon is alone there.                              *)
LEMMA AloneInCanon ==
  ASSUME Parts, NEW p \in Proc, NEW from, At(p, from)
  PROVE  \A q \in Proc \ {p} : pc[q] \notin Canoning
BY TerminalAssumption DEF Parts, Ranges, CpuOK, At, Running, Canoning

(* The steps before, after and outside of canon.                           *)
LEMMA QuietSteps ==
  ASSUME Parts, EofParts, NEW p \in Proc,
         \/ Calls(p) \/ WriteTest(p) \/ WritePut(p) \/ WriteEnd(p) \/ SetpSleep(p)
         \/ CanonSleep(p) \/ Copy(p) \/ CopyPassc(p)
  PROVE  EofParts'
<1>1. UNCHANGED <<rawq, line, last, cut, early, split>>
  BY DEF Calls, Interrupted, StartRead, StartWrite, StartSetp, WriteTest, WritePut,
    WriteEnd, SetpSleep, CanonSleep, Copy, CopyPassc, queues, canonb
<1>2. PICK to \in Places \ Canoning : pc' = [pc EXCEPT ![p] = to]
  BY DEF Calls, Interrupted, StartRead, StartWrite, StartSetp, WriteTest, WritePut,
    WriteEnd, SetpSleep, CanonSleep, Copy, CopyPassc, Goes, Stops, Places, Canoning
<1>3. pc[p] \notin Canoning
  BY DEF Calls, Interrupted, StartRead, StartWrite, StartSetp, WriteTest, WritePut,
    WriteEnd, SetpSleep, CanonSleep, Copy, CopyPassc, At, Canoning
<1>4. \A q \in Proc, w \in Canoning : pc'[q] = w <=> pc[q] = w
  BY <1>2, <1>3 DEF Parts, Ranges
<1>5. QED BY <1>1, <1>4, EofKept

(* The first test of ttread's loop, where canon is over.                   *)
LEMMA CopyFirstEof ==
  ASSUME Parts, EofParts, NEW p \in Proc, CopyFirst(p)
  PROVE  EofParts'
<1>1. /\ UNCHANGED <<rawq, line, last, early, split>> /\ At(p, "first")
      /\ \E to \in {"user", "passc"} : pc' = [pc EXCEPT ![p] = to]
  BY DEF CopyFirst, queues, Goes, Stops
<1>2. \A q \in Proc : pc[q] \notin Canoning /\ pc'[q] \notin Canoning
  <2>1. pc[p] = "first" /\ \A q \in Proc \ {p} : pc[q] \notin Canoning
    BY <1>1, AloneInCanon DEF At
  <2>2. QED BY <1>1, <2>1 DEF Parts, Ranges, Canoning
<1>3. Idle /\ Idle'
  BY <1>2 DEF Idle
<1>4. LinesOK' /\ AtDelim' = AtDelim
  BY <1>1 DEF EofParts, LinesOK, AtDelim
<1>5. HeadOK'
  BY <1>1, <1>2, <1>3, <1>4 DEF EofParts, HeadOK, Canoning
<1>6. CanonOK'
  BY <1>1, <1>2, <1>3 DEF EofParts, CanonOK, Canoning
<1>7. QED BY <1>4, <1>5, <1>6 DEF EofParts

(* A flush leaves no delimiter, and tells canon that it took the line.     *)
LEMMA FlushEof ==
  ASSUME Parts, EofParts, Flushtty, UNCHANGED <<line, last>>,
         \A q \in Proc, w \in Canoning : pc'[q] = w <=> pc[q] = w
  PROVE  EofParts'
<1>1. /\ rawq' = <<>>
      /\ cut' = \E q \in Proc : pc[q] \in {"getc", "delct", "canonend", "first"}
  BY DEF Flushtty
<1>2. LinesOK' /\ HeadOK'
  BY <1>1 DEF LinesOK, HeadOK, AtDelim
<1>3. Idle' <=> Idle
  BY DEF Idle, Canoning
<1>4. \A q \in Proc : /\ pc'[q] = "getc" <=> pc[q] = "getc"
                      /\ pc'[q] = "delct" <=> pc[q] = "delct"
                      /\ pc'[q] = "canonend" <=> pc[q] = "canonend"
  BY DEF Canoning
<1>5. \A q \in Proc : pc[q] \in {"getc", "delct", "canonend"} => cut'
  BY <1>1
<1>6. CanonOK'
  BY <1>3, <1>4, <1>5 DEF EofParts, CanonOK
<1>7. QED BY <1>2, <1>6 DEF EofParts

LEMMA SetpFlushEof ==
  ASSUME Parts, EofParts, NEW p \in Proc, SetpFlush(p)
  PROVE  EofParts'
<1>1. /\ pc[p] = "setp" /\ Flushtty /\ UNCHANGED <<line, last>>
      /\ pc' = [Woken(TRUE, TRUE) EXCEPT ![p] = "user"]
  BY DEF SetpFlush, At
<1>2. /\ pc'[p] = "user" /\ \A q \in Proc \ {p} : pc'[q] = Woken(TRUE, TRUE)[q]
  BY <1>1, WokenFacts
<1>3. ASSUME NEW q \in Proc, NEW w \in Canoning PROVE pc'[q] = w <=> pc[q] = w
  <2>1. CASE q = p
    BY <1>1, <1>2, <2>1 DEF Canoning
  <2>2. CASE q # p
    <3>1. Woken(TRUE, TRUE)[q] = w <=> pc[q] = w
      BY WokenEof
    <3>2. QED BY <1>2, <2>2, <3>1
  <2>3. QED BY <2>1, <2>2
<1>4. QED BY <1>1, <1>3, FlushEof

(* A key is put behind the others, a delimiter behind its key.             *)
LEMMA KeyCharEof ==
  ASSUME Parts, EofParts, NEW c \in Chars, KeyChar(c)
  PROVE  EofParts'
<1> DEFINE n == Len(rawq)
<1>1. /\ \/ c \in {"nl", "eof"} /\ rawq' = rawq \o <<c, "delim">> /\ pc' = Woken(TRUE, FALSE)
         \/ c \notin {"nl", "eof"} /\ rawq' = Append(rawq, c) /\ pc' = pc
      /\ UNCHANGED <<line, last, cut, early, split>>
  BY DEF KeyChar, canonb
<1>2. rawq \in Seq(Chars \cup {"delim"}) /\ n \in Nat /\ c # "delim"
  BY LenProperties DEF Parts, Ranges, Chars
<1>3. \A q \in Proc, w \in Canoning : pc'[q] = w <=> pc[q] = w
  BY <1>1, WokenEof
<1>4. /\ \A i \in 1 .. n : rawq'[i] = rawq[i]
      /\ rawq'[n + 1] = c /\ Len(rawq') \in {n + 1, n + 2}
      /\ Len(rawq') = n + 2 => c \in {"nl", "eof"}
  <2>1. CASE c \in {"nl", "eof"}
    <3>1. rawq' = rawq \o <<c, "delim">>
      BY <1>1, <2>1
    <3>2. QED BY <1>2, <2>1, <3>1
  <2>2. CASE c \notin {"nl", "eof"}
    <3>1. rawq' = Append(rawq, c)
      BY <1>1, <2>2
    <3>2. QED BY <1>2, <2>2, <3>1
  <2>3. QED BY <2>1, <2>2
<1>5. rawq' # <<>> /\ (rawq # <<>> => n >= 1)
  <2>1. rawq' # <<>>
    BY <1>2, <1>4
  <2>2. rawq # <<>> => n >= 1
    BY <1>2, EmptySeq
  <2>3. QED BY <2>1, <2>2
<1>6. LinesOK'
  <2> SUFFICES ASSUME NEW i \in 2 .. Len(rawq'), rawq'[i] = "delim"
               PROVE  rawq'[i - 1] \in {"nl", "eof"}
    BY DEF LinesOK
  <2>1. CASE i <= n
    <3>1. i \in 1 .. n /\ i - 1 \in 1 .. n /\ i \in 2 .. n
      BY <1>2, <2>1
    <3>2. QED BY <1>4, <3>1 DEF EofParts, LinesOK
  <2>2. CASE i = n + 1
    BY <1>2, <1>4, <2>2
  <2>3. CASE i = n + 2
    <3>1. i - 1 = n + 1 /\ Len(rawq') = n + 2
      BY <1>2, <1>4, <2>3
    <3>2. QED BY <1>4, <3>1
  <2>4. i <= n + 2
    BY <1>2, <1>4
  <2>5. QED BY <1>2, <2>1, <2>2, <2>3, <2>4
<1>7. AtDelim' => AtDelim
  <2> SUFFICES ASSUME AtDelim' PROVE AtDelim
    OBVIOUS
  <2>1. rawq'[1] = "delim"
    BY DEF AtDelim
  <2>2. n >= 1
    BY <1>2, <1>4, <2>1
  <2>3. rawq'[1] = rawq[1] /\ rawq # <<>>
    BY <1>2, <1>4, <2>2
  <2>4. QED BY <2>1, <2>3 DEF AtDelim
<1>8. \A q \in Proc : /\ pc'[q] = "getc" <=> pc[q] = "getc"
                      /\ pc'[q] = "delct" <=> pc[q] = "delct"
                      /\ pc'[q] = "canonend" <=> pc[q] = "canonend"
  BY <1>3 DEF Canoning
<1>9. Idle' <=> Idle
  BY <1>3 DEF Idle, Canoning
<1> HIDE DEF n
<1>10. HeadOK'
  BY <1>1, <1>7, <1>8, <1>9 DEF EofParts, HeadOK
<1>11. CanonOK'
  BY <1>1, <1>5, <1>8, <1>9 DEF EofParts, CanonOK
<1>12. QED BY <1>6, <1>10, <1>11 DEF EofParts

-----------------------------------------------------------------------------
(* What each step of canon does to the place of its process: it is alone   *)
(* in canon before and after.                                              *)
LEMMA CanonMoves ==
  ASSUME Parts, NEW p \in Proc, NEW from \in Canoning \cup {"canon"},
         NEW to \in Canoning \cup {"user", "first"},
         At(p, from), pc' = [pc EXCEPT ![p] = to]
  PROVE  /\ pc[p] = from /\ pc'[p] = to
         /\ \A q \in Proc : q # p => pc[q] \notin Canoning /\ pc'[q] \notin Canoning
         /\ to \in Canoning => ~ Idle'
         /\ to \notin Canoning => Idle'
         /\ from \in Canoning => ~ Idle
         /\ from \notin Canoning => Idle
<1>1. pc[p] = from /\ pc'[p] = to /\ \A q \in Proc : q # p => pc'[q] = pc[q]
  BY DEF Parts, Ranges, At
<1>2. \A q \in Proc : q # p => pc[q] \notin Canoning
  BY AloneInCanon
<1>3. QED BY <1>1, <1>2 DEF Idle

(* canon begins only when a delimiter is counted: there is one, unless the *)
(* count is behind.                                                        *)
LEMMA CanonBeginEof ==
  ASSUME Parts, EofParts, NEW p \in Proc, CanonBegin(p)
  PROVE  EofParts'
<1>1. /\ At(p, "canon") /\ delct # 0 /\ pc' = [pc EXCEPT ![p] = "getc"]
      /\ UNCHANGED <<rawq, line, last, cut, early, split>>
  BY DEF CanonBegin, Goes, queues, canonb
<1>2. /\ pc[p] = "canon" /\ pc'[p] = "getc" /\ Idle /\ ~ Idle'
      /\ \A q \in Proc : q # p => pc[q] \notin Canoning /\ pc'[q] \notin Canoning
  BY <1>1, CanonMoves DEF Canoning
<1>3. rawq # <<>> \/ early
  <2> SUFFICES ASSUME rawq = <<>>, ~ early PROVE FALSE
    OBVIOUS
  <2>1. Delims = 0 /\ ~ InDelct
    BY <1>2, DelimsEmpty DEF Delims, InDelct, Idle, Canoning
  <2>2. QED BY <1>1, <2>1 DEF Parts, CountOK
<1>4. line = <<>> /\ last = "none" /\ Len(line) < CANBSIZ
  BY <1>2, TerminalAssumption DEF EofParts, CanonOK
<1>5. LinesOK' /\ (AtDelim' => AtDelim)
  BY <1>1 DEF EofParts, LinesOK, AtDelim
<1>6. HeadOK'
  BY <1>1, <1>2, <1>4, <1>5 DEF EofParts, HeadOK, Canoning
<1>7. CanonOK'
  BY <1>1, <1>2, <1>3, <1>4 DEF EofParts, CanonOK, Canoning
<1>8. QED BY <1>5, <1>6, <1>7 DEF EofParts

(* canon finds the queue empty, or counts the delimiter it has taken.      *)
LEMMA CanonEndsEof ==
  ASSUME Parts, EofParts, NEW p \in Proc, CanonEmpty(p) \/ CanonDelct(p)
  PROVE  EofParts'
<1>1. PICK from \in {"getc", "delct"} :
        /\ At(p, from) /\ (from = "getc" => rawq = <<>>)
        /\ pc' = [pc EXCEPT ![p] = "canonend"]
        /\ UNCHANGED <<rawq, line, last, cut, early, split>>
  BY DEF CanonEmpty, CanonDelct, Goes, queues, canonb
<1>2. /\ pc[p] = from /\ pc'[p] = "canonend" /\ ~ Idle /\ ~ Idle'
      /\ \A q \in Proc : q # p => pc[q] \notin Canoning /\ pc'[q] \notin Canoning
  BY <1>1, CanonMoves DEF Canoning, CanonEmpty, CanonDelct
<1>3. ~ AtDelim
  BY <1>1, <1>2 DEF EofParts, HeadOK, AtDelim
<1>4. LinesOK' /\ HeadOK'
  BY <1>1, <1>3 DEF EofParts, LinesOK, HeadOK, AtDelim
<1>5. last = "none" => split \/ cut \/ early
  BY <1>1, <1>2 DEF EofParts, CanonOK
<1>6. CanonOK'
  BY <1>1, <1>2, <1>5 DEF EofParts, CanonOK, Canoning
<1>7. QED BY <1>4, <1>6 DEF EofParts

(* The line is given to the reader; what is left of it is its delimiter,   *)
(* and only if it filled canonb.                                           *)
LEMMA CanonEndEof ==
  ASSUME Parts, EofParts, NEW p \in Proc, CanonEnd(p)
  PROVE  EofParts'
<1>1. /\ At(p, "canonend") /\ line' = <<>> /\ last' = "none" /\ rawq' = rawq
      /\ split' = (Len(line) >= CANBSIZ /\ AtDelim)
  BY DEF CanonEnd, AtDelim
<1>2. PICK to \in {"user", "first"} : pc' = [pc EXCEPT ![p] = to]
  BY DEF CanonEnd, Stops, Goes
<1>3. /\ pc[p] = "canonend" /\ Idle'
      /\ \A q \in Proc : pc'[q] \notin Canoning
  BY <1>1, <1>2, CanonMoves DEF Canoning, Idle
<1>4. LinesOK' /\ AtDelim' = AtDelim
  BY <1>1 DEF EofParts, LinesOK, AtDelim
<1>5. AtDelim => Len(line) >= CANBSIZ
  BY <1>3 DEF EofParts, HeadOK
<1>6. HeadOK'
  BY <1>1, <1>3, <1>4, <1>5 DEF HeadOK, Canoning
<1>7. CanonOK'
  BY <1>1, <1>3 DEF CanonOK, Canoning
<1>8. QED BY <1>4, <1>6, <1>7 DEF EofParts

(* What is behind a character that canon takes.                            *)
LEMMA TakenFacts ==
  ASSUME Parts, EofParts, rawq # <<>>, rawq' = Tail(rawq)
  PROVE  /\ LinesOK'
         /\ AtDelim' => Head(rawq) \in {"nl", "eof"}
         /\ AtDelim <=> Head(rawq) = "delim"
<1>1. /\ rawq \in Seq(Chars \cup {"delim"}) /\ Len(rawq) \in Nat \ {0}
      /\ Len(rawq') = Len(rawq) - 1 /\ Head(rawq) = rawq[1]
      /\ \A i \in 1 .. Len(rawq') : rawq'[i] = rawq[i + 1]
  BY LenProperties, HeadTailProperties, EmptySeq DEF Parts, Ranges
<1>2. LinesOK'
  <2> SUFFICES ASSUME NEW i \in 2 .. Len(rawq'), rawq'[i] = "delim"
               PROVE  rawq'[i - 1] \in {"nl", "eof"}
    BY DEF LinesOK
  <2>1. i \in 1 .. Len(rawq') /\ i - 1 \in 1 .. Len(rawq') /\ i + 1 \in 2 .. Len(rawq)
    BY <1>1
  <2>2. rawq'[i] = rawq[i + 1] /\ rawq'[i - 1] = rawq[i]
    BY <1>1, <2>1
  <2>3. QED BY <1>1, <2>1, <2>2 DEF EofParts, LinesOK
<1>3. ASSUME AtDelim' PROVE rawq[1] \in {"nl", "eof"}
  <2>1. rawq' # <<>> /\ rawq'[1] = "delim"
    BY <1>3 DEF AtDelim
  <2>2. rawq' \in Seq(Chars \cup {"delim"})
    BY <1>1, HeadTailProperties
  <2>3. 1 \in 1 .. Len(rawq')
    BY <2>1, <2>2, EmptySeq, LenProperties
  <2>4. rawq[2] = "delim" /\ 2 \in 2 .. Len(rawq)
    BY <1>1, <2>1, <2>3
  <2>5. QED BY <2>4 DEF EofParts, LinesOK
<1>4. QED BY <1>1, <1>2, <1>3 DEF AtDelim

(* canon takes the delimiter ...                                           *)
LEMMA TakesDelim ==
  ASSUME Parts, EofParts, NEW p \in Proc, At(p, "getc"), rawq # <<>>,
         rawq' = Tail(rawq), Head(rawq) = "delim", Goes(p, "delct"),
         UNCHANGED <<line, last, cut, early, split>>
  PROVE  EofParts'
<1>1. /\ pc[p] = "getc" /\ pc'[p] = "delct" /\ ~ Idle'
      /\ \A q \in Proc : q # p => pc'[q] \notin Canoning
  BY CanonMoves DEF Canoning, Goes
<1>2. LinesOK' /\ ~ AtDelim' /\ AtDelim
  BY TakenFacts
<1>3. HeadOK'
  BY <1>2 DEF HeadOK
<1>4. last = "none" => split
  BY <1>1, <1>2 DEF EofParts, HeadOK
<1>5. CanonOK'
  BY <1>1, <1>4 DEF EofParts, CanonOK, Canoning
<1>6. QED BY <1>2, <1>3, <1>5 DEF EofParts

(* ... or a key, which it has taken last then.                             *)
LEMMA TakesKey ==
  ASSUME Parts, EofParts, NEW p \in Proc, At(p, "getc"), rawq # <<>>,
         rawq' = Tail(rawq), Head(rawq) # "delim",
         line' = Edited(Head(rawq)), last' = Head(rawq),
         Goes(p, IF Len(line') >= CANBSIZ THEN "canonend" ELSE "getc"),
         UNCHANGED <<cut, early, split>>
  PROVE  EofParts'
<1> DEFINE c == Head(rawq)
<1>1. PICK to \in {"getc", "canonend"} :
        /\ pc' = [pc EXCEPT ![p] = to]
        /\ to = IF Len(line') >= CANBSIZ THEN "canonend" ELSE "getc"
  BY DEF Goes
<1>2. /\ pc'[p] = to /\ ~ Idle'
      /\ \A q \in Proc : q # p => pc'[q] \notin Canoning
  BY <1>1, CanonMoves DEF Canoning
<1>3. LinesOK' /\ (AtDelim' => c \in {"nl", "eof"})
  BY TakenFacts
<1>4. c \in Chars
  BY HeadTailProperties DEF Parts, Ranges
<1>5. line \in Seq({"char", "nl"}) /\ Len(line) \in Nat
  BY LenProperties DEF Parts, Ranges
<1>6. Len(line') \in Nat /\ (c \in {"char", "nl"} => line' # <<>>)
  <2>1. CASE c \in {"char", "nl"}
    <3>1. line' = Append(line, c)
      BY <2>1 DEF Edited
    <3>2. QED BY <1>5, <3>1, AppendProperties
  <2>2. CASE c = "erase"
    <3>1. line' = SubSeq(line, 1, Len(line) - 1)
      BY <2>2 DEF Edited
    <3>2. \A i \in 1 .. Len(line) - 1 : line[i] \in {"char", "nl"}
      BY <1>5
    <3>3. SubSeq(line, 1, Len(line) - 1) \in Seq({"char", "nl"})
      BY <1>5, <3>2, SubSeqProperties
    <3>4. Len(line') \in Nat
      BY <3>1, <3>3, LenProperties
    <3>5. QED BY <2>2, <3>4
  <2>3. CASE c \in {"kill", "eof"}
    BY <1>5, <2>3 DEF Edited
  <2>4. QED BY <1>4, <2>1, <2>2, <2>3 DEF Chars
<1>7. to = "getc" => Len(line') < CANBSIZ
  BY <1>1, <1>6, TerminalAssumption
<1>8. c # "none"
  BY <1>4 DEF Chars
<1> HIDE DEF c
<1>9. last' = c
  BY DEF c
<1>10. to = "canonend" => Len(line') >= CANBSIZ
  BY <1>1
<1>11. HeadOK'
  BY <1>2, <1>3, <1>9, <1>10 DEF HeadOK, Canoning
<1>12. CanonOK'
  BY <1>2, <1>6, <1>7, <1>8, <1>9 DEF CanonOK, Canoning
<1>13. QED BY <1>3, <1>11, <1>12 DEF EofParts

LEMMA CanonGetcEof ==
  ASSUME Parts, EofParts, NEW p \in Proc, CanonGetc(p)
  PROVE  EofParts'
<1>1. CASE Head(rawq) = "delim"
  BY <1>1, TakesDelim DEF CanonGetc
<1>2. CASE Head(rawq) # "delim"
  BY <1>2, TakesKey DEF CanonGetc
<1>3. QED BY <1>1, <1>2

-----------------------------------------------------------------------------
LEMMA EofInit == Init => EofParts
<1> SUFFICES ASSUME Init PROVE EofParts
  OBVIOUS
<1>1. /\ rawq = <<>> /\ line = <<>> /\ last = "none"
      /\ \A p \in Proc : pc[p] \notin Canoning
  BY DEF Init, Canoning
<1>2. LinesOK /\ HeadOK
  BY <1>1 DEF LinesOK, HeadOK, AtDelim
<1>3. CanonOK
  BY <1>1 DEF CanonOK, Canoning
<1>4. QED BY <1>2, <1>3 DEF EofParts

LEMMA EofNext == Parts /\ EofParts /\ [Next]_vars => EofParts'
<1> SUFFICES ASSUME Parts, EofParts, [Next]_vars PROVE EofParts'
  OBVIOUS
<1>1. CASE UNCHANGED vars
  BY <1>1, EofKept DEF vars, queues, canonb, place
<1>2. ASSUME NEW p \in Proc, Calls(p) PROVE EofParts'
  BY <1>2, QuietSteps
<1>3. ASSUME NEW p \in Proc, Rest(p) PROVE EofParts'
  BY <1>3, QuietSteps, CopyFirstEof, SetpFlushEof, CanonBeginEof, CanonGetcEof, CanonEndsEof,
    CanonEndEof DEF Rest
<1>4. CASE KeyStop \/ KeyStart
  BY <1>4, EofKept DEF KeyStop, KeyStart, queues, canonb, place
<1>5. CASE KeyFlush
  BY <1>5, WokenEof, FlushEof DEF KeyFlush
<1>6. ASSUME NEW c \in Chars, KeyChar(c) PROVE EofParts'
  BY <1>6, KeyCharEof
<1>7. CASE Scxint
  <2>1. UNCHANGED <<rawq, line, last, cut, early, split>>
    BY <1>7 DEF Scxint, queues, canonb
  <2>2. pc' = pc \/ pc' = Woken(FALSE, TRUE)
    BY <1>7 DEF Scxint
  <2>3. QED BY <2>1, <2>2, WokenEof, EofKept
<1>8. QED BY <1>1, <1>2, <1>3, <1>4, <1>5, <1>6, <1>7 DEF Next, Keyboard

-----------------------------------------------------------------------------
(* Who is about to test t_canq.c_cc for the first time had a character to  *)
(* take; only a flush has taken it away.                                   *)
FirstOK == \A p \in Proc : pc[p] = "first" => canq # <<>> \/ cut

(* A step of a process that leaves the others where they are: they are not *)
(* there, as it has the processor.                                         *)
LEMMA FirstMine ==
  ASSUME Parts, NEW p \in Proc, cpu \in {p, None},
         \A q \in Proc : q # p /\ pc'[q] = "first" => pc[q] = "first",
         pc'[p] = "first" => canq' # <<>>
  PROVE  FirstOK'
<1>1. ASSUME NEW q \in Proc, q # p PROVE pc'[q] # "first"
  BY <1>1, TerminalAssumption DEF Parts, CpuOK, Running
<1>2. QED BY <1>1 DEF FirstOK

LEMMA FirstNext == Parts /\ FirstOK /\ [Next]_vars => FirstOK'
<1> SUFFICES ASSUME Parts, FirstOK, [Next]_vars PROVE FirstOK'
  OBVIOUS
<1>1. CASE UNCHANGED vars
  BY <1>1 DEF FirstOK, vars, queues, canonb, place
<1>2. ASSUME NEW p \in Proc, Calls(p) \/ Rest(p) PROVE FirstOK'
  <2>1. CASE SetpFlush(p)
    <3>1. \A q \in Proc : pc'[q] = "first" => pc[q] = "first"
      BY <2>1 DEF SetpFlush, Parts, Ranges, Woken, Reader
    <3>2. cpu \in {p, None} /\ pc[p] # "first"
      BY <2>1 DEF SetpFlush, At
    <3>3. QED BY <3>1, <3>2, FirstMine
  <2>2. CASE CanonEnd(p)
    <3>1. \A q \in Proc : q # p => pc'[q] = pc[q]
      BY <2>2 DEF CanonEnd, Goes, Stops, Parts, Ranges
    <3>2. pc'[p] = "first" => line # <<>>
      BY <2>2 DEF CanonEnd, Goes, Stops, Parts, Ranges
    <3>3. line # <<>> => canq \o line # <<>>
      <4>1. canq \in Seq({"char", "nl"}) /\ line \in Seq({"char", "nl"})
        BY DEF Parts, Ranges
      <4>2. QED BY <4>1, ConcatProperties, EmptySeq, LenProperties
    <3>4. cpu \in {p, None} /\ canq' = canq \o line
      BY <2>2 DEF CanonEnd, At
    <3>5. QED BY <3>1, <3>2, <3>3, <3>4, FirstMine
  <2>3. CASE StartRead(p)
    <3>1. /\ cpu \in {p, None} /\ canq' = canq
          /\ \A q \in Proc : q # p => pc'[q] = pc[q]
          /\ pc'[p] = "first" => canq # <<>>
      BY <2>3 DEF StartRead, At, Goes, queues, Parts, Ranges
    <3>2. QED BY <3>1, FirstMine
  <2>4. CASE ~ SetpFlush(p) /\ ~ CanonEnd(p) /\ ~ StartRead(p)
    <3>1. cpu \in {p, None}
      BY <1>2, <2>4 DEF Calls, Rest, Interrupted, StartWrite, StartSetp, WriteTest,
        WritePut, WriteEnd, SetpSleep, CanonSleep, CanonBegin, CanonGetc, CanonEmpty,
        CanonDelct, CopyFirst, Copy, CopyPassc, At
    <3>2. PICK to \in Places \ {"first"} : pc' = [pc EXCEPT ![p] = to]
      BY <1>2, <2>4 DEF Calls, Rest, Interrupted, StartWrite, StartSetp, WriteTest,
        WritePut, WriteEnd, SetpSleep, CanonSleep, CanonBegin, CanonGetc, CanonEmpty,
        CanonDelct, CopyFirst, Copy, CopyPassc, Goes, Stops, Places
    <3>3. pc'[p] # "first" /\ \A q \in Proc : q # p => pc'[q] = pc[q]
      BY <3>2 DEF Parts, Ranges
    <3>4. QED BY <3>1, <3>3, FirstMine
  <2>5. QED BY <2>1, <2>2, <2>3, <2>4
<1>3. CASE KeyFlush
  <2>1. \A q \in Proc : pc'[q] = "first" => pc[q] = "first"
    BY <1>3 DEF KeyFlush, Parts, Ranges, Woken, Reader
  <2>2. \A q \in Proc : pc[q] = "first" => cut'
    BY <1>3 DEF KeyFlush, Flushtty
  <2>3. QED BY <2>1, <2>2 DEF FirstOK
<1>4. CASE KeyStop \/ KeyStart \/ Scxint \/ \E c \in Chars : KeyChar(c)
  <2>1. canq' = canq /\ cut' = cut
    BY <1>4 DEF KeyStop, KeyStart, Scxint, KeyChar, queues, canonb
  <2>2. pc' = pc \/ pc' = Woken(FALSE, TRUE) \/ pc' = Woken(TRUE, FALSE)
    BY <1>4 DEF KeyStop, KeyStart, Scxint, KeyChar, place
  <2>3. \A q \in Proc : pc'[q] = "first" => pc[q] = "first"
    BY <2>2 DEF Parts, Ranges, Woken, Reader
  <2>4. QED BY <2>1, <2>3 DEF FirstOK
<1>5. QED BY <1>1, <1>2, <1>3, <1>4 DEF Next, Keyboard

(* What NoFalseEof says of a step.                                         *)
EofStep ==
  \A p \in Proc :
    /\ CanonEnd(p) /\ line = <<>> => last \in {"eof", "erase", "kill"} \/ cut \/ early
                                      \/ (split /\ last = "none")
    /\ CopyFirst(p) /\ canq = <<>> => cut

LEMMA EofStepOK == Parts /\ EofParts /\ FirstOK => EofStep
<1> SUFFICES ASSUME Parts, EofParts, FirstOK, NEW p \in Proc
             PROVE  /\ CanonEnd(p) /\ line = <<>> =>
                         \/ last \in {"eof", "erase", "kill"} \/ cut \/ early
                         \/ (split /\ last = "none")
                    /\ CopyFirst(p) /\ canq = <<>> => cut
  BY DEF EofStep
<1>1. ASSUME CanonEnd(p), line = <<>>
      PROVE  \/ last \in {"eof", "erase", "kill"} \/ cut \/ early
             \/ (split /\ last = "none")
  <2>1. pc[p] = "canonend"
    BY <1>1 DEF CanonEnd, At
  <2>2. last \notin {"char", "nl"} /\ (last = "none" => split \/ cut \/ early)
    BY <1>1, <2>1 DEF EofParts, CanonOK
  <2>3. QED BY <2>2 DEF Parts, Ranges, Chars
<1>2. ASSUME CopyFirst(p), canq = <<>> PROVE cut
  BY <1>2 DEF CopyFirst, At, FirstOK
<1>3. QED BY <1>1, <1>2

(* EofIsTyped: at every step, a read that returns nothing has read an end  *)
(* of file key, or keys that edited its line away, unless the queues were  *)
(* flushed under it, in canon or before it took its first character,       *)
(* t_delct was behind after a flush, or the line before filled canonb and  *)
(* left its delimiter (canon and ttread, tty.c).                           *)
THEOREM EofIsTyped == Spec => NoFalseEof
<1>1. Init => FirstOK
  BY DEF Init, FirstOK
<1>2. Spec => [](Parts /\ EofParts /\ FirstOK)
  BY <1>1, InitInv, NextInv, EofInit, EofNext, FirstNext, PTL DEF Spec
<1>3. Parts /\ EofParts /\ FirstOK => [EofStep]_vars
  BY EofStepOK
<1>4. [EofStep]_vars <=>
        [\A p \in Proc :
           /\ CanonEnd(p) /\ line = <<>> => last \in {"eof", "erase", "kill"} \/ cut \/ early
                                             \/ (split /\ last = "none")
           /\ CopyFirst(p) /\ canq = <<>> => cut]_vars
  BY DEF EofStep
<1>5. QED BY <1>2, <1>3, <1>4, PTL DEF Spec, NoFalseEof
=============================================================================
