------------------------- MODULE BufferCacheProofs -------------------------
(***************************************************************************)
(* Theorems about the buffer cache, for every set of processes, buffers,   *)
(* blocks and tasks: the inductive invariant IndInv of BufferCache, the    *)
(* safety properties that follow from it, and the contents of the buffers, *)
(* by which the cache implements BlockStore.                               *)
(***************************************************************************)
EXTENDS BufferCache, SequenceTheorems, FiniteSetTheorems, TLAPS

(* Lists without duplicates: appending, prepending, unlinking the first    *)
(* element or any other.                                                   *)
LEMMA AppendFacts ==
  ASSUME NEW S, NEW s \in Seq(S), NEW x \in S
  PROVE  /\ Append(s, x) \in Seq(S)
         /\ ToSet(Append(s, x)) = ToSet(s) \cup {x}
         /\ IsInjective(s) /\ x \notin ToSet(s) => IsInjective(Append(s, x))
<1> DEFINE t == Append(s, x)
<1>1. /\ t \in Seq(S) /\ Len(t) = Len(s) + 1
      /\ \A i \in 1 .. Len(s) : t[i] = s[i]
      /\ t[Len(s) + 1] = x
  BY AppendProperties
<1>2. DOMAIN s = 1 .. Len(s) /\ DOMAIN t = 1 .. Len(s) + 1 /\ Len(s) \in Nat
  BY <1>1
<1> HIDE DEF t
<1>3. ToSet(t) = ToSet(s) \cup {x}
  BY <1>1, <1>2 DEF ToSet
<1>4. ASSUME IsInjective(s), x \notin ToSet(s) PROVE IsInjective(t)
  BY <1>1, <1>2, <1>4 DEF ToSet, IsInjective
<1>5. QED BY <1>1, <1>3, <1>4 DEF t

LEMMA PrependFacts ==
  ASSUME NEW S, NEW s \in Seq(S), NEW x \in S
  PROVE  /\ Cons(x, s) \in Seq(S)
         /\ ToSet(Cons(x, s)) = ToSet(s) \cup {x}
         /\ IsInjective(s) /\ x \notin ToSet(s) => IsInjective(Cons(x, s))
<1> DEFINE t == <<x>> \o s
<1>1. /\ t \in Seq(S) /\ Len(t) = Len(s) + 1
      /\ \A i \in 1 .. Len(s) : t[i + 1] = s[i]
      /\ t[1] = x
  BY ConcatProperties
<1>2. DOMAIN s = 1 .. Len(s) /\ DOMAIN t = 1 .. Len(s) + 1 /\ Len(s) \in Nat
  BY <1>1
<1> HIDE DEF t
<1>3. \A i \in 2 .. Len(s) + 1 : i - 1 \in 1 .. Len(s) /\ t[i] = s[i - 1]
  <2> SUFFICES ASSUME NEW i \in 2 .. Len(s) + 1
               PROVE  i - 1 \in 1 .. Len(s) /\ t[i] = s[i - 1]
    OBVIOUS
  <2>1. i - 1 \in 1 .. Len(s) /\ (i - 1) + 1 = i
    BY <1>2
  <2>2. QED BY <2>1, <1>1
<1>4. ToSet(t) = ToSet(s) \cup {x}
  BY SMTT(40), <1>1, <1>2, <1>3 DEF ToSet
<1>5. ASSUME IsInjective(s), x \notin ToSet(s) PROVE IsInjective(t)
  <2>1. \A i \in 2 .. Len(s) + 1 : t[i] \in ToSet(s) /\ t[i] # t[1]
    BY <1>1, <1>2, <1>3, <1>5 DEF ToSet
  <2>2. \A i, j \in 2 .. Len(s) + 1 : t[i] = t[j] => i = j
    <3> SUFFICES ASSUME NEW i \in 2 .. Len(s) + 1, NEW j \in 2 .. Len(s) + 1,
                        t[i] = t[j]
                 PROVE  i = j
      OBVIOUS
    <3>1. i - 1 = j - 1
      BY <1>2, <1>3, <1>5 DEF IsInjective
    <3>2. QED BY <3>1, <1>2
  <2>3. QED BY <2>1, <2>2, <1>2 DEF IsInjective
<1>6. QED BY <1>1, <1>4, <1>5 DEF t, Cons

LEMMA TailFacts ==
  ASSUME NEW S, NEW s \in Seq(S), s # <<>>, IsInjective(s)
  PROVE  /\ Tail(s) \in Seq(S)
         /\ Head(s) \in S
         /\ Head(s) \in ToSet(s)
         /\ ToSet(Tail(s)) = ToSet(s) \ {Head(s)}
         /\ IsInjective(Tail(s))
<1> DEFINE t == Tail(s)
<1>1. /\ t \in Seq(S) /\ Head(s) \in S /\ Len(t) = Len(s) - 1
      /\ \A i \in 1 .. Len(t) : t[i] = s[i + 1]
      /\ Head(s) = s[1]
  BY HeadTailProperties
<1>2. DOMAIN s = 1 .. Len(s) /\ DOMAIN t = 1 .. Len(s) - 1 /\ Len(s) \in Nat \ {0}
  BY <1>1
<1> HIDE DEF t
<1>3. Head(s) \in ToSet(s)
  BY <1>1, <1>2 DEF ToSet
<1>4. \A i \in 2 .. Len(s) : i - 1 \in DOMAIN t /\ t[i - 1] = s[i]
  <2> SUFFICES ASSUME NEW i \in 2 .. Len(s)
               PROVE  i - 1 \in DOMAIN t /\ t[i - 1] = s[i]
    OBVIOUS
  <2>1. i - 1 \in 1 .. Len(s) - 1 /\ (i - 1) + 1 = i
    BY <1>2
  <2>2. QED BY <2>1, <1>1, <1>2
<1>5. ToSet(t) = ToSet(s) \ {Head(s)}
  <2>1. ToSet(t) \subseteq ToSet(s) \ {Head(s)}
    BY SMTT(40), <1>1, <1>2 DEF ToSet, IsInjective
  <2>2. \A i \in 1 .. Len(s) : s[i] # Head(s) => s[i] \in ToSet(t)
    <3> SUFFICES ASSUME NEW i \in 1 .. Len(s), s[i] # s[1]
                 PROVE  s[i] \in ToSet(t)
      BY <1>1
    <3>1. i \in 2 .. Len(s)
      BY <1>2
    <3>2. QED BY <3>1, <1>4 DEF ToSet
  <2>3. QED BY <2>1, <2>2, <1>2 DEF ToSet
<1>6. IsInjective(t)
  <2> SUFFICES ASSUME NEW i \in 1 .. Len(s) - 1, NEW j \in 1 .. Len(s) - 1, t[i] = t[j]
               PROVE  i = j
    BY <1>2 DEF IsInjective
  <2>1. s[i + 1] = s[j + 1]
    BY <1>1, <1>2
  <2>2. i + 1 \in DOMAIN s /\ j + 1 \in DOMAIN s
    BY <1>2
  <2>3. i + 1 = j + 1
    BY <2>1, <2>2 DEF IsInjective
  <2>4. QED BY <2>3, <1>2
<1>7. QED BY <1>1, <1>3, <1>5, <1>6 DEF t

LEMMA RemoveFacts ==
  ASSUME NEW S, NEW s \in Seq(S), NEW i \in DOMAIN s, IsInjective(s)
  PROVE  /\ RemoveAt(s, i) \in Seq(S)
         /\ ToSet(RemoveAt(s, i)) = ToSet(s) \ {s[i]}
         /\ IsInjective(RemoveAt(s, i))
<1> DEFINE a == SubSeq(s, 1, i - 1)
           b == SubSeq(s, i + 1, Len(s))
           t == a \o b
<1>1. DOMAIN s = 1 .. Len(s) /\ Len(s) \in Nat /\ i \in 1 .. Len(s)
      /\ \A j \in 1 .. Len(s) : s[j] \in S
  OBVIOUS
<1>2. a \in Seq(S) /\ Len(a) = i - 1 /\ \A j \in 1 .. i - 1 : a[j] = s[j]
  BY <1>1, SubSeqProperties, Z3
<1>3. /\ b \in Seq(S) /\ Len(b) = Len(s) - i
      /\ \A j \in 1 .. Len(s) - i : b[j] = s[i + j]
  BY <1>1, SubSeqProperties, Z3
<1> HIDE DEF a, b
<1>4. t \in Seq(S) /\ Len(t) = Len(s) - 1
  <2>1. t \in Seq(S) /\ Len(t) = Len(a) + Len(b)
    BY <1>2, <1>3, ConcatProperties
  <2>2. QED BY <2>1, <1>1, <1>2, <1>3
<1>5. \A j \in 1 .. Len(s) - 1 : t[j] = IF j < i THEN s[j] ELSE s[j + 1]
  <2> SUFFICES ASSUME NEW j \in 1 .. Len(s) - 1
               PROVE  t[j] = IF j < i THEN s[j] ELSE s[j + 1]
    OBVIOUS
  <2>1. t[j] = IF j <= Len(a) THEN a[j] ELSE b[j - Len(a)]
    <3>1. j \in 1 .. Len(a) + Len(b)
      BY <1>1, <1>2, <1>3
    <3>2. QED BY <3>1, <1>2, <1>3, ConcatProperties
  <2>2. CASE j < i
    BY <2>1, <2>2, <1>1, <1>2
  <2>3. CASE ~(j < i)
    <3>1. j - (i - 1) \in 1 .. Len(s) - i /\ i + (j - (i - 1)) = j + 1
      BY <2>3, <1>1
    <3>2. b[j - (i - 1)] = s[j + 1]
      BY <3>1, <1>3
    <3>3. ~(j <= Len(a)) /\ Len(a) = i - 1
      BY <2>3, <1>1, <1>2
    <3>4. QED BY <3>2, <3>3, <2>1, <2>3
  <2>4. QED BY <2>2, <2>3
<1>6. DOMAIN t = 1 .. Len(s) - 1
  BY <1>4, <1>1
<1> HIDE DEF t
<1>7. IsInjective(t)
  BY <1>1, <1>5, <1>6 DEF IsInjective
<1>8. ToSet(t) \subseteq ToSet(s) \ {s[i]}
  BY <1>1, <1>5, <1>6 DEF ToSet, IsInjective
<1>9. ToSet(s) \ {s[i]} \subseteq ToSet(t)
  <2> SUFFICES ASSUME NEW k \in 1 .. Len(s), k # i PROVE s[k] \in ToSet(t)
    BY <1>1 DEF ToSet
  <2>1. CASE k < i
    BY <2>1, <1>1, <1>5, <1>6 DEF ToSet
  <2>2. CASE k > i
    <3>1. k - 1 \in 1 .. Len(s) - 1 /\ ~(k - 1 < i) /\ (k - 1) + 1 = k
      BY <2>2, <1>1
    <3>2. QED BY <3>1, <1>5, <1>6 DEF ToSet
  <2>3. QED BY <2>1, <2>2, <1>1
<1>10. QED BY <1>4, <1>7, <1>8, <1>9 DEF a, b, t, RemoveAt

---------------------------------------------------------------------------
(* What one process does leaves the invariant of the others alone: of the  *)
(* buffers they hold, a step changes at most B_WANTED and B_AGE.           *)

Others(p) ==
  \A q \in Proc \ {p} :
    /\ pc'[q] = pc[q] /\ task'[q] = task[q] /\ want'[q] = want[q]
    /\ ret'[q] = ret[q] /\ cur'[q] = cur[q] /\ keep'[q] = keep[q]
    /\ wchan'[q] \in {wchan[q], None}

SameFlags(y) ==
  \A f \in {"BUSY", "ASYNC", "DONE", "ERROR"} : f \in flags'[y] <=> f \in flags[y]

LEMMA HeldFacts ==
  ASSUME IndInv, NEW q \in Proc
  PROVE  /\ \A y \in Held(q) : y \in Buf /\ "BUSY" \in flags[y] /\ "ASYNC" \notin flags[y]
                               /\ y \notin ToSet(free)
         /\ \A r \in Proc \ {q} : Held(q) \cap Held(r) = {}
         /\ keep[q] # None => keep[q] \in Held(q)
         /\ pc[q] \in {"got", "hold", "iowait", "fill", "link", "release"} =>
              cur[q] \in Held(q)
BY DEF IndInv, SharedOK, ProcOK, HeldOK, Held, BusyOwned, FreeIffNotBusy

LEMMA OthersProcOK ==
  ASSUME IndInv, NEW p \in Proc, NEW q \in Proc \ {p}, Others(p),
         cpu \in {None, p},
         \A y \in Held(q) : /\ SameFlags(y) /\ blk'[y] = blk[y]
                            /\ y \in ToSet(ioq') <=> y \in ToSet(ioq)
  PROVE  ProcOK(q)' /\ Held(q)' = Held(q)
<1> USE CacheAssumption, HeldFacts DEF Others, SameFlags
<1>1. Held(q)' = Held(q)
  BY DEF Held
<1>2. pc[q] # "found"
  BY DEF IndInv, ProcOK, CurOK
<1>3. HeldOK(q)'
  BY <1>1 DEF IndInv, ProcOK, HeldOK, Usable
<1>4. KeepOK(q)'
  BY <1>1, <1>2 DEF IndInv, ProcOK, KeepOK
<1>5. CurOK(q)'
  BY <1>1, <1>2 DEF IndInv, ProcOK, CurOK
<1>6. PathOK(q)' /\ SleepOK(q)'
  BY DEF IndInv, ProcOK, PathOK, SleepOK
<1>7. QED BY <1>1, <1>3, <1>4, <1>5, <1>6 DEF ProcOK

(* Five things a process can do to the cache, and what each leaves true of *)
(* the shared part of the invariant.                                       *)

(* Nothing, but for marks that somebody wants a buffer or that it is old.  *)
LEMMA MarkShared ==
  ASSUME IndInv, NEW p \in Proc, Others(p), cpu \in {None, p},
         TypeOK', Held(p)' = Held(p), WakeupDue(p)',
         blk' = blk, free' = free, ioq' = ioq, freeWanted => freeWanted',
         \A y \in Buf : /\ flags[y] \subseteq flags'[y]
                        /\ flags'[y] \subseteq flags[y] \cup {"WANTED", "AGE"}
  PROVE  SharedOK'
<1> USE CacheAssumption
<1>1. \A y \in Buf : SameFlags(y) /\ ("DELWRI" \in flags'[y] <=> "DELWRI" \in flags[y])
  BY DEF SameFlags
<1>2. \A q \in Proc : Held(q)' = Held(q)
  BY <1>1, OthersProcOK, HeldFacts
<1>3. FreeIffNotBusy'
  BY <1>1 DEF IndInv, SharedOK, FreeIffNotBusy, SameFlags
<1>4. OneBufferPerBlock'
  BY DEF IndInv, SharedOK, OneBufferPerBlock
<1>5. BusyOwned'
  BY <1>1, <1>2, HeldFacts DEF IndInv, SharedOK, BusyOwned, SameFlags, TypeOK
<1>6. NoLostWakeup'
  <2> SUFFICES ASSUME NEW q \in Proc, q # p, wchan'[q] # None PROVE WakeupDue(q)'
    BY DEF NoLostWakeup, WakeupDue
  <2>1. WakeupDue(q) /\ wchan'[q] = wchan[q] /\ pc'[q] = pc[q]
    BY DEF IndInv, SharedOK, NoLostWakeup, Others
  <2>2. freeWanted => freeWanted'
    BY DEF IndInv, TypeOK
  <2>3. QED BY <2>1, <2>2 DEF WakeupDue
<1>7. FlagsOK'
  BY <1>1 DEF IndInv, SharedOK, FlagsOK, SameFlags
<1>8. QueueOK'
  <2>1. \A y \in ToSet(ioq) : y \in Buf /\ SameFlags(y)
    BY <1>1 DEF IndInv, TypeOK, ToSet
  <2>2. QED BY <1>2, <2>1 DEF IndInv, SharedOK, QueueOK, SameFlags
<1>9. QED BY <1>3, <1>4, <1>5, <1>6, <1>7, <1>8 DEF SharedOK

(* Take an available buffer, as the buffer of its block or of a new one.   *)
LEMMA TakeShared ==
  ASSUME IndInv, NEW p \in Proc, Others(p), cpu \in {None, p},
         TypeOK', wchan'[p] = None,
         NEW x \in Buf, x \in ToSet(free), Held(p)' = Held(p) \cup {x},
         IsInjective(free'), ToSet(free') = ToSet(free) \ {x},
         \A y \in Buf \ {x} : flags'[y] = flags[y] /\ blk'[y] = blk[y],
         \/ flags'[x] = flags[x] \cup {"BUSY"} /\ blk'[x] = blk[x]
         \/ flags'[x] = {"BUSY"} /\ (blk'[x] = None \/ ~incore(blk'[x])),
         ioq' = ioq, freeWanted' = freeWanted
  PROVE  SharedOK' /\ \A q \in Proc \ {p} : ProcOK(q)'
<1> USE CacheAssumption
<1>1. /\ "BUSY" \notin flags[x] /\ x \notin ToSet(ioq)
      /\ \A q \in Proc : x \notin Held(q)
  BY HeldFacts DEF IndInv, SharedOK, FreeIffNotBusy, QueueOK
<1>2. \A y \in Buf \ {x} : flags'[y] = flags[y] /\ blk'[y] = blk[y]
  OBVIOUS
<1>3. "BUSY" \in flags'[x] /\ "ASYNC" \notin flags'[x]
  BY <1>1 DEF IndInv, SharedOK, FlagsOK
<1>4. \A q \in Proc \ {p} : Held(q)' = Held(q) /\ ProcOK(q)'
  BY <1>1, <1>2, OthersProcOK, HeldFacts DEF SameFlags
<1>5. FreeIffNotBusy'
  BY <1>2, <1>3 DEF IndInv, SharedOK, FreeIffNotBusy
<1>6. OneBufferPerBlock'
  BY DEF IndInv, TypeOK, SharedOK, OneBufferPerBlock, incore
<1>7. BusyOwned'
  <2>1. \A q, r \in Proc : q # r => Held(q)' \cap Held(r)' = {}
    BY <1>1, <1>4, HeldFacts
  <2>2. \A y \in Buf : "BUSY" \in flags'[y] <=>
                         \/ \E q \in Proc : y \in Held(q)'
                         \/ y \in ToSet(ioq) /\ "ASYNC" \in flags'[y]
    <3>1. \A y \in Buf \ {x}, q \in Proc : y \in Held(q)' <=> y \in Held(q)
      BY <1>4
    <3>2. \A y \in Buf \ {x} : "BUSY" \in flags'[y] <=>
                         \/ \E q \in Proc : y \in Held(q)'
                         \/ y \in ToSet(ioq) /\ "ASYNC" \in flags'[y]
      BY <1>2, <3>1 DEF IndInv, SharedOK, BusyOwned
    <3>3. "BUSY" \in flags'[x] /\ x \in Held(p)'
      BY <1>3
    <3>4. QED BY <3>2, <3>3
  <2>3. \A y \in ToSet(ioq), q \in Proc :
          y \in Held(q)' => "ASYNC" \notin flags'[y] /\ "DONE" \notin flags'[y]
    <3>1. \A y \in ToSet(ioq) : y # x /\ y \in Buf
      BY <1>1 DEF IndInv, TypeOK, ToSet
    <3>2. QED BY <3>1, <1>2, <1>4 DEF IndInv, SharedOK, BusyOwned
  <2>4. QED BY <2>1, <2>2, <2>3 DEF BusyOwned
<1>8. NoLostWakeup'
  <2> SUFFICES ASSUME NEW q \in Proc, q # p, wchan'[q] # None PROVE WakeupDue(q)'
    BY DEF NoLostWakeup, WakeupDue
  <2>1. free # <<>> /\ WakeupDue(q) /\ wchan'[q] = wchan[q] /\ pc'[q] = pc[q]
    BY DEF IndInv, SharedOK, NoLostWakeup, Others, ToSet
  <2>2. wchan[q] # FreeList
    BY <2>1 DEF WakeupDue
  <2>3. wchan[q] \in Buf /\ pc[q] = "getblk" => wchan[q] # x
    BY <1>1, <2>1 DEF WakeupDue
  <2>4. QED BY <1>2, <2>1, <2>2, <2>3 DEF WakeupDue
<1>9. FlagsOK'
  BY <1>2, <1>3 DEF IndInv, SharedOK, FlagsOK, TypeOK
<1>10. QueueOK'
  <2>1. \A y \in ToSet(ioq) : y # x /\ y \in Buf
    BY <1>1 DEF IndInv, TypeOK, ToSet
  <2>2. \A q \in Proc : Held(q) \subseteq Held(q)'
    BY <1>4
  <2>3. QED BY <1>2, <2>1, <2>2 DEF IndInv, SharedOK, QueueOK
<1>11. QED BY <1>4, <1>5, <1>6, <1>7, <1>8, <1>9, <1>10 DEF SharedOK

(* Release a buffer that is held and not queued (brelse).                  *)
LEMMA ReleaseShared ==
  ASSUME IndInv, NEW p \in Proc, Others(p), cpu \in {None, p},
         TypeOK', wchan[p] = None,
         NEW x \in Held(p), x \notin ToSet(ioq), Held(p)' = Held(p) \ {x},
         NEW fl, Brelse(x, fl), "WANTED" \in flags[x] => "WANTED" \in fl,
         "DELWRI" \in fl => blk[x] # None /\ "DONE" \in fl /\ "ERROR" \notin fl,
         ioq' = ioq
  PROVE  SharedOK' /\ \A q \in Proc \ {p} : ProcOK(q)'
<1> USE CacheAssumption
<1>1. /\ x \in Buf /\ x \notin ToSet(free)
      /\ \A q \in Proc \ {p} : x \notin Held(q)
  BY HeldFacts
<1>2. IsInjective(free') /\ ToSet(free') = ToSet(free) \cup {x}
  BY <1>1, AppendFacts, PrependFacts
  DEF Brelse, IndInv, TypeOK, SharedOK, FreeIffNotBusy
<1>3. \A y \in Buf \ {x} : flags'[y] = flags[y] /\ blk'[y] = blk[y]
  BY DEF IndInv, TypeOK, Brelse
<1>4. flags'[x] = fl \ {"WANTED", "BUSY", "ASYNC", "AGE"}
  BY <1>1 DEF IndInv, TypeOK, Brelse
<1>5. \A q \in Proc \ {p} : Held(q)' = Held(q) /\ ProcOK(q)'
  BY <1>1, <1>3, OthersProcOK, HeldFacts DEF SameFlags
<1>6. FreeIffNotBusy'
  BY <1>2, <1>3, <1>4 DEF IndInv, SharedOK, FreeIffNotBusy
<1>7. OneBufferPerBlock'
  BY DEF IndInv, TypeOK, SharedOK, OneBufferPerBlock, Brelse
<1>8. BusyOwned'
  <2>1. \A q, r \in Proc : q # r => Held(q)' \cap Held(r)' = {}
    BY <1>5, HeldFacts
  <2>2. \A y \in Buf : "BUSY" \in flags'[y] <=>
                         \/ \E q \in Proc : y \in Held(q)'
                         \/ y \in ToSet(ioq) /\ "ASYNC" \in flags'[y]
    <3>1. \A y \in Buf \ {x}, q \in Proc : y \in Held(q)' <=> y \in Held(q)
      BY <1>5
    <3>2. \A y \in Buf \ {x} : "BUSY" \in flags'[y] <=>
                         \/ \E q \in Proc : y \in Held(q)'
                         \/ y \in ToSet(ioq) /\ "ASYNC" \in flags'[y]
      BY <1>3, <3>1 DEF IndInv, SharedOK, BusyOwned
    <3>3. "BUSY" \notin flags'[x] /\ \A q \in Proc : x \notin Held(q)'
      BY <1>1, <1>4, <1>5
    <3>4. QED BY <3>2, <3>3
  <2>3. \A y \in ToSet(ioq), q \in Proc :
          y \in Held(q)' => "ASYNC" \notin flags'[y] /\ "DONE" \notin flags'[y]
    <3>1. \A y \in ToSet(ioq) : y # x /\ y \in Buf
      BY DEF IndInv, TypeOK, ToSet
    <3>2. QED BY <3>1, <1>3, <1>5 DEF IndInv, SharedOK, BusyOwned
  <2>4. QED BY <2>1, <2>2, <2>3 DEF BusyOwned
<1>9. NoLostWakeup'
  <2> SUFFICES ASSUME NEW q \in Proc, wchan'[q] # None PROVE WakeupDue(q)'
    BY DEF NoLostWakeup, WakeupDue
  <2>1. wchan'[q] = wchan[q] /\ q # p
    BY DEF Brelse, Wakeup
  <2>2. WakeupDue(q) /\ pc'[q] = pc[q]
    BY <2>1 DEF IndInv, SharedOK, NoLostWakeup, Others
  <2>3. wchan[q] # FreeList
    BY <2>1, <2>2 DEF Brelse, Wakeup, WakeupDue
  <2>4. wchan[q] \in Buf /\ pc[q] = "getblk" => wchan[q] # x
    BY <2>1, <2>2 DEF Brelse, Wakeup, WakeupDue
  <2>5. QED BY <1>3, <2>1, <2>2, <2>3, <2>4 DEF WakeupDue
<1>10. FlagsOK'
  <2>1. blk'[x] = IF "ERROR" \in fl THEN None ELSE blk[x]
    BY <1>1 DEF IndInv, TypeOK, Brelse
  <2>2. QED BY <1>3, <1>4, <2>1 DEF IndInv, SharedOK, FlagsOK
<1>11. QueueOK'
  <2>1. \A y \in ToSet(ioq) : y # x /\ y \in Buf
    BY DEF IndInv, TypeOK, ToSet
  <2>2. \A q \in Proc : \A y \in Held(q) : y # x => y \in Held(q)'
    BY <1>5
  <2>3. QED BY <1>3, <2>1, <2>2 DEF IndInv, SharedOK, QueueOK
<1>12. QED BY <1>5, <1>6, <1>7, <1>8, <1>9, <1>10, <1>11 DEF SharedOK

(* Queue a request: of a buffer that is held, whose process goes on to     *)
(* wait for it or gives it up (B_ASYNC), or of a delayed write taken from  *)
(* the available list.                                                     *)
LEMMA EnqueueShared ==
  ASSUME IndInv, NEW p \in Proc, Others(p), cpu \in {None, p},
         TypeOK', wchan' = wchan, wchan[p] = None,
         NEW x \in Buf, x \notin ToSet(ioq), blk[x] # None, blk' = blk,
         NEW fl, Strategy(x, fl),
         "BUSY" \in fl, {"DONE", "DELWRI"} \cap fl = {},
         "WANTED" \in flags[x] => "WANTED" \in fl,
         \/ x \in Held(p) /\ Held(p)' = Held(p) /\ "ASYNC" \notin fl
         \/ x \in Held(p) /\ Held(p)' = Held(p) \ {x} /\ "ASYNC" \in fl
         \/ x \in ToSet(free) /\ Held(p)' = Held(p) /\ "ASYNC" \in fl,
         IsInjective(free'), ToSet(free') = ToSet(free) \ {x},
         free = <<>> => free' = <<>>, freeWanted' = freeWanted
  PROVE  SharedOK' /\ \A q \in Proc \ {p} : ProcOK(q)'
<1> USE CacheAssumption
<1>1. /\ \A q \in Proc \ {p} : x \notin Held(q)
      /\ x \in ToSet(free) => x \notin Held(p)
  BY HeldFacts
<1>2. IsInjective(ioq') /\ ToSet(ioq') = ToSet(ioq) \cup {x}
  BY AppendFacts DEF Strategy, IndInv, TypeOK, SharedOK, QueueOK
<1>3. \A y \in Buf \ {x} : flags'[y] = flags[y]
  BY DEF IndInv, TypeOK, Strategy
<1>4. flags'[x] = fl
  BY DEF IndInv, TypeOK, Strategy
<1>5. \A q \in Proc \ {p} : Held(q)' = Held(q) /\ ProcOK(q)'
  BY <1>1, <1>2, <1>3, OthersProcOK, HeldFacts DEF SameFlags
<1>6. FreeIffNotBusy'
  BY <1>3, <1>4 DEF IndInv, SharedOK, FreeIffNotBusy
<1>7. OneBufferPerBlock'
  BY DEF IndInv, SharedOK, OneBufferPerBlock
<1>8. BusyOwned'
  <2>1. \A q, r \in Proc : q # r => Held(q)' \cap Held(r)' = {}
    BY <1>5, HeldFacts
  <2>2. \A y \in Buf : "BUSY" \in flags'[y] <=>
                         \/ \E q \in Proc : y \in Held(q)'
                         \/ y \in ToSet(ioq') /\ "ASYNC" \in flags'[y]
    <3>1. \A y \in Buf \ {x}, q \in Proc : y \in Held(q)' <=> y \in Held(q)
      BY <1>5
    <3>2. \A y \in Buf \ {x} : "BUSY" \in flags'[y] <=>
                         \/ \E q \in Proc : y \in Held(q)'
                         \/ y \in ToSet(ioq') /\ "ASYNC" \in flags'[y]
      BY <1>2, <1>3, <3>1 DEF IndInv, SharedOK, BusyOwned
    <3>3. "BUSY" \in flags'[x] /\ (x \in Held(p)' \/ "ASYNC" \in flags'[x])
      BY <1>4
    <3>4. QED BY <1>2, <3>2, <3>3
  <2>3. \A y \in ToSet(ioq'), q \in Proc :
          y \in Held(q)' => "ASYNC" \notin flags'[y] /\ "DONE" \notin flags'[y]
    <3>1. \A y \in ToSet(ioq) : y # x /\ y \in Buf
      BY DEF IndInv, TypeOK, ToSet
    <3>2. \A y \in ToSet(ioq), q \in Proc :
            y \in Held(q)' => "ASYNC" \notin flags'[y] /\ "DONE" \notin flags'[y]
      BY <3>1, <1>3, <1>5 DEF IndInv, SharedOK, BusyOwned
    <3>3. \A q \in Proc :
            x \in Held(q)' => "ASYNC" \notin flags'[x] /\ "DONE" \notin flags'[x]
      BY <1>1, <1>4, <1>5
    <3>4. QED BY <1>2, <3>2, <3>3
  <2>4. QED BY <2>1, <2>2, <2>3 DEF BusyOwned
<1>9. NoLostWakeup'
  <2> SUFFICES ASSUME NEW q \in Proc, wchan'[q] # None PROVE WakeupDue(q)'
    BY DEF NoLostWakeup, WakeupDue
  <2>1. wchan'[q] = wchan[q] /\ q # p
    OBVIOUS
  <2>2. WakeupDue(q) /\ pc'[q] = pc[q]
    BY <2>1 DEF IndInv, SharedOK, NoLostWakeup, Others
  <2>3. QED BY <1>2, <1>3, <1>4, <2>1, <2>2 DEF WakeupDue
<1>10. FlagsOK'
  BY <1>3, <1>4 DEF IndInv, SharedOK, FlagsOK
<1>11. QueueOK'
  <2>1. \A y \in ToSet(ioq) : y # x /\ y \in Buf
    BY DEF IndInv, TypeOK, ToSet
  <2>2. \A q \in Proc : \A y \in Held(q) : y # x => y \in Held(q)'
    BY <1>5
  <2>3. \A y \in ToSet(ioq) :
          /\ blk'[y] # None /\ "BUSY" \in flags'[y] /\ "DONE" \notin flags'[y]
          /\ "ASYNC" \in flags'[y] \/ \E q \in Proc : y \in Held(q)'
    BY <1>3, <2>1, <2>2 DEF IndInv, SharedOK, QueueOK
  <2>4. /\ blk'[x] # None /\ "BUSY" \in flags'[x] /\ "DONE" \notin flags'[x]
        /\ "ASYNC" \in flags'[x] \/ \E q \in Proc : x \in Held(q)'
    BY <1>4
  <2>5. QED BY <1>2, <2>3, <2>4 DEF QueueOK
<1>12. QED BY <1>5, <1>6, <1>7, <1>8, <1>9, <1>10, <1>11 DEF SharedOK

(* What brelse leaves of the types and of the other buffers.               *)
LEMMA BrelseFacts ==
  ASSUME IndInv, NEW x \in Buf, NEW fl \in SUBSET Flag, Brelse(x, fl)
  PROVE  /\ blk' \in [Buf -> Blk \cup {None}]
         /\ flags' \in [Buf -> SUBSET Flag]
         /\ free' \in Seq(Buf)
         /\ freeWanted' \in BOOLEAN
         /\ wchan' \in [Proc -> Buf \cup {FreeList, None}]
         /\ \A q \in Proc : wchan'[q] \in {wchan[q], None}
         /\ \A y \in Buf \ {x} : flags'[y] = flags[y] /\ blk'[y] = blk[y]
<1> USE DEF Brelse, Wakeup, IndInv, TypeOK
<1>1. blk' \in [Buf -> Blk \cup {None}]
  OBVIOUS
<1>2. flags' \in [Buf -> SUBSET Flag]
  OBVIOUS
<1>3. free' \in Seq(Buf)
  BY AppendFacts, PrependFacts
<1>4. freeWanted' \in BOOLEAN
  OBVIOUS
<1>5. wchan' \in [Proc -> Buf \cup {FreeList, None}] /\ \A q \in Proc : wchan'[q] \in {wchan[q], None}
  OBVIOUS
<1>6. \A y \in Buf \ {x} : flags'[y] = flags[y] /\ blk'[y] = blk[y]
  OBVIOUS
<1>7. QED BY <1>1, <1>2, <1>3, <1>4, <1>5, <1>6

LEMMA TaskFacts ==
  ASSUME IndInv, NEW p \in Proc
  PROVE  /\ task[p].blk \in Blk \cup {None} /\ task[p].ra \in Blk \cup {None}
         /\ task[p].op \in Ops
         /\ task[p].op # "bflush" => TaskOK(task[p])
BY CacheAssumption DEF IndInv, TypeOK, NoTask, TaskType, Ops, Rels

(* A process enters the cache. *)
LEMMA StartInv ==
  ASSUME IndInv, NEW p \in Proc, Start(p)
  PROVE  IndInv'
<1> USE CacheAssumption DEF At, Goto, Sleep, local, cache
<1> USE DEF Start
<1>1. TypeOK'
  BY DEF TypeOK, IndInv, Labels, Returns, Flag, TaskType
<1>2. Others(p)
  BY DEF Others, IndInv, TypeOK
<1>3. Held(p)' = Held(p)
  <2>1. /\ pc'[p] \in {"bflush", "readahead", "getblk"} /\ pc[p] = "idle"
        /\ keep'[p] = None
    BY DEF IndInv, TypeOK
  <2>2. keep[p] = None
    BY <2>1 DEF IndInv, ProcOK, KeepOK
  <2>3. QED BY <2>1, <2>2 DEF Held
<1>4. ProcOK(p)'
  <2>1. HeldOK(p)'
    BY <1>3 DEF IndInv, ProcOK, HeldOK, KeepOK, CurOK, SleepOK, Usable, TypeOK, Held
  <2>2. KeepOK(p)'
    BY HeldFacts DEF IndInv, ProcOK, KeepOK, CurOK, TypeOK
  <2>3. CurOK(p)'
    <3>1. /\ pc'[p] \in {"bflush", "readahead", "getblk"}
          /\ task'[p] \in Tasks /\ want'[p] = task'[p].blk /\ keep'[p] = None
          /\ task'[p].op \notin {"bread", "breada", "bmap"} => ret'[p] = "caller"
          /\ task'[p].op = "bflush" => pc'[p] = "bflush"
      BY DEF IndInv, TypeOK
    <3>2. TaskOK(task'[p]) /\ task'[p].op \in Ops
      BY <3>1 DEF TaskType
    <3>3. QED BY <3>1, <3>2 DEF CurOK, TaskOK, Ops
  <2>4. PathOK(p)' /\ SleepOK(p)'
    BY DEF IndInv, ProcOK, CurOK, PathOK, SleepOK, TypeOK, KeepOK
  <2>5. QED BY <2>1, <2>2, <2>3, <2>4 DEF ProcOK
<1>5. \A q \in Proc \ {p} : ProcOK(q)'
  BY <1>2, OthersProcOK DEF SameFlags
<1>6. SharedOK'
  BY <1>1, <1>2, <1>3, MarkShared DEF WakeupDue, IndInv, ProcOK, HeldOK, KeepOK, CurOK, SleepOK, Usable, TypeOK
<1>7. QED BY <1>1, <1>4, <1>5, <1>6 DEF IndInv

(* getblk finds the block. *)
LEMMA GetblkScanInv ==
  ASSUME IndInv, NEW p \in Proc, GetblkScan(p)
  PROVE  IndInv'
<1> USE CacheAssumption DEF At, Goto, Sleep, local, cache
<1> USE DEF GetblkScan
<1>1. TypeOK'
  BY DEF TypeOK, IndInv, Labels, Returns, Flag, TaskType
<1>2. Others(p)
  BY DEF Others, IndInv, TypeOK
<1>3. Held(p)' = Held(p)
  BY DEF Held, IndInv, ProcOK, HeldOK, KeepOK, CurOK, SleepOK, Usable, TypeOK
<1>4. ProcOK(p)'
  <2>1. HeldOK(p)'
    BY <1>3 DEF IndInv, ProcOK, HeldOK, KeepOK, CurOK, SleepOK, Usable, TypeOK, Held
  <2>2. KeepOK(p)'
    BY HeldFacts DEF IndInv, ProcOK, KeepOK, CurOK, TypeOK
  <2>3. CurOK(p)'
    BY HeldFacts DEF IndInv, ProcOK, HeldOK, KeepOK, CurOK, Usable, TypeOK
  <2>4. PathOK(p)' /\ SleepOK(p)'
    BY DEF IndInv, ProcOK, CurOK, PathOK, SleepOK, TypeOK, KeepOK
  <2>5. QED BY <2>1, <2>2, <2>3, <2>4 DEF ProcOK
<1>5. \A q \in Proc \ {p} : ProcOK(q)'
  BY <1>2, OthersProcOK DEF SameFlags
<1>6. SharedOK'
  BY <1>1, <1>2, <1>3, MarkShared DEF WakeupDue, IndInv, ProcOK, HeldOK, KeepOK, CurOK, SleepOK, Usable, TypeOK
<1>7. QED BY <1>1, <1>4, <1>5, <1>6 DEF IndInv

(* getblk waits for a busy buffer. *)
LEMMA GetblkBusyInv ==
  ASSUME IndInv, NEW p \in Proc, GetblkBusy(p)
  PROVE  IndInv'
<1> USE CacheAssumption DEF At, Goto, Sleep, local, cache
<1> USE DEF GetblkBusy
<1>0. cur[p] \in Buf
  BY DEF IndInv, ProcOK, CurOK
<1>1. TypeOK'
  BY <1>0 DEF TypeOK, IndInv, Labels, Returns, Flag, TaskType
<1>2. Others(p)
  BY DEF Others, IndInv, TypeOK
<1>3. Held(p)' = Held(p)
  BY DEF Held, IndInv, ProcOK, HeldOK, KeepOK, CurOK, SleepOK, Usable, TypeOK
<1>4. ProcOK(p)'
  <2>1. HeldOK(p)'
    BY <1>3 DEF IndInv, ProcOK, HeldOK, KeepOK, CurOK, SleepOK, Usable, TypeOK, Held
  <2>2. KeepOK(p)'
    <3>1. keep[p] # None => SameFlags(keep[p])
      BY <1>0 DEF IndInv, TypeOK, SameFlags
    <3>2. pc'[p] = "getblk" /\ pc[p] = "found"
      BY DEF IndInv, TypeOK
    <3>3. QED BY <3>1, <3>2 DEF IndInv, ProcOK, KeepOK, SameFlags
  <2>3. CurOK(p)'
    <3>1. pc'[p] = "getblk" /\ want[p] # None
      BY DEF IndInv, ProcOK, CurOK, TypeOK
    <3>2. QED BY <3>1 DEF CurOK
  <2>4. PathOK(p)' /\ SleepOK(p)'
    BY DEF IndInv, ProcOK, CurOK, PathOK, SleepOK, TypeOK, KeepOK
  <2>5. QED BY <2>1, <2>2, <2>3, <2>4 DEF ProcOK
<1>5. \A q \in Proc \ {p} : ProcOK(q)'
  BY <1>2, OthersProcOK DEF SameFlags
<1>6. SharedOK'
  <2>1. \A y \in Buf : /\ flags[y] \subseteq flags'[y]
                       /\ flags'[y] \subseteq flags[y] \cup {"WANTED", "AGE"}
    BY <1>0 DEF IndInv, TypeOK
  <2>2. WakeupDue(p)'
    BY <1>0 DEF WakeupDue, IndInv, TypeOK
  <2>3. QED BY <1>1, <1>2, <1>3, <2>1, <2>2, MarkShared
<1>7. QED BY <1>1, <1>4, <1>5, <1>6 DEF IndInv

(* getblk waits for any buffer. *)
LEMMA GetblkEmptyInv ==
  ASSUME IndInv, NEW p \in Proc, GetblkEmpty(p)
  PROVE  IndInv'
<1> USE CacheAssumption DEF At, Goto, Sleep, local, cache
<1> USE DEF GetblkEmpty, Miss
<1>1. TypeOK'
  BY DEF TypeOK, IndInv, Labels, Returns, Flag, TaskType
<1>2. Others(p)
  BY DEF Others, IndInv, TypeOK
<1>3. Held(p)' = Held(p)
  BY DEF Held, IndInv, ProcOK, HeldOK, KeepOK, CurOK, SleepOK, Usable, TypeOK
<1>4. ProcOK(p)'
  <2>1. HeldOK(p)'
    BY <1>3 DEF IndInv, ProcOK, HeldOK, KeepOK, CurOK, SleepOK, Usable, TypeOK, Held
  <2>2. KeepOK(p)'
    BY SMTT(40), HeldFacts DEF IndInv, ProcOK, KeepOK, CurOK, TypeOK
  <2>3. CurOK(p)'
    BY HeldFacts DEF IndInv, ProcOK, HeldOK, KeepOK, CurOK, Usable, TypeOK
  <2>4. PathOK(p)' /\ SleepOK(p)'
    BY DEF IndInv, ProcOK, CurOK, PathOK, SleepOK, TypeOK, KeepOK
  <2>5. QED BY <2>1, <2>2, <2>3, <2>4 DEF ProcOK
<1>5. \A q \in Proc \ {p} : ProcOK(q)'
  BY <1>2, OthersProcOK DEF SameFlags
<1>6. SharedOK'
  BY SMTT(40), <1>1, <1>2, <1>3, MarkShared DEF WakeupDue, IndInv, ProcOK, HeldOK, KeepOK, CurOK, SleepOK, Usable, TypeOK
<1>7. QED BY <1>1, <1>4, <1>5, <1>6 DEF IndInv

(* bwrite marks the buffer old. *)
LEMMA SetAgeInv ==
  ASSUME IndInv, NEW p \in Proc, SetAge(p)
  PROVE  IndInv'
<1> USE CacheAssumption DEF At, Goto, Sleep, local, cache
<1> USE DEF SetAge
<1>0. cur[p] \in Buf
  BY DEF IndInv, ProcOK, CurOK
<1>1. TypeOK'
  BY <1>0 DEF TypeOK, IndInv, Labels, Returns, Flag, TaskType
<1>2. Others(p)
  BY DEF Others, IndInv, TypeOK
<1>3. Held(p)' = Held(p)
  BY DEF Held, IndInv, ProcOK, HeldOK, KeepOK, CurOK, SleepOK, Usable, TypeOK
<1>4. ProcOK(p)'
  <2>1. HeldOK(p)'
    BY <1>3 DEF IndInv, ProcOK, HeldOK, KeepOK, CurOK, SleepOK, Usable, TypeOK, Held
  <2>2. KeepOK(p)'
    <3>1. keep[p] # None => pc'[p] = "getblk" /\ SameFlags(keep[p])
      BY <1>0 DEF IndInv, ProcOK, KeepOK, TypeOK, SameFlags
    <3>2. ret[p] = "bmap" /\ pc'[p] \in {"getblk", "found", "age", "fill"} => pc[p] = "age"
      BY DEF IndInv, TypeOK
    <3>3. QED BY <3>1, <3>2 DEF IndInv, ProcOK, KeepOK, SameFlags
  <2>3. CurOK(p)'
    BY HeldFacts, <1>0 DEF IndInv, ProcOK, HeldOK, KeepOK, CurOK, Usable, TypeOK
  <2>4. PathOK(p)' /\ SleepOK(p)'
    <3>1. /\ wchan'[p] = None /\ task' = task /\ ret' = ret
          /\ \/ pc[p] = "agedone" /\ pc'[p] = "idle"
             \/ pc[p] = "age" /\ task[p].op = "bflush" /\ pc'[p] = "bflush"
             \/ pc[p] = "age" /\ task[p].op # "bflush" /\ pc'[p] = "getblk"
      BY DEF IndInv, TypeOK
    <3>2. PathOK(p)
      BY DEF IndInv, ProcOK
    <3>3. PathOK(p)'
      BY <3>1, <3>2 DEF PathOK
    <3>4. SleepOK(p)'
      BY <3>1 DEF SleepOK
    <3>5. QED BY <3>3, <3>4
  <2>5. QED BY <2>1, <2>2, <2>3, <2>4 DEF ProcOK
<1>5. \A q \in Proc \ {p} : ProcOK(q)'
  BY <1>2, OthersProcOK DEF SameFlags
<1>6. SharedOK'
  <2>1. \A y \in Buf : /\ flags[y] \subseteq flags'[y]
                       /\ flags'[y] \subseteq flags[y] \cup {"WANTED", "AGE"}
    BY <1>0 DEF IndInv, TypeOK
  <2>2. WakeupDue(p)'
    BY CacheAssumption DEF WakeupDue
  <2>3. QED BY <1>1, <1>2, <1>3, <2>1, <2>2, MarkShared
<1>7. QED BY <1>1, <1>4, <1>5, <1>6 DEF IndInv

(* breada turns to the read-ahead block. *)
LEMMA ReadaheadInv ==
  ASSUME IndInv, NEW p \in Proc, Readahead(p)
  PROVE  IndInv'
<1> USE CacheAssumption DEF At, Goto, Sleep, local, cache
<1> USE DEF Readahead
<1>1. TypeOK'
  BY TaskFacts, SMTT(30) DEF TypeOK, IndInv, Labels, Returns, Flag, TaskType
<1>2. Others(p)
  BY DEF Others, IndInv, TypeOK
<1>3. Held(p)' = Held(p)
  BY DEF Held, IndInv, ProcOK, HeldOK, KeepOK, CurOK, SleepOK, Usable, TypeOK
<1>4. ProcOK(p)'
  <2>1. HeldOK(p)'
    BY <1>3 DEF IndInv, ProcOK, HeldOK, KeepOK, CurOK, SleepOK, Usable, TypeOK, Held
  <2>2. KeepOK(p)'
    BY HeldFacts DEF IndInv, ProcOK, KeepOK, CurOK, TypeOK
  <2>3. CurOK(p)'
    BY HeldFacts DEF IndInv, ProcOK, HeldOK, KeepOK, CurOK, Usable, TypeOK
  <2>4. PathOK(p)' /\ SleepOK(p)'
    BY DEF IndInv, ProcOK, CurOK, PathOK, SleepOK, TypeOK, KeepOK
  <2>5. QED BY <2>1, <2>2, <2>3, <2>4 DEF ProcOK
<1>5. \A q \in Proc \ {p} : ProcOK(q)'
  BY <1>2, OthersProcOK DEF SameFlags
<1>6. SharedOK'
  BY <1>1, <1>2, <1>3, MarkShared DEF WakeupDue, IndInv, ProcOK, HeldOK, KeepOK, CurOK, SleepOK, Usable, TypeOK
<1>7. QED BY <1>1, <1>4, <1>5, <1>6 DEF IndInv

(* breada turns back to the block itself. *)
LEMMA BreadaFinishInv ==
  ASSUME IndInv, NEW p \in Proc, BreadaFinish(p)
  PROVE  IndInv'
<1> USE CacheAssumption DEF At, Goto, Sleep, local, cache
<1> USE DEF BreadaFinish
<1>1. TypeOK'
  <2>1. /\ ret' \in [Proc -> Returns] /\ cur' \in [Proc -> Buf \cup {None}]
        /\ keep' \in [Proc -> Buf \cup {None}]
    BY DEF TypeOK, IndInv, Returns
  <2>4. want' \in [Proc -> Blk \cup {None}]
    <3>1. want' = want \/ want' = [want EXCEPT ![p] = task[p].blk]
      OBVIOUS
    <3>2. QED BY <3>1, TaskFacts DEF TypeOK, IndInv
  <2>2. pc' \in [Proc -> Labels] /\ cpu' \in Proc \cup {None}
    BY SMTT(40) DEF TypeOK, IndInv, Labels
  <2>3. QED BY <2>1, <2>2, <2>4 DEF TypeOK, IndInv
<1>2. Others(p)
  BY DEF Others, IndInv, TypeOK
<1>3. Held(p)' = Held(p)
  BY DEF Held, IndInv, ProcOK, HeldOK, KeepOK, CurOK, SleepOK, Usable, TypeOK
<1>4. ProcOK(p)'
  <2>1. HeldOK(p)'
    BY <1>3 DEF IndInv, ProcOK, HeldOK, KeepOK, CurOK, SleepOK, Usable, TypeOK, Held
  <2>2. KeepOK(p)'
    BY HeldFacts DEF IndInv, ProcOK, KeepOK, CurOK, TypeOK
  <2>3. CurOK(p)'
    <3>1. CASE keep[p] = None
      <4>1. pc'[p] = "getblk" /\ want'[p] # None
        BY <3>1, TaskFacts DEF IndInv, TypeOK, ProcOK, PathOK, TaskOK
      <4>2. QED BY <4>1 DEF CurOK
    <3>2. CASE keep[p] # None
      <4>1. /\ pc'[p] = "iowait" /\ cur'[p] = keep[p] /\ keep'[p] = None
            /\ keep[p] \in Buf
        BY <3>2 DEF IndInv, TypeOK
      <4>2. "DONE" \in flags[keep[p]] \/ keep[p] \in ToSet(ioq)
        BY <3>2 DEF IndInv, ProcOK, KeepOK
      <4>3. QED BY <4>1, <4>2 DEF CurOK
    <3>3. QED BY <3>1, <3>2
  <2>4. PathOK(p)' /\ SleepOK(p)'
    BY DEF IndInv, ProcOK, CurOK, PathOK, SleepOK, TypeOK, KeepOK
  <2>5. QED BY <2>1, <2>2, <2>3, <2>4 DEF ProcOK
<1>5. \A q \in Proc \ {p} : ProcOK(q)'
  BY <1>2, OthersProcOK DEF SameFlags
<1>6. SharedOK'
  BY <1>1, <1>2, <1>3, MarkShared DEF WakeupDue, IndInv, ProcOK, HeldOK, KeepOK, CurOK, SleepOK, Usable, TypeOK
<1>7. QED BY <1>1, <1>4, <1>5, <1>6 DEF IndInv

(* iowait sleeps. *)
LEMMA IowaitSleepInv ==
  ASSUME IndInv, NEW p \in Proc, IowaitSleep(p)
  PROVE  IndInv'
<1> USE CacheAssumption DEF At, Goto, Sleep, local, cache
<1> USE DEF IowaitSleep
<1>1. TypeOK'
  BY DEF TypeOK, IndInv, Labels, Returns, Flag, TaskType
<1>2. Others(p)
  BY DEF Others, IndInv, TypeOK
<1>3. Held(p)' = Held(p)
  BY DEF Held, IndInv, ProcOK, HeldOK, KeepOK, CurOK, SleepOK, Usable, TypeOK
<1>4. ProcOK(p)'
  <2>1. HeldOK(p)'
    BY <1>3 DEF IndInv, ProcOK, HeldOK, KeepOK, CurOK, SleepOK, Usable, TypeOK, Held
  <2>2. KeepOK(p)'
    <3>1. keep'[p] = None /\ ret[p] = ret'[p] /\ pc'[p] = "iowait"
      BY DEF IndInv, ProcOK, KeepOK, TypeOK
    <3>2. QED BY <3>1 DEF KeepOK
  <2>3. CurOK(p)'
    BY HeldFacts DEF IndInv, ProcOK, HeldOK, KeepOK, CurOK, Usable, TypeOK
  <2>4. PathOK(p)' /\ SleepOK(p)'
    BY DEF IndInv, ProcOK, CurOK, PathOK, SleepOK, TypeOK, KeepOK
  <2>5. QED BY <2>1, <2>2, <2>3, <2>4 DEF ProcOK
<1>5. \A q \in Proc \ {p} : ProcOK(q)'
  BY <1>2, OthersProcOK DEF SameFlags
<1>6. SharedOK'
  <2>1. WakeupDue(p)'
    BY DEF WakeupDue, IndInv, TypeOK, ProcOK, CurOK
  <2>2. QED BY <1>1, <1>2, <1>3, <2>1, MarkShared
<1>7. QED BY <1>1, <1>4, <1>5, <1>6 DEF IndInv

(* iowait returns. *)
LEMMA IowaitDoneInv ==
  ASSUME IndInv, NEW p \in Proc, IowaitDone(p)
  PROVE  IndInv'
<1> USE CacheAssumption DEF At, Goto, Sleep, local, cache
<1> USE DEF IowaitDone
<1>1. TypeOK'
  BY DEF TypeOK, IndInv, Labels, Returns, Flag, TaskType
<1>2. Others(p)
  BY DEF Others, IndInv, TypeOK
<1>3. Held(p)' = Held(p)
  BY DEF Held, IndInv, ProcOK, HeldOK, KeepOK, CurOK, SleepOK, Usable, TypeOK
<1>4. ProcOK(p)'
  <2>1. HeldOK(p)'
    BY <1>3 DEF IndInv, ProcOK, HeldOK, KeepOK, CurOK, SleepOK, Usable, TypeOK, Held
  <2>2. KeepOK(p)'
    <3>1. keep'[p] = None /\ pc'[p] \notin {"getblk", "found", "age", "fill"}
      BY DEF IndInv, ProcOK, KeepOK, TypeOK
    <3>2. QED BY <3>1 DEF KeepOK
  <2>3. CurOK(p)'
    <3>1. pc'[p] \in {"hold", "release"} /\ cur[p] \in Buf /\ cur[p] # keep[p]
      BY DEF IndInv, ProcOK, CurOK, TypeOK
    <3>2. cur[p] \notin ToSet(ioq)
      BY DEF IndInv, SharedOK, QueueOK
    <3>3. QED BY <3>1, <3>2 DEF CurOK
  <2>4. PathOK(p)' /\ SleepOK(p)'
    BY DEF IndInv, ProcOK, CurOK, PathOK, SleepOK, TypeOK, KeepOK
  <2>5. QED BY <2>1, <2>2, <2>3, <2>4 DEF ProcOK
<1>5. \A q \in Proc \ {p} : ProcOK(q)'
  BY <1>2, OthersProcOK DEF SameFlags
<1>6. SharedOK'
  BY <1>1, <1>2, <1>3, MarkShared DEF WakeupDue, IndInv, ProcOK, HeldOK, KeepOK, CurOK, SleepOK, Usable, TypeOK
<1>7. QED BY <1>1, <1>4, <1>5, <1>6 DEF IndInv

(* bmap goes to allocate. *)
LEMMA BmapAllocInv ==
  ASSUME IndInv, NEW p \in Proc, BmapAlloc(p)
  PROVE  IndInv'
<1> USE CacheAssumption DEF At, Goto, Sleep, local, cache
<1> USE DEF BmapAlloc, GivesUp
<1>1. TypeOK'
  BY TaskFacts DEF TypeOK, IndInv, Labels, Returns, Flag, TaskType
<1>2. Others(p)
  BY DEF Others, IndInv, TypeOK
<1>3. Held(p)' = Held(p)
  BY DEF Held, IndInv, ProcOK, HeldOK, KeepOK, CurOK, SleepOK, Usable, TypeOK
<1>4. ProcOK(p)'
  <2>1. HeldOK(p)'
    BY <1>3 DEF IndInv, ProcOK, HeldOK, KeepOK, CurOK, SleepOK, Usable, TypeOK, Held
  <2>2. KeepOK(p)'
    <3>1. /\ pc'[p] = "getblk" /\ ret'[p] = "bmap" /\ keep'[p] = cur[p]
          /\ cur[p] \in Buf /\ cur[p] \notin ToSet(ioq) /\ cur[p] \in Held(p)
      BY DEF IndInv, ProcOK, CurOK, TypeOK, Held
    <3>2. blk[cur[p]] # None /\ "ERROR" \notin flags[cur[p]]
      BY <3>1 DEF IndInv, ProcOK, HeldOK, Usable
    <3>3. QED BY <3>1, <3>2 DEF KeepOK
  <2>3. CurOK(p)'
    <3>1. pc'[p] = "getblk" /\ want'[p] = task[p].ra /\ TaskOK(task[p])
      BY TaskFacts DEF IndInv, TypeOK
    <3>2. QED BY <3>1 DEF CurOK, TaskOK
  <2>4. PathOK(p)' /\ SleepOK(p)'
    BY DEF IndInv, ProcOK, CurOK, PathOK, SleepOK, TypeOK, KeepOK
  <2>5. QED BY <2>1, <2>2, <2>3, <2>4 DEF ProcOK
<1>5. \A q \in Proc \ {p} : ProcOK(q)'
  BY <1>2, OthersProcOK DEF SameFlags
<1>6. SharedOK'
  BY <1>1, <1>2, <1>3, MarkShared DEF WakeupDue, IndInv, ProcOK, HeldOK, KeepOK, CurOK, SleepOK, Usable, TypeOK
<1>7. QED BY <1>1, <1>4, <1>5, <1>6 DEF IndInv

(* bflush returns. *)
LEMMA BflushReturnInv ==
  ASSUME IndInv, NEW p \in Proc, BflushReturn(p)
  PROVE  IndInv'
<1> USE CacheAssumption DEF At, Goto, Sleep, local, cache
<1> USE DEF BflushReturn
<1>1. TypeOK'
  BY DEF TypeOK, IndInv, Labels, Returns, Flag, TaskType
<1>2. Others(p)
  BY DEF Others, IndInv, TypeOK
<1>3. Held(p)' = Held(p)
  BY DEF Held, IndInv, ProcOK, HeldOK, KeepOK, CurOK, SleepOK, Usable, TypeOK
<1>4. ProcOK(p)'
  <2>1. HeldOK(p)'
    BY <1>3 DEF IndInv, ProcOK, HeldOK, KeepOK, CurOK, SleepOK, Usable, TypeOK, Held
  <2>2. KeepOK(p)'
    <3>1. keep'[p] = None /\ pc'[p] \notin {"getblk", "found", "age", "fill"}
      BY DEF IndInv, ProcOK, KeepOK, TypeOK
    <3>2. QED BY <3>1 DEF KeepOK
  <2>3. CurOK(p)'
    BY HeldFacts DEF IndInv, ProcOK, HeldOK, KeepOK, CurOK, Usable, TypeOK
  <2>4. PathOK(p)' /\ SleepOK(p)'
    BY DEF IndInv, ProcOK, CurOK, PathOK, SleepOK, TypeOK, KeepOK
  <2>5. QED BY <2>1, <2>2, <2>3, <2>4 DEF ProcOK
<1>5. \A q \in Proc \ {p} : ProcOK(q)'
  BY <1>2, OthersProcOK DEF SameFlags
<1>6. SharedOK'
  BY <1>1, <1>2, <1>3, MarkShared DEF WakeupDue, IndInv, ProcOK, HeldOK, KeepOK, CurOK, SleepOK, Usable, TypeOK
<1>7. QED BY <1>1, <1>4, <1>5, <1>6 DEF IndInv

(* getblk takes the available buffer of the block. *)
LEMMA GetblkTakeInv ==
  ASSUME IndInv, NEW p \in Proc, GetblkTake(p)
  PROVE  IndInv'
<1> USE CacheAssumption DEF At, Goto, Sleep, local, cache
<1> USE DEF GetblkTake, Returned
<1>0. /\ cur[p] \in Buf /\ cur[p] \in ToSet(free) /\ cur[p] \notin ToSet(ioq)
      /\ cur[p] \notin Held(p) /\ "ASYNC" \notin flags[cur[p]]
  <2>1. cur[p] \in Buf
    BY DEF IndInv, ProcOK, CurOK
  <2>2. QED BY <2>1, HeldFacts DEF IndInv, SharedOK, FreeIffNotBusy, QueueOK, FlagsOK
<1>1. /\ free' \in Seq(Buf) /\ IsInjective(free')
      /\ ToSet(free') = ToSet(free) \ {cur[p]}
  BY <1>0, RemoveFacts DEF IndInv, TypeOK, SharedOK, FreeIffNotBusy
<1>2. TypeOK'
  BY <1>0, <1>1 DEF TypeOK, IndInv, Labels, Flag
<1>3. Others(p)
  BY DEF Others, IndInv, TypeOK
<1>4. Held(p)' = Held(p) \cup {cur[p]}
  BY <1>0 DEF Held, IndInv, TypeOK
<1>5. /\ flags'[cur[p]] = flags[cur[p]] \cup {"BUSY"}
      /\ \A y \in Buf \ {cur[p]} : flags'[y] = flags[y]
      /\ cpu \in {None, p} /\ wchan'[p] = None
  BY <1>0 DEF IndInv, TypeOK
<1>6. SharedOK' /\ \A q \in Proc \ {p} : ProcOK(q)'
  BY <1>0, <1>1, <1>2, <1>3, <1>4, <1>5, TakeShared
<1>7. ProcOK(p)'
  <2>1. HeldOK(p)'
    BY <1>0, <1>4, <1>5, HeldFacts DEF IndInv, ProcOK, HeldOK, CurOK, Usable, TypeOK
  <2>2. KeepOK(p)'
    <3>1. keep[p] # None => keep[p] \in Buf /\ flags'[keep[p]] = flags[keep[p]]
      BY <1>0, <1>5, HeldFacts
    <3>2. pc[p] = "found" /\ pc'[p] = Returned(p)
      BY DEF IndInv, TypeOK
    <3>3. QED BY <3>1, <3>2 DEF IndInv, ProcOK, KeepOK
  <2>3. CurOK(p)'
    BY <1>0, <1>4, <1>5, HeldFacts DEF IndInv, ProcOK, HeldOK, KeepOK, CurOK, Usable, TypeOK
  <2>4. PathOK(p)' /\ SleepOK(p)'
    BY DEF IndInv, ProcOK, CurOK, PathOK, SleepOK, TypeOK, KeepOK
  <2>5. QED BY <2>1, <2>2, <2>3, <2>4 DEF ProcOK
<1>8. QED BY <1>2, <1>6, <1>7 DEF IndInv

(* getblk and geteblk reassign the oldest available buffer. *)
LEMMA GetblkReassignInv ==
  ASSUME IndInv, NEW p \in Proc, GetblkReassign(p)
  PROVE  IndInv'
<1> USE CacheAssumption DEF At, Goto, Sleep, local, cache
<1> USE DEF GetblkReassign, Miss, Returned
<1> DEFINE x == Head(free)
<1>0. /\ x \in Buf /\ x \in ToSet(free) /\ Tail(free) \in Seq(Buf)
      /\ ToSet(Tail(free)) = ToSet(free) \ {x} /\ IsInjective(Tail(free))
  BY TailFacts DEF IndInv, TypeOK, SharedOK, FreeIffNotBusy
<1>1. x \notin ToSet(ioq) /\ x \notin Held(p)
  BY <1>0, HeldFacts DEF IndInv, SharedOK, FreeIffNotBusy, QueueOK
<1> HIDE DEF x
<1>a. /\ free' = Tail(free) /\ flags' = [flags EXCEPT ![x] = {"BUSY"}]
      /\ blk' = [blk EXCEPT ![x] = want[p]] /\ cur' = [cur EXCEPT ![p] = x]
  BY DEF x
<1>2. TypeOK'
  BY <1>0, <1>a DEF TypeOK, IndInv, Labels, Flag
<1>3. Others(p)
  BY <1>a DEF Others, IndInv, TypeOK
<1>4. Held(p)' = Held(p) \cup {x}
  BY <1>0, <1>a DEF Held, IndInv, TypeOK
<1>5. /\ flags'[x] = {"BUSY"} /\ (blk'[x] = None \/ ~incore(blk'[x]))
      /\ \A y \in Buf \ {x} : flags'[y] = flags[y] /\ blk'[y] = blk[y]
      /\ cpu \in {None, p} /\ wchan'[p] = None
  BY <1>0, <1>a DEF IndInv, TypeOK
<1>6. SharedOK' /\ \A q \in Proc \ {p} : ProcOK(q)'
  BY <1>0, <1>1, <1>a, <1>2, <1>3, <1>4, <1>5, TakeShared
<1>7. ProcOK(p)'
  <2>1. HeldOK(p)'
    <3>1. want[p] = None => task[p].op = "geteblk" /\ pc'[p] = "hold"
      <4>1. pc[p] = "getblk" /\ pc'[p] = Returned(p)
        BY DEF IndInv, TypeOK
      <4>2. want[p] = None => task[p].op = "geteblk" /\ ret[p] = "caller"
        BY <4>1 DEF IndInv, ProcOK, CurOK
      <4>3. QED BY <4>1, <4>2
    <3>2. blk'[x] = want[p] /\ task' = task
      BY <1>0, <1>a DEF IndInv, TypeOK
    <3>3. \A y \in Held(p) : /\ y \in Buf /\ flags'[y] = flags[y] /\ blk'[y] = blk[y]
                              /\ "BUSY" \in flags[y] /\ "ASYNC" \notin flags[y] /\ Usable(y)
      BY <1>1, <1>5, HeldFacts DEF IndInv, ProcOK, HeldOK
    <3>4. QED BY <1>0, <1>4, <1>5, <3>1, <3>2, <3>3 DEF HeldOK, Usable
  <2>2. KeepOK(p)'
    BY SMTT(40), <1>0, <1>1, <1>a, <1>4, HeldFacts DEF IndInv, ProcOK, KeepOK, CurOK, TypeOK
  <2>3. CurOK(p)'
    BY <1>0, <1>1, <1>a, <1>4, HeldFacts DEF IndInv, ProcOK, HeldOK, KeepOK, CurOK, Usable, TypeOK
  <2>4. PathOK(p)' /\ SleepOK(p)'
    BY DEF IndInv, ProcOK, CurOK, PathOK, SleepOK, TypeOK, KeepOK
  <2>5. QED BY <2>1, <2>2, <2>3, <2>4 DEF ProcOK
<1>8. QED BY <1>2, <1>6, <1>7 DEF IndInv

(* getblk and geteblk start the oldest delayed write. *)
LEMMA GetblkFlushInv ==
  ASSUME IndInv, NEW p \in Proc, GetblkFlush(p)
  PROVE  IndInv'
<1> USE CacheAssumption DEF At, Goto, Sleep, local, cache
<1> USE DEF GetblkFlush, Miss, WriteFlags, Strategy
<1> DEFINE x == Head(free)
           fl == WriteFlags(flags[x] \cup {"BUSY", "ASYNC"})
<1>0. /\ x \in Buf /\ x \in ToSet(free) /\ free' \in Seq(Buf)
      /\ ToSet(free') = ToSet(free) \ {x} /\ IsInjective(free')
      /\ "DELWRI" \in flags[x] /\ Strategy(x, fl)
      /\ cur' = [cur EXCEPT ![p] = x] /\ pc' = [pc EXCEPT ![p] = "age"] /\ cpu' = p
      /\ pc[p] = "getblk"
      /\ UNCHANGED <<blk, data, freeWanted, disk, errs, task, want, ret, keep, wchan>>
  BY TailFacts DEF IndInv, TypeOK, SharedOK, FreeIffNotBusy
<1>1. x \notin ToSet(ioq) /\ x \notin Held(p) /\ blk[x] # None /\ Append(ioq, x) \in Seq(Buf)
  BY <1>0, HeldFacts, AppendFacts
  DEF IndInv, TypeOK, SharedOK, FreeIffNotBusy, QueueOK, FlagsOK
<1> HIDE DEF x
<1>2. TypeOK'
  BY <1>0, <1>1 DEF TypeOK, IndInv, Labels, Flag
<1>3. Others(p)
  BY <1>0 DEF Others, IndInv, TypeOK
<1>4. Held(p)' = Held(p)
  BY <1>0 DEF Held, IndInv, TypeOK
<1>5. /\ cpu \in {None, p} /\ wchan[p] = None /\ wchan' = wchan
      /\ free # <<>> /\ "ASYNC" \in fl /\ "BUSY" \in fl /\ {"DONE", "DELWRI"} \cap fl = {}
      /\ "WANTED" \in flags[x] => "WANTED" \in fl
  BY <1>0 DEF ToSet
<1>6. \A y \in Held(p) : y # x /\ flags'[y] = flags[y] /\ y \in Buf
  BY <1>0, <1>1, HeldFacts DEF IndInv, TypeOK
<1>7. ToSet(ioq') = ToSet(ioq) \cup {x}
  BY <1>0, AppendFacts DEF IndInv, TypeOK
<1> HIDE DEF fl, GetblkFlush
<1>8. SharedOK' /\ \A q \in Proc \ {p} : ProcOK(q)'
  BY <1>0, <1>1, <1>2, <1>3, <1>4, <1>5, EnqueueShared
<1>9. ProcOK(p)'
  <2>1. HeldOK(p)'
    BY <1>0, <1>4, <1>6, HeldFacts DEF IndInv, ProcOK, HeldOK, CurOK, Usable, TypeOK
  <2>2. KeepOK(p)'
    <3>1. keep[p] # None => /\ flags'[keep[p]] = flags[keep[p]]
                            /\ keep[p] \in ToSet(ioq') <=> keep[p] \in ToSet(ioq)
      BY <1>6, <1>7, HeldFacts
    <3>2. QED BY <1>0, <3>1 DEF IndInv, ProcOK, KeepOK, TypeOK
  <2>3. CurOK(p)'
    BY <1>0, <1>6, HeldFacts DEF IndInv, ProcOK, HeldOK, KeepOK, CurOK, Usable, TypeOK
  <2>4. PathOK(p)' /\ SleepOK(p)'
    <3>1. /\ pc[p] = "getblk" /\ pc'[p] = "age" /\ ret' = ret /\ task' = task
          /\ wchan'[p] = None
      BY <1>0, <1>5 DEF IndInv, TypeOK
    <3>2. QED BY <3>1 DEF IndInv, ProcOK, PathOK, SleepOK
  <2>5. QED BY <2>1, <2>2, <2>3, <2>4 DEF ProcOK
<1>10. QED BY <1>2, <1>8, <1>9 DEF IndInv

(* The caller releases the buffer. *)
LEMMA HoldBrelseInv ==
  ASSUME IndInv, NEW p \in Proc, HoldBrelse(p)
  PROVE  IndInv'
<1> USE CacheAssumption DEF At, Goto, Sleep, local, cache
<1> USE DEF HoldBrelse
<1> DEFINE x == cur[p]
           fl == flags[x]
<1>0. /\ x \in Held(p) /\ x \in Buf /\ x # keep[p] /\ x \notin ToSet(ioq) /\ x \notin ToSet(free)
      /\ Brelse(x, fl) /\ wchan[p] = None /\ cpu \in {None, p} /\ fl \subseteq Flag
      /\ "WANTED" \in flags[x] => "WANTED" \in fl
  BY HeldFacts DEF IndInv, ProcOK, CurOK, TypeOK, Flag
<1>1. "DELWRI" \in fl => blk[x] # None /\ "DONE" \in fl /\ "ERROR" \notin fl
  BY <1>0, TaskFacts DEF IndInv, SharedOK, FlagsOK, ProcOK, HeldOK, CurOK, Usable
<1>2. wchan'[p] = None
  BY <1>0, BrelseFacts
<1>3. /\ pc' = [pc EXCEPT ![p] = "idle"] /\ cpu' = None /\ pc[p] # "idle"
      /\ pc[p] \in {"hold", "release", "link"}
      /\ data' \in [Buf -> Data]
      /\ UNCHANGED <<ioq, disk, errs, task, want, ret, cur, keep>>
  BY <1>0 DEF IndInv, TypeOK
<1> HIDE DEF fl, HoldBrelse
<1>4. TypeOK'
  BY <1>0, <1>3, BrelseFacts DEF TypeOK, IndInv, Labels
<1>5. Others(p)
  BY <1>0, <1>3, BrelseFacts DEF Others, IndInv, TypeOK
<1>6. Held(p)' = Held(p) \ {x}
  BY <1>0, <1>3 DEF Held, IndInv, ProcOK, KeepOK, TypeOK
<1> HIDE DEF x
<1>7. SharedOK' /\ \A q \in Proc \ {p} : ProcOK(q)'
  BY <1>0, <1>1, <1>3, <1>4, <1>5, <1>6, ReleaseShared
<1>8. \A y \in Held(p) \ {x} : flags'[y] = flags[y] /\ blk'[y] = blk[y] /\ y \in Buf
  BY <1>0, HeldFacts, BrelseFacts
<1>9. ProcOK(p)'
  <2>1. pc'[p] = "idle" /\ keep'[p] = None /\ Held(p)' = {}
    BY <1>3, <1>6 DEF x, Held, IndInv, ProcOK, KeepOK, TypeOK
  <2>2. QED BY <1>2, <1>3, <2>1
        DEF IndInv, ProcOK, HeldOK, KeepOK, CurOK, PathOK, SleepOK
<1>10. QED BY <1>4, <1>7, <1>9 DEF IndInv

(* The caller delays the write of the buffer. *)
LEMMA HoldBdwriteInv ==
  ASSUME IndInv, NEW p \in Proc, HoldBdwrite(p)
  PROVE  IndInv'
<1> USE CacheAssumption DEF At, Goto, Sleep, local, cache
<1> USE DEF HoldBdwrite, Writes, GivesUp, Modify, TaskOK
<1> DEFINE x == cur[p]
           fl == flags[x] \cup {"DELWRI", "DONE"}
<1>0. /\ x \in Held(p) /\ x \in Buf /\ x # keep[p] /\ x \notin ToSet(ioq) /\ x \notin ToSet(free)
      /\ Brelse(x, fl) /\ wchan[p] = None /\ cpu \in {None, p} /\ fl \subseteq Flag
      /\ "WANTED" \in flags[x] => "WANTED" \in fl
  BY HeldFacts DEF IndInv, ProcOK, CurOK, TypeOK, Flag
<1>1. "DELWRI" \in fl => blk[x] # None /\ "DONE" \in fl /\ "ERROR" \notin fl
  BY <1>0, TaskFacts DEF IndInv, SharedOK, FlagsOK, ProcOK, HeldOK, CurOK, Usable
<1>2. wchan'[p] = None
  BY <1>0, BrelseFacts
<1>3. /\ pc' = [pc EXCEPT ![p] = "idle"] /\ cpu' = None /\ pc[p] # "idle"
      /\ pc[p] \in {"hold", "release", "link"}
      /\ data' \in [Buf -> Data]
      /\ UNCHANGED <<ioq, disk, errs, task, want, ret, cur, keep>>
  BY <1>0 DEF IndInv, TypeOK
<1> HIDE DEF fl, HoldBdwrite
<1>4. TypeOK'
  BY <1>0, <1>3, BrelseFacts DEF TypeOK, IndInv, Labels
<1>5. Others(p)
  BY <1>0, <1>3, BrelseFacts DEF Others, IndInv, TypeOK
<1>6. Held(p)' = Held(p) \ {x}
  BY <1>0, <1>3 DEF Held, IndInv, ProcOK, KeepOK, TypeOK
<1> HIDE DEF x
<1>7. SharedOK' /\ \A q \in Proc \ {p} : ProcOK(q)'
  BY <1>0, <1>1, <1>3, <1>4, <1>5, <1>6, ReleaseShared
<1>8. \A y \in Held(p) \ {x} : flags'[y] = flags[y] /\ blk'[y] = blk[y] /\ y \in Buf
  BY <1>0, HeldFacts, BrelseFacts
<1>9. ProcOK(p)'
  <2>1. pc'[p] = "idle" /\ keep'[p] = None /\ Held(p)' = {}
    BY <1>3, <1>6 DEF x, Held, IndInv, ProcOK, KeepOK, TypeOK
  <2>2. QED BY <1>2, <1>3, <2>1
        DEF IndInv, ProcOK, HeldOK, KeepOK, CurOK, PathOK, SleepOK
<1>10. QED BY <1>4, <1>7, <1>9 DEF IndInv

(* bwrite releases the buffer after its wait. *)
LEMMA BwriteReleaseInv ==
  ASSUME IndInv, NEW p \in Proc, BwriteRelease(p)
  PROVE  IndInv'
<1> USE CacheAssumption DEF At, Goto, Sleep, local, cache
<1> USE DEF BwriteRelease
<1> DEFINE x == cur[p]
           fl == flags[x]
<1>0. /\ x \in Held(p) /\ x \in Buf /\ x # keep[p] /\ x \notin ToSet(ioq) /\ x \notin ToSet(free)
      /\ Brelse(x, fl) /\ wchan[p] = None /\ cpu \in {None, p} /\ fl \subseteq Flag
      /\ "WANTED" \in flags[x] => "WANTED" \in fl
  BY HeldFacts DEF IndInv, ProcOK, CurOK, TypeOK, Flag
<1>1. "DELWRI" \in fl => blk[x] # None /\ "DONE" \in fl /\ "ERROR" \notin fl
  BY <1>0, TaskFacts DEF IndInv, SharedOK, FlagsOK, ProcOK, HeldOK, CurOK, Usable
<1>2. wchan'[p] = None
  BY <1>0, BrelseFacts
<1>3. /\ pc' = [pc EXCEPT ![p] = "idle"] /\ cpu' = None /\ pc[p] # "idle"
      /\ pc[p] \in {"hold", "release", "link"}
      /\ data' \in [Buf -> Data]
      /\ UNCHANGED <<ioq, disk, errs, task, want, ret, cur, keep>>
  BY <1>0 DEF IndInv, TypeOK
<1> HIDE DEF fl, BwriteRelease
<1>4. TypeOK'
  BY <1>0, <1>3, BrelseFacts DEF TypeOK, IndInv, Labels
<1>5. Others(p)
  BY <1>0, <1>3, BrelseFacts DEF Others, IndInv, TypeOK
<1>6. Held(p)' = Held(p) \ {x}
  BY <1>0, <1>3 DEF Held, IndInv, ProcOK, KeepOK, TypeOK
<1> HIDE DEF x
<1>7. SharedOK' /\ \A q \in Proc \ {p} : ProcOK(q)'
  BY <1>0, <1>1, <1>3, <1>4, <1>5, <1>6, ReleaseShared
<1>8. \A y \in Held(p) \ {x} : flags'[y] = flags[y] /\ blk'[y] = blk[y] /\ y \in Buf
  BY <1>0, HeldFacts, BrelseFacts
<1>9. ProcOK(p)'
  <2>1. pc'[p] = "idle" /\ keep'[p] = None /\ Held(p)' = {}
    BY <1>3, <1>6 DEF x, Held, IndInv, ProcOK, KeepOK, TypeOK
  <2>2. QED BY <1>2, <1>3, <2>1
        DEF IndInv, ProcOK, HeldOK, KeepOK, CurOK, PathOK, SleepOK
<1>10. QED BY <1>4, <1>7, <1>9 DEF IndInv

(* bmap delays the write of the indirect block. *)
LEMMA BmapLinkInv ==
  ASSUME IndInv, NEW p \in Proc, BmapLink(p)
  PROVE  IndInv'
<1> USE CacheAssumption DEF At, Goto, Sleep, local, cache
<1> USE DEF BmapLink, Modify
<1> DEFINE x == cur[p]
           fl == flags[x] \cup {"DELWRI", "DONE"}
<1>0. /\ x \in Held(p) /\ x \in Buf /\ x # keep[p] /\ x \notin ToSet(ioq) /\ x \notin ToSet(free)
      /\ Brelse(x, fl) /\ wchan[p] = None /\ cpu \in {None, p} /\ fl \subseteq Flag
      /\ "WANTED" \in flags[x] => "WANTED" \in fl
  BY HeldFacts DEF IndInv, ProcOK, CurOK, TypeOK, Flag
<1>1. "DELWRI" \in fl => blk[x] # None /\ "DONE" \in fl /\ "ERROR" \notin fl
  BY <1>0, TaskFacts DEF IndInv, SharedOK, FlagsOK, ProcOK, HeldOK, CurOK, Usable
<1>2. wchan'[p] = None
  BY <1>0, BrelseFacts
<1>3. /\ pc' = [pc EXCEPT ![p] = "idle"] /\ cpu' = None /\ pc[p] # "idle"
      /\ pc[p] \in {"hold", "release", "link"}
      /\ data' \in [Buf -> Data]
      /\ UNCHANGED <<ioq, disk, errs, task, want, ret, cur, keep>>
  BY <1>0 DEF IndInv, TypeOK
<1> HIDE DEF fl, BmapLink
<1>4. TypeOK'
  BY <1>0, <1>3, BrelseFacts DEF TypeOK, IndInv, Labels
<1>5. Others(p)
  BY <1>0, <1>3, BrelseFacts DEF Others, IndInv, TypeOK
<1>6. Held(p)' = Held(p) \ {x}
  BY <1>0, <1>3 DEF Held, IndInv, ProcOK, KeepOK, TypeOK
<1> HIDE DEF x
<1>7. SharedOK' /\ \A q \in Proc \ {p} : ProcOK(q)'
  BY <1>0, <1>1, <1>3, <1>4, <1>5, <1>6, ReleaseShared
<1>8. \A y \in Held(p) \ {x} : flags'[y] = flags[y] /\ blk'[y] = blk[y] /\ y \in Buf
  BY <1>0, HeldFacts, BrelseFacts
<1>9. ProcOK(p)'
  <2>1. pc'[p] = "idle" /\ keep'[p] = None /\ Held(p)' = {}
    BY <1>3, <1>6 DEF x, Held, IndInv, ProcOK, KeepOK, TypeOK
  <2>2. QED BY <1>2, <1>3, <2>1
        DEF IndInv, ProcOK, HeldOK, KeepOK, CurOK, PathOK, SleepOK
<1>10. QED BY <1>4, <1>7, <1>9 DEF IndInv

(* bmap delays the write of the new block. *)
LEMMA BmapFillInv ==
  ASSUME IndInv, NEW p \in Proc, BmapFill(p)
  PROVE  IndInv'
<1> USE CacheAssumption DEF At, Goto, Sleep, local, cache
<1> USE DEF BmapFill, GivesUp, Modify
<1> DEFINE x == cur[p]
           fl == IF GivesUp(p) THEN flags[x] ELSE flags[x] \cup {"DELWRI", "DONE"}
<1>0. /\ x \in Held(p) /\ x \in Buf /\ x # keep[p] /\ x \notin ToSet(ioq) /\ x \notin ToSet(free)
      /\ Brelse(x, fl) /\ wchan[p] = None /\ cpu \in {None, p} /\ fl \subseteq Flag
      /\ "WANTED" \in flags[x] => "WANTED" \in fl
  BY HeldFacts DEF IndInv, ProcOK, CurOK, TypeOK, Flag
<1>1. "DELWRI" \in fl => blk[x] # None /\ "DONE" \in fl /\ "ERROR" \notin fl
  BY <1>0, TaskFacts DEF IndInv, SharedOK, FlagsOK, ProcOK, HeldOK, CurOK, Usable
<1>2. wchan'[p] = None
  BY <1>0, BrelseFacts
<1>3. /\ pc' = [pc EXCEPT ![p] = "link"] /\ cpu' = p /\ pc[p] = "fill"
      /\ task[p].op = "bmap" /\ keep[p] \in Buf /\ keep[p] \in Held(p)
      /\ keep[p] \notin ToSet(ioq) /\ blk[keep[p]] # None /\ "ERROR" \notin flags[keep[p]]
      /\ cur' = [cur EXCEPT ![p] = keep[p]] /\ keep' = [keep EXCEPT ![p] = None]
      /\ data' \in [Buf -> Data]
      /\ UNCHANGED <<ioq, disk, errs, task, want, ret>>
  <2>1. pc[p] = "fill" /\ task[p].op = "bmap" /\ keep[p] # None
    BY DEF IndInv, ProcOK, KeepOK
  <2>2. /\ keep[p] \in Buf /\ keep[p] \in Held(p) /\ keep[p] \notin ToSet(ioq)
        /\ blk[keep[p]] # None /\ "ERROR" \notin flags[keep[p]]
    BY <2>1, HeldFacts DEF IndInv, ProcOK, KeepOK
  <2>3. data' \in [Buf -> Data]
    BY <1>0 DEF IndInv, TypeOK
  <2>4. QED BY <2>1, <2>2, <2>3
<1> HIDE DEF fl, BmapFill
<1>4. TypeOK'
  BY <1>0, <1>3, BrelseFacts DEF TypeOK, IndInv, Labels
<1>5. Others(p)
  BY <1>0, <1>3, BrelseFacts DEF Others, IndInv, TypeOK
<1>6. Held(p)' = Held(p) \ {x}
  BY <1>0, <1>3 DEF Held, IndInv, ProcOK, KeepOK, TypeOK
<1> HIDE DEF x
<1>7. SharedOK' /\ \A q \in Proc \ {p} : ProcOK(q)'
  BY <1>0, <1>1, <1>3, <1>4, <1>5, <1>6, ReleaseShared
<1>8. \A y \in Held(p) \ {x} : flags'[y] = flags[y] /\ blk'[y] = blk[y] /\ y \in Buf
  BY <1>0, HeldFacts, BrelseFacts
<1>9. ProcOK(p)'
  <2>1. /\ pc'[p] = "link" /\ cur'[p] = keep[p] /\ keep'[p] = None
        /\ Held(p)' = {keep[p]} /\ keep[p] # x
    BY <1>0, <1>3 DEF x, Held, IndInv, TypeOK
  <2>2. flags'[keep[p]] = flags[keep[p]] /\ blk'[keep[p]] = blk[keep[p]]
    BY <1>3, <1>8, <2>1
  <2>3. HeldOK(p)'
    BY <1>3, <2>1, <2>2, HeldFacts DEF HeldOK, Usable
  <2>4. KeepOK(p)' /\ CurOK(p)'
    BY <1>3, <2>1, <2>2 DEF KeepOK, CurOK
  <2>5. PathOK(p)' /\ SleepOK(p)'
    BY <1>2, <1>3, <2>1 DEF IndInv, ProcOK, PathOK, SleepOK
  <2>6. QED BY <2>3, <2>4, <2>5 DEF ProcOK
<1>10. QED BY <1>4, <1>7, <1>9 DEF IndInv

(* The caller starts to write the buffer and lets it go. *)
LEMMA HoldBawriteInv ==
  ASSUME IndInv, NEW p \in Proc, HoldBawrite(p)
  PROVE  IndInv'
<1> USE CacheAssumption DEF At, Goto, Sleep, local, cache
<1> USE DEF HoldBawrite, Writes, GivesUp, Modify, WriteFlags, TaskOK
<1> DEFINE x == cur[p]
           fl == WriteFlags(flags[x] \cup {"ASYNC"})
<1>0. /\ x \in Held(p) /\ x \in Buf /\ x # keep[p] /\ x \notin ToSet(ioq) /\ x \notin ToSet(free)
      /\ Strategy(x, fl) /\ wchan[p] = None /\ cpu \in {None, p} /\ fl \subseteq Flag
      /\ "WANTED" \in flags[x] => "WANTED" \in fl
      /\ "BUSY" \in fl /\ {"DONE", "DELWRI"} \cap fl = {}
  BY HeldFacts DEF IndInv, SharedOK, FlagsOK, ProcOK, CurOK, TypeOK, Flag
<1>1. blk[x] # None
  BY <1>0, TaskFacts DEF IndInv, ProcOK, HeldOK, Usable
<1>2. /\ ioq' \in Seq(Buf) /\ ToSet(ioq') = ToSet(ioq) \cup {x}
      /\ flags' \in [Buf -> SUBSET Flag] /\ flags'[x] = fl
      /\ \A y \in Buf \ {x} : flags'[y] = flags[y]
  BY <1>0, AppendFacts DEF Strategy, IndInv, TypeOK
<1>3. /\ pc' = [pc EXCEPT ![p] = IF "DELWRI" \in flags[x] THEN "agedone" ELSE "idle"]
      /\ cpu' \in {None, p} /\ pc[p] = "hold"
      /\ data' \in [Buf -> Data] /\ "ASYNC" \in fl
      /\ UNCHANGED <<blk, free, freeWanted, disk, errs, task, want, ret, cur, keep, wchan>>
  BY <1>0 DEF IndInv, TypeOK
<1> HIDE DEF fl, HoldBawrite
<1>4. TypeOK'
  BY <1>2, <1>3 DEF TypeOK, IndInv, Labels, Returns
<1>5. Others(p)
  BY <1>3 DEF Others, IndInv, TypeOK
<1>6. Held(p)' = Held(p) \ {x}
  BY <1>0, <1>3 DEF Held, IndInv, ProcOK, KeepOK, TypeOK
<1> HIDE DEF x
<1>7. ToSet(free) = ToSet(free) \ {x} /\ IsInjective(free)
  BY <1>0 DEF IndInv, SharedOK, FreeIffNotBusy
<1>8. SharedOK' /\ \A q \in Proc \ {p} : ProcOK(q)'
  BY <1>0, <1>1, <1>3, <1>4, <1>5, <1>6, <1>7, EnqueueShared
<1>9. ProcOK(p)'
  <2>1. pc'[p] \in {"idle", "agedone"} /\ keep'[p] = None /\ Held(p)' = {} /\ cur'[p] \in Buf
    <3>1. pc'[p] \in {"idle", "agedone"} /\ cur'[p] \in Buf
      BY <1>0, <1>3 DEF x, IndInv, TypeOK
    <3>2. keep'[p] = None
      BY <1>3 DEF IndInv, ProcOK, KeepOK
    <3>3. QED BY <3>1, <3>2 DEF Held
  <2>2. QED BY <1>0, <1>3, <2>1
        DEF IndInv, ProcOK, HeldOK, KeepOK, CurOK, PathOK, SleepOK
<1>10. QED BY <1>4, <1>8, <1>9 DEF IndInv

(* The caller writes the buffer and waits. *)
LEMMA HoldBwriteInv ==
  ASSUME IndInv, NEW p \in Proc, HoldBwrite(p)
  PROVE  IndInv'
<1> USE CacheAssumption DEF At, Goto, Sleep, local, cache
<1> USE DEF HoldBwrite, Writes, GivesUp, Modify, WriteFlags, TaskOK
<1> DEFINE x == cur[p]
           fl == WriteFlags(flags[x])
<1>0. /\ x \in Held(p) /\ x \in Buf /\ x # keep[p] /\ x \notin ToSet(ioq) /\ x \notin ToSet(free)
      /\ Strategy(x, fl) /\ wchan[p] = None /\ cpu \in {None, p} /\ fl \subseteq Flag
      /\ "WANTED" \in flags[x] => "WANTED" \in fl
      /\ "BUSY" \in fl /\ {"DONE", "DELWRI"} \cap fl = {}
  BY HeldFacts DEF IndInv, SharedOK, FlagsOK, ProcOK, CurOK, TypeOK, Flag
<1>1. blk[x] # None
  BY <1>0, TaskFacts DEF IndInv, ProcOK, HeldOK, Usable
<1>2. /\ ioq' \in Seq(Buf) /\ ToSet(ioq') = ToSet(ioq) \cup {x}
      /\ flags' \in [Buf -> SUBSET Flag] /\ flags'[x] = fl
      /\ \A y \in Buf \ {x} : flags'[y] = flags[y]
  BY <1>0, AppendFacts DEF Strategy, IndInv, TypeOK
<1>3. /\ pc' = [pc EXCEPT ![p] = "iowait"] /\ cpu' = p /\ pc[p] = "hold"
      /\ ret' = [ret EXCEPT ![p] = "bwrite"] /\ keep[p] = None
      /\ data' \in [Buf -> Data] /\ "ASYNC" \notin fl
      /\ UNCHANGED <<blk, free, freeWanted, disk, errs, task, want, cur, keep, wchan>>
  <2>1. keep[p] = None /\ "ASYNC" \notin fl
    BY <1>0, HeldFacts DEF IndInv, ProcOK, KeepOK
  <2>2. data' \in [Buf -> Data]
    BY <1>0 DEF IndInv, TypeOK
  <2>3. QED BY <2>1, <2>2
<1> HIDE DEF fl, HoldBwrite
<1>4. TypeOK'
  BY <1>2, <1>3 DEF TypeOK, IndInv, Labels, Returns
<1>5. Others(p)
  BY <1>3 DEF Others, IndInv, TypeOK
<1>6. Held(p)' = Held(p)
  BY <1>0, <1>3 DEF Held, IndInv, TypeOK
<1> HIDE DEF x
<1>7. ToSet(free) = ToSet(free) \ {x} /\ IsInjective(free)
  BY <1>0 DEF IndInv, SharedOK, FreeIffNotBusy
<1>8. SharedOK' /\ \A q \in Proc \ {p} : ProcOK(q)'
  BY <1>0, <1>1, <1>3, <1>4, <1>5, <1>6, <1>7, EnqueueShared
<1>9. ProcOK(p)'
  <2>1. pc'[p] = "iowait" /\ keep'[p] = None /\ Held(p)' = {x} /\ cur'[p] = x /\ ret'[p] = "bwrite"
    BY <1>0, <1>3, <1>6 DEF x, Held, IndInv, ProcOK, KeepOK, TypeOK
  <2>2. HeldOK(p)'
    BY <1>0, <1>1, <1>2, <1>3, <2>1 DEF HeldOK, Usable
  <2>3. CurOK(p)' /\ KeepOK(p)'
    BY <1>0, <1>2, <2>1, CacheAssumption DEF CurOK, KeepOK
  <2>4. PathOK(p)' /\ SleepOK(p)'
    BY <1>0, <1>3, <2>1 DEF PathOK, SleepOK
  <2>5. QED BY <2>2, <2>3, <2>4 DEF ProcOK
<1>10. QED BY <1>4, <1>8, <1>9 DEF IndInv

(* bflush starts a delayed write. *)
LEMMA BflushWriteInv ==
  ASSUME IndInv, NEW p \in Proc, BflushWrite(p)
  PROVE  IndInv'
<1> USE CacheAssumption DEF At, Goto, Sleep, local, cache
<1> USE DEF BflushWrite, WriteFlags, Strategy
<1> PICK i \in DOMAIN free :
         /\ Delayed(i)
         /\ free' = RemoveAt(free, i)
         /\ Strategy(free[i], WriteFlags(flags[free[i]] \cup {"BUSY", "ASYNC"}))
         /\ cur' = [cur EXCEPT ![p] = free[i]]
  OBVIOUS
<1> DEFINE x == free[i]
           fl == WriteFlags(flags[x] \cup {"BUSY", "ASYNC"})
<1>a. x \in Buf /\ x \in ToSet(free)
  BY DEF IndInv, TypeOK, ToSet
<1>0. /\ x \in Buf /\ x \in ToSet(free) /\ free' \in Seq(Buf)
      /\ ToSet(free') = ToSet(free) \ {x} /\ IsInjective(free')
      /\ "DELWRI" \in flags[x] /\ Strategy(x, fl)
      /\ cur' = [cur EXCEPT ![p] = x] /\ pc' = [pc EXCEPT ![p] = "age"] /\ cpu' = p
      /\ pc[p] = "bflush"
      /\ UNCHANGED <<blk, data, freeWanted, disk, errs, task, want, ret, keep, wchan>>
  BY <1>a, RemoveFacts DEF Delayed, IndInv, TypeOK, SharedOK, FreeIffNotBusy
<1>1. x \notin ToSet(ioq) /\ x \notin Held(p) /\ blk[x] # None /\ Append(ioq, x) \in Seq(Buf)
  BY <1>0, HeldFacts, AppendFacts
  DEF IndInv, TypeOK, SharedOK, FreeIffNotBusy, QueueOK, FlagsOK
<1> HIDE DEF x
<1>2. TypeOK'
  BY <1>0, <1>1 DEF TypeOK, IndInv, Labels, Flag
<1>3. Others(p)
  BY <1>0 DEF Others, IndInv, TypeOK
<1>4. Held(p)' = Held(p)
  BY <1>0 DEF Held, IndInv, TypeOK
<1>5. /\ cpu \in {None, p} /\ wchan[p] = None /\ wchan' = wchan
      /\ free # <<>> /\ "ASYNC" \in fl /\ "BUSY" \in fl /\ {"DONE", "DELWRI"} \cap fl = {}
      /\ "WANTED" \in flags[x] => "WANTED" \in fl
  BY <1>0 DEF ToSet
<1>6. \A y \in Held(p) : y # x /\ flags'[y] = flags[y] /\ y \in Buf
  BY <1>0, <1>1, HeldFacts DEF IndInv, TypeOK
<1>7. ToSet(ioq') = ToSet(ioq) \cup {x}
  BY <1>0, AppendFacts DEF IndInv, TypeOK
<1> HIDE DEF fl, BflushWrite
<1>8. SharedOK' /\ \A q \in Proc \ {p} : ProcOK(q)'
  BY <1>0, <1>1, <1>2, <1>3, <1>4, <1>5, EnqueueShared
<1>9. ProcOK(p)'
  <2>1. HeldOK(p)'
    BY <1>0, <1>4, <1>6, HeldFacts DEF IndInv, ProcOK, HeldOK, CurOK, Usable, TypeOK
  <2>2. KeepOK(p)'
    <3>1. pc[p] = "bflush" /\ keep[p] = None /\ ret[p] = "caller"
      BY <1>0 DEF IndInv, ProcOK, KeepOK, PathOK
    <3>2. QED BY <1>0, <3>1 DEF KeepOK
  <2>3. CurOK(p)'
    <3>1. pc'[p] = "age" /\ task'[p].op = "bflush" /\ cur'[p] = x
      BY <1>0 DEF IndInv, ProcOK, PathOK, TypeOK
    <3>2. QED BY <1>0, <3>1 DEF CurOK
  <2>4. PathOK(p)' /\ SleepOK(p)'
    <3>1. /\ pc[p] = "bflush" /\ pc'[p] = "age" /\ ret' = ret /\ task' = task
          /\ wchan'[p] = None
      BY <1>0, <1>5 DEF IndInv, TypeOK
    <3>2. QED BY <3>1 DEF IndInv, ProcOK, PathOK, SleepOK
  <2>5. QED BY <2>1, <2>2, <2>3, <2>4 DEF ProcOK
<1>10. QED BY <1>2, <1>8, <1>9 DEF IndInv


(* bread and breada start to read the block, unless the buffer has it. *)
LEMMA ReadBlockInv ==
  ASSUME IndInv, NEW p \in Proc, ReadBlock(p)
  PROVE  IndInv'
<1> USE CacheAssumption DEF At, Goto
<1> DEFINE x == cur[p]
           fl == flags[x] \cup {"READ"}
<1>0. /\ x \in Held(p) /\ x \in Buf /\ x # keep[p] /\ x \notin ToSet(ioq) /\ x \notin ToSet(free)
      /\ "BUSY" \in flags[x] /\ "ASYNC" \notin flags[x] /\ Usable(x)
      /\ pc[p] = "got" /\ ret[p] \in {"bread", "breada"} /\ keep[p] = None
      /\ wchan[p] = None /\ cpu \in {None, p}
  <2>1. pc[p] = "got" /\ ret[p] \in {"bread", "breada"}
    BY DEF ReadBlock
  <2>2. keep[p] = None
    BY <2>1 DEF IndInv, ProcOK, KeepOK
  <2>3. x \in Held(p)
    BY <2>1 DEF Held
  <2>4. x \in Buf /\ x # keep[p] /\ x \notin ToSet(ioq)
    BY <2>1 DEF IndInv, ProcOK, CurOK
  <2>5. "BUSY" \in flags[x] /\ "ASYNC" \notin flags[x] /\ Usable(x)
    BY <2>1, <2>3 DEF IndInv, ProcOK, HeldOK
  <2>6. x \notin ToSet(free)
    BY <2>4, <2>5 DEF IndInv, SharedOK, FreeIffNotBusy
  <2>7. QED BY <2>1, <2>2, <2>3, <2>4, <2>5, <2>6 DEF ReadBlock
<1>1. /\ pc' = [pc EXCEPT ![p] = IF ret[p] = "breada" THEN "readahead"
                                ELSE IF "DONE" \in flags[x] THEN "hold"
                                                            ELSE "iowait"]
      /\ cpu' = p
      /\ keep' = IF ret[p] = "breada" THEN [keep EXCEPT ![p] = x] ELSE keep
      /\ UNCHANGED <<blk, data, free, freeWanted, disk, errs, task, want, ret, cur, wchan>>
  BY <1>0 DEF ReadBlock
<1>2. /\ ioq' \in Seq(Buf) /\ ToSet(ioq) \subseteq ToSet(ioq')
      /\ flags' \in [Buf -> SUBSET Flag] /\ "ASYNC" \notin flags'[x] /\ "BUSY" \in flags'[x]
      /\ "DONE" \in flags'[x] \/ x \in ToSet(ioq')
      /\ "DONE" \in flags[x] => UNCHANGED <<flags, ioq>>
      /\ "DONE" \notin flags[x] => Strategy(x, fl) /\ blk[x] # None
  <2>1. CASE "DONE" \in flags[x]
    BY <1>0, <2>1 DEF ReadBlock, IndInv, TypeOK
  <2>2. CASE "DONE" \notin flags[x]
    <3>1. Strategy(x, fl) /\ blk[x] # None
      BY <1>0, <2>2 DEF ReadBlock, Usable
    <3>2. ioq' \in Seq(Buf) /\ ToSet(ioq') = ToSet(ioq) \cup {x}
      BY <1>0, <3>1, AppendFacts DEF Strategy, IndInv, TypeOK
    <3>3. flags' = [flags EXCEPT ![x] = fl] /\ fl \subseteq Flag
      BY <1>0, <3>1 DEF Strategy, IndInv, TypeOK, Flag
    <3>4. QED BY <1>0, <2>2, <3>1, <3>2, <3>3 DEF IndInv, TypeOK
  <2>3. QED BY <2>1, <2>2
<1>3. TypeOK'
  BY <1>0, <1>1, <1>2 DEF TypeOK, IndInv, Labels
<1>4. Others(p)
  BY <1>1 DEF Others, IndInv, TypeOK
<1>5. Held(p)' = {x} /\ Held(p) = {x}
  BY <1>0, <1>1 DEF Held, IndInv, TypeOK
<1>6. SharedOK' /\ \A q \in Proc \ {p} : ProcOK(q)'
  <2>1. CASE "DONE" \in flags[x]
    <3>1. /\ flags' = flags /\ ioq' = ioq
          /\ \A y \in Buf : SameFlags(y)
      BY <1>2, <2>1 DEF SameFlags
    <3>2. WakeupDue(p)'
      BY <1>0, <1>1 DEF WakeupDue
    <3>3. SharedOK'
      BY <1>0, <1>1, <1>3, <1>4, <1>5, <3>1, <3>2, MarkShared
    <3>4. \A q \in Proc \ {p} : ProcOK(q)'
      BY <1>0, <1>1, <1>4, <3>1, HeldFacts, OthersProcOK
    <3>5. QED BY <3>3, <3>4
  <2>2. CASE "DONE" \notin flags[x]
    <3>1. ToSet(free) = ToSet(free) \ {x} /\ IsInjective(free)
      BY <1>0 DEF IndInv, SharedOK, FreeIffNotBusy
    <3>2. Strategy(x, fl) /\ blk[x] # None
      BY <1>2, <2>2
    <3>3. "DELWRI" \notin flags[x]
      BY <1>0, <2>2 DEF IndInv, SharedOK, FlagsOK
    <3>4. "BUSY" \in fl /\ {"DONE", "DELWRI"} \cap fl = {} /\ "ASYNC" \notin fl
          /\ ("WANTED" \in flags[x] => "WANTED" \in fl)
      BY <1>0, <2>2, <3>3
    <3> HIDE DEF x, fl
    <3>5. QED
      BY <1>0, <1>1, <1>3, <1>4, <1>5, <3>1, <3>2, <3>4, EnqueueShared
  <2>3. QED BY <2>1, <2>2
<1>7. ProcOK(p)'
  <2>1. /\ cur'[p] = x /\ task' = task /\ ret' = ret /\ wchan'[p] = None
        /\ \/ pc'[p] = "readahead" /\ keep'[p] = x /\ ret[p] = "breada"
           \/ /\ pc'[p] = "hold" /\ keep'[p] = None /\ ret[p] = "bread"
              /\ ioq' = ioq
           \/ pc'[p] = "iowait" /\ keep'[p] = None /\ ret[p] = "bread"
    <3>1. cur'[p] = x /\ task' = task /\ ret' = ret /\ wchan'[p] = None
      BY <1>0, <1>1 DEF IndInv, TypeOK
    <3>2. /\ ret[p] = "breada" => pc'[p] = "readahead" /\ keep'[p] = x
          /\ ret[p] = "bread" /\ "DONE" \in flags[x] =>
               pc'[p] = "hold" /\ keep'[p] = None /\ ioq' = ioq
          /\ ret[p] = "bread" /\ "DONE" \notin flags[x] =>
               pc'[p] = "iowait" /\ keep'[p] = None
      BY <1>0, <1>1, <1>2 DEF IndInv, TypeOK
    <3>3. QED BY <1>0, <3>1, <3>2
  <2>2. HeldOK(p)'
    <3>1. blk'[x] # None \/ {"DONE", "ERROR"} \subseteq flags'[x]
      BY <1>0, <1>1, <1>2 DEF Usable
    <3>2. \A y \in Held(p)' : y = x
      BY <1>5
    <3>3. QED BY <1>0, <1>2, <3>1, <3>2 DEF HeldOK, Usable
  <2>3. KeepOK(p)' /\ PathOK(p)'
    <3>1. ret[p] = "breada" => task[p].op = "breada"
      BY DEF IndInv, ProcOK, PathOK
    <3>2. QED BY <1>0, <1>2, <2>1, <3>1 DEF KeepOK, PathOK
  <2>4. CurOK(p)' /\ SleepOK(p)'
    BY <1>0, <1>2, <2>1 DEF CurOK, SleepOK
  <2>5. QED BY <2>2, <2>3, <2>4 DEF ProcOK
<1>8. QED BY <1>3, <1>6, <1>7 DEF IndInv

(* breada starts to read ahead, or gives back what has been read already. *)
LEMMA ReadaheadGotInv ==
  ASSUME IndInv, NEW p \in Proc, ReadaheadGot(p)
  PROVE  IndInv'
<1> USE CacheAssumption DEF At, Goto, local
<1> DEFINE x == cur[p]
           fl == flags[x] \cup {"READ", "ASYNC"}
<1>0. /\ x \in Held(p) /\ x \in Buf /\ x # keep[p] /\ x \notin ToSet(ioq) /\ x \notin ToSet(free)
      /\ "BUSY" \in flags[x] /\ "ASYNC" \notin flags[x] /\ Usable(x)
      /\ pc[p] = "got" /\ ret[p] = "readahead" /\ flags[x] \subseteq Flag
      /\ wchan[p] = None /\ cpu \in {None, p}
  <2>1. pc[p] = "got" /\ ret[p] = "readahead"
    BY DEF ReadaheadGot
  <2>2. x \in Held(p)
    BY <2>1 DEF Held
  <2>3. x \in Buf /\ x # keep[p] /\ x \notin ToSet(ioq)
    BY <2>1 DEF IndInv, ProcOK, CurOK
  <2>4. "BUSY" \in flags[x] /\ "ASYNC" \notin flags[x] /\ Usable(x)
    BY <2>1, <2>2 DEF IndInv, ProcOK, HeldOK
  <2>5. x \notin ToSet(free) /\ flags[x] \subseteq Flag
    BY <2>3, <2>4 DEF IndInv, TypeOK, SharedOK, FreeIffNotBusy
  <2>6. QED BY <2>1, <2>2, <2>3, <2>4, <2>5 DEF ReadaheadGot
<1>1. /\ pc' = [pc EXCEPT ![p] = "finish"] /\ cpu' = p
      /\ UNCHANGED <<data, disk, errs, task, want, ret, cur, keep>>
  BY DEF ReadaheadGot
<1>2. Others(p) /\ TypeOK' /\ wchan'[p] = None
      /\ \A y \in Buf \ {x} : flags'[y] = flags[y] /\ blk'[y] = blk[y]
  <2>1. CASE "DONE" \in flags[x]
    <3>1. Brelse(x, flags[x]) /\ ioq' = ioq
      BY <2>1 DEF ReadaheadGot
    <3>2. QED
      BY <1>0, <1>1, <3>1, BrelseFacts DEF Others, TypeOK, IndInv, Labels
  <2>2. CASE "DONE" \notin flags[x]
    <3>1. Strategy(x, fl) /\ UNCHANGED <<blk, free, freeWanted, wchan>>
      BY <2>2 DEF ReadaheadGot
    <3>2. ioq' \in Seq(Buf) /\ flags' = [flags EXCEPT ![x] = fl] /\ fl \subseteq Flag
      BY <1>0, <3>1, AppendFacts DEF Strategy, IndInv, TypeOK, Flag
    <3>3. QED
      BY <1>0, <1>1, <3>1, <3>2 DEF Others, TypeOK, IndInv, Labels
  <2>3. QED BY <2>1, <2>2
<1>3. Held(p)' = Held(p) \ {x} /\ Held(p)' = IF keep[p] # None THEN {keep[p]} ELSE {}
  BY <1>0, <1>1 DEF Held, IndInv, TypeOK
<1>4. ToSet(ioq') = ToSet(ioq) \/ ToSet(ioq') = ToSet(ioq) \cup {x}
  <2>1. ioq' = ioq \/ ioq' = Append(ioq, x)
    BY DEF ReadaheadGot, Strategy
  <2>2. ToSet(Append(ioq, x)) = ToSet(ioq) \cup {x}
    BY <1>0, AppendFacts DEF IndInv, TypeOK
  <2>3. QED BY <2>1, <2>2
<1>5. SharedOK' /\ \A q \in Proc \ {p} : ProcOK(q)'
  <2>1. CASE "DONE" \in flags[x]
    <3>1. Brelse(x, flags[x]) /\ ioq' = ioq
      BY <2>1 DEF ReadaheadGot
    <3>2. "DELWRI" \in flags[x] => blk[x] # None /\ "DONE" \in flags[x] /\ "ERROR" \notin flags[x]
      BY <1>0 DEF IndInv, SharedOK, FlagsOK
    <3> HIDE DEF x
    <3>3. QED BY <1>0, <1>2, <1>3, <3>1, <3>2, ReleaseShared
  <2>2. CASE "DONE" \notin flags[x]
    <3>1. Strategy(x, fl) /\ UNCHANGED <<blk, free, freeWanted, wchan>> /\ blk[x] # None
      BY <1>0, <2>2 DEF ReadaheadGot, Usable
    <3>2. ToSet(free) = ToSet(free) \ {x} /\ IsInjective(free)
      BY <1>0 DEF IndInv, SharedOK, FreeIffNotBusy
    <3>3. "DELWRI" \notin flags[x]
      BY <1>0, <2>2 DEF IndInv, SharedOK, FlagsOK
    <3>4. "BUSY" \in fl /\ {"DONE", "DELWRI"} \cap fl = {} /\ "ASYNC" \in fl
          /\ ("WANTED" \in flags[x] => "WANTED" \in fl)
      BY <1>0, <2>2, <3>3
    <3> HIDE DEF x, fl
    <3>5. QED BY <1>0, <1>2, <1>3, <3>1, <3>2, <3>4, EnqueueShared
  <2>3. QED BY <2>1, <2>2
<1>6. ProcOK(p)'
  <2>1. /\ pc'[p] = "finish" /\ task'[p].op = "breada" /\ ret'[p] = "readahead"
        /\ keep'[p] = keep[p] /\ task[p].op = "breada"
    BY <1>0, <1>1 DEF IndInv, TypeOK, ProcOK, PathOK
  <2>2. keep[p] # None => /\ keep[p] \in Held(p) /\ keep[p] \in Buf
                          /\ flags'[keep[p]] = flags[keep[p]] /\ blk'[keep[p]] = blk[keep[p]]
                          /\ keep[p] \in ToSet(ioq') <=> keep[p] \in ToSet(ioq)
    BY <1>0, <1>2, <1>4, HeldFacts
  <2>3. HeldOK(p)'
    <3>1. \A y \in Held(p) : "BUSY" \in flags[y] /\ "ASYNC" \notin flags[y] /\ Usable(y)
      BY <1>0 DEF IndInv, ProcOK, HeldOK
    <3>2. QED BY <1>3, <2>2, <3>1 DEF HeldOK, Usable
  <2>4. KeepOK(p)'
    BY <1>0, <2>1, <2>2 DEF IndInv, ProcOK, KeepOK
  <2>5. CurOK(p)' /\ PathOK(p)' /\ SleepOK(p)'
    BY <1>2, <2>1 DEF CurOK, PathOK, SleepOK
  <2>6. QED BY <2>3, <2>4, <2>5 DEF ProcOK
<1>7. QED BY <1>2, <1>5, <1>6 DEF IndInv

---------------------------------------------------------------------------
(* The interrupt.  Whoever holds the finished buffer, or is about to take  *)
(* it, finds it done.                                                      *)
LEMMA FinishedProcOK ==
  ASSUME IndInv, NEW q \in Proc, NEW x \in ToSet(ioq), x \in Buf,
         UNCHANGED <<local, pc, cpu>>, wchan'[q] \in {wchan[q], None},
         \A y \in Buf \ {x} : flags'[y] = flags[y] /\ blk'[y] = blk[y],
         ToSet(ioq') = ToSet(ioq) \ {x},
         "DONE" \in flags'[x],
         blk'[x] = blk[x] \/ "ERROR" \in flags'[x],
         x \in Held(q) =>
           "BUSY" \in flags'[x] /\ "ASYNC" \notin flags'[x] /\ blk'[x] = blk[x]
  PROVE  ProcOK(q)' /\ Held(q)' = Held(q)
<1> USE CacheAssumption DEF local
<1>1. Held(q)' = Held(q)
  BY DEF Held
<1>2. blk[x] # None
  BY DEF IndInv, SharedOK, QueueOK
<1>3. \A y \in Buf : Usable(y) => Usable(y)'
  BY <1>2 DEF Usable
<1>4. HeldOK(q)'
  BY <1>1, <1>3 DEF IndInv, ProcOK, HeldOK
<1>5. KeepOK(q)'
  BY HeldFacts DEF IndInv, ProcOK, KeepOK
<1>6. CurOK(q)'
  <2>1. CurOK(q)
    BY DEF IndInv, ProcOK
  <2>2. QED BY <1>3, <2>1 DEF CurOK
<1>7. PathOK(q)' /\ SleepOK(q)'
  BY DEF IndInv, ProcOK, PathOK, SleepOK
<1>8. QED BY <1>1, <1>4, <1>5, <1>6, <1>7 DEF ProcOK

(* iodone of the first request of the queue.                               *)
LEMMA IodoneInv ==
  ASSUME IndInv, ioq # <<>>, ioq' = Tail(ioq),
         NEW fl \in {flags[Head(ioq)], flags[Head(ioq)] \cup {"ERROR"}},
         Iodone(Head(ioq), fl),
         data' \in [Buf -> Data], disk' \in [Blk -> Data], errs' \in 0 .. MaxErrors,
         UNCHANGED <<local, pc, cpu>>
  PROVE  IndInv'
<1> USE CacheAssumption
<1> DEFINE x == Head(ioq)
<1>0. /\ x \in Buf /\ x \in ToSet(ioq) /\ ioq' \in Seq(Buf) /\ IsInjective(ioq')
      /\ ToSet(ioq') = ToSet(ioq) \ {x} /\ ToSet(ioq) \subseteq Buf
  <2>1. ToSet(ioq) \subseteq Buf
    BY DEF ToSet, IndInv, TypeOK
  <2>2. QED BY <2>1, TailFacts DEF IndInv, TypeOK, SharedOK, QueueOK
<1>1. /\ blk[x] # None /\ "BUSY" \in flags[x] /\ "DONE" \notin flags[x]
      /\ "DELWRI" \notin flags[x] /\ x \notin ToSet(free)
      /\ "ASYNC" \in flags[x] \/ \E p \in Proc : x \in Held(p)
      /\ "ASYNC" \in flags[x] => \A q \in Proc : x \notin Held(q)
  BY <1>0, HeldFacts DEF IndInv, SharedOK, QueueOK, FlagsOK, FreeIffNotBusy
<1>2. fl \subseteq Flag /\ ("ASYNC" \in fl <=> "ASYNC" \in flags[x])
      /\ ("WANTED" \in fl <=> "WANTED" \in flags[x]) /\ "BUSY" \in fl /\ "DELWRI" \notin fl
  BY <1>0, <1>1 DEF IndInv, TypeOK, Flag
<1>3. /\ "ASYNC" \in fl => Brelse(x, fl \cup {"DONE"})
      /\ "ASYNC" \notin fl => /\ flags' = [flags EXCEPT ![x] = (fl \cup {"DONE"}) \ {"WANTED"}]
                              /\ wchan' = [q \in Proc |-> IF wchan[q] \in {x} THEN None ELSE wchan[q]]
                              /\ UNCHANGED <<blk, free, freeWanted>>
  BY DEF Iodone, Wakeup
<1> HIDE DEF x
<1>4. /\ flags' \in [Buf -> SUBSET Flag] /\ blk' \in [Buf -> Blk \cup {None}]
      /\ free' \in Seq(Buf) /\ freeWanted' \in BOOLEAN
      /\ wchan' \in [Proc -> Buf \cup {FreeList, None}]
      /\ \A q \in Proc : wchan'[q] \in {wchan[q], None}
      /\ \A y \in Buf \ {x} : flags'[y] = flags[y] /\ blk'[y] = blk[y]
  <2>1. CASE "ASYNC" \in fl
    <3>1. Brelse(x, fl \cup {"DONE"}) /\ fl \cup {"DONE"} \in SUBSET Flag
      BY <1>2, <1>3, <2>1 DEF Flag
    <3>2. QED BY <1>0, <3>1, BrelseFacts
  <2>2. CASE "ASYNC" \notin fl
    <3> DEFINE g == (fl \cup {"DONE"}) \ {"WANTED"}
    <3>1. flags' = [flags EXCEPT ![x] = g] /\ g \in SUBSET Flag
      BY <1>2, <1>3, <2>2 DEF Flag
    <3> HIDE DEF g
    <3>2. UNCHANGED <<blk, free, freeWanted>>
      BY <1>3, <2>2
    <3>3. /\ flags' \in [Buf -> SUBSET Flag]
          /\ \A y \in Buf \ {x} : flags'[y] = flags[y]
      BY <1>0, <3>1 DEF IndInv, TypeOK
    <3>4. /\ wchan' \in [Proc -> Buf \cup {FreeList, None}]
          /\ \A q \in Proc : wchan'[q] \in {wchan[q], None}
      BY <1>3, <2>2 DEF IndInv, TypeOK
    <3>5. QED BY <3>2, <3>3, <3>4 DEF IndInv, TypeOK
  <2>3. QED BY <2>1, <2>2
<1>5. /\ "DONE" \in flags'[x] /\ "DELWRI" \notin flags'[x] /\ "ASYNC" \notin flags'[x]
      /\ blk'[x] = blk[x] \/ (blk'[x] = None /\ "ERROR" \in flags'[x])
      /\ "BUSY" \in flags'[x] <=> "ASYNC" \notin flags[x]
      /\ "ASYNC" \notin flags[x] => blk'[x] = blk[x]
  <2>1. CASE "ASYNC" \in fl
    <3>1. /\ flags'[x] = (fl \cup {"DONE"}) \ {"WANTED", "BUSY", "ASYNC", "AGE"}
          /\ "ERROR" \in fl => blk'[x] = None
          /\ "ERROR" \notin fl => blk'[x] = blk[x]
      BY <1>0, <1>3, <2>1 DEF Brelse, IndInv, TypeOK
    <3>2. QED BY <1>2, <2>1, <3>1
  <2>2. CASE "ASYNC" \notin fl
    <3>1. flags'[x] = (fl \cup {"DONE"}) \ {"WANTED"} /\ blk' = blk
      BY <1>0, <1>3, <2>2 DEF IndInv, TypeOK
    <3>2. QED BY <1>2, <2>2, <3>1
  <2>3. QED BY <2>1, <2>2
<1>6. /\ IsInjective(free')
      /\ ToSet(free') = IF "ASYNC" \in flags[x] THEN ToSet(free) \cup {x} ELSE ToSet(free)
  <2>1. IsInjective(free) /\ free \in Seq(Buf)
    BY DEF IndInv, TypeOK, SharedOK, FreeIffNotBusy
  <2>2. CASE "ASYNC" \in fl
    <3>1. free' \in {Cons(x, free), Append(free, x)}
      BY <1>3, <2>2 DEF Brelse
    <3>2. IsInjective(free') /\ ToSet(free') = ToSet(free) \cup {x}
      <4>1. CASE free' = Cons(x, free)
        <5>1. x \notin ToSet(free)
          BY <1>1
        <5>2. IsInjective(Cons(x, free)) /\ ToSet(Cons(x, free)) = ToSet(free) \cup {x}
          BY <1>0, <2>1, <5>1, PrependFacts
        <5>3. QED BY <4>1, <5>2
      <4>2. CASE free' = Append(free, x)
        BY <1>0, <1>1, <2>1, <4>2, AppendFacts
      <4>3. QED BY <3>1, <4>1, <4>2
    <3>3. QED BY <1>2, <2>2, <3>2
  <2>3. CASE "ASYNC" \notin fl
    BY <1>2, <1>3, <2>1, <2>3
  <2>4. QED BY <2>2, <2>3
<1>7. TypeOK'
  BY <1>0, <1>4 DEF TypeOK, IndInv, local
<1>8. \A q \in Proc : ProcOK(q)' /\ Held(q)' = Held(q)
  <2> SUFFICES ASSUME NEW q \in Proc PROVE ProcOK(q)' /\ Held(q)' = Held(q)
    OBVIOUS
  <2>1. x \in Held(q) =>
           "BUSY" \in flags'[x] /\ "ASYNC" \notin flags'[x] /\ blk'[x] = blk[x]
    BY <1>1, <1>5
  <2>2. QED BY <1>0, <1>4, <1>5, <2>1, FinishedProcOK
<1>9. FreeIffNotBusy'
  BY <1>1, <1>4, <1>5, <1>6 DEF IndInv, SharedOK, FreeIffNotBusy
<1>10. OneBufferPerBlock'
  BY <1>0, <1>4, <1>5 DEF IndInv, TypeOK, SharedOK, OneBufferPerBlock
<1>11. BusyOwned'
  <2>1. \A q, r \in Proc : q # r => Held(q)' \cap Held(r)' = {}
    BY <1>8, HeldFacts
  <2>2. \A y \in Buf : "BUSY" \in flags'[y] <=>
                         \/ \E q \in Proc : y \in Held(q)'
                         \/ y \in ToSet(ioq') /\ "ASYNC" \in flags'[y]
    <3>1. ASSUME NEW y \in Buf \ {x}
          PROVE  "BUSY" \in flags'[y] <=>
                   \/ \E q \in Proc : y \in Held(q)'
                   \/ y \in ToSet(ioq') /\ "ASYNC" \in flags'[y]
      <4>1. flags'[y] = flags[y] /\ (y \in ToSet(ioq') <=> y \in ToSet(ioq))
        BY <1>0, <1>4
      <4>2. QED BY <1>8, <4>1 DEF IndInv, SharedOK, BusyOwned
    <3>2. "BUSY" \in flags'[x] <=> \E q \in Proc : x \in Held(q)'
      BY <1>1, <1>5, <1>8
    <3>3. QED BY <1>0, <3>1, <3>2
  <2>3. \A y \in ToSet(ioq'), q \in Proc :
          y \in Held(q)' => "ASYNC" \notin flags'[y] /\ "DONE" \notin flags'[y]
    BY <1>0, <1>4, <1>8, HeldFacts DEF IndInv, SharedOK, BusyOwned
  <2>4. QED BY <2>1, <2>2, <2>3 DEF BusyOwned
<1>12. NoLostWakeup'
  <2> SUFFICES ASSUME NEW q \in Proc, wchan'[q] # None PROVE WakeupDue(q)'
    BY DEF NoLostWakeup, WakeupDue
  <2>1. WakeupDue(q) /\ wchan'[q] = wchan[q] /\ pc' = pc /\ cur'[q] = cur[q]
    BY <1>4 DEF IndInv, SharedOK, NoLostWakeup, local
  <2>2. wchan[q] # x
    <3>1. CASE "ASYNC" \in fl
      <4>1. wchan[q] = x => pc[q] = "getblk"
        BY <1>0, <1>1, <1>2, <3>1, HeldFacts DEF IndInv, ProcOK, SleepOK
      <4>2. wchan[q] = x => "WANTED" \in fl
        BY <1>0, <1>2, <2>1, <4>1 DEF WakeupDue
      <4>3. QED BY <1>0, <1>3, <2>1, <3>1, <4>2 DEF Brelse, Wakeup, IndInv, TypeOK
    <3>2. CASE "ASYNC" \notin fl
      BY <1>3, <2>1, <3>2 DEF IndInv, TypeOK
    <3>3. QED BY <3>1, <3>2
  <2>3. wchan[q] = FreeList => free' = free /\ freeWanted' = freeWanted
    <3>1. CASE "ASYNC" \in fl
      <4>1. wchan[q] = FreeList => freeWanted
        BY <2>1 DEF WakeupDue
      <4>2. wchan[q] = FreeList => wchan'[q] = None
        BY <1>3, <3>1, <4>1 DEF Brelse, Wakeup
      <4>3. QED BY <2>1, <4>2
    <3>2. CASE "ASYNC" \notin fl
      BY <1>3, <3>2
    <3>3. QED BY <3>1, <3>2
  <2>4. QED BY <1>0, <1>4, <2>1, <2>2, <2>3 DEF WakeupDue
<1>13. FlagsOK'
  BY <1>4, <1>5 DEF IndInv, SharedOK, FlagsOK
<1>14. QueueOK'
  <2>1. \A y \in ToSet(ioq') : /\ y \in ToSet(ioq) /\ flags'[y] = flags[y] /\ blk'[y] = blk[y]
    BY <1>0, <1>4
  <2>2. QED BY <1>0, <1>8, <2>1 DEF IndInv, SharedOK, QueueOK
<1>15. QED
  BY <1>7, <1>8, <1>9, <1>10, <1>11, <1>12, <1>13, <1>14 DEF IndInv, SharedOK

(* A request is completed.                                                 *)
LEMMA IntrInv ==
  ASSUME IndInv, Intr
  PROVE  IndInv'
<1>1. Head(ioq) \in Buf /\ blk[Head(ioq)] \in Blk
  BY TailFacts DEF Intr, IndInv, TypeOK, SharedOK, QueueOK
<1>2. data' \in [Buf -> Data] /\ disk' \in [Blk -> Data] /\ errs' \in 0 .. MaxErrors
  BY <1>1 DEF Intr, IndInv, TypeOK
<1>3. QED BY <1>2, IodoneInv DEF Intr

(* A request fails.                                                        *)
LEMMA IntrErrorInv ==
  ASSUME IndInv, IntrError
  PROVE  IndInv'
<1>1. Head(ioq) \in Buf /\ blk[Head(ioq)] \in Blk
  BY TailFacts DEF IntrError, IndInv, TypeOK, SharedOK, QueueOK
<1>2. data' \in [Buf -> Data] /\ disk' \in [Blk -> Data]
  BY <1>1 DEF IntrError, Modify, IndInv, TypeOK
<1>3. errs' \in 0 .. MaxErrors
  BY CacheAssumption DEF IntrError, IndInv, TypeOK
<1>4. QED BY <1>2, <1>3, IodoneInv DEF IntrError

(* binit: every buffer is on the available list.                           *)
LEMMA InitInv == Init => IndInv
<1> SUFFICES ASSUME Init PROVE IndInv
  OBVIOUS
<1> USE CacheAssumption
<1>1. Cardinality(Buf) \in Nat /\ free \in Seq(Buf) /\ ioq = <<>> /\ ToSet(ioq) = {}
  <2>1. Cardinality(Buf) \in Nat
    BY FS_CardinalityType
  <2>2. free \in Seq(Buf)
    BY <2>1, IsASeq DEF Init
  <2>3. ioq = <<>> /\ ToSet(ioq) = {}
    BY DEF Init, ToSet
  <2>4. QED BY <2>1, <2>2, <2>3
<1>2. TypeOK
  <2>1. /\ blk \in [Buf -> Blk \cup {None}] /\ flags \in [Buf -> SUBSET Flag]
        /\ freeWanted \in BOOLEAN
    BY DEF Init
  <2>6. errs \in 0 .. MaxErrors
    BY DEF Init
  <2>2. /\ pc \in [Proc -> Labels] /\ ret \in [Proc -> Returns]
        /\ task \in [Proc -> Tasks \cup {NoTask}]
    BY DEF Init, Labels, Returns
  <2>3. /\ want \in [Proc -> Blk \cup {None}] /\ cur \in [Proc -> Buf \cup {None}]
        /\ keep \in [Proc -> Buf \cup {None}]
        /\ wchan \in [Proc -> Buf \cup {FreeList, None}] /\ cpu \in Proc \cup {None}
    BY DEF Init
  <2>4. ioq \in Seq(Buf)
    BY <1>1
  <2>5. QED BY <1>1, <2>1, <2>2, <2>3, <2>4, <2>6 DEF Init, TypeOK
<1>3. \A p \in Proc : /\ pc[p] = "idle" /\ keep[p] = None /\ wchan[p] = None
                      /\ ret[p] = "caller" /\ Held(p) = {}
  BY DEF Init, Held
<1>4. \A p \in Proc : ProcOK(p)
  BY <1>3 DEF ProcOK, HeldOK, KeepOK, CurOK, PathOK, SleepOK
<1>5. FreeIffNotBusy /\ OneBufferPerBlock /\ FlagsOK
  BY DEF Init, FreeIffNotBusy, OneBufferPerBlock, FlagsOK
<1>6. BusyOwned /\ NoLostWakeup
  BY <1>1, <1>3 DEF Init, BusyOwned, NoLostWakeup, WakeupDue
<1>7. QueueOK
  BY <1>1 DEF QueueOK, IsInjective
<1>8. QED BY <1>2, <1>4, <1>5, <1>6, <1>7 DEF IndInv, SharedOK

LEMMA StutterInv == IndInv /\ UNCHANGED vars => IndInv'
<1> SUFFICES ASSUME IndInv, UNCHANGED vars PROVE IndInv'
  OBVIOUS
<1> USE DEF vars, cache, local
<1>1. TypeOK'
  BY DEF IndInv, TypeOK
<1>2. \A q \in Proc : Held(q)' = Held(q)
  BY DEF Held
<1>3. SharedOK'
  BY <1>2 DEF IndInv, SharedOK, FreeIffNotBusy, OneBufferPerBlock, BusyOwned,
              NoLostWakeup, WakeupDue, FlagsOK, QueueOK
<1>4. \A q \in Proc : ProcOK(q)'
  BY <1>2 DEF IndInv, ProcOK, HeldOK, KeepOK, CurOK, PathOK, SleepOK, Usable
<1>5. QED BY <1>1, <1>3, <1>4 DEF IndInv

(* Every step of the cache preserves the inductive invariant.              *)
LEMMA NextInv == IndInv /\ [Next]_vars => IndInv'
<1> SUFFICES ASSUME IndInv, [Next]_vars PROVE IndInv'
  OBVIOUS
<1>1. ASSUME NEW p \in Proc, Start(p) \/ Step(p) PROVE IndInv'
  BY <1>1, StartInv, GetblkScanInv, GetblkBusyInv, GetblkTakeInv, GetblkEmptyInv,
     GetblkFlushInv, GetblkReassignInv, SetAgeInv, ReadBlockInv, ReadaheadInv,
     ReadaheadGotInv, BreadaFinishInv, IowaitSleepInv, IowaitDoneInv,
     HoldBrelseInv, HoldBdwriteInv, HoldBawriteInv, HoldBwriteInv,
     BwriteReleaseInv, BmapAllocInv, BmapFillInv, BmapLinkInv,
     BflushWriteInv, BflushReturnInv
  DEF Step
<1>2. CASE Intr
  BY <1>2, IntrInv
<1>3. CASE IntrError
  BY <1>3, IntrErrorInv
<1>4. CASE UNCHANGED vars
  BY <1>4, StutterInv
<1>5. QED BY <1>1, <1>2, <1>3, <1>4 DEF Next

(* The inductive invariant holds of every behaviour of the cache.          *)
THEOREM Invariance == Spec => []IndInv
BY InitInv, NextInv, PTL DEF Spec

---------------------------------------------------------------------------
(* Every variable keeps to its type.                                       *)
THEOREM TypeCorrect == Spec => []TypeOK
<1>1. IndInv => TypeOK
  BY DEF IndInv
<1>2. QED BY <1>1, Invariance, PTL

(* getblk never lets two buffers stand for one block, although it sleeps   *)
(* and is interrupted between its search and the assignment.               *)
THEOREM SingleBuffer == Spec => []OneBufferPerBlock
<1>1. IndInv => OneBufferPerBlock
  BY DEF IndInv, SharedOK
<1>2. QED BY <1>1, Invariance, PTL

(* A buffer that is not busy is on the available list once (buf.h:17-19),  *)
(* a busy one belongs to one process or to an asynchronous request; no     *)
(* path through the cache loses it.                                        *)
THEOREM Ownership == Spec => []BuffersOnce
<1>1. IndInv => BuffersOnce
  BY DEF IndInv, SharedOK, BuffersOnce
<1>2. QED BY <1>1, Invariance, PTL

(* Whoever sleeps in getblk or iowait is due a wakeup from the holder of   *)
(* the buffer, from the next brelse or from the driver.                    *)
THEOREM WakeupsDue == Spec => []NoLostWakeup
<1>1. IndInv => NoLostWakeup
  BY DEF IndInv, SharedOK
<1>2. QED BY <1>1, Invariance, PTL

-----------------------------------------------------------------------------
(***************************************************************************)
(* What the buffers contain: a clean buffer is as its block, bwrite        *)
(* returns when the block is written, and the cache implements BlockStore, *)
(* one register per block, as long as the disk does not fail.              *)
(***************************************************************************)
Contents == {"READ", "DONE", "DELWRI", "ERROR"}

(* What a step can do to one buffer and to the device, as far as contents  *)
(* go: nothing; give it to another block; start to read it; store d in it, *)
(* to be written later or now.                                             *)
SameBuf(y) ==
  /\ blk'[y] = blk[y] /\ data'[y] = data[y]
  /\ y \in ToSet(ioq') <=> y \in ToSet(ioq)
  /\ \A f \in Contents : f \in flags'[y] <=> f \in flags[y]

Device == disk' = disk /\ errs' = errs

Only(x) == Device /\ x \in Buf /\ \A y \in Buf \ {x} : SameBuf(y)

Reassigned(x, b) ==
  /\ Only(x) /\ x \in ToSet(free) /\ "DELWRI" \notin flags[x]
  /\ flags'[x] = {"BUSY"} /\ blk'[x] = b /\ (b = None \/ ~ incore(b))
  /\ x \notin ToSet(ioq) /\ x \notin ToSet(ioq') /\ data'[x] = data[x]

ReadStarted(x) ==
  /\ Only(x) /\ blk'[x] = blk[x] /\ data'[x] = data[x]
  /\ x \notin ToSet(ioq)
  /\ "READ" \in flags'[x] /\ "DONE" \notin flags[x] /\ "DONE" \notin flags'[x]
  /\ "ERROR" \in flags'[x] <=> "ERROR" \in flags[x]

Stored(x, d) ==
  /\ Only(x) /\ blk'[x] = blk[x] /\ blk[x] # None /\ data'[x] = d
  /\ \/ /\ {"DONE", "DELWRI"} \subseteq flags'[x]
        /\ "ERROR" \in flags'[x] <=> "ERROR" \in flags[x]
     \/ x \in ToSet(ioq') /\ {"READ", "DONE", "ERROR"} \cap flags'[x] = {}

(* Each of them leaves clean buffers as their blocks.                      *)
LEMMA CleanKept ==
  ASSUME DataInv, NEW x,
         \/ Only(x) /\ SameBuf(x)
         \/ \E b \in Blk \cup {None} : Reassigned(x, b)
         \/ ReadStarted(x)
         \/ \E d \in Data : Stored(x, d)
         \/ Only(x) /\ "ERROR" \in flags[x]
  PROVE  CleanOK'
<1> SUFFICES ASSUME errs = 0, NEW y \in Buf
             PROVE  /\ "ERROR" \notin flags'[y]
                    /\ blk'[y] # None /\ "DONE" \in flags'[y] /\ "DELWRI" \notin flags'[y]
                         => data'[y] = disk'[blk'[y]]
  BY DEF CleanOK, Only, Device, Reassigned, ReadStarted, Stored
<1>1. /\ "ERROR" \notin flags[y] /\ "ERROR" \notin flags[x] /\ disk' = disk
      /\ blk[y] # None /\ "DONE" \in flags[y] /\ "DELWRI" \notin flags[y]
           => data[y] = disk[blk[y]]
  BY DEF DataInv, CleanOK, Only, Device, Reassigned, ReadStarted, Stored
<1>2. CASE y # x
  BY <1>1, <1>2 DEF Only, Reassigned, ReadStarted, Stored, SameBuf, Contents
<1>3. CASE y = x
  BY <1>1, <1>3 DEF Only, Reassigned, ReadStarted, Stored, SameBuf, Contents
<1>4. QED BY <1>2, <1>3

(* The contents of what other processes hold are theirs.                   *)
Apart(p) == \A q \in Proc \ {p} : \A y \in Held(q) : SameBuf(y)

(* A step that touches an available buffer, or its own, leaves them alone.  *)
LEMMA ApartFacts ==
  ASSUME IndInv, NEW p \in Proc, NEW x, Only(x),
         x \in ToSet(free) \/ x \in Held(p) \/ SameBuf(x)
  PROVE  Apart(p)
BY HeldFacts DEF Apart, Only

(* What DataInv says of the other processes survives such a step.           *)
LEMMA OthersData ==
  ASSUME DataInv, NEW p \in Proc, NEW q \in Proc \ {p}, Others(p), Apart(p),
         Device, cpu \in {None, p}
  PROVE  WriteOK(q)' /\ (errs' = 0 => TargetOK(q)')
<1>1. pc[q] # "found"
  BY CacheAssumption DEF DataInv, IndInv, ProcOK, CurOK
<1>2. /\ pc'[q] = pc[q] /\ task'[q] = task[q] /\ want'[q] = want[q]
      /\ ret'[q] = ret[q] /\ cur'[q] = cur[q] /\ keep'[q] = keep[q]
  BY DEF Others
<1>3. /\ keep[q] # None => SameBuf(keep[q])
      /\ pc[q] \in {"got", "hold", "iowait", "fill", "link", "release"} =>
           SameBuf(cur[q])
  BY HeldFacts DEF DataInv, Apart
<1>4. WriteOK(q)'
  BY <1>2, <1>3 DEF DataInv, WriteOK, SameBuf, Contents, Device
<1>5. ASSUME errs' = 0 PROVE TargetOK(q)'
  <2>1. TargetOK(q)
    BY <1>5 DEF DataInv, Device
  <2>2. Sought(q)' = Sought(q)
    BY <1>2 DEF Sought
  <2>3. QED BY <1>1, <1>2, <1>3, <2>1, <2>2 DEF TargetOK, SameBuf
<1>6. QED BY <1>4, <1>5

(* It remains to show what concerns the process itself.                     *)
LEMMA DataStep ==
  ASSUME DataInv, IndInv', NEW p \in Proc, Others(p), Apart(p), Device,
         cpu \in {None, p}, CleanOK', WriteOK(p)', errs = 0 => TargetOK(p)'
  PROVE  DataInv'
BY OthersData DEF DataInv, Device

---------------------------------------------------------------------------
(* The value of a block, now and after a step.                             *)
LEMMA ValueNow ==
  ASSUME OneBufferPerBlock, NEW b \in Blk, None \notin Blk
  PROVE  /\ \A x \in Buf : blk[x] = b /\ UpToDate(x) => Value(b) = data[x]
         /\ (\A x \in Buf : blk[x] = b => ~ UpToDate(x)) => Value(b) = disk[b]
<1>1. ASSUME NEW x \in Buf, blk[x] = b, UpToDate(x) PROVE Value(b) = data[x]
  <2> DEFINE c == CHOOSE y \in Buf : blk[y] = b /\ UpToDate(y)
  <2>1. c \in Buf /\ blk[c] = b
    BY <1>1
  <2>2. c = x
    BY <1>1, <2>1 DEF OneBufferPerBlock
  <2>3. QED BY <1>1, <2>2 DEF Value
<1>2. QED BY <1>1 DEF Value

(* The same of the next state.                                              *)
LEMMA ValueNext ==
  ASSUME OneBufferPerBlock', NEW b \in Blk, None \notin Blk
  PROVE  /\ \A x \in Buf : blk'[x] = b /\ UpToDate(x)' => Value(b)' = data'[x]
         /\ (\A x \in Buf : blk'[x] = b => ~ UpToDate(x)') => Value(b)' = disk'[b]
<1>1. ASSUME NEW x \in Buf, blk'[x] = b, UpToDate(x)' PROVE Value(b)' = data'[x]
  <2> DEFINE c == CHOOSE y \in Buf : blk'[y] = b /\ UpToDate(y)'
  <2>1. c \in Buf /\ blk'[c] = b
    BY <1>1
  <2>2. c = x
    BY <1>1, <2>1 DEF OneBufferPerBlock
  <2>3. QED BY <1>1, <2>2 DEF Value
<1>2. QED BY <1>1 DEF Value

(* A buffer that is left alone stays as up to date as it was.               *)
LEMMA SameUpToDate ==
  ASSUME NEW y, SameBuf(y)
  PROVE  UpToDate(y)' <=> UpToDate(y)
BY DEF SameBuf, UpToDate, Contents

(* A value is the same after a step if no buffer of the block has changed. *)
LEMMA ValueKept ==
  ASSUME IndInv, IndInv', NEW b \in Blk, disk'[b] = disk[b],
         \A y \in Buf : blk[y] = b \/ blk'[y] = b =>
            /\ blk'[y] = blk[y]
            /\ UpToDate(y)' <=> UpToDate(y)
            /\ UpToDate(y) => data'[y] = data[y]
  PROVE  Value(b)' = Value(b)
<1>1. OneBufferPerBlock /\ OneBufferPerBlock' /\ None \notin Blk
  BY CacheAssumption DEF IndInv, SharedOK
<1>2. CASE \E x \in Buf : blk[x] = b /\ UpToDate(x)
  BY <1>1, <1>2, ValueNow, ValueNext
<1>3. CASE \A x \in Buf : blk[x] = b => ~ UpToDate(x)
  <2>1. \A x \in Buf : blk'[x] = b => ~ UpToDate(x)'
    BY <1>3
  <2>2. Value(b) = disk[b]
    BY <1>1, <1>3, ValueNow
  <2>3. Value(b)' = disk'[b]
    BY <1>1, <2>1, ValueNext
  <2>4. QED BY <2>2, <2>3
<1>4. QED BY <1>2, <1>3

(* Reassigning a buffer, or starting to read it, leaves every value alone. *)
LEMMA ReassignedValue ==
  ASSUME DataInv, IndInv', errs = 0, NEW x, NEW d \in Blk \cup {None},
         Reassigned(x, d), NEW b \in Blk
  PROVE  Value(b)' = Value(b)
<1>1. /\ OneBufferPerBlock /\ OneBufferPerBlock' /\ None \notin Blk
      /\ disk' = disk /\ x \in Buf
      /\ \A y \in Buf \ {x} : /\ blk'[y] = blk[y] /\ data'[y] = data[y]
                              /\ UpToDate(y)' <=> UpToDate(y)
  BY CacheAssumption, SameUpToDate
  DEF DataInv, IndInv, SharedOK, Reassigned, Only, Device, SameBuf
<1>2. ~ UpToDate(x)'
  BY DEF Reassigned, UpToDate
<1>3. CASE blk[x] # b /\ d # b
  <2>1. blk'[x] # b
    BY <1>3 DEF Reassigned
  <2>2. QED BY <1>1, <1>3, <2>1, ValueKept DEF DataInv
<1>4. CASE blk[x] = b
  <2>1. \A y \in Buf : blk'[y] = b => ~ UpToDate(y)'
    BY <1>1, <1>2, <1>4 DEF OneBufferPerBlock
  <2>2. Value(b)' = disk[b]
    BY <1>1, <2>1, ValueNext
  <2>3. UpToDate(x) => data[x] = disk[b]
    BY <1>1, <1>4 DEF DataInv, CleanOK, UpToDate, Reassigned
  <2>4. Value(b) = disk[b]
    <3>1. CASE UpToDate(x)
      BY <1>1, <1>4, <2>3, <3>1, ValueNow
    <3>2. CASE ~ UpToDate(x)
      BY <1>1, <1>4, <3>2, ValueNow DEF OneBufferPerBlock
    <3>3. QED BY <3>1, <3>2
  <2>5. QED BY <2>2, <2>4
<1>5. CASE d = b
  <2>1. \A y \in Buf : blk[y] # b
    BY <1>1, <1>5 DEF Reassigned, incore
  <2>2. Value(b) = disk[b]
    BY <1>1, <2>1, ValueNow
  <2>3. \A y \in Buf : blk'[y] = b => ~ UpToDate(y)'
    BY <1>1, <1>2, <2>1
  <2>4. Value(b)' = disk[b]
    BY <1>1, <2>3, ValueNext
  <2>5. QED BY <2>2, <2>4
<1>6. QED BY <1>3, <1>4, <1>5

(* A buffer that is about to be read had no value to lose.                  *)
LEMMA ReadStartedValue ==
  ASSUME DataInv, IndInv', NEW x, ReadStarted(x), NEW b \in Blk
  PROVE  Value(b)' = Value(b)
<1>1. /\ disk' = disk /\ blk'[x] = blk[x]
      /\ \A y \in Buf \ {x} : /\ blk'[y] = blk[y] /\ data'[y] = data[y]
                              /\ UpToDate(y)' <=> UpToDate(y)
  BY SameUpToDate DEF ReadStarted, Only, Device, SameBuf
<1>2. ~ UpToDate(x) /\ ~ UpToDate(x)'
  BY DEF ReadStarted, UpToDate
<1>3. QED BY <1>1, <1>2, ValueKept DEF DataInv

(* Storing in a buffer changes the value of its block and no other.        *)
LEMMA StoredValue ==
  ASSUME DataInv, IndInv', NEW x, NEW d, Stored(x, d), NEW b \in Blk
  PROVE  Value(b)' = IF b = blk[x] THEN d ELSE Value(b)
<1>1. /\ disk' = disk /\ blk'[x] = blk[x] /\ x \in Buf /\ data'[x] = d
      /\ \A y \in Buf \ {x} : /\ blk'[y] = blk[y] /\ data'[y] = data[y]
                              /\ UpToDate(y)' <=> UpToDate(y)
  BY SameUpToDate DEF Stored, Only, Device, SameBuf
<1>2. UpToDate(x)'
  BY DEF Stored, UpToDate
<1>3. CASE b = blk[x]
  BY <1>1, <1>2, <1>3, ValueNext, CacheAssumption DEF IndInv, SharedOK
<1>4. CASE b # blk[x]
  BY <1>1, <1>4, ValueKept DEF DataInv
<1>5. QED BY <1>3, <1>4

(* No buffer is touched.                                                    *)
LEMMA UntouchedValue ==
  ASSUME DataInv, IndInv', Device, \A y \in Buf : SameBuf(y), NEW b \in Blk
  PROVE  Value(b)' = Value(b)
BY ValueKept, SameUpToDate DEF DataInv, Device, SameBuf

---------------------------------------------------------------------------
(* Steps of BlockStore.  What one process does to the cache changes what   *)
(* another has seen, or has yet to store, in nothing.                      *)
AbstractStep == [Abstract!Next]_(Abstract!vars)

(* The buffer of what a process has seen is one it holds.                   *)
LEMMA ReadHeld ==
  ASSUME IndInv, NEW q \in Proc, ReadBuffer(q) # None
  PROVE  ReadBuffer(q) \in Held(q)
BY HeldFacts DEF ReadBuffer

(* The other processes have seen, and have yet to store, what they had.     *)
LEMMA OthersSeen ==
  ASSUME IndInv, NEW p \in Proc, NEW q \in Proc \ {p}, Others(p), Apart(p)
  PROVE  Seen(q)' = Seen(q) /\ ToStore(q)' = ToStore(q)
<1>1. /\ pc'[q] = pc[q] /\ task'[q] = task[q]
      /\ ret'[q] = ret[q] /\ cur'[q] = cur[q] /\ keep'[q] = keep[q]
  BY DEF Others
<1>2. ReadBuffer(q)' = ReadBuffer(q)
  BY <1>1 DEF ReadBuffer
<1>3. ReadBuffer(q) # None =>
        /\ blk'[ReadBuffer(q)] = blk[ReadBuffer(q)]
        /\ data'[ReadBuffer(q)] = data[ReadBuffer(q)]
  BY ReadHeld DEF Apart, SameBuf
<1>4. Seen(q)' = Seen(q)
  BY <1>2, <1>3 DEF Seen
<1>5. ToStore(q)' = ToStore(q)
  BY <1>1 DEF ToStore
<1>6. QED BY <1>4, <1>5

(* Nobody has seen the block of a buffer that somebody else holds.         *)
LEMMA SeenElsewhere ==
  ASSUME IndInv, NEW p \in Proc, NEW x \in Held(p), blk[x] # None,
         NEW q \in Proc \ {p}, Seen(q) # None
  PROVE  Seen(q).blk # blk[x]
<1>1. ReadBuffer(q) \in Held(q) /\ Seen(q).blk = blk[ReadBuffer(q)]
  BY ReadHeld DEF Seen
<1>2. x # ReadBuffer(q) /\ x \in Buf /\ ReadBuffer(q) \in Buf
  BY <1>1, HeldFacts
<1>3. QED BY <1>1, <1>2 DEF IndInv, SharedOK, OneBufferPerBlock

ValuesKept == \A b \in Blk : Value(b)' = Value(b)

(* Nothing that BlockStore speaks of changes.                               *)
LEMMA StutterStep ==
  ASSUME IndInv, NEW p \in Proc, Others(p), Apart(p), ValuesKept,
         Seen(p)' = Seen(p), ToStore(p)' = ToStore(p)
  PROVE  AbstractStep
<1>1. \A q \in Proc : Seen(q)' = Seen(q) /\ ToStore(q)' = ToStore(q)
  BY OthersSeen
<1>2. QED BY <1>1 DEF AbstractStep, Abstract!vars, ValuesKept

(* The process takes a task.                                                *)
LEMMA SetOutStep ==
  ASSUME IndInv, NEW p \in Proc, Others(p), Apart(p), ValuesKept,
         Seen(p) = None, Seen(p)' = None,
         ToStore(p) = {}, ToStore(p)' \in SUBSET Blk
  PROVE  AbstractStep
<1>1. \A q \in Proc \ {p} : Seen(q)' = Seen(q) /\ ToStore(q)' = ToStore(q)
  BY OthersSeen
<1>2. Abstract!SetOut(p, ToStore(p)')
  BY <1>1 DEF Abstract!SetOut, ValuesKept
<1>3. QED BY <1>2 DEF AbstractStep, Abstract!Next

(* The process has its block.                                               *)
LEMMA FetchStep ==
  ASSUME IndInv, NEW p \in Proc, Others(p), Apart(p), ValuesKept,
         NEW x \in Held(p), blk[x] \in Blk, Value(blk[x]) = data[x],
         Seen(p) = None, Seen(p)' = [blk |-> blk[x], val |-> data[x]],
         ToStore(p)' = ToStore(p)
  PROVE  AbstractStep
<1>1. \A q \in Proc \ {p} : Seen(q)' = Seen(q) /\ ToStore(q)' = ToStore(q)
  BY OthersSeen
<1>2. \A q \in Proc \ {p} : Seen(q) = None \/ Seen(q).blk # blk[x]
  BY SeenElsewhere, CacheAssumption
<1>3. Abstract!Exclusive(p, blk[x])
  BY <1>2 DEF Abstract!Exclusive
<1>4. Abstract!Fetch(p, blk[x])
  BY <1>1, <1>3 DEF Abstract!Fetch, ValuesKept
<1>5. QED BY <1>4 DEF AbstractStep, Abstract!Next

(* The process lets go of everything.                                       *)
LEMMA DropStep ==
  ASSUME IndInv, NEW p \in Proc, Others(p), Apart(p), ValuesKept,
         Seen(p)' = None, ToStore(p)' = {}
  PROVE  AbstractStep
<1>1. \A q \in Proc \ {p} : Seen(q)' = Seen(q) /\ ToStore(q)' = ToStore(q)
  BY OthersSeen
<1>2. CASE Seen(p) # None \/ ToStore(p) # {}
  <2>1. Abstract!Drop(p)
    BY <1>1, <1>2 DEF Abstract!Drop, ValuesKept
  <2>2. QED BY <2>1 DEF AbstractStep, Abstract!Next
<1>3. CASE Seen(p) = None /\ ToStore(p) = {}
  BY <1>3, StutterStep
<1>4. QED BY <1>2, <1>3

(* The process stores d in a block it has yet to store to.                  *)
LEMMA StoreStep ==
  ASSUME DataInv, IndInv', NEW p \in Proc, Others(p), Apart(p),
         NEW x \in Held(p), NEW d \in Data, Stored(x, d),
         blk[x] \in ToStore(p), blk[x] \in Blk,
         ToStore(p)' = ToStore(p) \ {blk[x]},
         \/ Seen(p)' = None /\ (Seen(p) = None \/ Seen(p).blk = blk[x])
         \/ Seen(p)' = Seen(p) /\ (Seen(p) = None \/ Seen(p).blk # blk[x])
  PROVE  AbstractStep
<1>1. \A q \in Proc \ {p} : Seen(q)' = Seen(q) /\ ToStore(q)' = ToStore(q)
  BY OthersSeen DEF DataInv
<1>2. \A q \in Proc \ {p} : Seen(q) = None \/ Seen(q).blk # blk[x]
  BY SeenElsewhere, CacheAssumption DEF DataInv
<1>3. Abstract!Exclusive(p, blk[x])
  BY <1>2 DEF Abstract!Exclusive
<1>4. \A b \in Blk : Value(b)' = IF b = blk[x] THEN d ELSE Value(b)
  BY StoredValue
<1>5. [b \in Blk |-> Value(b)'] = [[b \in Blk |-> Value(b)] EXCEPT ![blk[x]] = d]
  BY <1>4
<1>6. [q \in Proc |-> ToStore(q)']
        = [[q \in Proc |-> ToStore(q)] EXCEPT ![p] = @ \ {blk[x]}]
  BY <1>1
<1>7. [q \in Proc |-> Seen(q)']
        = IF Seen(p) # None /\ Seen(p).blk = blk[x]
            THEN [[q \in Proc |-> Seen(q)] EXCEPT ![p] = None]
            ELSE [q \in Proc |-> Seen(q)]
  BY <1>1
<1>8. Abstract!Store(p, blk[x], d)
  BY <1>3, <1>5, <1>6, <1>7 DEF Abstract!Store
<1>9. QED BY <1>8 DEF AbstractStep, Abstract!Next

---------------------------------------------------------------------------
(* The steps, one by one: each preserves DataInv, and is a step of         *)
(* BlockStore or none while the disk has not failed.                       *)

(* A step that leaves every buffer's contents alone.                       *)
Quiet(p) ==
  /\ Others(p) /\ cpu \in {None, p}
  /\ Device /\ \A y \in Buf : SameBuf(y)

(* Such a step leaves every value as it is.                                 *)
LEMMA QuietStep ==
  ASSUME DataInv, IndInv', NEW p \in Proc, Quiet(p),
         WriteOK(p)', errs = 0 => TargetOK(p)'
  PROVE  DataInv' /\ Apart(p) /\ ValuesKept
<1>1. Apart(p)
  BY HeldFacts DEF DataInv, Quiet, Apart
<1>2. CleanOK'
  BY DEF DataInv, CleanOK, Quiet, Device, SameBuf, Contents
<1>3. DataInv'
  BY <1>1, <1>2, DataStep DEF Quiet
<1>4. ValuesKept
  BY UntouchedValue DEF Quiet, ValuesKept
<1>5. QED BY <1>1, <1>3, <1>4

(* getblk finds the block. *)
LEMMA GetblkScanData ==
  ASSUME DataInv, NEW p \in Proc, GetblkScan(p)
  PROVE  DataInv' /\ (errs = 0 => AbstractStep)
<1> USE DEF GetblkScan, At, Goto, cache
<1>1. IndInv /\ IndInv'
  BY GetblkScanInv DEF DataInv
<1>2. /\ pc[p] = "getblk" /\ pc'[p] = "found" /\ blk[cur'[p]] = want[p]
      /\ UNCHANGED <<cache, task, want, ret, keep, wchan>>
  BY <1>1 DEF IndInv, TypeOK
<1>3. Quiet(p)
  BY <1>1 DEF Quiet, Others, IndInv, TypeOK, Device, SameBuf
<1>4. WriteOK(p)'
  BY <1>2 DEF WriteOK
<1>5. ASSUME errs = 0 PROVE TargetOK(p)'
  BY <1>2, <1>5 DEF DataInv, TargetOK, Sought
<1>6. DataInv' /\ Apart(p) /\ ValuesKept
  BY <1>1, <1>3, <1>4, <1>5, QuietStep
<1>7. Seen(p)' = Seen(p) /\ ToStore(p)' = ToStore(p)
  BY <1>2 DEF Seen, ReadBuffer, ToStore
<1>8. QED BY <1>1, <1>3, <1>6, <1>7, StutterStep DEF Quiet

(* The buffer is busy. *)
LEMMA GetblkBusyData ==
  ASSUME DataInv, NEW p \in Proc, GetblkBusy(p)
  PROVE  DataInv' /\ (errs = 0 => AbstractStep)
<1> USE DEF GetblkBusy, At, Sleep, local
<1>1. IndInv /\ IndInv'
  BY GetblkBusyInv DEF DataInv
<1>2. /\ pc[p] = "found" /\ pc'[p] = "getblk"
      /\ UNCHANGED <<blk, data, ioq, disk, errs, local>>
  BY <1>1 DEF IndInv, TypeOK
<1>3. Quiet(p)
  BY <1>1 DEF Quiet, Others, IndInv, TypeOK, Device, SameBuf, Contents
<1>4. WriteOK(p)'
  BY <1>2 DEF WriteOK
<1>5. ASSUME errs = 0 PROVE TargetOK(p)'
  BY <1>2, <1>5 DEF DataInv, TargetOK, Sought
<1>6. DataInv' /\ Apart(p) /\ ValuesKept
  BY <1>1, <1>3, <1>4, <1>5, QuietStep
<1>7. Seen(p)' = Seen(p) /\ ToStore(p)' = ToStore(p)
  BY <1>2 DEF Seen, ReadBuffer, ToStore
<1>8. QED BY <1>1, <1>3, <1>6, <1>7, StutterStep DEF Quiet

(* The buffer is taken. *)
LEMMA GetblkTakeData ==
  ASSUME DataInv, NEW p \in Proc, GetblkTake(p)
  PROVE  DataInv' /\ (errs = 0 => AbstractStep)
<1> USE DEF GetblkTake, At, Goto, local, Returned
<1>1. IndInv /\ IndInv'
  BY GetblkTakeInv DEF DataInv
<1>2. /\ pc[p] = "found" /\ pc'[p] = Returned(p)
      /\ UNCHANGED <<blk, data, ioq, disk, errs, local>>
  BY <1>1 DEF IndInv, TypeOK
<1>3. Quiet(p)
  BY <1>1 DEF Quiet, Others, IndInv, TypeOK, Device, SameBuf, Contents
<1>4. WriteOK(p)'
  BY <1>2 DEF WriteOK
<1>5. ASSUME errs = 0 PROVE TargetOK(p)'
  BY <1>2, <1>5 DEF DataInv, TargetOK, Sought
<1>6. DataInv' /\ Apart(p) /\ ValuesKept
  BY <1>1, <1>3, <1>4, <1>5, QuietStep
<1>7. Seen(p)' = Seen(p) /\ ToStore(p)' = ToStore(p)
  BY <1>2 DEF Seen, ReadBuffer, ToStore
<1>8. QED BY <1>1, <1>3, <1>6, <1>7, StutterStep DEF Quiet

(* No buffer is available. *)
LEMMA GetblkEmptyData ==
  ASSUME DataInv, NEW p \in Proc, GetblkEmpty(p)
  PROVE  DataInv' /\ (errs = 0 => AbstractStep)
<1> USE DEF GetblkEmpty, Miss, At, Sleep, local
<1>1. IndInv /\ IndInv'
  BY GetblkEmptyInv DEF DataInv
<1>2. /\ pc[p] = "getblk" /\ pc'[p] = "getblk"
      /\ UNCHANGED <<blk, data, flags, ioq, disk, errs, local>>
  BY <1>1 DEF IndInv, TypeOK
<1>3. Quiet(p)
  BY <1>1, <1>2 DEF Quiet, Others, IndInv, TypeOK, Device, SameBuf
<1>4. WriteOK(p)'
  BY <1>2 DEF WriteOK
<1>5. ASSUME errs = 0 PROVE TargetOK(p)'
  BY <1>2, <1>5 DEF DataInv, TargetOK, Sought
<1>6. DataInv' /\ Apart(p) /\ ValuesKept
  BY <1>1, <1>3, <1>4, <1>5, QuietStep
<1>7. Seen(p)' = Seen(p) /\ ToStore(p)' = ToStore(p)
  BY <1>2 DEF Seen, ReadBuffer, ToStore
<1>8. QED BY <1>1, <1>3, <1>6, <1>7, StutterStep DEF Quiet

(* bwrite marks the buffer old. *)
LEMMA SetAgeData ==
  ASSUME DataInv, NEW p \in Proc, SetAge(p)
  PROVE  DataInv' /\ (errs = 0 => AbstractStep)
<1> USE DEF SetAge, At, Goto, local
<1>1. IndInv /\ IndInv'
  BY SetAgeInv DEF DataInv
<1>2. /\ \/ pc[p] = "age" /\ pc'[p] \in {"bflush", "getblk"}
         \/ pc[p] = "agedone" /\ pc'[p] = "idle"
      /\ UNCHANGED <<blk, data, ioq, disk, errs, local>>
  BY <1>1 DEF IndInv, TypeOK
<1>3. Quiet(p)
  BY <1>1 DEF Quiet, Others, IndInv, TypeOK, Device, SameBuf, Contents
<1>4. WriteOK(p)'
  BY <1>2 DEF WriteOK
<1>5. ASSUME errs = 0 PROVE TargetOK(p)'
  BY <1>2, <1>5 DEF DataInv, TargetOK, Sought
<1>6. DataInv' /\ Apart(p) /\ ValuesKept
  BY <1>1, <1>3, <1>4, <1>5, QuietStep
<1>7. Seen(p)' = Seen(p) /\ ToStore(p)' = ToStore(p)
  BY <1>2 DEF Seen, ReadBuffer, ToStore
<1>8. QED BY <1>1, <1>3, <1>6, <1>7, StutterStep DEF Quiet

(* breada turns to the read-ahead block. *)
LEMMA ReadaheadData ==
  ASSUME DataInv, NEW p \in Proc, Readahead(p)
  PROVE  DataInv' /\ (errs = 0 => AbstractStep)
<1> USE DEF Readahead, At, Goto, cache
<1>1. IndInv /\ IndInv'
  BY ReadaheadInv DEF DataInv
<1>2. /\ pc[p] = "readahead"
      /\ \/ pc'[p] = "getblk" /\ want'[p] = task[p].ra /\ ret'[p] = "readahead"
         \/ pc'[p] = "finish"
      /\ UNCHANGED <<cache, task, cur, keep>>
  BY <1>1 DEF IndInv, TypeOK
<1>3. Quiet(p)
  BY <1>1 DEF Quiet, Others, IndInv, TypeOK, Device, SameBuf
<1>4. WriteOK(p)'
  BY <1>2 DEF WriteOK
<1>5. task[p].op = "breada"
  BY <1>1, <1>2 DEF IndInv, ProcOK, PathOK
<1>6. ASSUME errs = 0 PROVE TargetOK(p)'
  BY <1>2, <1>5, <1>6 DEF DataInv, TargetOK, Sought
<1>7. DataInv' /\ Apart(p) /\ ValuesKept
  BY <1>1, <1>3, <1>4, <1>6, QuietStep
<1>8. Seen(p)' = Seen(p) /\ ToStore(p)' = ToStore(p)
  BY <1>2 DEF Seen, ReadBuffer, ToStore
<1>9. QED BY <1>1, <1>3, <1>7, <1>8, StutterStep DEF Quiet

(* breada turns back to the block itself. *)
LEMMA BreadaFinishData ==
  ASSUME DataInv, NEW p \in Proc, BreadaFinish(p)
  PROVE  DataInv' /\ (errs = 0 => AbstractStep)
<1> USE DEF BreadaFinish, At, Goto, cache
<1>1. IndInv /\ IndInv'
  BY BreadaFinishInv DEF DataInv
<1>2. /\ pc[p] = "finish" /\ ret'[p] = "bread" /\ keep'[p] = None
      /\ \/ keep[p] = None /\ pc'[p] = "getblk" /\ want'[p] = task[p].blk
         \/ keep[p] # None /\ pc'[p] = "iowait" /\ cur'[p] = keep[p]
      /\ UNCHANGED <<cache, task>>
  BY <1>1 DEF IndInv, TypeOK
<1>3. Quiet(p)
  BY <1>1, <1>2 DEF Quiet, Others, IndInv, TypeOK, Device, SameBuf
<1>4. WriteOK(p)'
  BY <1>2 DEF WriteOK
<1>5. task[p].op = "breada"
  BY <1>1, <1>2 DEF IndInv, ProcOK, PathOK
<1>6. ASSUME errs = 0 PROVE TargetOK(p)'
  BY <1>2, <1>5, <1>6 DEF DataInv, TargetOK, Sought
<1>7. DataInv' /\ Apart(p) /\ ValuesKept
  BY <1>1, <1>3, <1>4, <1>6, QuietStep
<1>8. Seen(p)' = Seen(p) /\ ToStore(p)' = ToStore(p)
  BY <1>2, <1>5 DEF Seen, ReadBuffer, ToStore
<1>9. QED BY <1>1, <1>3, <1>7, <1>8, StutterStep DEF Quiet

(* iowait sleeps. *)
LEMMA IowaitSleepData ==
  ASSUME DataInv, NEW p \in Proc, IowaitSleep(p)
  PROVE  DataInv' /\ (errs = 0 => AbstractStep)
<1> USE DEF IowaitSleep, At, Sleep, cache, local
<1>1. IndInv /\ IndInv'
  BY IowaitSleepInv DEF DataInv
<1>2. pc[p] = "iowait" /\ pc'[p] = "iowait" /\ UNCHANGED <<cache, local>>
  BY <1>1 DEF IndInv, TypeOK
<1>3. Quiet(p)
  BY <1>1 DEF Quiet, Others, IndInv, TypeOK, Device, SameBuf
<1>4. WriteOK(p)'
  BY <1>2 DEF DataInv, WriteOK
<1>5. ASSUME errs = 0 PROVE TargetOK(p)'
  BY <1>2, <1>5 DEF DataInv, TargetOK, Sought
<1>6. DataInv' /\ Apart(p) /\ ValuesKept
  BY <1>1, <1>3, <1>4, <1>5, QuietStep
<1>7. Seen(p)' = Seen(p) /\ ToStore(p)' = ToStore(p)
  BY <1>2 DEF Seen, ReadBuffer, ToStore
<1>8. QED BY <1>1, <1>3, <1>6, <1>7, StutterStep DEF Quiet

(* bmap goes to allocate. *)
LEMMA BmapAllocData ==
  ASSUME DataInv, NEW p \in Proc, BmapAlloc(p)
  PROVE  DataInv' /\ (errs = 0 => AbstractStep)
<1> USE DEF BmapAlloc, At, Goto, cache
<1>1. IndInv /\ IndInv'
  BY BmapAllocInv DEF DataInv
<1>2. /\ pc[p] = "hold" /\ pc'[p] = "getblk" /\ task[p].op = "bmap"
      /\ keep'[p] = cur[p] /\ want'[p] = task[p].ra /\ ret'[p] = "bmap"
      /\ UNCHANGED <<cache, task, cur>>
  BY <1>1 DEF IndInv, TypeOK
<1>3. Quiet(p)
  BY <1>1 DEF Quiet, Others, IndInv, TypeOK, Device, SameBuf
<1>4. WriteOK(p)'
  BY <1>2 DEF WriteOK
<1>5. ASSUME errs = 0 PROVE TargetOK(p)'
  BY <1>2, <1>5 DEF DataInv, TargetOK, Sought
<1>6. DataInv' /\ Apart(p) /\ ValuesKept
  BY <1>1, <1>3, <1>4, <1>5, QuietStep
<1>7. ASSUME errs = 0 PROVE Seen(p)' = Seen(p)
  <2>1. keep[p] = None /\ cur[p] \in Buf
    BY <1>1, <1>2 DEF IndInv, ProcOK, KeepOK, CurOK
  <2>2. ret[p] = "bread"
    BY <1>2, <1>7 DEF DataInv, TargetOK
  <2>3. ReadBuffer(p) = cur[p] /\ ReadBuffer(p)' = cur[p]
    BY <1>2, <2>1, <2>2, CacheAssumption DEF ReadBuffer
  <2>4. QED BY <1>2, <2>3 DEF Seen
<1>8. ToStore(p)' = ToStore(p)
  BY <1>2 DEF ToStore
<1>9. QED BY <1>1, <1>3, <1>6, <1>7, <1>8, StutterStep DEF Quiet

(* bflush returns. *)
LEMMA BflushReturnData ==
  ASSUME DataInv, NEW p \in Proc, BflushReturn(p)
  PROVE  DataInv' /\ (errs = 0 => AbstractStep)
<1> USE DEF BflushReturn, At, Goto, cache, local
<1>1. IndInv /\ IndInv'
  BY BflushReturnInv DEF DataInv
<1>2. pc[p] = "bflush" /\ pc'[p] = "idle" /\ UNCHANGED <<cache, local>>
  BY <1>1 DEF IndInv, TypeOK
<1>3. Quiet(p)
  BY <1>1 DEF Quiet, Others, IndInv, TypeOK, Device, SameBuf
<1>4. WriteOK(p)'
  BY <1>2 DEF WriteOK
<1>5. ASSUME errs = 0 PROVE TargetOK(p)'
  BY <1>2, <1>5 DEF DataInv, TargetOK, Sought
<1>6. DataInv' /\ Apart(p) /\ ValuesKept
  BY <1>1, <1>3, <1>4, <1>5, QuietStep
<1>7. task[p].rel = "brelse"
  <2>1. task[p].op = "bflush" /\ task[p] \in Tasks \cup {NoTask}
    BY <1>1, <1>2 DEF IndInv, TypeOK, ProcOK, PathOK
  <2>2. QED BY <2>1, CacheAssumption DEF TaskOK, NoTask
<1>8. Seen(p)' = Seen(p) /\ ToStore(p)' = ToStore(p)
  BY <1>2, <1>7 DEF Seen, ReadBuffer, ToStore
<1>9. QED BY <1>1, <1>3, <1>6, <1>8, StutterStep DEF Quiet

(* A step that changes the contents of one buffer, available or its own.   *)
LEMMA TouchStep ==
  ASSUME DataInv, IndInv', NEW p \in Proc, Others(p), cpu \in {None, p},
         NEW x \in ToSet(free) \cup Held(p), Only(x),
         \/ SameBuf(x)
         \/ \E b \in Blk \cup {None} : Reassigned(x, b)
         \/ ReadStarted(x)
         \/ \E d \in Data : Stored(x, d)
         \/ "ERROR" \in flags[x],
         WriteOK(p)', errs = 0 => TargetOK(p)'
  PROVE  DataInv' /\ Apart(p)
<1>1. Apart(p)
  BY ApartFacts DEF DataInv
<1>2. CleanOK'
  BY CleanKept
<1>3. QED BY <1>1, <1>2, DataStep DEF Only

(* A process enters the cache. *)
LEMMA StartData ==
  ASSUME DataInv, NEW p \in Proc, Start(p)
  PROVE  DataInv' /\ (errs = 0 => AbstractStep)
<1> USE DEF Start, At, Goto, cache
<1>1. IndInv /\ IndInv'
  BY StartInv DEF DataInv
<1>2. /\ pc[p] = "idle" /\ pc'[p] \in {"bflush", "readahead", "getblk"}
      /\ task'[p] \in Tasks /\ want'[p] = task'[p].blk
      /\ ret'[p] \in {"bread", "breada", "caller"} /\ keep'[p] = None
      /\ task'[p].op = "bmap" => ret'[p] = "bread"
      /\ UNCHANGED cache
  BY <1>1 DEF IndInv, TypeOK
<1>3. Quiet(p)
  BY <1>1 DEF Quiet, Others, IndInv, TypeOK, Device, SameBuf
<1>4. WriteOK(p)'
  BY <1>2 DEF WriteOK
<1>5. ASSUME errs = 0 PROVE TargetOK(p)'
  BY <1>2 DEF TargetOK, Sought
<1>6. DataInv' /\ Apart(p) /\ ValuesKept
  BY <1>1, <1>3, <1>4, <1>5, QuietStep
<1>7. Seen(p) = None /\ Seen(p)' = None /\ ToStore(p) = {}
  <2>1. keep[p] = None
    BY <1>1, <1>2 DEF IndInv, ProcOK, KeepOK
  <2>2. QED BY <1>2, <2>1 DEF Seen, ReadBuffer, ToStore
<1>8. ToStore(p)' \in SUBSET Blk
  <2>1. /\ TaskOK(task'[p]) /\ task'[p] \in TaskType
    BY <1>2, CacheAssumption
  <2>2. task'[p].rel # "brelse" => task'[p].blk \in Blk
    BY <2>1 DEF TaskOK, TaskType, Ops
  <2>3. task'[p].op = "bmap" => task'[p].ra \in Blk
    BY <2>1 DEF TaskOK, TaskType
  <2>4. QED BY <2>2, <2>3 DEF ToStore
<1>9. QED BY <1>1, <1>3, <1>6, <1>7, <1>8, SetOutStep DEF Quiet

(* What is known of the buffer in a process's hands when nothing failed.   *)
LEMMA CurFacts ==
  ASSUME DataInv, NEW p \in Proc,
         pc[p] \in {"got", "hold", "iowait", "fill", "link", "release"}
  PROVE  /\ cur[p] \in Buf /\ cur[p] \in Held(p) /\ cur[p] # keep[p]
         /\ errs = 0 /\ ~ (pc[p] = "hold" /\ task[p].op = "geteblk") =>
              blk[cur[p]] \in Blk
<1>1. IndInv
  BY DEF DataInv
<1>2. cur[p] \in Buf /\ cur[p] \in Held(p) /\ cur[p] # keep[p]
  BY <1>1, HeldFacts DEF IndInv, ProcOK, CurOK
<1>3. errs = 0 => "ERROR" \notin flags[cur[p]]
  BY <1>2 DEF DataInv, CleanOK
<1>4. QED BY <1>1, <1>2, <1>3 DEF IndInv, ProcOK, HeldOK, Usable, TypeOK

(* A buffer that is done has the value of its block.                       *)
LEMMA DoneValue ==
  ASSUME IndInv, NEW x \in Buf, "DONE" \in flags[x], blk[x] \in Blk
  PROVE  Value(blk[x]) = data[x]
<1>1. OneBufferPerBlock /\ None \notin Blk
  BY CacheAssumption DEF IndInv, SharedOK
<1>2. UpToDate(x)
  BY DEF UpToDate
<1>3. QED BY <1>1, <1>2, ValueNow

(* iowait returns. *)
LEMMA IowaitDoneData ==
  ASSUME DataInv, NEW p \in Proc, IowaitDone(p)
  PROVE  DataInv' /\ (errs = 0 => AbstractStep)
<1> USE DEF IowaitDone, At, Goto, cache, local
<1>1. IndInv /\ IndInv'
  BY IowaitDoneInv DEF DataInv
<1>2. /\ pc[p] = "iowait" /\ "DONE" \in flags[cur[p]]
      /\ pc'[p] = IF ret[p] = "bwrite" THEN "release" ELSE "hold"
      /\ UNCHANGED <<cache, local>>
  BY <1>1 DEF IndInv, TypeOK
<1>3. Quiet(p)
  BY <1>1 DEF Quiet, Others, IndInv, TypeOK, Device, SameBuf
<1>4. WriteOK(p)'
  BY <1>2 DEF DataInv, WriteOK
<1>5. ASSUME errs = 0 PROVE TargetOK(p)'
  BY <1>2, <1>5 DEF DataInv, TargetOK, Sought
<1>6. DataInv' /\ Apart(p) /\ ValuesKept
  BY <1>1, <1>3, <1>4, <1>5, QuietStep
<1>7. keep[p] = None
  <2>1. task[p].op = "breada" => pc[p] # "iowait" \/ keep[p] = None
    BY <1>1 DEF IndInv, ProcOK, KeepOK
  <2>2. QED BY <1>1, <1>2, <2>1 DEF IndInv, ProcOK, KeepOK
<1>8. CASE ret[p] = "bread"
  <2>1. Seen(p) = None
    BY <1>2, <1>7 DEF Seen, ReadBuffer
  <2>2. cur[p] \in Buf /\ cur[p] \in Held(p) /\ (errs = 0 => blk[cur[p]] \in Blk)
    BY <1>2, CurFacts
  <2>3. Seen(p)' = [blk |-> blk[cur[p]], val |-> data[cur[p]]]
    <3>1. ReadBuffer(p)' = cur[p]
      BY <1>2, <1>7, <1>8 DEF ReadBuffer
    <3>2. QED BY <1>2, <2>2, <3>1, CacheAssumption DEF Seen
  <2>4. ToStore(p)' = ToStore(p)
    BY <1>2, <1>8 DEF ToStore
  <2>5. errs = 0 => Value(blk[cur[p]]) = data[cur[p]]
    BY <1>1, <1>2, <2>2, DoneValue
  <2>6. QED BY <1>1, <1>3, <1>6, <2>1, <2>2, <2>3, <2>4, <2>5, FetchStep DEF Quiet
<1>9. CASE ret[p] # "bread"
  <2>1. Seen(p)' = Seen(p) /\ ToStore(p)' = ToStore(p)
    BY <1>2, <1>7, <1>9 DEF Seen, ReadBuffer, ToStore
  <2>2. QED BY <1>1, <1>3, <1>6, <2>1, StutterStep DEF Quiet
<1>10. QED BY <1>8, <1>9

(* The caller, or bwrite, gives the buffer back as it is.                  *)
LEMMA GiveBackData ==
  ASSUME DataInv, IndInv', NEW p \in Proc, Others(p), cpu \in {None, p},
         pc[p] \in {"hold", "release"}, Brelse(cur[p], flags[cur[p]]),
         pc'[p] = "idle", UNCHANGED <<data, ioq, disk, errs, local>>
  PROVE  DataInv' /\ (errs = 0 => AbstractStep)
<1> DEFINE x == cur[p]
<1>1. IndInv /\ x \in Buf /\ x \in Held(p) /\ keep'[p] = None
  <2>1. IndInv /\ x \in Buf /\ x \in Held(p)
    BY CurFacts DEF DataInv
  <2>2. QED BY <2>1 DEF local, IndInv, ProcOK, KeepOK
<1>2. Only(x) /\ (SameBuf(x) \/ "ERROR" \in flags[x])
  BY <1>1 DEF Only, Device, SameBuf, Contents, Brelse, IndInv, TypeOK
<1>3. WriteOK(p)' /\ TargetOK(p)'
  BY <1>1 DEF WriteOK, TargetOK
<1>4. DataInv' /\ Apart(p)
  BY <1>1, <1>2, <1>3, TouchStep
<1>5. ASSUME errs = 0 PROVE AbstractStep
  <2>1. "ERROR" \notin flags[x]
    BY <1>1, <1>5 DEF DataInv, CleanOK
  <2>2. ValuesKept
    BY <1>2, <2>1, UntouchedValue DEF Only, ValuesKept
  <2>3. Seen(p)' = None /\ ToStore(p)' = {}
    BY <1>1 DEF Seen, ReadBuffer, ToStore
  <2>4. QED BY <1>1, <1>4, <2>2, <2>3, DropStep
<1>6. QED BY <1>4, <1>5

(* The caller gives the buffer back.                                        *)
LEMMA HoldBrelseData ==
  ASSUME DataInv, NEW p \in Proc, HoldBrelse(p)
  PROVE  DataInv' /\ (errs = 0 => AbstractStep)
<1>1. IndInv /\ IndInv'
  BY HoldBrelseInv DEF DataInv
<1>2. /\ Others(p) /\ cpu \in {None, p} /\ pc[p] = "hold" /\ pc'[p] = "idle"
      /\ Brelse(cur[p], flags[cur[p]]) /\ UNCHANGED <<data, ioq, disk, errs, local>>
  BY <1>1 DEF HoldBrelse, At, Goto, local, Others, Brelse, Wakeup, IndInv, TypeOK
<1>3. QED BY <1>1, <1>2, GiveBackData

(* bwrite gives the buffer back.                                            *)
LEMMA BwriteReleaseData ==
  ASSUME DataInv, NEW p \in Proc, BwriteRelease(p)
  PROVE  DataInv' /\ (errs = 0 => AbstractStep)
<1>1. IndInv /\ IndInv'
  BY BwriteReleaseInv DEF DataInv
<1>2. /\ Others(p) /\ cpu \in {None, p} /\ pc[p] = "release" /\ pc'[p] = "idle"
      /\ Brelse(cur[p], flags[cur[p]]) /\ UNCHANGED <<data, ioq, disk, errs, local>>
  BY <1>1 DEF BwriteRelease, At, Goto, local, Others, Brelse, Wakeup, IndInv, TypeOK
<1>3. QED BY <1>1, <1>2, GiveBackData

(* A delayed write is started (getblk, bflush): what is stored is what the *)
(* block has been since it was delayed.                                    *)
LEMMA FlushData ==
  ASSUME DataInv, IndInv', NEW p \in Proc, Others(p), cpu \in {None, p},
         NEW x \in ToSet(free), "DELWRI" \in flags[x],
         flags' = [flags EXCEPT ![x] = WriteFlags(flags[x] \cup {"BUSY", "ASYNC"})],
         ioq' = Append(ioq, x),
         pc[p] \in {"getblk", "bflush"}, pc'[p] = "age",
         UNCHANGED <<blk, data, disk, errs, task, want, ret, keep>>
  PROVE  DataInv' /\ (errs = 0 => AbstractStep)
<1>1. /\ IndInv /\ x \in Buf /\ blk[x] \in Blk /\ "DONE" \in flags[x]
      /\ ToSet(ioq') = ToSet(ioq) \cup {x}
  <2>1. IndInv /\ x \in Buf
    BY DEF DataInv, IndInv, TypeOK, ToSet
  <2>2. blk[x] \in Blk /\ "DONE" \in flags[x]
    BY <2>1 DEF IndInv, TypeOK, SharedOK, FlagsOK
  <2>3. ToSet(ioq') = ToSet(ioq) \cup {x}
    BY <2>1, AppendFacts DEF IndInv, TypeOK
  <2>4. QED BY <2>1, <2>2, <2>3
<1>2. Stored(x, data[x]) /\ data[x] \in Data
  BY <1>1, CacheAssumption
  DEF Stored, Only, Device, SameBuf, Contents, WriteFlags, IndInv, TypeOK
<1>3. WriteOK(p)'
  BY DEF WriteOK
<1>4. ASSUME errs = 0 PROVE TargetOK(p)'
  <2>1. pc[p] = "bflush" => task[p].op = "bflush"
    BY <1>1 DEF IndInv, ProcOK, PathOK
  <2>2. QED BY <1>4, <2>1 DEF DataInv, TargetOK, Sought
<1>5. DataInv' /\ Apart(p)
  BY <1>2, <1>3, <1>4, TouchStep DEF Stored
<1>6. ValuesKept
  <2>1. Value(blk[x]) = data[x]
    BY <1>1, DoneValue
  <2>2. QED BY <1>2, <2>1, StoredValue DEF ValuesKept
<1>7. Seen(p)' = Seen(p) /\ ToStore(p)' = ToStore(p)
  BY DEF Seen, ReadBuffer, ToStore
<1>8. QED BY <1>1, <1>5, <1>6, <1>7, StutterStep

(* getblk starts a delayed write.                                           *)
LEMMA GetblkFlushData ==
  ASSUME DataInv, NEW p \in Proc, GetblkFlush(p)
  PROVE  DataInv' /\ (errs = 0 => AbstractStep)
<1>1. IndInv /\ IndInv'
  BY GetblkFlushInv DEF DataInv
<1>2. Head(free) \in ToSet(free)
  BY <1>1, TailFacts DEF GetblkFlush, IndInv, TypeOK, SharedOK, FreeIffNotBusy
<1>3. Others(p) /\ cpu \in {None, p} /\ pc[p] = "getblk" /\ pc'[p] = "age"
  BY <1>1 DEF GetblkFlush, Miss, At, Goto, Others, IndInv, TypeOK
<1>4. QED BY <1>1, <1>2, <1>3, FlushData DEF GetblkFlush, Strategy

(* bflush starts a delayed write.                                           *)
LEMMA BflushWriteData ==
  ASSUME DataInv, NEW p \in Proc, BflushWrite(p)
  PROVE  DataInv' /\ (errs = 0 => AbstractStep)
<1>1. IndInv /\ IndInv'
  BY BflushWriteInv DEF DataInv
<1>2. PICK i \in DOMAIN free :
        /\ Delayed(i)
        /\ Strategy(free[i], WriteFlags(flags[free[i]] \cup {"BUSY", "ASYNC"}))
        /\ cur' = [cur EXCEPT ![p] = free[i]]
  BY DEF BflushWrite
<1>3. free[i] \in ToSet(free) /\ "DELWRI" \in flags[free[i]]
  BY <1>2 DEF Delayed, ToSet
<1>4. Others(p) /\ cpu \in {None, p} /\ pc[p] = "bflush" /\ pc'[p] = "age"
  BY <1>1, <1>2 DEF BflushWrite, At, Goto, Others, IndInv, TypeOK
<1>5. UNCHANGED <<blk, data, disk, errs, task, want, ret, keep>>
  BY DEF BflushWrite
<1>6. QED BY <1>1, <1>2, <1>3, <1>4, <1>5, FlushData DEF Strategy

(* getblk gives a clean buffer to another block.                           *)
LEMMA GetblkReassignData ==
  ASSUME DataInv, NEW p \in Proc, GetblkReassign(p)
  PROVE  DataInv' /\ (errs = 0 => AbstractStep)
<1> USE DEF GetblkReassign, Miss, At, Goto
<1> DEFINE x == Head(free)
<1>1. IndInv /\ IndInv'
  BY GetblkReassignInv DEF DataInv
<1>2. x \in ToSet(free) /\ x \in Buf
  BY <1>1, TailFacts DEF IndInv, TypeOK, SharedOK, FreeIffNotBusy
<1>3. x \notin ToSet(ioq) /\ x \notin Held(p) /\ want[p] \in Blk \cup {None}
  BY <1>1, <1>2, HeldFacts DEF IndInv, TypeOK, SharedOK, FreeIffNotBusy, QueueOK
<1>4. /\ pc[p] = "getblk" /\ pc'[p] = Returned(p) /\ cur'[p] = x
      /\ blk'[x] = want[p] /\ UNCHANGED <<data, ioq, disk, errs, task, want, ret, keep>>
      /\ \A y \in Buf \ {x} : blk'[y] = blk[y]
  BY <1>1, <1>2 DEF IndInv, TypeOK
<1>5. Others(p) /\ cpu \in {None, p}
  BY <1>1 DEF Others, IndInv, TypeOK
<1>6. Reassigned(x, want[p])
  BY <1>1, <1>2, <1>3 DEF Reassigned, Only, Device, SameBuf, IndInv, TypeOK
<1> HIDE DEF x, GetblkReassign
<1>7. keep[p] # None => keep[p] \in Buf \ {x}
  BY <1>1, <1>3, HeldFacts
<1>8. WriteOK(p)'
  BY <1>4 DEF WriteOK, Returned
<1>9. ASSUME errs = 0 PROVE TargetOK(p)'
  <2>1. TargetOK(p)
    BY <1>9 DEF DataInv
  <2>2. want[p] = Sought(p) /\ Sought(p)' = Sought(p)
    BY <1>4, <2>1 DEF TargetOK, Sought
  <2>3. pc'[p] \in {"got", "fill", "hold"}
    BY <1>4 DEF Returned
  <2>4. pc'[p] = "hold" => Sought(p) = task[p].blk /\ ret[p] = "caller"
    BY <1>4 DEF Returned, Sought
  <2>5. pc'[p] = "got" => ret[p] \notin {"caller", "bmap"}
    BY <1>4 DEF Returned
  <2>6. QED BY <1>4, <1>7, <2>1, <2>2, <2>3, <2>4, <2>5 DEF TargetOK
<1>10. DataInv' /\ Apart(p)
  BY <1>1, <1>2, <1>3, <1>5, <1>6, <1>8, <1>9, TouchStep DEF Reassigned
<1>11. errs = 0 => ValuesKept
  BY <1>1, <1>3, <1>6, ReassignedValue DEF ValuesKept
<1>12. Seen(p)' = Seen(p) /\ ToStore(p)' = ToStore(p)
  <2>1. ReadBuffer(p)' = ReadBuffer(p) /\ ReadBuffer(p) \in {None, keep[p]}
    BY <1>4 DEF ReadBuffer, Returned
  <2>2. Seen(p)' = Seen(p)
    BY <1>4, <1>7, <2>1 DEF Seen
  <2>3. QED BY <1>4, <2>2 DEF ToStore, Returned
<1>13. QED BY <1>1, <1>5, <1>10, <1>11, <1>12, StutterStep

(* bread and breada: the block is read already, or the read is started.    *)
LEMMA ReadBlockData ==
  ASSUME DataInv, NEW p \in Proc, ReadBlock(p)
  PROVE  DataInv' /\ (errs = 0 => AbstractStep)
<1> USE DEF ReadBlock, At, Goto
<1> DEFINE x == cur[p]
           done == "DONE" \in flags[x]
<1>1. IndInv /\ IndInv'
  BY ReadBlockInv DEF DataInv
<1>2. /\ pc[p] = "got" /\ ret[p] \in {"bread", "breada"}
      /\ UNCHANGED <<blk, data, disk, errs, task, want, ret, cur>>
      /\ ret[p] = "breada" => pc'[p] = "readahead" /\ keep'[p] = x
      /\ ret[p] = "bread" => /\ pc'[p] = IF done THEN "hold" ELSE "iowait"
                             /\ keep'[p] = keep[p]
  BY <1>1 DEF IndInv, TypeOK
<1>3. /\ x \in Buf /\ x \in Held(p) /\ x # keep[p] /\ (errs = 0 => blk[x] \in Blk)
      /\ x \notin ToSet(ioq)
  BY <1>1, <1>2, CurFacts DEF IndInv, ProcOK, CurOK
<1>4. Others(p) /\ cpu \in {None, p}
  BY <1>1 DEF Others, IndInv, TypeOK
<1>5. Only(x) /\ (SameBuf(x) \/ ReadStarted(x))
  <2>1. CASE done
    <3>1. flags' = flags /\ ioq' = ioq
      BY <2>1
    <3>2. QED BY <1>2, <1>3, <3>1 DEF Only, Device, SameBuf
  <2>2. CASE ~ done
    <3>1. flags' = [flags EXCEPT ![x] = @ \cup {"READ"}] /\ ioq' = Append(ioq, x)
      BY <2>2 DEF Strategy
    <3>2. ToSet(ioq') = ToSet(ioq) \cup {x}
      BY <1>1, <1>3, <3>1, AppendFacts DEF IndInv, TypeOK
    <3>3. /\ flags'[x] = flags[x] \cup {"READ"}
          /\ \A y \in Buf \ {x} : flags'[y] = flags[y]
      BY <1>1, <1>3, <3>1 DEF IndInv, TypeOK
    <3>4. QED BY <1>2, <1>3, <2>2, <3>2, <3>3
              DEF Only, Device, SameBuf, ReadStarted, Contents
  <2>3. QED BY <2>1, <2>2
<1> HIDE DEF x, done, ReadBlock
<1>6. WriteOK(p)'
  BY <1>2 DEF WriteOK
<1>7. ASSUME errs = 0 PROVE TargetOK(p)'
  <2>1. TargetOK(p) /\ want[p] = Sought(p) /\ blk[x] = want[p]
    BY <1>2, <1>7 DEF DataInv, TargetOK, x
  <2>2. blk[x] = task[p].blk
    BY <1>2, <2>1 DEF Sought
  <2>3. pc'[p] \in {"readahead", "hold", "iowait"}
    BY <1>2
  <2>4. keep'[p] # None => blk[keep'[p]] = task[p].blk
    BY <1>2, <2>1, <2>2 DEF TargetOK
  <2>5. pc'[p] # "readahead" => ret[p] = "bread"
    BY <1>2
  <2>6. cur'[p] = x
    BY <1>2 DEF x
  <2>7. QED BY <1>2, <2>2, <2>3, <2>4, <2>5, <2>6 DEF TargetOK
<1>8. DataInv' /\ Apart(p)
  BY <1>1, <1>3, <1>4, <1>5, <1>6, <1>7, TouchStep
<1>9. ValuesKept
  <2>1. CASE SameBuf(x)
    BY <1>1, <1>5, <2>1, UntouchedValue DEF Only, ValuesKept
  <2>2. CASE ReadStarted(x)
    BY <1>1, <2>2, ReadStartedValue DEF ValuesKept
  <2>3. QED BY <1>5, <2>1, <2>2
<1>10. task[p].op = "bmap" => keep[p] = None /\ ret[p] = "bread"
  BY <1>1, <1>2 DEF IndInv, ProcOK, KeepOK, PathOK
<1>11. Seen(p) = None /\ ToStore(p)' = ToStore(p)
  BY <1>2, <1>10 DEF Seen, ReadBuffer, ToStore
<1>12. CASE pc'[p] = "hold"
  <2>1. ret[p] = "bread" /\ done /\ keep'[p] = keep[p]
    BY <1>2, <1>12
  <2>2. Seen(p)' = [blk |-> blk[x], val |-> data[x]]
    <3>1. ReadBuffer(p)' = x
      BY <1>2, <1>10, <1>12, <2>1 DEF ReadBuffer, x
    <3>2. QED BY <1>2, <1>3, <3>1, CacheAssumption DEF Seen
  <2>3. errs = 0 => Value(blk[x]) = data[x]
    BY <1>1, <1>3, <2>1, DoneValue DEF done
  <2>4. QED BY <1>1, <1>3, <1>4, <1>8, <1>9, <1>11, <2>2, <2>3, FetchStep
<1>13. CASE pc'[p] # "hold"
  <2>1. pc'[p] \in {"readahead", "iowait"}
    BY <1>2, <1>13
  <2>2. task[p].op = "bmap" => keep'[p] = None
    BY <1>2, <1>10
  <2>3. Seen(p)' = None
    BY <1>2, <2>1, <2>2 DEF Seen, ReadBuffer
  <2>4. QED BY <1>1, <1>4, <1>8, <1>9, <1>11, <2>3, StutterStep
<1>14. QED BY <1>8, <1>12, <1>13

(* breada with the buffer of the read-ahead block.                         *)
LEMMA ReadaheadGotData ==
  ASSUME DataInv, NEW p \in Proc, ReadaheadGot(p)
  PROVE  DataInv' /\ (errs = 0 => AbstractStep)
<1> USE DEF ReadaheadGot, At, Goto, local
<1> DEFINE x == cur[p]
<1>1. IndInv /\ IndInv'
  BY ReadaheadGotInv DEF DataInv
<1>2. /\ pc[p] = "got" /\ ret[p] = "readahead" /\ pc'[p] = "finish"
      /\ UNCHANGED <<data, disk, errs, local>>
  BY <1>1 DEF IndInv, TypeOK
<1>3. x \in Buf /\ x \in Held(p) /\ x # keep[p] /\ x \notin ToSet(ioq)
  BY <1>1, <1>2, CurFacts DEF IndInv, ProcOK, CurOK
<1>4. Others(p) /\ cpu \in {None, p}
  BY <1>1 DEF Others, Brelse, Wakeup, IndInv, TypeOK
<1>5. Only(x) /\ (SameBuf(x) \/ "ERROR" \in flags[x] \/ ReadStarted(x))
  <2>1. CASE "DONE" \in flags[x]
    <3>1. Brelse(x, flags[x]) /\ ioq' = ioq
      BY <2>1
    <3>2. QED BY <1>1, <1>2, <1>3, <3>1
              DEF Only, Device, SameBuf, Contents, Brelse, IndInv, TypeOK
  <2>2. CASE "DONE" \notin flags[x]
    <3>1. /\ flags' = [flags EXCEPT ![x] = flags[x] \cup {"READ", "ASYNC"}]
          /\ ioq' = Append(ioq, x) /\ blk' = blk
      BY <2>2 DEF Strategy
    <3>2. ToSet(ioq') = ToSet(ioq) \cup {x}
      BY <1>1, <1>3, <3>1, AppendFacts DEF IndInv, TypeOK
    <3>3. /\ flags'[x] = flags[x] \cup {"READ", "ASYNC"}
          /\ \A y \in Buf \ {x} : flags'[y] = flags[y]
      BY <1>1, <1>3, <3>1 DEF IndInv, TypeOK
    <3>4. QED BY <1>2, <1>3, <2>2, <3>1, <3>2, <3>3
              DEF Only, Device, SameBuf, ReadStarted, Contents
  <2>3. QED BY <2>1, <2>2
<1> HIDE DEF x, ReadaheadGot
<1>6. WriteOK(p)'
  BY <1>2 DEF WriteOK
<1>7. keep[p] # None => keep[p] \in Buf \ {x}
  BY <1>1, <1>3, HeldFacts
<1>8. ASSUME errs = 0 PROVE TargetOK(p)'
  <2>1. keep[p] # None => blk[keep[p]] = task[p].blk /\ blk'[keep[p]] = blk[keep[p]]
    BY <1>5, <1>7, <1>8 DEF DataInv, TargetOK, Only, SameBuf
  <2>2. QED BY <1>2, <2>1 DEF TargetOK
<1>9. DataInv' /\ Apart(p)
  BY <1>1, <1>3, <1>4, <1>5, <1>6, <1>8, TouchStep
<1>10. ASSUME errs = 0 PROVE ValuesKept
  <2>1. "ERROR" \notin flags[x]
    BY <1>3, <1>10 DEF DataInv, CleanOK
  <2>2. CASE SameBuf(x)
    BY <1>1, <1>5, <2>2, UntouchedValue DEF Only, ValuesKept
  <2>3. CASE ReadStarted(x)
    BY <1>1, <2>3, ReadStartedValue DEF ValuesKept
  <2>4. QED BY <1>5, <2>1, <2>2, <2>3
<1>11. Seen(p)' = Seen(p) /\ ToStore(p)' = ToStore(p)
  <2>1. task[p].op = "breada"
    BY <1>1, <1>2 DEF IndInv, ProcOK, PathOK
  <2>2. QED BY <1>2, <2>1 DEF Seen, ReadBuffer, ToStore
<1>12. QED BY <1>1, <1>4, <1>9, <1>10, <1>11, StutterStep

(* The caller changes the block and writes it, now or later: from then on  *)
(* d is the value of the block.                                            *)
LEMMA HoldStoreData ==
  ASSUME DataInv, IndInv', NEW p \in Proc, Others(p), cpu \in {None, p},
         pc[p] = "hold", task[p].op # "bmap", task[p].rel # "brelse",
         NEW d \in Data, Stored(cur[p], d),
         \/ pc'[p] \in {"idle", "agedone"}
         \/ /\ pc'[p] = "iowait" /\ ret'[p] = "bwrite"
            /\ cur[p] \in ToSet(ioq') /\ "READ" \notin flags'[cur[p]],
         UNCHANGED <<task, cur, keep>>
  PROVE  DataInv' /\ (errs = 0 => AbstractStep)
<1> DEFINE x == cur[p]
<1>1. /\ IndInv /\ x \in Buf /\ x \in Held(p) /\ keep[p] = None
      /\ task[p].op # "geteblk" /\ (errs = 0 => blk[x] \in Blk)
  <2>1. IndInv
    BY DEF DataInv
  <2>2. keep[p] = None
    BY <2>1 DEF IndInv, ProcOK, KeepOK
  <2>3. task[p].op # "geteblk"
    BY <2>1, TaskFacts DEF TaskOK
  <2>4. QED BY <2>1, <2>2, <2>3, CurFacts
<1>2. Only(x) /\ blk'[x] = blk[x]
  BY DEF Stored
<1>3. WriteOK(p)'
  BY <1>1 DEF WriteOK
<1>4. ASSUME errs = 0 PROVE TargetOK(p)'
  BY <1>1, <1>2, <1>4 DEF DataInv, TargetOK
<1>5. DataInv' /\ Apart(p)
  BY <1>1, <1>2, <1>3, <1>4, TouchStep
<1>6. ASSUME errs = 0 PROVE AbstractStep
  <2>1. blk[x] = task[p].blk /\ blk[x] \in Blk
    BY <1>1, <1>6 DEF DataInv, TargetOK
  <2>2. ToStore(p) = {blk[x]} /\ ToStore(p)' = {}
    BY <2>1 DEF ToStore
  <2>3. Seen(p)' = None /\ (Seen(p) = None \/ Seen(p).blk = blk[x])
    BY <1>1 DEF Seen, ReadBuffer
  <2>4. QED BY <1>1, <1>5, <2>1, <2>2, <2>3, StoreStep
<1>7. QED BY <1>5, <1>6

(* What the caller holds when it writes.                                   *)
LEMMA WritesFacts ==
  ASSUME IndInv, NEW p \in Proc, NEW r, Writes(p, r), r # "brelse"
  PROVE  /\ cur[p] \in Buf /\ cur[p] \in Held(p) /\ blk[cur[p]] # None
         /\ "ERROR" \notin flags[cur[p]] /\ pc[p] = "hold" /\ cpu \in {None, p}
         /\ task[p].op # "bmap" /\ task[p].rel = r
<1>1. pc[p] = "hold" /\ cpu \in {None, p} /\ task[p].op # "bmap"
      /\ task[p].rel = r /\ "ERROR" \notin flags[cur[p]]
  BY DEF Writes, At, GivesUp
<1>2. cur[p] \in Buf /\ cur[p] \in Held(p)
  BY <1>1, HeldFacts DEF IndInv, ProcOK, CurOK
<1>3. task[p].op # "geteblk"
  BY <1>1, TaskFacts DEF TaskOK
<1>4. QED BY <1>1, <1>2, <1>3 DEF IndInv, ProcOK, HeldOK, Usable

(* bdwrite.                                                                 *)
LEMMA HoldBdwriteData ==
  ASSUME DataInv, NEW p \in Proc, HoldBdwrite(p)
  PROVE  DataInv' /\ (errs = 0 => AbstractStep)
<1> DEFINE x == cur[p]
<1>1. IndInv /\ IndInv' /\ Writes(p, "bdwrite")
  BY HoldBdwriteInv DEF DataInv, HoldBdwrite
<1>2. PICK d \in Data : data' = [data EXCEPT ![x] = d]
  BY DEF HoldBdwrite, Modify
<1>3. /\ x \in Buf /\ blk[x] # None /\ "ERROR" \notin flags[x] /\ pc[p] = "hold"
      /\ cpu \in {None, p} /\ task[p].op # "bmap" /\ task[p].rel = "bdwrite"
  BY <1>1, WritesFacts
<1>4. /\ Brelse(x, flags[x] \cup {"DELWRI", "DONE"}) /\ pc' = [pc EXCEPT ![p] = "idle"]
      /\ UNCHANGED <<ioq, disk, errs, local>>
  BY DEF HoldBdwrite, Goto
<1>5. Stored(x, d)
  BY <1>1, <1>2, <1>3, <1>4
  DEF Stored, Only, Device, SameBuf, Contents, Brelse, IndInv, TypeOK
<1>6. Others(p) /\ pc'[p] = "idle" /\ UNCHANGED <<task, cur, keep>>
  BY <1>1, <1>4 DEF local, Others, Brelse, Wakeup, IndInv, TypeOK
<1>7. QED BY <1>1, <1>3, <1>5, <1>6, HoldStoreData

(* The buffer is queued to be written with what was stored in it.          *)
LEMMA WriteQueued ==
  ASSUME IndInv, NEW x \in Buf, NEW d \in Data, NEW fl, blk[x] # None,
         data' = [data EXCEPT ![x] = d], Strategy(x, fl),
         {"READ", "DONE", "ERROR"} \cap fl = {}, UNCHANGED <<blk, disk, errs>>
  PROVE  Stored(x, d) /\ x \in ToSet(ioq') /\ flags'[x] = fl
<1>1. /\ ToSet(ioq') = ToSet(ioq) \cup {x} /\ flags'[x] = fl
      /\ \A y \in Buf \ {x} : flags'[y] = flags[y]
  BY AppendFacts DEF Strategy, IndInv, TypeOK
<1>2. data'[x] = d /\ \A y \in Buf \ {x} : data'[y] = data[y]
  BY DEF IndInv, TypeOK
<1>3. QED BY <1>1, <1>2 DEF Stored, Only, Device, SameBuf

(* bawrite.                                                                 *)
LEMMA HoldBawriteData ==
  ASSUME DataInv, NEW p \in Proc, HoldBawrite(p)
  PROVE  DataInv' /\ (errs = 0 => AbstractStep)
<1> DEFINE x == cur[p]
           fl == WriteFlags(flags[x] \cup {"ASYNC"})
<1>1. IndInv /\ IndInv' /\ Writes(p, "bawrite")
  BY HoldBawriteInv DEF DataInv, HoldBawrite
<1>2. PICK d \in Data : data' = [data EXCEPT ![x] = d]
  BY DEF HoldBawrite, Modify
<1>3. /\ x \in Buf /\ blk[x] # None /\ pc[p] = "hold"
      /\ cpu \in {None, p} /\ task[p].op # "bmap" /\ task[p].rel = "bawrite"
  BY <1>1, WritesFacts
<1>4. /\ Strategy(x, fl) /\ UNCHANGED <<blk, disk, errs, local, wchan>>
      /\ pc' = [pc EXCEPT ![p] = IF "DELWRI" \in flags[x] THEN "agedone" ELSE "idle"]
  BY DEF HoldBawrite, Goto
<1>5. {"READ", "DONE", "ERROR"} \cap fl = {}
  BY DEF WriteFlags
<1>6. Stored(x, d)
  BY <1>1, <1>2, <1>3, <1>4, <1>5, WriteQueued
<1>7. Others(p) /\ pc'[p] \in {"idle", "agedone"} /\ UNCHANGED <<task, cur, keep>>
  BY <1>1, <1>4 DEF local, Others, IndInv, TypeOK
<1>8. QED BY <1>1, <1>3, <1>6, <1>7, HoldStoreData

(* bwrite starts.                                                           *)
LEMMA HoldBwriteData ==
  ASSUME DataInv, NEW p \in Proc, HoldBwrite(p)
  PROVE  DataInv' /\ (errs = 0 => AbstractStep)
<1> DEFINE x == cur[p]
           fl == WriteFlags(flags[x])
<1>1. IndInv /\ IndInv' /\ Writes(p, "bwrite")
  BY HoldBwriteInv DEF DataInv, HoldBwrite
<1>2. PICK d \in Data : data' = [data EXCEPT ![x] = d]
  BY DEF HoldBwrite, Modify
<1>3. /\ x \in Buf /\ blk[x] # None /\ pc[p] = "hold"
      /\ cpu \in {None, p} /\ task[p].op # "bmap" /\ task[p].rel = "bwrite"
  BY <1>1, WritesFacts
<1>4. /\ Strategy(x, fl) /\ ret' = [ret EXCEPT ![p] = "bwrite"]
      /\ pc' = [pc EXCEPT ![p] = "iowait"]
      /\ UNCHANGED <<blk, disk, errs, task, want, cur, keep, wchan>>
  BY DEF HoldBwrite, Goto
<1>5. {"READ", "DONE", "ERROR"} \cap fl = {}
  BY DEF WriteFlags
<1> HIDE DEF fl
<1>6. Stored(x, d) /\ x \in ToSet(ioq') /\ flags'[x] = fl
  BY <1>1, <1>2, <1>3, <1>4, <1>5, WriteQueued
<1>7. Others(p) /\ pc'[p] = "iowait" /\ ret'[p] = "bwrite"
  BY <1>1, <1>4 DEF Others, IndInv, TypeOK
<1>8. QED BY <1>1, <1>3, <1>4, <1>5, <1>6, <1>7, HoldStoreData

(* bmap delays the new block, and holds the indirect block again.          *)
LEMMA BmapFillData ==
  ASSUME DataInv, NEW p \in Proc, BmapFill(p)
  PROVE  DataInv' /\ (errs = 0 => AbstractStep)
<1> DEFINE x == cur[p]
           k == keep[p]
<1>1. /\ IndInv /\ IndInv' /\ x \in Buf /\ x \in Held(p) /\ x # k
      /\ pc[p] = "fill" /\ task[p].op = "bmap" /\ k # None /\ k \in Buf
      /\ ret[p] = "bmap" /\ cpu \in {None, p}
  <2>1. IndInv /\ IndInv' /\ pc[p] = "fill" /\ cpu \in {None, p}
    BY BmapFillInv DEF DataInv, BmapFill, At
  <2>2. task[p].op = "bmap" /\ k # None /\ ret[p] = "bmap"
    BY <2>1 DEF IndInv, ProcOK, KeepOK
  <2>3. QED BY <2>1, <2>2, CurFacts, HeldFacts
<1>2. /\ pc' = [pc EXCEPT ![p] = "link"] /\ cur' = [cur EXCEPT ![p] = k]
      /\ keep' = [keep EXCEPT ![p] = None] /\ UNCHANGED <<ioq, disk, errs, task, want, ret>>
  BY DEF BmapFill, Goto
<1>3. /\ pc'[p] = "link" /\ cur'[p] = k /\ keep'[p] = None
      /\ Others(p) /\ UNCHANGED <<task, want, ret>>
  BY <1>1, <1>2 DEF BmapFill, Others, Brelse, Wakeup, IndInv, TypeOK
<1>4. PICK d \in Data : data' = [data EXCEPT ![x] = d]
  BY DEF BmapFill, Modify
<1>5. Only(x) /\ SameBuf(k)
  BY <1>1, <1>2, <1>4 DEF BmapFill, Only, Device, SameBuf, Contents, Brelse, IndInv, TypeOK
<1>6. "ERROR" \notin flags[x] => Stored(x, d)
  <2>1. CASE "ERROR" \notin flags[x]
    <3>1. Brelse(x, flags[x] \cup {"DELWRI", "DONE"}) /\ blk[x] # None
      BY <1>1, <2>1 DEF BmapFill, GivesUp, IndInv, ProcOK, HeldOK, Usable
    <3>2. QED BY <1>1, <1>4, <1>5, <2>1, <3>1 DEF Stored, Brelse, IndInv, TypeOK
  <2>2. QED BY <2>1
<1>7. WriteOK(p)'
  BY <1>3 DEF WriteOK
<1>8. ASSUME errs = 0 PROVE TargetOK(p)'
  BY <1>1, <1>3, <1>5, <1>8 DEF DataInv, TargetOK, SameBuf
<1>9. DataInv' /\ Apart(p)
  BY <1>1, <1>3, <1>5, <1>6, <1>7, <1>8, TouchStep
<1>10. ASSUME errs = 0 PROVE AbstractStep
  <2>1. "ERROR" \notin flags[x] /\ blk[x] \in Blk
    BY <1>1, <1>10, CurFacts DEF DataInv, CleanOK
  <2>2. blk[x] = task[p].ra /\ blk[k] = task[p].blk
    BY <1>1, <1>10 DEF DataInv, TargetOK, Sought
  <2>3. task[p].ra # task[p].blk /\ task[p].rel = "bdwrite"
    BY <1>1, TaskFacts DEF TaskOK
  <2>4. ToStore(p) = {blk[k], blk[x]} /\ ToStore(p)' = {blk[k]}
    BY <1>1, <1>3, <2>2, <2>3 DEF ToStore
  <2>5. Seen(p)' = Seen(p) /\ Seen(p).blk = blk[k]
    BY <1>1, <1>3, <1>5, CacheAssumption DEF Seen, ReadBuffer, SameBuf
  <2>6. QED BY <1>1, <1>3, <1>6, <1>9, <2>1, <2>2, <2>3, <2>4, <2>5, StoreStep
<1>11. QED BY <1>9, <1>10

(* bmap delays the indirect block.                                         *)
LEMMA BmapLinkData ==
  ASSUME DataInv, NEW p \in Proc, BmapLink(p)
  PROVE  DataInv' /\ (errs = 0 => AbstractStep)
<1> DEFINE x == cur[p]
<1>1. /\ IndInv /\ IndInv' /\ x \in Buf /\ x \in Held(p) /\ pc[p] = "link"
      /\ blk[x] # None /\ "ERROR" \notin flags[x] /\ keep[p] = None /\ cpu \in {None, p}
  <2>1. IndInv /\ IndInv' /\ pc[p] = "link" /\ cpu \in {None, p}
    BY BmapLinkInv DEF DataInv, BmapLink, At
  <2>2. keep[p] = None /\ blk[x] # None /\ "ERROR" \notin flags[x]
    BY <2>1 DEF IndInv, ProcOK, KeepOK, CurOK
  <2>3. QED BY <2>1, <2>2, CurFacts
<1>2. /\ pc' = [pc EXCEPT ![p] = "idle"] /\ UNCHANGED <<ioq, disk, errs, local>>
      /\ Brelse(x, flags[x] \cup {"DELWRI", "DONE"})
  BY DEF BmapLink, Goto
<1>3. pc'[p] = "idle" /\ Others(p) /\ UNCHANGED <<task, want, ret, cur, keep>>
  BY <1>1, <1>2 DEF local, Others, Brelse, Wakeup, IndInv, TypeOK
<1>4. PICK d \in Data : data' = [data EXCEPT ![x] = d]
  BY DEF BmapLink, Modify
<1>5. Stored(x, d)
  BY <1>1, <1>2, <1>4 DEF Stored, Only, Device, SameBuf, Contents, Brelse, IndInv, TypeOK
<1>6. WriteOK(p)' /\ TargetOK(p)'
  BY <1>1, <1>3 DEF WriteOK, TargetOK
<1>7. DataInv' /\ Apart(p)
  BY <1>1, <1>3, <1>5, <1>6, TouchStep DEF Stored
<1>8. ASSUME errs = 0 PROVE AbstractStep
  <2>1. task[p].op = "bmap" /\ blk[x] = task[p].blk /\ blk[x] \in Blk
    BY <1>1, <1>8, CurFacts DEF DataInv, TargetOK
  <2>2. task[p].rel = "bdwrite"
    BY <1>1, <2>1, TaskFacts DEF TaskOK
  <2>3. ToStore(p) = {blk[x]} /\ ToStore(p)' = {}
    BY <1>1, <1>3, <2>1, <2>2 DEF ToStore
  <2>4. Seen(p)' = None /\ Seen(p).blk = blk[x]
    BY <1>1, <1>3, CacheAssumption DEF Seen, ReadBuffer
  <2>5. QED BY <1>1, <1>3, <1>5, <1>7, <2>1, <2>3, <2>4, StoreStep
<1>9. QED BY <1>7, <1>8
---------------------------------------------------------------------------
(* What iodone does to the buffer of the finished request, and to the rest. *)
LEMMA IodoneContents ==
  ASSUME IndInv, ioq # <<>>, ioq' = Tail(ioq),
         NEW fl \in {flags[Head(ioq)], flags[Head(ioq)] \cup {"ERROR"}},
         Iodone(Head(ioq), fl)
  PROVE  LET x == Head(ioq) IN
         /\ x \in Buf /\ x \in ToSet(ioq) /\ x \notin ToSet(ioq')
         /\ blk[x] \in Blk /\ "DONE" \notin flags[x]
         /\ "DONE" \in flags'[x]
         /\ "ERROR" \in flags'[x] <=> "ERROR" \in fl
         /\ "ERROR" \in fl \/ blk' = blk
         /\ \A y \in Buf \ {x} :
              /\ blk'[y] = blk[y]
              /\ y \in ToSet(ioq') <=> y \in ToSet(ioq)
              /\ \A f \in Contents : f \in flags'[y] <=> f \in flags[y]
<1> DEFINE x == Head(ioq)
<1>1. /\ x \in Buf /\ x \in ToSet(ioq) /\ ToSet(ioq') = ToSet(ioq) \ {x}
      /\ blk[x] \in Blk /\ "DONE" \notin flags[x]
  BY TailFacts DEF IndInv, TypeOK, SharedOK, QueueOK
<1> HIDE DEF x
<1>2. Iodone(x, fl)
  BY DEF x
<1>3. CASE "ASYNC" \in fl
  <2>1. Brelse(x, fl \cup {"DONE"})
    BY <1>2, <1>3 DEF Iodone
  <2>2. /\ flags'[x] = (fl \cup {"DONE"}) \ {"WANTED", "BUSY", "ASYNC", "AGE"}
        /\ \A y \in Buf \ {x} : flags'[y] = flags[y] /\ blk'[y] = blk[y]
        /\ "ERROR" \in fl \/ blk' = blk
    BY <1>1, <2>1 DEF Brelse, IndInv, TypeOK
  <2>3. QED BY <1>1, <2>2 DEF x
<1>4. CASE "ASYNC" \notin fl
  <2>1. flags' = [flags EXCEPT ![x] = (fl \cup {"DONE"}) \ {"WANTED"}] /\ blk' = blk
    BY <1>2, <1>4 DEF Iodone
  <2>2. /\ flags'[x] = (fl \cup {"DONE"}) \ {"WANTED"}
        /\ \A y \in Buf \ {x} : flags'[y] = flags[y]
    BY <1>1, <2>1 DEF IndInv, TypeOK
  <2>3. QED BY <1>1, <2>1, <2>2 DEF x
<1>5. QED BY <1>3, <1>4

(* A request is completed: the buffer and its block are now alike, and the *)
(* value of the block is what it was.                                      *)
LEMMA IntrData ==
  ASSUME DataInv, Intr
  PROVE  DataInv' /\ (errs = 0 => AbstractStep)
<1> DEFINE x == Head(ioq)
           fl == flags[x]
<1>1. IndInv /\ IndInv' /\ OneBufferPerBlock
  BY IntrInv DEF DataInv, IndInv, SharedOK
<1>2. /\ ioq # <<>> /\ ioq' = Tail(ioq) /\ Iodone(x, fl)
      /\ UNCHANGED <<errs, local, pc, cpu>>
  BY DEF Intr
<1>3. \/ /\ "READ" \in flags[x] /\ disk' = disk
         /\ data' = [data EXCEPT ![x] = disk[blk[x]]]
      \/ /\ "READ" \notin flags[x] /\ data' = data
         /\ disk' = [disk EXCEPT ![blk[x]] = data[x]]
  BY DEF Intr
<1>4. /\ x \in Buf /\ x \in ToSet(ioq) /\ x \notin ToSet(ioq')
      /\ blk[x] \in Blk /\ "DONE" \notin flags[x] /\ "DONE" \in flags'[x]
      /\ "ERROR" \in flags'[x] <=> "ERROR" \in flags[x]
      /\ "ERROR" \in flags[x] \/ blk' = blk
      /\ \A y \in Buf \ {x} :
           /\ blk'[y] = blk[y]
           /\ y \in ToSet(ioq') <=> y \in ToSet(ioq)
           /\ \A f \in Contents : f \in flags'[y] <=> f \in flags[y]
  BY <1>1, <1>2, IodoneContents
<1> HIDE DEF x, fl
<1>5. /\ \A y \in Buf \ {x} : data'[y] = data[y]
      /\ \A b \in Blk \ {blk[x]} : disk'[b] = disk[b]
      /\ data'[x] = disk'[blk[x]]
      /\ "READ" \notin flags[x] => data'[x] = data[x]
      /\ "READ" \in flags[x] => disk' = disk
  BY <1>1, <1>3, <1>4 DEF IndInv, TypeOK
<1>6. \A y \in Buf \ {x} : blk[y] # None => disk'[blk[y]] = disk[blk[y]]
  BY <1>1, <1>4, <1>5 DEF OneBufferPerBlock, IndInv, TypeOK
<1>7. CleanOK'
  <2> SUFFICES ASSUME errs = 0, NEW y \in Buf
               PROVE  /\ "ERROR" \notin flags'[y]
                      /\ blk'[y] # None /\ "DONE" \in flags'[y] /\ "DELWRI" \notin flags'[y]
                           => data'[y] = disk'[blk'[y]]
    BY <1>2 DEF CleanOK
  <2>1. CASE y = x
    BY <1>4, <1>5, <2>1 DEF DataInv, CleanOK
  <2>2. CASE y # x
    BY <1>4, <1>5, <1>6, <2>2 DEF DataInv, CleanOK, Contents
  <2>3. QED BY <2>1, <2>2
<1>8. ASSUME NEW q \in Proc PROVE WriteOK(q)'
  <2> SUFFICES ASSUME pc[q] = "release" \/ (pc[q] = "iowait" /\ ret[q] = "bwrite")
               PROVE  WriteOK(q)'
    BY <1>2 DEF WriteOK, local
  <2>1. cur[q] \in Buf /\ cur'[q] = cur[q]
    BY <1>1, <1>2 DEF IndInv, ProcOK, CurOK, local
  <2>2. CASE cur[q] = x
    <3>1. CASE "ERROR" \in flags[x]
      BY <1>4, <2>1, <2>2, <3>1 DEF WriteOK
    <3>2. CASE blk' = blk
      <4>1. blk'[x] # None /\ disk'[blk'[x]] = data'[x]
        BY <1>4, <1>5, <3>2, CacheAssumption
      <4>2. QED BY <1>4, <2>1, <2>2, <4>1 DEF WriteOK
    <3>3. QED BY <1>4, <3>1, <3>2
  <2>3. CASE cur[q] # x
    BY <1>4, <1>5, <1>6, <2>1, <2>3 DEF DataInv, WriteOK, Contents
  <2>4. QED BY <2>2, <2>3
<1>9. errs = 0 => blk' = blk
  BY <1>4 DEF DataInv, CleanOK
<1>10. ASSUME NEW q \in Proc, errs' = 0 PROVE TargetOK(q)'
  BY <1>2, <1>9, <1>10 DEF DataInv, TargetOK, Sought, local
<1>11. ASSUME errs = 0 PROVE AbstractStep
  <2>1. ASSUME NEW b \in Blk PROVE Value(b)' = Value(b)
    <3>1. OneBufferPerBlock' /\ None \notin Blk /\ blk' = blk
      BY <1>1, <1>9, <1>11, CacheAssumption DEF IndInv, SharedOK
    <3>2. CASE b = blk[x]
      <4>1. Value(b)' = data'[x]
        BY <1>4, <3>1, <3>2, ValueNext DEF UpToDate
      <4>2. CASE "READ" \in flags[x]
        <5>1. \A y \in Buf : blk[y] = b => ~ UpToDate(y)
          BY <1>1, <1>4, <3>1, <3>2, <4>2 DEF OneBufferPerBlock, UpToDate
        <5>2. Value(b) = disk[b]
          BY <1>1, <3>1, <5>1, ValueNow
        <5>3. QED BY <1>5, <3>2, <4>1, <4>2, <5>2
      <4>3. CASE "READ" \notin flags[x]
        <5>1. Value(b) = data[x]
          BY <1>1, <1>4, <3>1, <3>2, <4>3, ValueNow DEF UpToDate
        <5>2. QED BY <1>5, <4>1, <4>3, <5>1
      <4>4. QED BY <4>2, <4>3
    <3>3. CASE b # blk[x]
      <4>1. \A y \in Buf \ {x} : UpToDate(y)' <=> UpToDate(y)
        BY <1>4 DEF UpToDate, Contents
      <4>2. QED BY <1>1, <1>5, <3>1, <3>3, <4>1, ValueKept
    <3>4. QED BY <3>2, <3>3
  <2>2. ASSUME NEW q \in Proc
        PROVE  Seen(q)' = Seen(q) /\ ToStore(q)' = ToStore(q)
    <3>1. ReadBuffer(q)' = ReadBuffer(q) /\ ToStore(q)' = ToStore(q)
      BY <1>2 DEF ReadBuffer, ToStore, local
    <3>2. ReadBuffer(q) # None => ReadBuffer(q) \in Buf \ {x}
      BY <1>1, <1>4, CacheAssumption, HeldFacts
      DEF ReadBuffer, IndInv, ProcOK, CurOK, KeepOK
    <3>3. Seen(q)' = Seen(q)
      BY <1>5, <1>9, <1>11, <3>1, <3>2 DEF Seen
    <3>4. QED BY <3>1, <3>3
  <2>3. QED BY <2>1, <2>2 DEF AbstractStep, Abstract!vars
<1>12. QED BY <1>1, <1>7, <1>8, <1>10, <1>11 DEF DataInv

(* A request fails: from then on only bwrite's callers are promised        *)
(* anything of the contents, and they see the error.                       *)
LEMMA IntrErrorData ==
  ASSUME DataInv, IntrError
  PROVE  DataInv'
<1> DEFINE x == Head(ioq)
           fl == flags[x] \cup {"ERROR"}
<1>1. IndInv /\ IndInv' /\ OneBufferPerBlock
  BY IntrErrorInv DEF DataInv, IndInv, SharedOK
<1>2. /\ ioq # <<>> /\ ioq' = Tail(ioq) /\ Iodone(x, fl) /\ errs' = errs + 1
      /\ UNCHANGED <<local, pc, cpu>>
      /\ \/ Modify(x) /\ UNCHANGED disk
         \/ disk' \in {disk, [disk EXCEPT ![blk[x]] = data[x]]} /\ UNCHANGED data
  BY DEF IntrError
<1>3. /\ x \in Buf /\ x \in ToSet(ioq) /\ x \notin ToSet(ioq') /\ blk[x] \in Blk
      /\ "ERROR" \in flags'[x]
      /\ \A y \in Buf \ {x} :
           /\ blk'[y] = blk[y]
           /\ y \in ToSet(ioq') <=> y \in ToSet(ioq)
           /\ \A f \in Contents : f \in flags'[y] <=> f \in flags[y]
  BY <1>1, <1>2, IodoneContents
<1> HIDE DEF x, fl
<1>4. errs' # 0
  BY <1>1, <1>2, CacheAssumption DEF IndInv, TypeOK
<1>5. /\ \A y \in Buf \ {x} : data'[y] = data[y]
      /\ \A b \in Blk \ {blk[x]} : disk'[b] = disk[b]
  BY <1>1, <1>2, <1>3 DEF Modify, IndInv, TypeOK
<1>6. \A y \in Buf \ {x} : blk[y] # None => disk'[blk[y]] = disk[blk[y]]
  BY <1>1, <1>3, <1>5 DEF OneBufferPerBlock, IndInv, TypeOK
<1>7. ASSUME NEW q \in Proc PROVE WriteOK(q)'
  <2> SUFFICES ASSUME pc[q] = "release" \/ (pc[q] = "iowait" /\ ret[q] = "bwrite")
               PROVE  WriteOK(q)'
    BY <1>2 DEF WriteOK, local
  <2>1. cur[q] \in Buf /\ cur'[q] = cur[q]
    BY <1>1, <1>2 DEF IndInv, ProcOK, CurOK, local
  <2>2. CASE cur[q] = x
    BY <1>3, <2>1, <2>2 DEF WriteOK
  <2>3. CASE cur[q] # x
    BY <1>3, <1>5, <1>6, <2>1, <2>3 DEF DataInv, WriteOK, Contents
  <2>4. QED BY <2>2, <2>3
<1>8. QED BY <1>1, <1>4, <1>7 DEF DataInv, CleanOK

---------------------------------------------------------------------------
(* binit: no buffer holds a block, and the store is what is on the disk.   *)
LEMMA InitData ==
  ASSUME Init
  PROVE  DataInv /\ Abstract!Init
<1>1. IndInv /\ \A x \in Buf : blk[x] = None /\ flags[x] = {}
  BY InitInv DEF Init
<1>2. \A p \in Proc : pc[p] = "idle" /\ keep[p] = None /\ task[p].rel = "brelse"
  BY DEF Init, NoTask
<1>3. CleanOK /\ \A p \in Proc : WriteOK(p) /\ TargetOK(p)
  BY <1>1, <1>2 DEF CleanOK, WriteOK, TargetOK
<1>4. \A b \in Blk : Value(b) = disk[b]
  BY <1>1, CacheAssumption DEF Value
<1>5. \A p \in Proc : Seen(p) = None /\ ToStore(p) = {}
  BY <1>2 DEF Seen, ReadBuffer, ToStore
<1>6. disk \in [Blk -> Data]
  BY DEF Init
<1>7. Abstract!Init
  BY <1>4, <1>5, <1>6 DEF Abstract!Init
<1>8. QED BY <1>1, <1>3, <1>7 DEF DataInv

(* A stuttering step.                                                       *)
LEMMA StutterData ==
  ASSUME DataInv, UNCHANGED vars
  PROVE  DataInv' /\ AbstractStep
<1> USE DEF vars, cache, local
<1>1. IndInv'
  BY StutterInv DEF DataInv
<1>2. CleanOK' /\ \A p \in Proc : WriteOK(p)' /\ (errs' = 0 => TargetOK(p)')
  BY DEF DataInv, CleanOK, WriteOK, TargetOK, Sought
<1>3. \A b \in Blk : Value(b)' = Value(b)
  BY DEF Value, UpToDate
<1>4. \A p \in Proc : Seen(p)' = Seen(p) /\ ToStore(p)' = ToStore(p)
  BY DEF Seen, ReadBuffer, ToStore
<1>5. AbstractStep
  BY <1>3, <1>4 DEF AbstractStep, Abstract!vars
<1>6. QED BY <1>1, <1>2, <1>5 DEF DataInv

(* Every step preserves DataInv and, until the disk fails, is a step of    *)
(* BlockStore or none.                                                     *)
LEMMA NextData ==
  ASSUME DataInv, [Next]_vars
  PROVE  DataInv' /\ (errs' = 0 => AbstractStep)
<1>1. ASSUME NEW p \in Proc, Start(p) \/ Step(p)
      PROVE  DataInv' /\ (errs = 0 => AbstractStep)
  BY <1>1, StartData, GetblkScanData, GetblkBusyData, GetblkTakeData, GetblkEmptyData,
     GetblkFlushData, GetblkReassignData, SetAgeData, ReadBlockData, ReadaheadData,
     ReadaheadGotData, BreadaFinishData, IowaitSleepData, IowaitDoneData,
     HoldBrelseData, HoldBdwriteData, HoldBawriteData, HoldBwriteData,
     BwriteReleaseData, BmapAllocData, BmapFillData, BmapLinkData,
     BflushWriteData, BflushReturnData
  DEF Step
<1>2. ASSUME NEW p \in Proc, Start(p) \/ Step(p) PROVE errs' = errs
  BY <1>2 DEF Step, Start, GetblkScan, GetblkBusy, GetblkTake, GetblkEmpty,
     GetblkFlush, GetblkReassign, SetAge, ReadBlock, Readahead, ReadaheadGot,
     BreadaFinish, IowaitSleep, IowaitDone, HoldBrelse, HoldBdwrite, HoldBawrite,
     HoldBwrite, BwriteRelease, BmapAlloc, BmapFill, BmapLink, BflushWrite,
     BflushReturn, cache
<1>3. CASE Intr
  BY <1>3, IntrData DEF Intr
<1>4. CASE IntrError
  <2>1. errs' # 0
    BY <1>4, CacheAssumption DEF IntrError, DataInv, IndInv, TypeOK
  <2>2. QED BY <1>4, <2>1, IntrErrorData
<1>5. CASE UNCHANGED vars
  BY <1>5, StutterData
<1>6. QED BY <1>1, <1>2, <1>3, <1>4, <1>5 DEF Next

(* The contents keep to DataInv in every behaviour of the cache.           *)
THEOREM ContentsInvariance == Spec => []DataInv
<1>1. Init => DataInv
  BY InitData
<1>2. DataInv /\ [Next]_vars => DataInv'
  BY NextData
<1>3. QED BY <1>1, <1>2, PTL DEF Spec

(* getblk may reassign any available buffer that is not a delayed write:   *)
(* as long as the disk has not failed it holds what its block holds.       *)
THEOREM CleanBuffers == Spec => []CleanMatchesDisk
<1>1. DataInv => CleanMatchesDisk
  <2> SUFFICES ASSUME DataInv, errs = 0, NEW x \in ToSet(free), blk[x] # None,
                      "DONE" \in flags[x], "DELWRI" \notin flags[x]
               PROVE  data[x] = disk[blk[x]]
    BY DEF CleanMatchesDisk
  <2>1. x \in Buf
    BY DEF DataInv, IndInv, TypeOK, ToSet
  <2>2. QED BY <2>1 DEF DataInv, CleanOK
<1>2. QED BY <1>1, ContentsInvariance, PTL

(* bwrite: when it returns without an error the block is on the disk,      *)
(* whatever the disk did to other requests in between.                     *)
THEOREM DurableWrites == Spec => []BwriteDurable
<1>1. DataInv => BwriteDurable
  <2> SUFFICES ASSUME DataInv, NEW p \in Proc, pc[p] = "release",
                      "ERROR" \notin flags[cur[p]]
               PROVE  disk[blk[cur[p]]] = data[cur[p]]
    BY DEF BwriteDurable
  <2>1. cur[p] \notin ToSet(ioq)
    BY DEF DataInv, IndInv, ProcOK, CurOK
  <2>2. QED BY <2>1 DEF DataInv, WriteOK
<1>2. QED BY <1>1, ContentsInvariance, PTL

(* A cache whose disk does not fail is a store of one register per block:  *)
(* every step of every process, and of the driver, is a step of BlockStore *)
(* or changes nothing that BlockStore speaks of.                           *)
THEOREM Implementation == ASSUME MaxErrors = 0
                          PROVE  Spec => ImplementsBlockStore
<1>1. Init => Abstract!Init
  BY InitData
<1>2. DataInv /\ DataInv' /\ [Next]_vars => [Abstract!Next]_(Abstract!vars)
  <2> SUFFICES ASSUME DataInv, DataInv', [Next]_vars PROVE AbstractStep
    BY DEF AbstractStep
  <2>1. errs' = 0
    BY DEF DataInv, IndInv, TypeOK
  <2>2. QED BY <2>1, NextData
<1>3. QED BY <1>1, <1>2, ContentsInvariance, PTL DEF Spec, ImplementsBlockStore, Abstract!Spec
=============================================================================
