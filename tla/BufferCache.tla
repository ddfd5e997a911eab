---------------------------- MODULE BufferCache ----------------------------
(***************************************************************************)
(* The block buffer cache of the kernel, usr/sys/dev/bio.c: the pool of    *)
(* buffers, the free list in last-used order, the association of buffers   *)
(* with disk blocks, and the routines getblk, geteblk, bread, breada,      *)
(* bwrite, bdwrite, bawrite, brelse, bflush, iowait and iodone, together   *)
(* with the FIFO queue of the disk driver (hd.c) that completes requests   *)
(* at interrupt level.                                                     *)
(*                                                                         *)
(* The kernel is not preemptive: a process keeps the processor (cpu) until *)
(* it sleeps or leaves the cache, and only the disk interrupt can come in  *)
(* between.  A step of a process is the code between two points at which   *)
(* it sleeps or runs at priority level 0 while the interrupt matters.      *)
(***************************************************************************)
EXTENDS Naturals, Sequences, FiniteSets, SequencesExt

CONSTANTS
  Proc,       \* processes that call the cache
  Buf,        \* the buffer headers buf[NBUF]
  Blk,        \* disk blocks, each standing for a (b_dev, b_blkno) pair
  Data,       \* contents of a block
  None,       \* no buffer, NODEV, no sleep channel, no process
  FreeList,   \* the sleep channel &bfreelist
  Tasks,      \* what the upper layers ask for, see TaskType
  MaxErrors   \* bound on the I/O errors the disk may report

Flag == {"READ", "DONE", "ERROR", "BUSY", "WANTED", "AGE", "ASYNC", "DELWRI"}

(* A task is one use of the cache by the file system: op says how the      *)
(* buffer of block blk is obtained, ra is the read-ahead block of breada or *)
(* the block that bmap allocates, rel says how the buffer is given back.   *)
Ops == {"bread", "breada", "getblk", "geteblk", "bmap", "bflush"}
Rels == {"brelse", "bdwrite", "bawrite", "bwrite"}
TaskType == [op : Ops, blk : Blk \cup {None}, ra : Blk \cup {None}, rel : Rels]

(* Only the operations that name a block need one; an empty block has no   *)
(* block of its own to be written to (readi gives it back with brelse),    *)
(* bflush has no buffer to give back, and bmap delays what it changes.     *)
TaskOK(t) ==
  /\ t.op \in {"bread", "breada", "getblk", "bmap"} <=> t.blk # None
  /\ t.op = "bmap" => t.ra \notin {None, t.blk} /\ t.rel = "bdwrite"
  /\ t.op \in {"geteblk", "bflush"} => t.rel = "brelse"

ASSUME CacheAssumption ==
  /\ IsFiniteSet(Buf)
  /\ None \notin Proc \cup Buf \cup Blk \cup {FreeList}
  /\ FreeList \notin Buf
  /\ Tasks \subseteq TaskType
  /\ \A t \in Tasks : TaskOK(t)
  /\ Data # {}
  /\ MaxErrors \in Nat

VARIABLES
  blk,        \* the block a buffer is associated with, None for NODEV
  flags,      \* b_flags
  data,       \* the contents b_un.b_addr points to
  free,       \* the available list headed by bfreelist
  freeWanted, \* B_WANTED in bfreelist.b_flags
  ioq,        \* the requests queued on the driver, the first one active
  disk,       \* the contents of the device
  errs,       \* I/O errors so far
  pc,         \* where a process stands in bio.c
  task,       \* the task it runs
  want,       \* the blkno argument of its getblk, None in geteblk
  ret,        \* the routine its getblk or iowait returns to
  cur,        \* the buffer pointer bp
  keep,       \* the buffer kept busy while a second one is obtained
  wchan,      \* p_wchan: what it sleeps on, None if it does not sleep
  cpu         \* the process that runs in the cache, None if none does

cache == <<blk, flags, data, free, freeWanted, ioq, disk, errs>>
local == <<task, want, ret, cur, keep>>
vars  == <<cache, local, pc, wchan, cpu>>

Labels == {"idle", "getblk", "found", "got", "readahead", "finish", "iowait",
           "hold", "fill", "link", "release", "age", "agedone", "bflush"}
Returns == {"bread", "breada", "readahead", "bmap", "caller", "bwrite"}

NoTask == [op |-> "bflush", blk |-> None, ra |-> None, rel |-> "brelse"]

Init ==
  /\ blk = [x \in Buf |-> None]
  /\ flags = [x \in Buf |-> {}]
  /\ data \in [Buf -> Data]
  /\ free \in [1 .. Cardinality(Buf) -> Buf]
  /\ ToSet(free) = Buf
  /\ IsInjective(free)
  /\ freeWanted = FALSE
  /\ ioq = <<>>
  /\ disk \in [Blk -> Data]
  /\ errs = 0
  /\ pc = [p \in Proc |-> "idle"]
  /\ task = [p \in Proc |-> NoTask]
  /\ want = [p \in Proc |-> None]
  /\ ret = [p \in Proc |-> "caller"]
  /\ cur = [p \in Proc |-> None]
  /\ keep = [p \in Proc |-> None]
  /\ wchan = [p \in Proc |-> None]
  /\ cpu = None

---------------------------------------------------------------------------
(* Scheduling: who may take a step, sleep and wakeup.                      *)

At(p, l) == pc[p] = l /\ wchan[p] = None /\ cpu \in {None, p}

Goto(p, l) ==
  /\ pc' = [pc EXCEPT ![p] = l]
  /\ cpu' = IF l = "idle" THEN None ELSE p

Sleep(p, chan, l) ==
  /\ wchan' = [wchan EXCEPT ![p] = chan]
  /\ pc' = [pc EXCEPT ![p] = l]
  /\ cpu' = None

Wakeup(chans) ==
  wchan' = [q \in Proc |-> IF wchan[q] \in chans THEN None ELSE wchan[q]]

---------------------------------------------------------------------------
(* The routines every path shares.                                         *)

incore(b) == \E x \in Buf : blk[x] = b

(* Mutant: brelse forgets the processes that wait for any buffer.          *)
BrelseOneChannel(x, fl) ==
  /\ Wakeup(IF "WANTED" \in fl THEN {x} ELSE {})
  /\ blk' = IF "ERROR" \in fl THEN [blk EXCEPT ![x] = None] ELSE blk
  /\ free' = IF "AGE" \in fl THEN Cons(x, free) ELSE Append(free, x)
  /\ flags' = [flags EXCEPT ![x] = fl \ {"WANTED", "BUSY", "ASYNC", "AGE"}]
  /\ UNCHANGED freeWanted

(* brelse of buffer x whose flag word is fl when it is called.             *)
Brelse(x, fl) ==
  /\ Wakeup((IF "WANTED" \in fl THEN {x} ELSE {})
              \cup (IF freeWanted THEN {FreeList} ELSE {}))
  /\ freeWanted' = FALSE
  /\ blk' = IF "ERROR" \in fl THEN [blk EXCEPT ![x] = None] ELSE blk
  /\ free' = IF "AGE" \in fl THEN Cons(x, free) ELSE Append(free, x)
  /\ flags' = [flags EXCEPT ![x] = fl \ {"WANTED", "BUSY", "ASYNC", "AGE"}]

(* hdstrategy: the request joins the end of the driver's queue.            *)
Strategy(x, fl) ==
  /\ flags' = [flags EXCEPT ![x] = fl]
  /\ ioq' = Append(ioq, x)

(* Mutant: bwrite leaves B_DONE of the earlier read set.                   *)
WriteFlagsKeepDone(fl) == fl \ {"READ", "ERROR", "DELWRI", "AGE"}

(* The flag word with which bwrite hands a buffer to the driver.           *)
WriteFlags(fl) == fl \ {"READ", "DONE", "ERROR", "DELWRI", "AGE"}

(* Where getblk returns to once it has a buffer.                           *)
Returned(p) == CASE ret[p] = "caller" -> "hold"
                 [] ret[p] = "bmap"   -> "fill"
                 [] OTHER             -> "got"

---------------------------------------------------------------------------
(* A process enters the cache.                                             *)
Start(p) ==
  /\ At(p, "idle")
  /\ \E t \in Tasks :
       /\ task' = [task EXCEPT ![p] = t]
       /\ want' = [want EXCEPT ![p] = t.blk]
       /\ ret' = [ret EXCEPT ![p] = CASE t.op \in {"bread", "bmap"} -> "bread"
                                      [] t.op = "breada"            -> "breada"
                                      [] OTHER                      -> "caller"]
       /\ Goto(p, CASE t.op = "bflush"                     -> "bflush"
                    [] t.op = "breada" /\ incore(t.blk)    -> "readahead"
                    [] OTHER                               -> "getblk")
  /\ cur' = [cur EXCEPT ![p] = None]
  /\ keep' = [keep EXCEPT ![p] = None]
  /\ UNCHANGED <<cache, wchan>>

(* getblk, at priority level 0: the block is associated with some buffer.  *)
GetblkScan(p) ==
  /\ At(p, "getblk")
  /\ want[p] # None
  /\ \E x \in Buf : blk[x] = want[p] /\ cur' = [cur EXCEPT ![p] = x]
  /\ Goto(p, "found")
  /\ UNCHANGED <<cache, task, want, ret, keep, wchan>>

(* getblk, now at level 6: the buffer just found is busy.                  *)
GetblkBusy(p) ==
  /\ At(p, "found")
  /\ "BUSY" \in flags[cur[p]]
  /\ flags' = [flags EXCEPT ![cur[p]] = @ \cup {"WANTED"}]
  /\ Sleep(p, cur[p], "getblk")
  /\ UNCHANGED <<blk, data, free, freeWanted, ioq, disk, errs, local>>

(* Mutant: notavail unlinks the buffer and does not mark it busy.          *)
GetblkTakeUnmarked(p) ==
  /\ At(p, "found")
  /\ "BUSY" \notin flags[cur[p]]
  /\ \E i \in DOMAIN free : free[i] = cur[p] /\ free' = RemoveAt(free, i)
  /\ Goto(p, Returned(p))
  /\ UNCHANGED <<blk, flags, data, freeWanted, ioq, disk, errs, local, wchan>>

(* getblk: the buffer just found is available and is taken (notavail).     *)
GetblkTake(p) ==
  /\ At(p, "found")
  /\ "BUSY" \notin flags[cur[p]]
  /\ \E i \in DOMAIN free : free[i] = cur[p] /\ free' = RemoveAt(free, i)
  /\ flags' = [flags EXCEPT ![cur[p]] = @ \cup {"BUSY"}]
  /\ Goto(p, Returned(p))
  /\ UNCHANGED <<blk, data, freeWanted, ioq, disk, errs, local, wchan>>

(* Mutant: after a sleep for any buffer, geteblk's loop (which does not     *)
(* search again) is used for getblk too.                                   *)
MissNoSearch(p) == At(p, "getblk")

(* The search for the block has failed, or geteblk makes none.             *)
Miss(p) == At(p, "getblk") /\ (want[p] = None \/ ~incore(want[p]))

(* getblk and geteblk: no buffer is available.                             *)
GetblkEmpty(p) ==
  /\ Miss(p)
  /\ free = <<>>
  /\ freeWanted' = TRUE
  /\ Sleep(p, FreeList, "getblk")
  /\ UNCHANGED <<blk, flags, data, free, ioq, disk, errs, local>>

(* getblk and geteblk: the oldest available buffer is a delayed write,     *)
(* which is started; the search begins again.                              *)
GetblkFlush(p) ==
  /\ Miss(p)
  /\ free # <<>>
  /\ "DELWRI" \in flags[Head(free)]
  /\ free' = Tail(free)
  /\ Strategy(Head(free),
              WriteFlags(flags[Head(free)] \cup {"BUSY", "ASYNC"}))
  /\ cur' = [cur EXCEPT ![p] = Head(free)]
  /\ Goto(p, "age")
  /\ UNCHANGED <<blk, data, freeWanted, disk, errs, task, want, ret, keep, wchan>>

(* Mutant: a delayed write is reassigned before it is written.             *)
GetblkReassignDelayed(p) ==
  /\ Miss(p)
  /\ free # <<>>
  /\ free' = Tail(free)
  /\ flags' = [flags EXCEPT ![Head(free)] = {"BUSY"}]
  /\ blk' = [blk EXCEPT ![Head(free)] = want[p]]
  /\ cur' = [cur EXCEPT ![p] = Head(free)]
  /\ Goto(p, Returned(p))
  /\ UNCHANGED <<data, freeWanted, ioq, disk, errs, task, want, ret, keep, wchan>>

(* getblk and geteblk: the oldest available buffer is reassigned.          *)
GetblkReassign(p) ==
  /\ Miss(p)
  /\ free # <<>>
  /\ "DELWRI" \notin flags[Head(free)]
  /\ free' = Tail(free)
  /\ flags' = [flags EXCEPT ![Head(free)] = {"BUSY"}]
  /\ blk' = [blk EXCEPT ![Head(free)] = want[p]]
  /\ cur' = [cur EXCEPT ![p] = Head(free)]
  /\ Goto(p, Returned(p))
  /\ UNCHANGED <<data, freeWanted, ioq, disk, errs, task, want, ret, keep, wchan>>

(* The end of an asynchronous bwrite of a delayed write: B_AGE is set      *)
(* after d_strategy has returned, when the interrupt may have come.        *)
SetAge(p) ==
  /\ At(p, "age") \/ At(p, "agedone")
  /\ flags' = [flags EXCEPT ![cur[p]] = @ \cup {"AGE"}]
  /\ Goto(p, IF pc[p] = "agedone" THEN "idle"
             ELSE IF task[p].op = "bflush" THEN "bflush" ELSE "getblk")
  /\ UNCHANGED <<blk, data, free, freeWanted, ioq, disk, errs, local, wchan>>

---------------------------------------------------------------------------
(* bread and breada.                                                       *)

(* bread and breada with the buffer of their block: done, or start to read. *)
ReadBlock(p) ==
  /\ At(p, "got")
  /\ ret[p] \in {"bread", "breada"}
  /\ IF "DONE" \in flags[cur[p]]
       THEN UNCHANGED <<flags, ioq>>
       ELSE Strategy(cur[p], flags[cur[p]] \cup {"READ"})
  /\ IF ret[p] = "breada"
       THEN Goto(p, "readahead") /\ keep' = [keep EXCEPT ![p] = cur[p]]
       ELSE /\ Goto(p, IF "DONE" \in flags[cur[p]] THEN "hold" ELSE "iowait")
            /\ UNCHANGED keep
  /\ UNCHANGED <<blk, data, free, freeWanted, disk, errs, task, want, ret, cur, wchan>>

(* Mutant: breada asks for the read-ahead block without the incore test.   *)
ReadaheadAlways(p) ==
  /\ At(p, "readahead")
  /\ want' = [want EXCEPT ![p] = task[p].ra]
  /\ ret' = [ret EXCEPT ![p] = "readahead"]
  /\ Goto(p, "getblk")
  /\ UNCHANGED <<cache, task, cur, keep, wchan>>

(* breada: is there a read-ahead block, and is it in core already?         *)
Readahead(p) ==
  /\ At(p, "readahead")
  /\ IF task[p].ra # None /\ ~incore(task[p].ra)
       THEN /\ want' = [want EXCEPT ![p] = task[p].ra]
            /\ ret' = [ret EXCEPT ![p] = "readahead"]
            /\ Goto(p, "getblk")
       ELSE Goto(p, "finish") /\ UNCHANGED <<want, ret>>
  /\ UNCHANGED <<cache, task, cur, keep, wchan>>

(* Mutant: the read-ahead is not marked asynchronous.                      *)
ReadaheadGotSync(p) ==
  /\ At(p, "got")
  /\ ret[p] = "readahead"
  /\ IF "DONE" \in flags[cur[p]]
       THEN Brelse(cur[p], flags[cur[p]]) /\ UNCHANGED ioq
       ELSE /\ Strategy(cur[p], flags[cur[p]] \cup {"READ"})
            /\ UNCHANGED <<blk, free, freeWanted, wchan>>
  /\ Goto(p, "finish")
  /\ UNCHANGED <<data, disk, errs, local>>

(* breada with the buffer of the read-ahead block.                         *)
ReadaheadGot(p) ==
  /\ At(p, "got")
  /\ ret[p] = "readahead"
  /\ IF "DONE" \in flags[cur[p]]
       THEN Brelse(cur[p], flags[cur[p]]) /\ UNCHANGED ioq
       ELSE /\ Strategy(cur[p], flags[cur[p]] \cup {"READ", "ASYNC"})
            /\ UNCHANGED <<blk, free, freeWanted, wchan>>
  /\ Goto(p, "finish")
  /\ UNCHANGED <<data, disk, errs, local>>

(* breada: wait for the block itself, or bread it if it was in core.       *)
BreadaFinish(p) ==
  /\ At(p, "finish")
  /\ ret' = [ret EXCEPT ![p] = "bread"]
  /\ IF keep[p] = None
       THEN /\ want' = [want EXCEPT ![p] = task[p].blk]
            /\ Goto(p, "getblk")
            /\ UNCHANGED cur
       ELSE /\ cur' = [cur EXCEPT ![p] = keep[p]]
            /\ Goto(p, "iowait")
            /\ UNCHANGED want
  /\ keep' = [keep EXCEPT ![p] = None]
  /\ UNCHANGED <<cache, task, wchan>>

IowaitSleep(p) ==
  /\ At(p, "iowait")
  /\ "DONE" \notin flags[cur[p]]
  /\ Sleep(p, cur[p], "iowait")
  /\ UNCHANGED <<cache, local>>

IowaitDone(p) ==
  /\ At(p, "iowait")
  /\ "DONE" \in flags[cur[p]]
  /\ Goto(p, IF ret[p] = "bwrite" THEN "release" ELSE "hold")
  /\ UNCHANGED <<cache, local, wchan>>

---------------------------------------------------------------------------
(* The caller has the buffer and gives it back.                            *)

(* A failed read is given back at once: the callers test B_ERROR, or       *)
(* u.u_error as geterror set it.  (A failing asynchronous request between  *)
(* GetblkScan and GetblkTake makes getblk return a buffer that has lost    *)
(* its block, and the caller knows nothing of the error; the model lets it *)
(* give up too rather than index the driver switch with b_dev = NODEV.)    *)
GivesUp(p) == "ERROR" \in flags[cur[p]]

Writes(p, rel) ==
  /\ At(p, "hold")
  /\ task[p].op # "bmap"
  /\ task[p].rel = rel
  /\ ~GivesUp(p)

Modify(x) == \E d \in Data : data' = [data EXCEPT ![x] = d]

HoldBrelse(p) ==
  /\ At(p, "hold")
  /\ GivesUp(p) \/ task[p].rel = "brelse"
  /\ Brelse(cur[p], flags[cur[p]])
  /\ Goto(p, "idle")
  /\ UNCHANGED <<data, ioq, disk, errs, local>>

(* Mutant: bdwrite does not mark the buffer for writing.                   *)
HoldBdwriteUnmarked(p) ==
  /\ Writes(p, "bdwrite")
  /\ Modify(cur[p])
  /\ Brelse(cur[p], flags[cur[p]] \cup {"DONE"})
  /\ Goto(p, "idle")
  /\ UNCHANGED <<ioq, disk, errs, local>>

HoldBdwrite(p) ==
  /\ Writes(p, "bdwrite")
  /\ Modify(cur[p])
  /\ Brelse(cur[p], flags[cur[p]] \cup {"DELWRI", "DONE"})
  /\ Goto(p, "idle")
  /\ UNCHANGED <<ioq, disk, errs, local>>

HoldBawrite(p) ==
  /\ Writes(p, "bawrite")
  /\ Modify(cur[p])
  /\ Strategy(cur[p], WriteFlags(flags[cur[p]] \cup {"ASYNC"}))
  /\ Goto(p, IF "DELWRI" \in flags[cur[p]] THEN "agedone" ELSE "idle")
  /\ UNCHANGED <<blk, free, freeWanted, disk, errs, local, wchan>>

HoldBwrite(p) ==
  /\ Writes(p, "bwrite")
  /\ Modify(cur[p])
  /\ Strategy(cur[p], WriteFlags(flags[cur[p]]))
  /\ ret' = [ret EXCEPT ![p] = "bwrite"]
  /\ Goto(p, "iowait")
  /\ UNCHANGED <<blk, free, freeWanted, disk, errs, task, want, cur, keep, wchan>>

(* bwrite after iowait.                                                    *)
BwriteRelease(p) ==
  /\ At(p, "release")
  /\ Brelse(cur[p], flags[cur[p]])
  /\ Goto(p, "idle")
  /\ UNCHANGED <<data, ioq, disk, errs, local>>

(* bmap keeps the indirect block busy while alloc obtains a new block,     *)
(* clears and delays the new one, and then delays the indirect block.      *)
BmapAlloc(p) ==
  /\ At(p, "hold")
  /\ task[p].op = "bmap"
  /\ ~GivesUp(p)
  /\ keep' = [keep EXCEPT ![p] = cur[p]]
  /\ want' = [want EXCEPT ![p] = task[p].ra]
  /\ ret' = [ret EXCEPT ![p] = "bmap"]
  /\ Goto(p, "getblk")
  /\ UNCHANGED <<cache, task, cur, wchan>>

BmapFill(p) ==
  /\ At(p, "fill")
  /\ Modify(cur[p])
  /\ Brelse(cur[p], IF GivesUp(p) THEN flags[cur[p]]
                                  ELSE flags[cur[p]] \cup {"DELWRI", "DONE"})
  /\ cur' = [cur EXCEPT ![p] = keep[p]]
  /\ keep' = [keep EXCEPT ![p] = None]
  /\ Goto(p, "link")
  /\ UNCHANGED <<ioq, disk, errs, task, want, ret>>

BmapLink(p) ==
  /\ At(p, "link")
  /\ Modify(cur[p])
  /\ Brelse(cur[p], flags[cur[p]] \cup {"DELWRI", "DONE"})
  /\ Goto(p, "idle")
  /\ UNCHANGED <<ioq, disk, errs, local>>

---------------------------------------------------------------------------
(* bflush starts the first delayed write of the available list and looks   *)
(* again from the head, until there is none.                               *)
Delayed(i) == i \in DOMAIN free /\ "DELWRI" \in flags[free[i]]

BflushWrite(p) ==
  /\ At(p, "bflush")
  /\ \E i \in DOMAIN free :
       /\ Delayed(i) /\ \A j \in 1 .. i - 1 : ~Delayed(j)
       /\ free' = RemoveAt(free, i)
       /\ Strategy(free[i], WriteFlags(flags[free[i]] \cup {"BUSY", "ASYNC"}))
       /\ cur' = [cur EXCEPT ![p] = free[i]]
  /\ Goto(p, "age")
  /\ UNCHANGED <<blk, data, freeWanted, disk, errs, task, want, ret, keep, wchan>>

BflushReturn(p) ==
  /\ At(p, "bflush")
  /\ \A i \in DOMAIN free : ~Delayed(i)
  /\ Goto(p, "idle")
  /\ UNCHANGED <<cache, local, wchan>>

---------------------------------------------------------------------------
(* Mutant: iodone wakes only if B_WANTED is set, which iowait never does.  *)
IodoneIfWanted(x, fl) ==
  IF "ASYNC" \in fl
    THEN Brelse(x, fl \cup {"DONE"})
    ELSE /\ flags' = [flags EXCEPT ![x] = (fl \cup {"DONE"}) \ {"WANTED"}]
         /\ Wakeup(IF "WANTED" \in fl THEN {x} ELSE {})
         /\ UNCHANGED <<blk, free, freeWanted>>

(* iodone: the buffer is done; it is released (asynchronous) or its waiters *)
(* are woken.                                                              *)
Iodone(x, fl) ==
  IF "ASYNC" \in fl
    THEN Brelse(x, fl \cup {"DONE"})
    ELSE /\ flags' = [flags EXCEPT ![x] = (fl \cup {"DONE"}) \ {"WANTED"}]
         /\ Wakeup({x})
         /\ UNCHANGED <<blk, free, freeWanted>>

(* The disk interrupt: hdio takes the finished request off the queue.      *)
Intr ==
  /\ ioq # <<>>
  /\ LET x == Head(ioq) IN
       /\ IF "READ" \in flags[x]
            THEN data' = [data EXCEPT ![x] = disk[blk[x]]] /\ UNCHANGED disk
            ELSE disk' = [disk EXCEPT ![blk[x]] = data[x]] /\ UNCHANGED data
       /\ Iodone(x, flags[x])
  /\ ioq' = Tail(ioq)
  /\ UNCHANGED <<errs, local, pc, cpu>>

(* The request still fails after ten retries (hdio): a read leaves         *)
(* anything in the buffer, a write may or may not have reached the block.  *)
IntrError ==
  /\ ioq # <<>>
  /\ errs < MaxErrors
  /\ errs' = errs + 1
  /\ LET x == Head(ioq) IN
       /\ IF "READ" \in flags[x]
            THEN Modify(x) /\ UNCHANGED disk
            ELSE /\ disk' \in {disk, [disk EXCEPT ![blk[x]] = data[x]]}
                 /\ UNCHANGED data
       /\ Iodone(x, flags[x] \cup {"ERROR"})
  /\ ioq' = Tail(ioq)
  /\ UNCHANGED <<local, pc, cpu>>

---------------------------------------------------------------------------
Step(p) ==
  \/ GetblkScan(p) \/ GetblkBusy(p) \/ GetblkTake(p)
  \/ GetblkEmpty(p) \/ GetblkFlush(p) \/ GetblkReassign(p) \/ SetAge(p)
  \/ ReadBlock(p) \/ Readahead(p) \/ ReadaheadGot(p) \/ BreadaFinish(p)
  \/ IowaitSleep(p) \/ IowaitDone(p)
  \/ HoldBrelse(p) \/ HoldBdwrite(p) \/ HoldBawrite(p) \/ HoldBwrite(p)
  \/ BwriteRelease(p) \/ BmapAlloc(p) \/ BmapFill(p) \/ BmapLink(p)
  \/ BflushWrite(p) \/ BflushReturn(p)

Next == (\E p \in Proc : Start(p) \/ Step(p)) \/ Intr \/ IntrError

Spec == Init /\ [][Next]_vars

(* The processor is never idle while a process can run (swtch), and a      *)
(* started request is completed by the disk.                               *)
Fairness == WF_vars(\E p \in Proc : Step(p)) /\ WF_vars(Intr)

FairSpec == Spec /\ Fairness
---------------------------------------------------------------------------
(* Properties.                                                             *)

TypeOK ==
  /\ blk \in [Buf -> Blk \cup {None}]
  /\ flags \in [Buf -> SUBSET Flag]
  /\ data \in [Buf -> Data]
  /\ free \in Seq(Buf)
  /\ freeWanted \in BOOLEAN
  /\ ioq \in Seq(Buf)
  /\ disk \in [Blk -> Data]
  /\ errs \in 0 .. MaxErrors
  /\ pc \in [Proc -> Labels]
  /\ task \in [Proc -> Tasks \cup {NoTask}]
  /\ want \in [Proc -> Blk \cup {None}]
  /\ ret \in [Proc -> Returns]
  /\ cur \in [Proc -> Buf \cup {None}]
  /\ keep \in [Proc -> Buf \cup {None}]
  /\ wchan \in [Proc -> Buf \cup {FreeList, None}]
  /\ cpu \in Proc \cup {None}

(* buf.h: a buffer is on the available list, and is liable to be           *)
(* reassigned, if and only if it is not marked B_BUSY; and it is there once. *)
FreeIffNotBusy ==
  /\ \A x \in Buf : x \in ToSet(free) <=> "BUSY" \notin flags[x]
  /\ IsInjective(free)

(* getblk: however the processes interleave while they sleep, two buffers  *)
(* never stand for the same block.                                         *)
OneBufferPerBlock ==
  \A x, y \in Buf : blk[x] = blk[y] /\ blk[x] # None => x = y

(* The buffers a process has obtained and not given back.                  *)
Held(p) ==
  (IF pc[p] \in {"got", "hold", "iowait", "fill", "link", "release"}
     THEN {cur[p]} ELSE {})
  \cup (IF keep[p] # None THEN {keep[p]} ELSE {})

(* bio.c: a busy buffer is held by exactly one process, or by the driver   *)
(* alone when its request is asynchronous; none is ever leaked.            *)
BusyOwned ==
  /\ \A p, q \in Proc : p # q => Held(p) \cap Held(q) = {}
  /\ \A x \in Buf :
       "BUSY" \in flags[x] <=> \/ \E p \in Proc : x \in Held(p)
                               \/ x \in ToSet(ioq) /\ "ASYNC" \in flags[x]
  /\ \A x \in ToSet(ioq), p \in Proc :
       x \in Held(p) => "ASYNC" \notin flags[x] /\ "DONE" \notin flags[x]

(* So every buffer is at every moment in one place: once on the available  *)
(* list, in the hands of one process, or with the driver alone; no path    *)
(* through the cache, with its sleeps, errors and interrupts, loses it or  *)
(* gives it to two.                                                        *)
BuffersOnce == FreeIffNotBusy /\ BusyOwned

(* sleep and wakeup in getblk and iowait: a sleeper's event is still to    *)
(* come, and whoever causes it knows that it must wake it.                 *)
WakeupDue(p) ==
  /\ wchan[p] = FreeList => free = <<>> /\ freeWanted
  /\ wchan[p] \in Buf /\ pc[p] = "getblk" =>
       {"BUSY", "WANTED"} \subseteq flags[wchan[p]]
  /\ wchan[p] \in Buf /\ pc[p] = "iowait" => wchan[p] \in ToSet(ioq)

NoLostWakeup == \A p \in Proc : WakeupDue(p)

(* A buffer that is up to date and clean agrees with the disk: reassigning *)
(* it loses nothing (getblk).                                              *)
CleanMatchesDisk ==
  errs = 0 => \A x \in ToSet(free) :
    blk[x] # None /\ "DONE" \in flags[x] /\ "DELWRI" \notin flags[x]
      => data[x] = disk[blk[x]]

(* bwrite returns only when the block has reached the disk (bwrite: "Write *)
(* the buffer, waiting for completion").                                   *)
BwriteDurable ==
  \A p \in Proc : pc[p] = "release" /\ "ERROR" \notin flags[cur[p]]
    => disk[blk[cur[p]]] = data[cur[p]]

(* Processes that wait for a buffer which only another of them can release *)
(* would wait for ever.  breada and bmap hold one buffer while they obtain *)
(* another; incore is there so that breada does not wait for a busy block, *)
(* and the pool must be larger than the number of buffers so held.         *)
WaitsForHolder(p, S) ==
  /\ pc[p] = "getblk"
  /\ \/ \E q \in S : wchan[p] \in Held(q)
     \/ wchan[p] = FreeList /\ \A x \in Buf : \E q \in S : x \in Held(q)

NoDeadlyEmbrace ==
  ~ \E S \in SUBSET Proc : S # {} /\ \A p \in S : WaitsForHolder(p, S)

(* If processes stop entering the cache, all that are in it come out: no   *)
(* wakeup is lost and no request is forgotten.                             *)
EveryTaskEnds ==
  <>[][~ \E p \in Proc : Start(p)]_vars => <>[](\A p \in Proc : pc[p] = "idle")

---------------------------------------------------------------------------
(* The strengthening of the safety invariants that every step preserves.   *)

(* A delayed write has a block, valid contents and no error; only a busy   *)
(* buffer is marked asynchronous.                                          *)
FlagsOK ==
  \A x \in Buf :
    /\ "DELWRI" \in flags[x] =>
         blk[x] # None /\ "DONE" \in flags[x] /\ "ERROR" \notin flags[x]
    /\ "ASYNC" \in flags[x] => "BUSY" \in flags[x]

QueueOK ==
  /\ IsInjective(ioq)
  /\ \A x \in ToSet(ioq) :
       /\ blk[x] # None /\ "BUSY" \in flags[x] /\ "DONE" \notin flags[x]
       /\ "ASYNC" \in flags[x] \/ \E p \in Proc : x \in Held(p)

(* The buffer of a block that getblk returned is associated with a block,  *)
(* or it has failed and been given up.                                     *)
Usable(x) == blk[x] # None \/ {"DONE", "ERROR"} \subseteq flags[x]

HeldOK(p) ==
  \A x \in Held(p) :
    /\ x \in Buf /\ "BUSY" \in flags[x] /\ "ASYNC" \notin flags[x]
    /\ Usable(x) \/ (pc[p] = "hold" /\ task[p].op = "geteblk")

(* What bmap keeps has been read, and is not queued.                       *)
KeepOK(p) ==
  /\ keep[p] # None =>
       \/ /\ task[p].op = "breada"
          /\ \/ pc[p] \in {"readahead", "finish"}
             \/ pc[p] \in {"getblk", "found", "age", "got"} /\ ret[p] = "readahead"
          /\ "DONE" \in flags[keep[p]] \/ keep[p] \in ToSet(ioq)
       \/ /\ task[p].op = "bmap"
          /\ ret[p] = "bmap" /\ pc[p] \in {"getblk", "found", "age", "fill"}
          /\ keep[p] \notin ToSet(ioq)
          /\ blk[keep[p]] # None /\ "ERROR" \notin flags[keep[p]]
  /\ pc[p] = "fill" \/ (ret[p] = "bmap" /\ pc[p] \in {"getblk", "found", "age"})
       => task[p].op = "bmap" /\ keep[p] # None

(* Where a process stands says what it knows of the buffer in its hands.   *)
CurOK(p) ==
  /\ pc[p] \in {"got", "hold", "iowait", "fill", "link", "release"} =>
       cur[p] \in Buf /\ cur[p] # keep[p]
  /\ pc[p] \in {"got", "hold", "fill", "link", "release"} =>
       cur[p] \notin ToSet(ioq)
  /\ pc[p] = "iowait" =>
       "DONE" \in flags[cur[p]] \/ cur[p] \in ToSet(ioq)
  /\ pc[p] = "link" =>
       blk[cur[p]] # None /\ "ERROR" \notin flags[cur[p]]
  /\ pc[p] = "found" =>
       /\ cpu = p /\ wchan[p] = None /\ want[p] # None
       /\ cur[p] \in Buf /\ Usable(cur[p])
  /\ pc[p] \in {"age", "agedone"} => cur[p] \in Buf
  /\ want[p] = None /\ (pc[p] = "getblk" \/ (pc[p] = "age" /\ task[p].op # "bflush")) =>
       task[p].op = "geteblk" /\ ret[p] = "caller"

(* Which task a process runs, as far as where it stands tells.             *)
PathOK(p) ==
  /\ ret[p] \in {"breada", "readahead"} \/ pc[p] \in {"readahead", "finish"} =>
       task[p].op = "breada"
  /\ pc[p] \in {"getblk", "found"} => task[p].op # "bflush"
  /\ pc[p] = "bflush" => task[p].op = "bflush"
  /\ pc[p] \in {"age", "bflush"} /\ task[p].op = "bflush" => ret[p] = "caller"

SleepOK(p) ==
  wchan[p] # None =>
    \/ pc[p] = "getblk" /\ wchan[p] = FreeList
    \/ pc[p] = "getblk" /\ wchan[p] \in Buf
    \/ pc[p] = "iowait" /\ wchan[p] = cur[p]

SharedOK ==
  /\ FreeIffNotBusy
  /\ OneBufferPerBlock
  /\ BusyOwned
  /\ NoLostWakeup
  /\ FlagsOK
  /\ QueueOK

ProcOK(p) == HeldOK(p) /\ KeepOK(p) /\ CurOK(p) /\ PathOK(p) /\ SleepOK(p)

(* The inductive invariant.                                                *)
IndInv == TypeOK /\ SharedOK /\ \A p \in Proc : ProcOK(p)

(* What the buffers contain.  Unless the disk has failed, no buffer has,   *)
(* and every buffer that is done and not a delayed write is as its block.  *)
CleanOK ==
  errs = 0 => \A x \in Buf :
    /\ "ERROR" \notin flags[x]
    /\ blk[x] # None /\ "DONE" \in flags[x] /\ "DELWRI" \notin flags[x]
         => data[x] = disk[blk[x]]

(* What bwrite waits for is a write, and has reached the disk or failed.   *)
WriteOK(p) ==
  pc[p] = "release" \/ (pc[p] = "iowait" /\ ret[p] = "bwrite") =>
    \/ cur[p] \in ToSet(ioq) /\ "READ" \notin flags[cur[p]]
    \/ /\ cur[p] \notin ToSet(ioq)
       /\ \/ "ERROR" \in flags[cur[p]]
          \/ blk[cur[p]] # None /\ disk[blk[cur[p]]] = data[cur[p]]

(* The block that a process seeks, and the one whose buffer it has, is the *)
(* one its task names, wherever it has slept.                              *)
Sought(p) == IF ret[p] \in {"bmap", "readahead"} THEN task[p].ra ELSE task[p].blk

TargetOK(p) ==
  /\ pc[p] \in {"getblk", "found", "age", "got", "fill", "bflush"} =>
       want[p] = Sought(p)
  /\ pc[p] \in {"found", "got", "fill"} => blk[cur[p]] = want[p]
  /\ pc[p] \in {"hold", "iowait", "link"} => blk[cur[p]] = task[p].blk
  /\ keep[p] # None => blk[keep[p]] = task[p].blk
  /\ pc[p] \in {"getblk", "found", "age"} /\ task[p].op = "bmap" =>
       ret[p] \in {"bread", "bmap"}
  /\ pc[p] \in {"got", "hold", "iowait"} /\ task[p].op = "bmap" => ret[p] = "bread"
  /\ pc[p] = "link" => task[p].op = "bmap"

(* The inductive invariant with the contents.                              *)
DataInv ==
  /\ IndInv
  /\ CleanOK
  /\ \A p \in Proc : WriteOK(p) /\ (errs = 0 => TargetOK(p))

---------------------------------------------------------------------------
(* The cache implements BlockStore: the value of a block is in its buffer  *)
(* if that is up to date or is being written, and on the disk otherwise.   *)
UpToDate(x) ==
  "DONE" \in flags[x] \/ (x \in ToSet(ioq) /\ "READ" \notin flags[x])

Value(b) ==
  IF \E x \in Buf : blk[x] = b /\ UpToDate(x)
    THEN data[CHOOSE x \in Buf : blk[x] = b /\ UpToDate(x)]
    ELSE disk[b]

(* The buffer of a block that a process has read and still holds.          *)
ReadBuffer(p) ==
  CASE task[p].op = "bmap" /\ keep[p] # None           -> keep[p]
    [] pc[p] = "link"                                  -> cur[p]
    [] pc[p] = "hold" /\ ret[p] = "bread"              -> cur[p]
    [] OTHER                                           -> None

Seen(p) ==
  LET x == ReadBuffer(p) IN
  IF x = None THEN None ELSE [blk |-> blk[x], val |-> data[x]]

(* The blocks a process entered the cache to write and has not yet stored  *)
(* to: the block of its task, and the one that bmap allocates before it.   *)
ToStore(p) ==
  IF \/ task[p].rel = "brelse"
     \/ pc[p] \in {"idle", "agedone", "release"}
     \/ pc[p] = "iowait" /\ ret[p] = "bwrite"
    THEN {}
    ELSE {task[p].blk}
           \cup (IF task[p].op = "bmap" /\ pc[p] # "link" THEN {task[p].ra} ELSE {})

Abstract == INSTANCE BlockStore
              WITH store <- [b \in Blk |-> Value(b)],
                   seen  <- [p \in Proc |-> Seen(p)],
                   todo  <- [p \in Proc |-> ToStore(p)]

(* Whatever is cached, delayed, read ahead or being evicted, the cache     *)
(* behaves as one register per block.                                      *)
ImplementsBlockStore == Abstract!Spec
=============================================================================
