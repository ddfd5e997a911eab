----------------------------- MODULE FileSystem -----------------------------
(***************************************************************************)
(* The blocks and inodes of one mounted file system: the free list and the *)
(* spare inodes of the super block in core (alloc, free, ialloc, ifree of  *)
(* sys/alloc.c), the inode table (iget, iput, iupdat, itrunc of sys/iget.c) *)
(* and the system calls on files that use them: open, creat, unlink, write, *)
(* close and the inodes of sync.                                           *)
(*                                                                         *)
(* A block of the device is one register, which is what BufferCache shows  *)
(* of the cache, but reading or obtaining one may sleep.  A process keeps  *)
(* the processor (cpu) until it sleeps.                                    *)
(***************************************************************************)
EXTENDS Naturals, Sequences, FiniteSets, SequencesExt

CONSTANTS
  Proc,     \* processes
  Su,       \* those whose open does not look at the mode: the super user's, for
            \* whom access returns 0 first, and those that ask neither to read
            \* nor to write, for whom open1 does not call access
  Slot,     \* what the files have of the inode table inode[NINODE]; the
            \* directories' inodes are in core all the time
  Blk,      \* the blocks of the volume that hold data
  Name,     \* the entries of the directories, one in each
  None,     \* no inode, block, slot, process; block number 0
  NINO,     \* the i-list is 1 .. NINO
  NADDR,    \* addresses in an inode, all direct
  NICFREE,  \* free blocks in the super block
  NICINOD,  \* spare inodes in the super block
  FreeAtStart, \* how many blocks may be free when the volume is mounted
  Calls     \* the system calls the processes make

Ino == 1 .. NINO

CallNames == {"open", "creat", "unlink", "write", "close", "sync"}

ASSUME FileSystemAssumption ==
  /\ None \notin Proc \cup Slot \cup Blk \cup Name \cup Nat \cup CallNames
  /\ Su \subseteq Proc
  /\ IsFiniteSet(Proc) /\ IsFiniteSet(Name) /\ IsFiniteSet(Blk)
  /\ NINO \in Nat \ {0} /\ NADDR \in Nat
  /\ FreeAtStart \subseteq 0 .. Cardinality(Blk)
  /\ NICFREE \in Nat \ {0} /\ NICINOD \in Nat \ {0}
  /\ Calls \subseteq CallNames

VARIABLES
  s_free,   \* s_free[0 .. s_nfree-1], the last first to be allocated
  s_flock,  \* the free list is locked
  link,     \* df_free of a block that links the free list
  s_inode,  \* s_inode[0 .. s_ninode-1]
  s_ilock,  \* how many processes scan the i-list, as far as it counts
  inode,    \* the inode table: i_number, the owner of ILOCK, i_count, whether
            \* IUPD, IACC or ICHG is set, and the inode
  dinode,   \* the i-list; 0 stands for all the files not followed here
  dir,      \* the directories: the i-number of each entry
  dlock,    \* who has locked the inode of the directory of an entry
  fd,       \* the open file of a process, a slot
  pc,       \* where a process stands
  u,        \* what it knows there
  cpu       \* the process that runs in the kernel

super == <<s_free, s_flock, link, s_inode, s_ilock>>
vars  == <<super, inode, dinode, dir, dlock, fd, pc, u, cpu>>

Labels == {"idle", "plock", "dlock", "namei", "iget", "iread", "open1", "itrunc",
           "free", "freecopy", "freed", "iput", "ifree", "iupdat", "bmap",
           "alloc", "allocread", "allocbuf", "ialloc", "ialloop", "iascan",
           "iagot", "wdir", "unlink"}

(* Places before which the kernel reads or obtains a block: it may sleep.  *)
Reads == {"idle", "namei", "iread", "wdir", "unlink", "iupdat", "freecopy",
          "freed", "allocread", "allocbuf", "iascan"}

(* An inode as the i-list and the table hold it; mode is i_mode # 0.       *)
Inode == [mode : BOOLEAN, nlink : Nat, addr : Seq(Blk)]
Free0 == [mode |-> FALSE, nlink |-> 0, addr |-> <<>>]

(* The system call, its name, i-number, inode, block in hand, position in  *)
(* the i-list and the place iget or iput returns to.                       *)
Frame == [call : Calls \cup {None}, name : Name \cup {None},
          ino : Ino \cup {None}, ip : Slot \cup {None}, bn : Blk \cup {None},
          at : 0 .. NINO + 1, then : Labels]

NoFrame == [call |-> None, name |-> None, ino |-> None, ip |-> None,
            bn |-> None, at |-> 0, then |-> "idle"]

Entry == [num : Ino \cup {None}, lock : Proc \cup {None}, count : Nat,
          upd : BOOLEAN, i : Inode]
NoEntry == [num |-> None, lock |-> None, count |-> 0, upd |-> FALSE, i |-> Free0]

(* A new volume is made by freeing its blocks one by one (mkfs).           *)
WithFree(l, b) ==
  IF Len(l.free) < NICFREE
    THEN [l EXCEPT !.free = Append(@, b)]
    ELSE [free |-> <<b>>, link |-> [l.link EXCEPT ![b] = l.free]]

Made(bs) ==
  LET l[k \in 0 .. Len(bs)] ==
        IF k = 0 THEN [free |-> <<None>>, link |-> [b \in Blk |-> <<>>]]
                 ELSE WithFree(l[k - 1], bs[k])
  IN  l[Len(bs)]

Init ==
  /\ \E bs \in [1 .. Cardinality(Blk) -> Blk], k \in FreeAtStart :
       /\ IsInjective(bs)
       /\ s_free = Made(SubSeq(bs, 1, k)).free
       /\ link = Made(SubSeq(bs, 1, k)).link
       /\ dinode = [n \in Ino \cup {0} |->
                      IF n = 0 THEN [mode |-> TRUE, nlink |-> 1,
                                     addr |-> SubSeq(bs, k + 1, Len(bs))]
                               ELSE Free0]
  /\ s_flock = FALSE
  /\ s_inode = <<>>
  /\ s_ilock = 0
  /\ inode = [s \in Slot |-> NoEntry]
  /\ dir = [f \in Name |-> None]
  /\ dlock = [f \in Name |-> None]
  /\ fd = [p \in Proc |-> None]
  /\ pc = [p \in Proc |-> "idle"]
  /\ u = [p \in Proc |-> NoFrame]
  /\ cpu = None

---------------------------------------------------------------------------
(* Scheduling: a process sleeps for a lock, or where it reads a block.     *)

Unlocked(s) == inode[s].lock = None
InCore(n) == \E s \in Slot : inode[s].num = n

(* The tests before which a process sleeps until someone wakes it.         *)
Blocked(p) ==
  \/ pc[p] = "dlock" /\ dlock[u[p].name] # None
  \/ pc[p] = "plock" /\ ~Unlocked(u[p].ip)
  \/ pc[p] = "iget" /\ \E s \in Slot : inode[s].num = u[p].ino /\ ~Unlocked(s)
  \/ pc[p] \in {"free", "alloc"} /\ s_flock
  \/ pc[p] = "ialloc" /\ s_ilock # 0

(* A spare inode too many is written over s_flock and s_ilock (Iascan);    *)
(* what the kernel does after that is not modelled.                        *)
At(p, l) ==
  pc[p] = l /\ cpu \in {None, p} /\ ~Blocked(p) /\ Len(s_inode) <= NICINOD

Goto(p, l) ==
  /\ pc' = [pc EXCEPT ![p] = l]
  /\ cpu' = IF l \in Reads THEN None ELSE p

Sleep(p) ==
  /\ cpu = p
  /\ Blocked(p)
  /\ cpu' = None
  /\ UNCHANGED <<super, inode, dinode, dir, dlock, fd, pc, u>>

Ip(p) == inode[u[p].ip]

---------------------------------------------------------------------------
(* The system calls up to their first sleep.                               *)

Enter(p, c) ==
  /\ At(p, "idle")
  /\ c \in Calls

(* open, creat and unlink look a name up: namei gets the directory of the  *)
(* name, or sleeps.  A process has one file at most.                       *)
StartName(p) ==
  /\ \E c \in {"open", "creat", "unlink"}, f \in Name :
       /\ Enter(p, c)
       /\ c = "unlink" \/ fd[p] = None
       /\ u' = [u EXCEPT ![p] = [NoFrame EXCEPT !.call = c, !.name = f]]
       /\ IF dlock[f] = None
            THEN dlock' = [dlock EXCEPT ![f] = p] /\ Goto(p, "namei")
            ELSE UNCHANGED dlock /\ Goto(p, "dlock")
  /\ UNCHANGED <<super, inode, dinode, dir, fd>>

(* plock of inode s, to go on at l.                                        *)
Lock(p, c, s, l) ==
  IF Unlocked(s)
    THEN /\ inode' = [inode EXCEPT ![s].lock = p]
         /\ u' = [u EXCEPT ![p] = [NoFrame EXCEPT !.call = c, !.ip = s]]
         /\ Goto(p, l)
    ELSE /\ u' = [u EXCEPT ![p] = [NoFrame EXCEPT !.call = c, !.ip = s, !.then = l]]
         /\ Goto(p, "plock")
         /\ UNCHANGED inode

(* write: rdwr locks the inode of the file.                                *)
StartWrite(p) ==
  /\ Enter(p, "write")
  /\ fd[p] # None
  /\ Lock(p, "write", fd[p], "bmap")
  /\ UNCHANGED <<super, dinode, dir, dlock, fd>>

(* close takes the file from the process before closef locks the inode.    *)
StartClose(p) ==
  /\ Enter(p, "close")
  /\ fd[p] # None
  /\ fd' = [fd EXCEPT ![p] = None]
  /\ Lock(p, "close", fd[p], "iput")
  /\ UNCHANGED <<super, dinode, dir, dlock>>

(* update, at one inode of its loop over the table: one that is locked is  *)
(* passed over, one without changes is not written.                        *)
StartSync(p) ==
  /\ Enter(p, "sync")
  /\ \A q \in Proc : u[q].call # "sync"
  /\ \E s \in Slot :
       /\ Unlocked(s) /\ inode[s].count > 0 /\ inode[s].upd
       /\ inode' = [inode EXCEPT ![s].lock = p, ![s].count = @ + 1]
       /\ u' = [u EXCEPT ![p] = [NoFrame EXCEPT !.call = "sync", !.ip = s,
                                             !.then = "iput"]]
  /\ Goto(p, "iupdat")
  /\ UNCHANGED <<super, dinode, dir, dlock, fd>>

Plock(p) ==
  /\ At(p, "plock")
  /\ Lock(p, u[p].call, u[p].ip, u[p].then)
  /\ UNCHANGED <<super, dinode, dir, dlock, fd>>

(* The end of a system call.                                               *)
Return(p) ==
  /\ u' = [u EXCEPT ![p] = NoFrame]
  /\ Goto(p, "idle")

(* iput of the directory, by whoever still has it.                         *)
Putdir(p) == dlock' = [f \in Name |-> IF dlock[f] = p THEN None ELSE dlock[f]]

---------------------------------------------------------------------------
(* namei, of a name in a directory.                                        *)

(* The directory has been unlocked.                                        *)
NameiLock(p) ==
  /\ At(p, "dlock")
  /\ dlock' = [dlock EXCEPT ![u[p].name] = p]
  /\ Goto(p, "namei")
  /\ UNCHANGED <<super, inode, dinode, dir, fd, u>>

Found(p) ==
  IF u[p].call = "unlink"
    THEN [u[p] EXCEPT !.ino = dir[u[p].name], !.then = "unlink"]
    ELSE [u[p] EXCEPT !.ino = dir[u[p].name], !.then = "open1", !.name = None]

(* Mutant: unlink leaves the directory while it waits for the inode.       *)
NameiFoundPutdir(p) ==
  /\ At(p, "namei")
  /\ dir[u[p].name] # None
  /\ u' = [u EXCEPT ![p] = Found(p)]
  /\ Putdir(p)
  /\ Goto(p, "iget")
  /\ UNCHANGED <<super, inode, dinode, dir, fd>>

(* The name is found.  open and creat let the directory go before they get *)
(* the inode; unlink keeps it.                                             *)
NameiFound(p) ==
  /\ At(p, "namei")
  /\ dir[u[p].name] # None
  /\ u' = [u EXCEPT ![p] = Found(p)]
  /\ IF u[p].call = "unlink" THEN UNCHANGED dlock ELSE Putdir(p)
  /\ Goto(p, "iget")
  /\ UNCHANGED <<super, inode, dinode, dir, fd>>

(* The name is not found: creat makes a node, with the directory locked.   *)
NameiMissing(p) ==
  /\ At(p, "namei")
  /\ dir[u[p].name] = None
  /\ IF u[p].call = "creat"
       THEN Goto(p, "ialloc") /\ UNCHANGED <<dlock, u>>
       ELSE Return(p) /\ Putdir(p)
  /\ UNCHANGED <<super, inode, dinode, dir, fd>>

---------------------------------------------------------------------------
(* iget.                                                                   *)

IgetFound(p) ==
  /\ At(p, "iget")
  /\ \E s \in Slot :
       /\ inode[s].num = u[p].ino
       /\ inode' = [inode EXCEPT ![s].lock = p, ![s].count = @ + 1]
       /\ u' = [u EXCEPT ![p].ip = s]
  /\ Goto(p, u[p].then)
  /\ UNCHANGED <<super, dinode, dir, dlock, fd>>

(* Mutant: the new entry has its number only once the inode is read.       *)
IgetNewUnnamed(p) ==
  /\ At(p, "iget")
  /\ ~InCore(u[p].ino)
  /\ \E s \in Slot :
       /\ inode[s].count = 0
       /\ inode' = [inode EXCEPT ![s].num = None, ![s].lock = p,
                                 ![s].count = 1, ![s].upd = FALSE]
       /\ u' = [u EXCEPT ![p].ip = s]
  /\ Goto(p, "iread")
  /\ UNCHANGED <<super, dinode, dir, dlock, fd>>

IgetNew(p) ==
  /\ At(p, "iget")
  /\ ~InCore(u[p].ino)
  /\ \E s \in Slot :
       /\ inode[s].count = 0
       /\ inode' = [inode EXCEPT ![s].num = u[p].ino, ![s].lock = p,
                                 ![s].count = 1, ![s].upd = FALSE]
       /\ u' = [u EXCEPT ![p].ip = s]
  /\ Goto(p, "iread")
  /\ UNCHANGED <<super, dinode, dir, dlock, fd>>

(* Mutant: the caller does not put the directory when iget fails.          *)
IgetFullKeepsDir(p) ==
  /\ At(p, "iget")
  /\ ~InCore(u[p].ino)
  /\ Return(p)
  /\ UNCHANGED <<super, inode, dinode, dir, dlock, fd>>

(* The table is full, of other inodes too than those followed here         *)
(* (ENFILE): maknode and unlink let the directory go.                      *)
IgetFull(p) ==
  /\ At(p, "iget")
  /\ ~InCore(u[p].ino)
  /\ Putdir(p)
  /\ Return(p)
  /\ UNCHANGED <<super, inode, dinode, dir, fd>>

Iread(p) ==
  /\ At(p, "iread")
  /\ inode' = [inode EXCEPT ![u[p].ip].num = u[p].ino,
                            ![u[p].ip].i = dinode[u[p].ino]]
  /\ Goto(p, u[p].then)
  /\ UNCHANGED <<super, dinode, dir, dlock, fd, u>>

---------------------------------------------------------------------------
(* open1: access refuses an inode that is not allocated (it has no mode),  *)
(* but not to those in Su.  creat of a file that exists truncates it;      *)
(* itrunc does nothing with an inode without a mode.                       *)

Allowed(p) == Ip(p).i.mode \/ p \in Su

Open1Refused(p) ==
  /\ At(p, "open1")
  /\ ~Allowed(p)
  /\ u' = [u EXCEPT ![p] = [NoFrame EXCEPT !.ip = u[p].ip]]
  /\ Goto(p, "iput")
  /\ UNCHANGED <<super, inode, dinode, dir, dlock, fd>>

Open1Trunc(p) ==
  /\ At(p, "open1")
  /\ Ip(p).i.mode
  /\ u[p].call = "creat"
  /\ Ip(p).i.addr # <<>>
  /\ Goto(p, "itrunc")
  /\ UNCHANGED <<super, inode, dinode, dir, dlock, fd, u>>

(* Mutant: open does not look at the mode, whoever calls it.               *)
Open1AnyMode(p) ==
  /\ At(p, "open1")
  /\ u[p].call = "creat" => Ip(p).i.addr = <<>> \/ ~Ip(p).i.mode
  /\ inode' = [inode EXCEPT ![u[p].ip].lock = None,
                            ![u[p].ip].upd = @ \/ (u[p].call = "creat" /\ Ip(p).i.mode)]
  /\ fd' = [fd EXCEPT ![p] = u[p].ip]
  /\ Return(p)
  /\ UNCHANGED <<super, dinode, dir, dlock>>

Open1(p) ==
  /\ At(p, "open1")
  /\ Allowed(p)
  /\ u[p].call = "creat" => Ip(p).i.addr = <<>> \/ ~Ip(p).i.mode
  /\ inode' = [inode EXCEPT ![u[p].ip].lock = None,
                            ![u[p].ip].upd = @ \/ (u[p].call = "creat" /\ Ip(p).i.mode)]
  /\ fd' = [fd EXCEPT ![p] = u[p].ip]
  /\ Return(p)
  /\ UNCHANGED <<super, dinode, dir, dlock>>

---------------------------------------------------------------------------
(* itrunc and free: the blocks go back one by one, the last first.         *)

Itrunc(p) ==
  /\ At(p, "itrunc")
  /\ u' = [u EXCEPT ![p].bn = Last(Ip(p).i.addr)]
  /\ inode' = [inode EXCEPT ![u[p].ip].i.addr = Front(@), ![u[p].ip].upd = TRUE]
  /\ Goto(p, "free")
  /\ UNCHANGED <<super, dinode, dir, dlock, fd>>

(* After free: the next block, or back to the caller of itrunc.            *)
TruncNext(p) ==
  /\ u' = [u EXCEPT ![p].bn = None]
  /\ Goto(p, IF Ip(p).i.addr # <<>>      THEN "itrunc"
             ELSE IF u[p].then = "open1" THEN "open1" ELSE "ifree")

(* A list that was found empty begins again with the mark of its end.      *)
Begun == IF s_free = <<>> THEN <<None>> ELSE s_free

Free(p) ==
  /\ At(p, "free")
  /\ Len(Begun) < NICFREE
  /\ s_free' = Append(Begun, u[p].bn)
  /\ TruncNext(p)
  /\ UNCHANGED <<s_flock, link, s_inode, s_ilock, inode, dinode, dir, dlock, fd>>

(* The array is full: it is written to the block, which links the list.    *)
FreeLock(p) ==
  /\ At(p, "free")
  /\ Len(Begun) >= NICFREE
  /\ s_free' = Begun
  /\ s_flock' = TRUE
  /\ Goto(p, "freecopy")
  /\ UNCHANGED <<link, s_inode, s_ilock, inode, dinode, dir, dlock, fd, u>>

FreeCopy(p) ==
  /\ At(p, "freecopy")
  /\ link' = [link EXCEPT ![u[p].bn] = s_free]
  /\ s_free' = <<>>
  /\ Goto(p, "freed")
  /\ UNCHANGED <<s_flock, s_inode, s_ilock, inode, dinode, dir, dlock, fd, u>>

Freed(p) ==
  /\ At(p, "freed")
  /\ s_flock' = FALSE
  /\ s_free' = Append(s_free, u[p].bn)
  /\ TruncNext(p)
  /\ UNCHANGED <<link, s_inode, s_ilock, inode, dinode, dir, dlock, fd>>

---------------------------------------------------------------------------
(* iput and iupdat.                                                        *)

(* Back to the caller of iput; unlink then puts the directory too.         *)
Leave(p) == IF u[p].then = "idle"
              THEN Putdir(p) /\ Return(p)
              ELSE Goto(p, u[p].then) /\ UNCHANGED <<dlock, u>>

(* The entry of the table is given up.  (What it held stays in it; nobody  *)
(* looks at it before iget has read another inode into it.)                *)
Release(p) == inode' = [inode EXCEPT ![u[p].ip] = NoEntry]

IputShared(p) ==
  /\ At(p, "iput")
  /\ Ip(p).count > 1
  /\ inode' = [inode EXCEPT ![u[p].ip].count = @ - 1, ![u[p].ip].lock = None]
  /\ Leave(p)
  /\ UNCHANGED <<super, dinode, dir, fd>>

(* The last reference: a file without links is truncated and freed, any    *)
(* other is written if it has changed.                                     *)
IputLast(p) ==
  /\ At(p, "iput")
  /\ Ip(p).count = 1
  /\ Ip(p).i.nlink = 0 \/ Ip(p).upd
  /\ Goto(p, IF Ip(p).i.nlink > 0 THEN "iupdat"
             ELSE IF Ip(p).i.mode /\ Ip(p).i.addr # <<>> THEN "itrunc"
             ELSE "ifree")
  /\ UNCHANGED <<super, inode, dinode, dir, dlock, fd, u>>

IputClean(p) ==
  /\ At(p, "iput")
  /\ Ip(p).count = 1
  /\ Ip(p).i.nlink > 0 /\ ~Ip(p).upd
  /\ Release(p)
  /\ Leave(p)
  /\ UNCHANGED <<super, dinode, dir, fd>>

(* iput, after itrunc, and ifree.                                          *)
Ifree(p) ==
  /\ At(p, "ifree")
  /\ inode' = [inode EXCEPT ![u[p].ip].i.mode = FALSE, ![u[p].ip].upd = TRUE]
  /\ s_inode' = IF s_ilock # 0 \/ Len(s_inode) >= NICINOD
                  THEN s_inode
                  ELSE Append(s_inode, Ip(p).num)
  /\ Goto(p, "iupdat")
  /\ UNCHANGED <<s_free, s_flock, link, s_ilock, dinode, dir, dlock, fd, u>>

(* iupdat, and the rest of iput or, in update, the way to it.              *)
Iupdat(p) ==
  /\ At(p, "iupdat")
  /\ dinode' = [dinode EXCEPT ![Ip(p).num] = Ip(p).i]
  /\ IF u[p].then = "iput"
       THEN /\ inode' = [inode EXCEPT ![u[p].ip].upd = FALSE]
            /\ u' = [u EXCEPT ![p].then = "idle"]
            /\ Goto(p, "iput")
            /\ UNCHANGED dlock
       ELSE Release(p) /\ Leave(p)
  /\ UNCHANGED <<super, dir, fd>>

---------------------------------------------------------------------------
(* writei, bmap and alloc.                                                 *)

(* The write is to a block that the file has.                              *)
BmapHave(p) ==
  /\ At(p, "bmap")
  /\ Ip(p).i.addr # <<>>
  /\ inode' = [inode EXCEPT ![u[p].ip].lock = None, ![u[p].ip].upd = TRUE]
  /\ Return(p)
  /\ UNCHANGED <<super, dinode, dir, dlock, fd>>

BmapAlloc(p) ==
  /\ At(p, "bmap")
  /\ Len(Ip(p).i.addr) < NADDR
  /\ Goto(p, "alloc")
  /\ UNCHANGED <<super, inode, dinode, dir, dlock, fd, u>>

(* The block that alloc would take, None if there is none.                 *)
Top == IF s_free = <<>> THEN None ELSE Last(s_free)

AllocNospace(p) ==
  /\ At(p, "alloc")
  /\ Top = None
  /\ s_free' = <<>>
  /\ inode' = [inode EXCEPT ![u[p].ip].lock = None]
  /\ Return(p)
  /\ UNCHANGED <<s_flock, link, s_inode, s_ilock, dinode, dir, dlock, fd>>

(* Mutant: the list is not locked while the next part of it is read.       *)
AllocPopNoLock(p) ==
  /\ At(p, "alloc")
  /\ Top # None
  /\ s_free' = Front(s_free)
  /\ u' = [u EXCEPT ![p].bn = Top]
  /\ Goto(p, IF Len(s_free) = 1 THEN "allocread" ELSE "allocbuf")
  /\ UNCHANGED <<s_flock, link, s_inode, s_ilock, inode, dinode, dir, dlock, fd>>

(* The last block of the array links the list: it is read before it is     *)
(* used.                                                                   *)
AllocPop(p) ==
  /\ At(p, "alloc")
  /\ Top # None
  /\ s_free' = Front(s_free)
  /\ u' = [u EXCEPT ![p].bn = Top]
  /\ s_flock' = (Len(s_free) = 1)
  /\ Goto(p, IF Len(s_free) = 1 THEN "allocread" ELSE "allocbuf")
  /\ UNCHANGED <<link, s_inode, s_ilock, inode, dinode, dir, dlock, fd>>

(* A block that links the list holds NICFREE numbers, so that the test for *)
(* none after the read does not succeed.                                   *)
AllocRead(p) ==
  /\ At(p, "allocread")
  /\ s_free' = link[u[p].bn]
  /\ s_flock' = FALSE
  /\ Goto(p, "allocbuf")
  /\ UNCHANGED <<link, s_inode, s_ilock, inode, dinode, dir, dlock, fd, u>>

(* The block is cleared and becomes the file's.                            *)
AllocDone(p) ==
  /\ At(p, "allocbuf")
  /\ link' = [link EXCEPT ![u[p].bn] = <<>>]
  /\ inode' = [inode EXCEPT ![u[p].ip].i.addr = Append(@, u[p].bn),
                            ![u[p].ip].upd = TRUE, ![u[p].ip].lock = None]
  /\ Return(p)
  /\ UNCHANGED <<s_free, s_flock, s_inode, s_ilock, dinode, dir, dlock, fd>>

---------------------------------------------------------------------------
(* ialloc.  Only at its entry does it wait for another's scan.             *)

Iloop(p) == At(p, "ialloc") \/ At(p, "ialloop")

IallocPop(p) ==
  /\ Iloop(p)
  /\ s_inode # <<>>
  /\ s_inode' = Front(s_inode)
  /\ u' = [u EXCEPT ![p].ino = Last(s_inode), ![p].then = "iagot"]
  /\ Goto(p, "iget")
  /\ UNCHANGED <<s_free, s_flock, link, s_ilock, inode, dinode, dir, dlock, fd>>

IallocScan(p) ==
  /\ Iloop(p)
  /\ s_inode = <<>>
  /\ s_ilock' = s_ilock + 1
  /\ u' = [u EXCEPT ![p].at = 1]
  /\ Goto(p, "iascan")
  /\ UNCHANGED <<s_free, s_flock, link, s_inode, inode, dinode, dir, dlock, fd>>

(* One inode of the i-list, in a block of its own; the scan ends with the  *)
(* list or with a full array.                                              *)
Iascan(p) ==
  /\ At(p, "iascan")
  /\ LET n     == u[p].at
         found == IF dinode[n].mode \/ InCore(n) THEN s_inode ELSE Append(s_inode, n)
         last  == n = NINO \/ Len(found) >= NICINOD
     IN /\ s_inode' = found
        /\ s_ilock' = IF last THEN 0 ELSE s_ilock
        /\ IF last /\ found = <<>>
             THEN Putdir(p) /\ Return(p)
             ELSE /\ Goto(p, IF last THEN "ialloop" ELSE "iascan")
                  /\ u' = [u EXCEPT ![p].at = IF last THEN 0 ELSE n + 1]
                  /\ UNCHANGED dlock
  /\ UNCHANGED <<s_free, s_flock, link, inode, dinode, dir, fd>>

(* "Inode was allocated after all": look some more.                        *)
IallocTaken(p) ==
  /\ At(p, "iagot")
  /\ Ip(p).i.mode
  /\ u' = [u EXCEPT ![p].then = "ialloop"]
  /\ Goto(p, "iput")
  /\ UNCHANGED <<super, inode, dinode, dir, dlock, fd>>

NewFile == [mode |-> TRUE, nlink |-> 1, addr |-> <<>>]

(* Mutant: the mode of the inode is not looked at.                         *)
IallocGotAny(p) ==
  /\ At(p, "iagot")
  /\ inode' = [inode EXCEPT ![u[p].ip].i = NewFile, ![u[p].ip].upd = TRUE]
  /\ Goto(p, "wdir")
  /\ UNCHANGED <<super, dinode, dir, dlock, fd, u>>

(* ialloc returns the inode, maknode makes it a file with one link.        *)
IallocGot(p) ==
  /\ At(p, "iagot")
  /\ ~Ip(p).i.mode
  /\ inode' = [inode EXCEPT ![u[p].ip].i = NewFile, ![u[p].ip].upd = TRUE]
  /\ Goto(p, "wdir")
  /\ UNCHANGED <<super, dinode, dir, dlock, fd, u>>

(* wdir, and open1 of the new file.                                        *)
Wdir(p) ==
  /\ At(p, "wdir")
  /\ dir' = [dir EXCEPT ![u[p].name] = Ip(p).num]
  /\ Putdir(p)
  /\ inode' = [inode EXCEPT ![u[p].ip].lock = None]
  /\ fd' = [fd EXCEPT ![p] = u[p].ip]
  /\ Return(p)
  /\ UNCHANGED <<super, dinode>>

---------------------------------------------------------------------------
(* unlink: the entry is cleared, and the inode loses a link.               *)
Unlink(p) ==
  /\ At(p, "unlink")
  /\ dir' = [dir EXCEPT ![u[p].name] = None]
  /\ inode' = [inode EXCEPT ![u[p].ip].i.nlink = @ - 1, ![u[p].ip].upd = TRUE]
  /\ u' = [u EXCEPT ![p] = [NoFrame EXCEPT !.ip = u[p].ip]]
  /\ Goto(p, "iput")
  /\ UNCHANGED <<super, dinode, dlock, fd>>

---------------------------------------------------------------------------
Start(p) == StartName(p) \/ StartWrite(p) \/ StartClose(p) \/ StartSync(p)

Step(p) ==
  \/ Plock(p) \/ NameiLock(p) \/ NameiFound(p) \/ NameiMissing(p)
  \/ IgetFound(p) \/ IgetNew(p) \/ IgetFull(p) \/ Iread(p)
  \/ Open1Refused(p) \/ Open1Trunc(p) \/ Open1(p)
  \/ Itrunc(p) \/ Free(p) \/ FreeLock(p) \/ FreeCopy(p) \/ Freed(p)
  \/ IputShared(p) \/ IputLast(p) \/ IputClean(p) \/ Ifree(p) \/ Iupdat(p)
  \/ BmapHave(p) \/ BmapAlloc(p) \/ AllocNospace(p) \/ AllocPop(p)
  \/ AllocRead(p) \/ AllocDone(p)
  \/ IallocPop(p) \/ IallocScan(p) \/ Iascan(p) \/ IallocTaken(p)
  \/ IallocGot(p) \/ Wdir(p) \/ Unlink(p)

Next == \E p \in Proc : Start(p) \/ Step(p) \/ Sleep(p)

Spec == Init /\ [][Next]_vars
---------------------------------------------------------------------------
(* Properties.                                                             *)

TypeOK ==
  /\ s_free \in Seq(Blk \cup {None})
  /\ s_flock \in BOOLEAN
  /\ link \in [Blk -> Seq(Blk \cup {None})]
  /\ s_inode \in Seq(Ino)
  /\ s_ilock \in Nat
  /\ inode \in [Slot -> Entry]
  /\ dinode \in [Ino \cup {0} -> Inode]
  /\ dir \in [Name -> Ino \cup {None}]
  /\ dlock \in [Name -> Proc \cup {None}]
  /\ fd \in [Proc -> Slot \cup {None}]
  /\ pc \in [Proc -> Labels]
  /\ u \in [Proc -> Frame]
  /\ cpu \in Proc \cup {None}

(* The inode n as it is now: in the table once it is read, else on disk.   *)
Present(s) == \A p \in Proc : pc[p] = "iread" => u[p].ip # s

Current(n) ==
  IF \E s \in Slot : inode[s].num = n /\ Present(s)
    THEN inode[CHOOSE s \in Slot : inode[s].num = n /\ Present(s)].i
    ELSE dinode[n]

(* The arrays of the free list: the one in core, or the one that is on its *)
(* way to or from the block in hand, and those it leads to.                *)
Passing == {p \in Proc : pc[p] \in {"freed", "allocread"}}

FirstArray ==
  IF Passing # {} THEN link[u[CHOOSE p \in Passing : TRUE].bn] ELSE s_free

Arrays ==
  LET a[k \in 0 .. Cardinality(Blk)] ==
        IF k = 0 THEN FirstArray
        ELSE LET last == a[k - 1] IN
             IF last = <<>> \/ Head(last) = None THEN <<>> ELSE link[Head(last)]
  IN a

(* All the places where block b is: the free list, the files and the hands *)
(* of the processes that allocate or free it.                              *)
In(f, b) == UNION {{<<k, i>> : i \in {j \in DOMAIN f[k] : f[k][j] = b}} :
                     k \in DOMAIN f}

InHands(b) == {p \in Proc :
                 /\ pc[p] \in {"free", "freecopy", "freed", "allocread", "allocbuf"}
                 /\ u[p].bn = b}

(* alloc, free: no block is lost, none is given out or freed twice,        *)
(* whatever sleeps between the array in core and the blocks that link it.  *)
(* Violated if there is someone in Su: what is written to an inode that    *)
(* was freed before it was opened is lost when creat makes a file of it.   *)
BlocksOnce ==
  LET list  == Arrays
      files == [n \in Ino \cup {0} |-> Current(n).addr]
  IN \A b \in Blk :
       Cardinality(In(list, b)) + Cardinality(In(files, b))
         + Cardinality(InHands(b)) = 1

(* inode.h: i_nlink is the number of directory entries, in core or on disk; *)
(* an inode with an entry is allocated, so that no name leads to a free    *)
(* inode or to one that was given to another file.                         *)
LinksCounted ==
  \A n \in Ino :
    /\ Current(n).nlink =
         Cardinality({f \in Name : dir[f] = n})
           + Cardinality({p \in Proc : pc[p] = "wdir" /\ Ip(p).num = n})
    /\ Current(n).nlink > 0 => Current(n).mode

(* The references: open files, and processes that stand where they have    *)
(* got the inode and not put it.                                           *)
HasRef(p) ==
  \/ pc[p] \in {"iread", "open1", "itrunc", "free", "freecopy", "freed", "iput",
                "ifree", "iupdat", "iagot", "wdir", "unlink"}
  \/ pc[p] = "plock" /\ u[p].call = "close"

(* iget, iput: i_count is the number of references, and an inode that has  *)
(* one is in the table once; and every variable keeps its type.            *)
CountsOK ==
  /\ TypeOK
  /\ \A s \in Slot :
       /\ inode[s].count = Cardinality({p \in Proc : fd[p] = s})
                             + Cardinality({p \in Proc : HasRef(p) /\ u[p].ip = s})
       /\ inode[s].num = None <=> inode[s].count = 0
  /\ \A s, t \in Slot : inode[s].num = inode[t].num /\ inode[s].num # None => s = t

(* access, iput: what a process outside Su has opened was allocated when   *)
(* it was opened and stays so until the last close, even if its name is    *)
(* gone.  (Nothing of the kind holds for those in Su, who may open an      *)
(* inode that was freed between namei's look at the entry and iget.)       *)
OpenAlive == \A p \in Proc \ Su : fd[p] # None => inode[fd[p]].i.mode

(* ialloc: "Allocate an unused I node": nobody else has it, it has no      *)
(* blocks and no name.  Violated if there is someone in Su, who may have   *)
(* opened it after it was freed.                                           *)
FreshInode ==
  \A p \in Proc : pc[p] = "wdir" =>
    /\ Ip(p).count = 1
    /\ Ip(p).i.addr = <<>>
    /\ \A f \in Name : dir[f] # Ip(p).num

(***************************************************************************)
(* What these rest on.  A process locks the inode it has in hand from iget *)
(* or plock until iput or prele, and the directory of its name until the   *)
(* end of the call ...                                                     *)
(***************************************************************************)
Writing == {"bmap", "alloc", "allocread", "allocbuf"}
Freeing == {"itrunc", "free", "freecopy", "freed"}
Copying == {"freecopy", "freed", "allocread"}
Making  == {"ialloc", "ialloop", "iascan", "iagot", "wdir"}
Locking == Writing \cup Freeing
             \cup {"iread", "open1", "iput", "ifree", "iupdat", "iagot", "wdir", "unlink"}

LocksOK ==
  /\ \A p \in Proc : pc[p] \in Locking => u[p].ip # None /\ Ip(p).lock = p
  /\ \A s \in Slot : \A p \in Proc :
       inode[s].lock = p => pc[p] \in Locking /\ u[p].ip = s
  /\ \A p \in Proc : u[p].name # None /\ pc[p] # "dlock" => dlock[u[p].name] = p
  /\ \A f \in Name : \A p \in Proc :
       dlock[f] = p =>
         /\ pc[p] \notin {"idle", "dlock"}
         /\ \/ u[p].name = f
            \/ /\ pc[p] \in Freeing \cup {"iput", "ifree", "iupdat"}
               /\ u[p].name = None /\ u[p].then = "idle"

(* ... s_flock is set for one copy of the list at a time; s_ilock counts   *)
(* no scan that does not take place.                                       *)
Scanners == {p \in Proc : pc[p] = "iascan"}

ListsOK ==
  /\ s_flock <=> \E p \in Proc : pc[p] \in Copying
  /\ \A p, q \in Proc : pc[p] \in Copying /\ pc[q] \in Copying => p = q
  /\ s_ilock <= Cardinality(Scanners)

(* An entry of the table that is not marked for update is as on the disk.  *)
CleanOK ==
  \A s \in Slot : inode[s].num # None /\ Present(s) /\ ~inode[s].upd =>
    inode[s].i = dinode[inode[s].num]

(* What a process has at its place: for iget a number and the place to go  *)
(* on; for creat a name that is missing, for unlink one that is there; the *)
(* open file for write and close; the only reference where iput frees an   *)
(* inode or makes a file of it.                                            *)
PlaceOK(p) ==
  LET v == u[p] IN
  /\ pc[p] = "idle" => v = NoFrame
  /\ pc[p] \in {"dlock", "namei"} =>
       v.name # None /\ v.call \in {"open", "creat", "unlink"} /\ v.then = "idle"
  /\ pc[p] \in {"iget", "iread"} => v.ino # None /\ v.then \in {"open1", "unlink", "iagot"}
  /\ pc[p] = "plock" =>
       /\ v.ip # None /\ v.name = None
       /\ \/ v.call = "write" /\ v.then = "bmap" /\ fd[p] = v.ip
          \/ v.call = "close" /\ v.then = "iput" /\ fd[p] = None /\ Allowed(p)
  /\ pc[p] \in Writing => v.name = None /\ fd[p] = v.ip
  /\ pc[p] \in Making \/ v.then \in {"iagot", "ialloop"} =>
       v.call = "creat" /\ v.name # None /\ dir[v.name] = None
  /\ v.then = "unlink" => v.name # None /\ v.ino # None /\ dir[v.name] = v.ino
  /\ pc[p] = "unlink" => v.then = "unlink" /\ Ip(p).num = v.ino
  /\ pc[p] = "open1" => v.then = "open1"
  /\ v.then = "open1" => v.call \in {"open", "creat"} /\ v.name = None
  /\ v.call \in {"open", "creat"} => fd[p] = None
  /\ pc[p] = "iread" => Ip(p).num = v.ino /\ Ip(p).count = 1
  /\ pc[p] \in Freeing => v.then \in {"open1", "idle", "ialloop"}
  /\ pc[p] \in {"iput", "ifree"} => v.then \in {"idle", "ialloop"}
  /\ pc[p] = "iupdat" => v.then \in {"idle", "ialloop", "iput"}
  /\ pc[p] \in Freeing \cup {"ifree"} /\ v.then # "open1" =>
       Ip(p).count = 1 /\ Ip(p).i.nlink = 0
  /\ pc[p] = "iupdat" /\ v.then # "iput" => Ip(p).count = 1
  /\ pc[p] = "itrunc" => Ip(p).i.addr # <<>>
  /\ pc[p] \in {"free", "freecopy", "freed", "allocread", "allocbuf"} => v.bn # None
  /\ pc[p] = "iascan" => v.at \in Ino
  /\ pc[p] = "wdir" => Ip(p).i = NewFile /\ (Su = {} => Ip(p).count = 1)

FilesInv ==
  /\ CountsOK /\ LinksCounted /\ OpenAlive /\ LocksOK /\ ListsOK /\ CleanOK
  /\ \A p \in Proc : PlaceOK(p)

(* The locks of the directory, the inodes and the lists are taken in an    *)
(* order that leaves someone who can go on.                                *)
NoDeadlyEmbrace ==
  (\E p \in Proc : pc[p] # "idle") => \E p \in Proc : pc[p] # "idle" /\ ~Blocked(p)
=============================================================================
