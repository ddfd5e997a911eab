-------------------------------- MODULE Pipe --------------------------------
(***************************************************************************)
(* Pipes, src/usr/sys/sys/pipe.c (readp, writep, plock, prele), with       *)
(* closef of fio.c and iput of iget.c as they act on a pipe, and update    *)
(* (sync) of alloc.c, which locks every inode in turn and counts itself    *)
(* among its users.                                                        *)
(*                                                                         *)
(* A pipe is a file with one inode and two file structures.  The processes *)
(* take turns where they sleep: for the inode lock, on ip+1 and ip+2, and  *)
(* in readi and writei, which wait for the disk with the inode locked and  *)
(* are a beginning and an end here.  The descriptors have been handed out  *)
(* by forks; SIGPIPE and what the caller does with it are left out, as are *)
(* errors of the disk or of the user's addresses.                          *)
(***************************************************************************)
EXTENDS Naturals, Sequences, FiniteSets, SequencesExt

CONSTANTS
    Proc,       \* the processes
    Ends,       \* Ends[p]: the ends, "r" and "w", that p has open at first
    PIPSIZ,     \* the units a pipe takes
    Counts,     \* the counts of the write calls
    Reads,      \* the counts of the read calls
    None        \* no channel

ASSUME PipeAssumption ==
    /\ IsFiniteSet(Proc)
    /\ Ends \in [Proc -> SUBSET {"r", "w"}]
    /\ {"r", "w"} \subseteq UNION {Ends[p] : p \in Proc}
    /\ PIPSIZ \in Nat \ {0}
    /\ Counts \subseteq Nat \ {0} /\ Reads \subseteq Nat \ {0}
    /\ None \notin {"ip", "ip+1", "ip+2"}

(* The sleep channels ip, ip+1, ip+2.                                      *)
Ip == "ip"
Ip1 == "ip+1"
Ip2 == "ip+2"

VARIABLES
    ilock, iwant,   \* ILOCK and IWANT in i_flag
    iread, iwrite,  \* IREAD and IWRITE in i_mode
    icount,         \* i_count
    file,           \* the contents; i_size is its length
    offset,         \* f_offset of the reading file structure
    fcount,         \* f_count of the two file structures
    fds,            \* fds[p]: the ends that p has open
    pc,             \* where a process is
    wchan,          \* p_wchan
    todo,           \* writep: what is to be written, its length is c
    want,           \* readp: the count of the call
    at,             \* u_offset of the transfer that has begun
    buf,            \* readp: what has been read
    sync            \* update() has locked the inode

inode == <<ilock, iwant, iread, iwrite, icount, file, offset>>
files == <<fcount, fds>>
local == <<todo, want, at, buf>>
vars == <<inode, files, pc, wchan, local, sync>>

Size == Len(file)

Init ==
    /\ ilock = FALSE /\ iwant = FALSE /\ iread = FALSE /\ iwrite = FALSE
    /\ icount = 2
    /\ file = <<>> /\ offset = 0
    /\ fcount = [e \in {"r", "w"} |-> Cardinality({p \in Proc : e \in Ends[p]})]
    /\ fds = Ends
    /\ pc = [p \in Proc |-> "idle"]
    /\ wchan = [p \in Proc |-> None]
    /\ todo = [p \in Proc |-> <<>>]
    /\ want = [p \in Proc |-> 0]
    /\ at = [p \in Proc |-> 0]
    /\ buf = [p \in Proc |-> <<>>]
    /\ sync = FALSE

At(p, l) == pc[p] = l /\ wchan[p] = None
Goto(p, l) == pc' = [pc EXCEPT ![p] = l]

Sleep(p, chan) == wchan' = [wchan EXCEPT ![p] = chan]
Wakeup(chans) ==
    wchan' = [p \in Proc |-> IF wchan[p] \in chans THEN None ELSE wchan[p]]

-----------------------------------------------------------------------------
(* plock: while the inode is locked, set IWANT and sleep.                  *)
PlockSleep(p) ==
    /\ \E l \in {"readp", "writep", "closef"} : At(p, l)
    /\ ilock
    /\ iwant' = TRUE
    /\ Sleep(p, Ip)
    /\ UNCHANGED <<ilock, iread, iwrite, icount, file, offset, files, pc, local,
                   sync>>

Locks(p, l) == At(p, l) /\ ~ilock

(* prele, and a wakeup of other channels in the same step.                 *)
Prele(others) ==
    /\ ilock' = FALSE /\ iwant' = FALSE
    /\ Wakeup(others \cup (IF iwant THEN {Ip} ELSE {}))

-----------------------------------------------------------------------------
StartRead(p) ==
    /\ At(p, "idle") /\ "r" \in fds[p]
    /\ \E n \in Reads : want' = [want EXCEPT ![p] = n]
    /\ Goto(p, "readp")
    /\ UNCHANGED <<inode, files, wchan, todo, at, buf, sync>>

(* Mutant: the other end is looked at before the contents.                 *)
ReadEofFirst(p) ==
    /\ Locks(p, "readp")
    /\ icount < 2
    /\ want' = [want EXCEPT ![p] = 0]
    /\ Goto(p, "idle")
    /\ UNCHANGED <<inode, files, wchan, todo, at, buf, sync>>

(* readp: the pipe is empty.  End of file if the other end is closed ...   *)
ReadEof(p) ==
    /\ Locks(p, "readp")
    /\ Size = 0 /\ icount < 2
    /\ want' = [want EXCEPT ![p] = 0]
    /\ Goto(p, "idle")
    /\ UNCHANGED <<inode, files, wchan, todo, at, buf, sync>>

(* ... and otherwise a sleep.                                              *)
ReadSleep(p) ==
    /\ Locks(p, "readp")
    /\ Size = 0 /\ icount >= 2
    /\ iread' = TRUE
    /\ Sleep(p, Ip2)
    /\ UNCHANGED <<ilock, iwant, iwrite, icount, file, offset, files, pc, local,
                   sync>>

(* readi begins, with the inode locked ...                                 *)
ReadBegin(p) ==
    /\ Locks(p, "readp")
    /\ Size > 0
    /\ ilock' = TRUE
    /\ at' = [at EXCEPT ![p] = offset]
    /\ Goto(p, "readi")
    /\ UNCHANGED <<iwant, iread, iwrite, icount, file, offset, files, wchan,
                   todo, want, buf, sync>>

(* The u_offset that a transfer of n from o leaves.                        *)
After(o, n) == IF o + n < Size THEN o + n ELSE Size

(* Mutant: those who wait to write are woken only if one call took all     *)
(* there was.                                                              *)
ReadEndNoWakeup(p) ==
    LET end == After(at[p], want[p])
    IN  /\ At(p, "readi")
        /\ buf' = [buf EXCEPT ![p] = SubSeq(file, at[p] + 1, end)]
        /\ IF end = Size
           THEN /\ offset' = 0 /\ file' = <<>> /\ iwrite' = FALSE
                /\ Prele(IF iwrite /\ at[p] = 0 THEN {Ip1} ELSE {})
           ELSE /\ offset' = end
                /\ Prele({})
                /\ UNCHANGED <<file, iwrite>>
        /\ want' = [want EXCEPT ![p] = 0]
        /\ at' = [at EXCEPT ![p] = 0]
        /\ Goto(p, "return")
        /\ UNCHANGED <<iread, icount, files, todo, sync>>

(* ... and ends; a reader that has caught up resets offset and size.       *)
ReadEnd(p) ==
    LET end == After(at[p], want[p])
    IN  /\ At(p, "readi")
        /\ buf' = [buf EXCEPT ![p] = SubSeq(file, at[p] + 1, end)]
        /\ IF end = Size
           THEN /\ offset' = 0 /\ file' = <<>> /\ iwrite' = FALSE
                /\ Prele(IF iwrite THEN {Ip1} ELSE {})
           ELSE /\ offset' = end
                /\ Prele({})
                /\ UNCHANGED <<file, iwrite>>
        /\ want' = [want EXCEPT ![p] = 0]
        /\ at' = [at EXCEPT ![p] = 0]
        /\ Goto(p, "return")
        /\ UNCHANGED <<iread, icount, files, todo, sync>>

(* rdwr returns to the user, who has the data.                             *)
ReadReturn(p) ==
    /\ At(p, "return")
    /\ buf' = [buf EXCEPT ![p] = <<>>]
    /\ Goto(p, "idle")
    /\ UNCHANGED <<inode, files, wchan, todo, want, at, sync>>

-----------------------------------------------------------------------------
StartWrite(p) ==
    /\ At(p, "idle") /\ "w" \in fds[p]
    /\ \E n \in Counts :
          todo' = [todo EXCEPT ![p] = [i \in 1 .. n |-> <<p, i>>]]
    /\ Goto(p, "writep")
    /\ UNCHANGED <<inode, files, wchan, want, at, buf, sync>>

WriteDone(p) ==
    /\ Locks(p, "writep")
    /\ todo[p] = <<>>
    /\ Goto(p, "idle")
    /\ UNCHANGED <<inode, files, wchan, local, sync>>

(* writep: the other end is closed: EPIPE.                                 *)
WriteBroken(p) ==
    /\ Locks(p, "writep")
    /\ todo[p] # <<>> /\ icount < 2
    /\ todo' = [todo EXCEPT ![p] = <<>>]
    /\ Goto(p, "idle")
    /\ UNCHANGED <<inode, files, wchan, want, at, buf, sync>>

(* writep: the pipe is full.                                               *)
WriteSleep(p) ==
    /\ Locks(p, "writep")
    /\ todo[p] # <<>> /\ icount >= 2 /\ Size >= PIPSIZ
    /\ iwrite' = TRUE
    /\ Sleep(p, Ip1)
    /\ UNCHANGED <<ilock, iwant, iread, icount, file, offset, files, pc, local,
                   sync>>

(* writei begins, at the end of the file, with the inode locked ...        *)
WriteBegin(p) ==
    /\ Locks(p, "writep")
    /\ todo[p] # <<>> /\ icount >= 2 /\ Size < PIPSIZ
    /\ ilock' = TRUE
    /\ at' = [at EXCEPT ![p] = Size]
    /\ Goto(p, "writei")
    /\ UNCHANGED <<iwant, iread, iwrite, icount, file, offset, files, wchan,
                   todo, want, buf, sync>>

(* Mutant: a write takes what room there is, as far as PIPSIZ.             *)
ChunkRoom(p) ==
    IF at[p] + Len(todo[p]) < PIPSIZ THEN Len(todo[p]) ELSE PIPSIZ - at[p]

(* u_count, what writep writes at a time.                                  *)
Chunk(p) == IF Len(todo[p]) < PIPSIZ THEN Len(todo[p]) ELSE PIPSIZ

(* ... and ends; readers that wait for data are woken.                     *)
WriteEnd(p) ==
    /\ At(p, "writei")
    /\ file' = SubSeq(file, 1, at[p]) \o SubSeq(todo[p], 1, Chunk(p))
    /\ todo' = [todo EXCEPT ![p] = SubSeq(@, Chunk(p) + 1, Len(@))]
    /\ at' = [at EXCEPT ![p] = 0]
    /\ iread' = FALSE
    /\ Prele(IF iread THEN {Ip2} ELSE {})
    /\ Goto(p, "writep")
    /\ UNCHANGED <<iwrite, icount, offset, files, want, buf, sync>>

(* A signal for a process that sleeps on ip+1 or ip+2 (PPIPE is more than  *)
(* PZERO): setrun wakes the channel, and the call of p ends with EINTR.    *)
Signal(p) ==
    /\ wchan[p] \in {Ip1, Ip2}
    /\ Wakeup({wchan[p]})
    /\ todo' = [todo EXCEPT ![p] = <<>>]
    /\ want' = [want EXCEPT ![p] = 0]
    /\ Goto(p, "idle")
    /\ UNCHANGED <<inode, files, at, buf, sync>>

-----------------------------------------------------------------------------
(* close: another descriptor of this end is left, or closef goes on.       *)
Close(p, e) ==
    /\ At(p, "idle") /\ e \in fds[p]
    /\ fds' = [fds EXCEPT ![p] = @ \ {e}]
    /\ IF fcount[e] > 1
       THEN fcount' = [fcount EXCEPT ![e] = @ - 1] /\ UNCHANGED pc
       ELSE Goto(p, "closef") /\ UNCHANGED fcount
    /\ UNCHANGED <<inode, wchan, local, sync>>

(* The end whose last descriptor p is closing.                             *)
Closing(p) == CHOOSE e \in {"r", "w"} :
                  fcount[e] = 1 /\ \A q \in Proc : e \notin fds[q]

(* Mutant: closef wakes nobody.                                            *)
ClosefSilent(p) ==
    /\ Locks(p, "closef")
    /\ fcount' = [fcount EXCEPT ![Closing(p)] = 0]
    /\ iread' = FALSE /\ iwrite' = FALSE
    /\ IF icount = 1
       THEN /\ ilock' = TRUE
            /\ Goto(p, "itrunc")
            /\ UNCHANGED <<iwant, icount, wchan>>
       ELSE /\ icount' = icount - 1
            /\ Prele({})
            /\ Goto(p, "idle")
    /\ UNCHANGED <<file, offset, fds, local, sync>>

(* closef: "make sure the pipe protocol does not constipate", and iput,    *)
(* which for the last user truncates the file with the inode locked.       *)
Closef(p) ==
    /\ Locks(p, "closef")
    /\ fcount' = [fcount EXCEPT ![Closing(p)] = 0]
    /\ iread' = FALSE /\ iwrite' = FALSE
    /\ IF icount = 1
       THEN /\ ilock' = TRUE
            /\ Wakeup({Ip1, Ip2})
            /\ Goto(p, "itrunc")
            /\ UNCHANGED <<iwant, icount>>
       ELSE /\ icount' = icount - 1
            /\ Prele({Ip1, Ip2})
            /\ Goto(p, "idle")
    /\ UNCHANGED <<file, offset, fds, local, sync>>

IputLast(p) ==
    /\ At(p, "itrunc")
    /\ file' = <<>>
    /\ icount' = 0
    /\ Prele({})
    /\ Goto(p, "idle")
    /\ UNCHANGED <<iread, iwrite, offset, files, local, sync>>

(* update: an inode that is in use and not locked is written out.          *)
SyncBegin ==
    /\ ~sync /\ ~ilock /\ icount > 0
    /\ ilock' = TRUE
    /\ icount' = icount + 1
    /\ sync' = TRUE
    /\ UNCHANGED <<iwant, iread, iwrite, file, offset, files, pc, wchan, local>>

SyncEnd ==
    /\ sync
    /\ icount' = icount - 1
    /\ Prele({})
    /\ sync' = FALSE
    /\ UNCHANGED <<iread, iwrite, file, offset, files, pc, local>>

-----------------------------------------------------------------------------
(* A process goes on with its call.                                        *)
Step(p) ==
    \/ PlockSleep(p)
    \/ ReadEof(p) \/ ReadSleep(p) \/ ReadBegin(p) \/ ReadEnd(p)
    \/ ReadReturn(p)
    \/ WriteDone(p) \/ WriteBroken(p) \/ WriteSleep(p)
    \/ WriteBegin(p) \/ WriteEnd(p)
    \/ Closef(p) \/ IputLast(p)

Call(p) == StartRead(p) \/ StartWrite(p)

Next ==
    \/ \E p \in Proc : Step(p) \/ Call(p) \/ Signal(p)
                       \/ \E e \in {"r", "w"} : Close(p, e)
    \/ SyncBegin \/ SyncEnd

Spec == Init /\ [][Next]_vars

(* A process that can run is run, and the transfers end.                   *)
FairSpec == Spec /\ WF_vars(SyncEnd) /\ \A p \in Proc : WF_vars(Step(p))

-----------------------------------------------------------------------------
(* TypeOK: every variable stays in its type; the file never outgrows twice *)
(* PIPSIZ ("One can therefore get a file > PIPSIZ", pipe.c).               *)
Unit == Proc \X Nat

TypeOK ==
    /\ {ilock, iwant, iread, iwrite, sync} \subseteq BOOLEAN
    /\ icount \in 0 .. 3
    /\ file \in Seq(Unit) /\ Size < 2 * PIPSIZ
    /\ offset \in 0 .. 2 * PIPSIZ - 1
    /\ fcount \in [{"r", "w"} -> 0 .. Cardinality(Proc)]
    /\ fds \in [Proc -> SUBSET {"r", "w"}]
    /\ pc \in [Proc -> {"idle", "readp", "readi", "return", "writep", "writei",
                        "closef", "itrunc"}]
    /\ wchan \in [Proc -> {Ip, Ip1, Ip2, None}]
    /\ todo \in [Proc -> Seq(Unit)]
    /\ want \in [Proc -> Reads \cup {0}]
    /\ at \in [Proc -> 0 .. 2 * PIPSIZ - 1]
    /\ buf \in [Proc -> Seq(Unit)]

(***************************************************************************)
(* NoConstipation: whoever sleeps has left the flag that makes others wake *)
(* it, and there is somebody who will.  A reader sleeps on a pipe that is  *)
(* empty (or is being written) and has a writer, a writer on one that is   *)
(* full and has a reader, and one waits for the inode while it is locked.  *)
(***************************************************************************)
Writing == \E p \in Proc : pc[p] = "writei"

NoConstipation ==
    TypeOK /\ \A p \in Proc :
        /\ wchan[p] = Ip => ilock /\ iwant
        /\ wchan[p] = Ip2 => iread /\ (Size = 0 \/ Writing) /\ fcount["w"] > 0
        /\ wchan[p] = Ip1 => iwrite /\ Size >= PIPSIZ /\ fcount["r"] > 0

-----------------------------------------------------------------------------
(* The strengthening of NoConstipation that every step preserves.          *)

(* Who has an end open; f_count of one whose last close is under way is    *)
(* still 1, and there is one process in closef for each of those.          *)
Holders(e) == {p \in Proc : e \in fds[p]}
Owed(e) == fcount[e] = 1 /\ Holders(e) = {}
Closers == {p \in Proc : pc[p] = "closef"}
One(b) == IF b THEN 1 ELSE 0

DescriptorsOK ==
    /\ \A e \in {"r", "w"} : fcount[e] = Cardinality(Holders(e)) \/ Owed(e)
    /\ Cardinality(Closers) = One(Owed("r")) + One(Owed("w"))

(* i_count counts the open ends, update and the iput that truncates.       *)
UsersOK ==
    icount = One(fcount["r"] > 0) + One(fcount["w"] > 0) + One(sync)
             + One(\E p \in Proc : pc[p] = "itrunc")

(* ILOCK is held for update or for one process.                            *)
Inside(p) == pc[p] \in {"readi", "writei", "itrunc"}

LockOK ==
    /\ sync \/ (\E p \in Proc : Inside(p)) => ilock
    /\ \A p \in Proc : Inside(p) => ~sync /\ \A q \in Proc : Inside(q) => q = p

OffsetOK == fcount["r"] > 0 => offset < Size \/ (offset = 0 /\ Size = 0)

(* What a process knows where it stands.                                   *)
CallOK(p) ==
    /\ pc[p] \in {"readp", "readi"} => "r" \in fds[p] /\ want[p] \in Reads
    /\ pc[p] \in {"writep", "writei"} => "w" \in fds[p]
    /\ pc[p] = "readi" => at[p] = offset /\ offset < Size
    /\ pc[p] = "writei" => /\ at[p] = Size /\ Size < PIPSIZ /\ todo[p] # <<>>
                           /\ fcount["r"] > 0 /\ fcount["w"] > 0
    /\ pc[p] \notin {"writep", "writei"} => todo[p] = <<>>
    /\ pc[p] # "return" => buf[p] = <<>>
    /\ pc[p] = "itrunc" => fcount["r"] = 0 /\ fcount["w"] = 0

SleepOK(p) ==
    /\ wchan[p] = Ip => ilock /\ iwant
    /\ wchan[p] = Ip2 =>
          iread /\ Size = 0 /\ pc[p] = "readp" /\ fcount["w"] > 0
    /\ wchan[p] = Ip1 =>
          /\ iwrite /\ Size >= PIPSIZ /\ pc[p] = "writep" /\ todo[p] # <<>>
          /\ fcount["r"] > 0

PipeInv ==
    /\ TypeOK /\ DescriptorsOK /\ UsersOK /\ LockOK /\ OffsetOK
    /\ \A p \in Proc : CallOK(p) /\ SleepOK(p)

-----------------------------------------------------------------------------
(***************************************************************************)
(* EndsMeetCalls: a read says end of file only when nobody has the writing *)
(* end open and all that was written has been read; a write gets EPIPE     *)
(* only when nobody has the reading end open.                              *)
(***************************************************************************)
EndsMeetCalls ==
    [][\A p \in Proc :
         /\ ReadEof(p) => fcount["w"] = 0 /\ Size = 0
         /\ WriteBroken(p) => fcount["r"] = 0]_vars

(***************************************************************************)
(* CallsEnd: once no new calls are made, every process comes out of the    *)
(* kernel, or is a reader of an empty pipe that somebody has open for      *)
(* writing, or a writer of a full one that somebody has open for reading.  *)
(***************************************************************************)
CallsEnd ==
    <>[][~ (SyncBegin \/ \E p \in Proc : Call(p))]_vars =>
        \A p \in Proc : <>[](\/ pc[p] = "idle"
                             \/ wchan[p] = Ip2 /\ Size = 0 /\ fcount["w"] > 0
                             \/ wchan[p] = Ip1 /\ Size >= PIPSIZ /\ fcount["r"] > 0)

(***************************************************************************)
(* ImplementsChannel: the pipe is a first-in first-out channel.            *)
(***************************************************************************)
Abstract == INSTANCE Channel WITH
    queue <- SubSeq(file, offset + 1, Size),
    got <- buf,
    open <- {e \in {"r", "w"} : fcount[e] > 0}

ImplementsChannel == Abstract!Spec
=============================================================================
