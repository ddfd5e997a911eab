---------------------------- MODULE ProcessImage ----------------------------
(***************************************************************************)
(* The images of processes and their shared texts, in core and on the swap *)
(* device: fork, exec, break, exit and wait of sys/sys1.c, newproc, expand *)
(* and sched of sys/slp.c, and the text table of sys/text.c, with open for *)
(* writing as far as it removes unused texts.                              *)
(*                                                                         *)
(* A step of an actor is kernel code between two places where it may sleep *)
(* or where the path divides; it keeps the processor, cpu, as long as      *)
(* nothing makes it sleep.  Space is counted: where a unit lies is the     *)
(* matter of ResourceMap.  Clicks and blocks of the swap device are one    *)
(* unit, and so is a text.                                                 *)
(***************************************************************************)
EXTENDS Integers, FiniteSets, FiniteSetsExt

CONSTANTS
  Proc,     \* the slots of the process table
  Root,     \* process 1, which does not exit
  Sched,    \* process 0
  File,     \* programs with a shared text
  Text,     \* the text table
  None,
  NCORE,    \* units of core
  NSWAP,    \* units of the swap device
  MaxSize,  \* the largest image
  MaxOpens  \* bound on the opens for writing of a file

(* There is a text for every program, and the swap device never fills up:  *)
(* "out of text" and "out of swap space" are left out.                     *)
ASSUME ProcessImageAssumption ==
  /\ Root \in Proc /\ Sched \notin Proc /\ None \notin Proc \cup {Sched}
  /\ IsFiniteSet(Proc) /\ IsFiniteSet(Text) /\ IsFiniteSet(File)
  /\ Cardinality(File) <= Cardinality(Text)
  /\ NCORE \in Nat /\ NSWAP \in Nat /\ MaxSize \in Nat \ {0} /\ MaxOpens \in Nat
  /\ NSWAP >= (Cardinality(Proc) - 1) * MaxSize + 1 + Cardinality(Text)

Actor == Proc \cup {Sched}
Header == {1, 2}
Sizes == 1 .. MaxSize
ImageSize(f) == IF f = None THEN MaxSize ELSE 1

VARIABLES
  core, swap,           \* free units of coremap and swapmap
  coreI, swapI,         \* units of an image in core and on the swap device
  coreT, swapT,         \* a text's copies there: absent, junk or good
  stat, parent, load, slock, size, textp,  \* p_stat, p_ppid, SLOAD, SLOCK...
  prog,                 \* the program that a process believes it runs
  iptr, count, ccount, xload, xwrit, lock, \* the text table
  ilock, itext, icount, opens,             \* the inodes of the programs
  sticky,               \* those with ISVTX
  stale,                \* history, see WentOnWith
  swbuf,                \* who has swbuf1 and swbuf2
  pc, u,                \* where an actor is, and what its u. and stack hold
  cpu                   \* who has the processor

space == <<core, swap, coreI, swapI>>
procs == <<stat, parent, load, slock, size, textp, prog>>
flags == <<xload, xwrit, lock>>
texts == <<coreT, swapT, iptr, count, ccount, flags>>
files == <<ilock, itext, icount, opens, sticky, stale>>
place == <<pc, u, cpu>>
vars == <<space, procs, texts, files, swbuf, place>>

(* call: what a process does, "load" being exec with a new text; up:       *)
(* u.u_procp; p, os, ff: the arguments of xswap; x: a text; f: the         *)
(* program; new: a size; op: the transfer; hdr: the header it waits for;   *)
(* cc and xs: where xccdec and xswap return to.                            *)
Idle(a) ==
  [call |-> "none", up |-> a, p |-> a, os |-> 0, ff |-> TRUE, x |-> None,
   f |-> None, new |-> 0, op |-> "none", hdr |-> 0, cc |-> "none", xs |-> "none"]

Init ==
  /\ core = NCORE - 1 /\ swap = NSWAP
  /\ coreI = [p \in Proc |-> IF p = Root THEN 1 ELSE 0]
  /\ swapI = [p \in Proc |-> 0]
  /\ coreT = [x \in Text |-> "absent"] /\ swapT = [x \in Text |-> "absent"]
  /\ stat = [p \in Proc |-> IF p = Root THEN "run" ELSE "free"]
  /\ parent = [p \in Proc |-> None]
  /\ load = [p \in Proc |-> p = Root] /\ slock = [p \in Proc |-> FALSE]
  /\ size = [p \in Proc |-> IF p = Root THEN 1 ELSE 0]
  /\ textp = [p \in Proc |-> None] /\ prog = [p \in Proc |-> None]
  /\ iptr = [x \in Text |-> None]
  /\ count = [x \in Text |-> 0] /\ ccount = [x \in Text |-> 0]
  /\ xload = [x \in Text |-> FALSE] /\ xwrit = [x \in Text |-> FALSE]
  /\ lock = [x \in Text |-> None]
  /\ ilock = [f \in File |-> None] /\ itext = [f \in File |-> FALSE]
  /\ icount = [f \in File |-> 0] /\ opens = [f \in File |-> 0]
  /\ sticky \in SUBSET File /\ stale = FALSE
  /\ swbuf = [h \in Header |-> None]
  /\ pc = [a \in Actor |-> IF a = Root THEN "user"
                           ELSE IF a = Sched THEN "sched" ELSE "none"]
  /\ u = [a \in Actor |-> Idle(a)]
  /\ cpu = None

Users(x) == {p \in Proc : textp[p] = x}
Children(p) == {c \in Proc : stat[c] # "free" /\ parent[c] = p}
Zombies(p) == {c \in Children(p) : stat[c] = "zomb"}

(***************************************************************************)
(* Who may run.                                                            *)
(***************************************************************************)

(* The loops on a lock or a condition.  A wake-up is not an event here: an *)
(* actor may go on as soon as its test succeeds.                           *)
Waiting(a) ==
  \/ pc[a] = "namei" /\ ilock[u[a].f] # None
  \/ pc[a] \in {"xfree", "xallocLock", "xuntext", "swapinText", "xccdecLock"}
       /\ u[a].x # None /\ lock[u[a].x] # None
  \/ pc[a] = "header" /\ swbuf[u[a].hdr] # None
  \/ pc[a] = "wait" /\ Zombies(a) = {}

(* Those that sched has to bring in.                                       *)
Wanting ==
  {p \in Proc : stat[p] = "run" /\ ~ load[p] /\ pc[p] # "io" /\ ~ Waiting(p)}

Blocked(a) == Waiting(a) \/ (pc[a] = "runout" /\ Wanting = {})

(* The process table entry that an actor runs under is in core.            *)
Loaded(a) == a # Sched => load[u[a].up] /\ stat[u[a].up] = "run"

(* The priority with which an actor sleeps (PSWP, PSWP+1, PINOD, PRIBIO,   *)
(* PWAIT, PUSER), and those on the run queue; at "io" and "runin" an actor *)
(* waits for an interrupt.                                                 *)
Priority(a) ==
  CASE pc[a] = "user" -> 50
    [] pc[a] = "wait" -> 30
    [] pc[a] = "done" /\ u[a].op \in {"textread", "dataread"} -> 20
    [] pc[a] = "namei" -> 10
    [] pc[a] = "header" -> 1
    [] OTHER -> 0

Ready(a) ==
  /\ pc[a] \notin {"none", "io", "runin"}
  /\ Loaded(a) /\ ~ Blocked(a)

(* swtch takes the best.                                                   *)
MayStart(a) ==
  /\ cpu = None /\ Ready(a)
  /\ \A b \in Actor : Ready(b) => Priority(a) <= Priority(b)

At(a, where) == pc[a] = where /\ ~ Blocked(a) /\ (cpu = a \/ MayStart(a))

(* Where the one who has the processor gives it up: swtch in sleep, exit   *)
(* or qswtch, or the end of its time in user mode.                         *)
GivesUp(a) ==
  \/ Blocked(a)
  \/ pc[a] = "user"
  \/ pc[a] = "swapped" /\ ~ Loaded(a)

Place(a, where, frame) ==
  /\ pc' = [pc EXCEPT ![a] = where]
  /\ u' = [u EXCEPT ![a] = frame]
Goes(a, where, frame) == Place(a, where, frame) /\ cpu' = a
Sleeps(a, where, frame) == Place(a, where, frame) /\ cpu' = None
Returns(p) == Goes(p, "user", Idle(p))

Switch(a) ==
  /\ cpu = a /\ GivesUp(a)
  /\ cpu' = None
  /\ UNCHANGED <<space, procs, texts, files, swbuf, pc, u>>

(* malloc of n units of core may fail for want of a run of n.              *)
CoreFor(n) == core >= n
NoCoreFor(n) == core < n \/ n > 1

(***************************************************************************)
(* swap: a header, the transfer, and what each caller does after it.       *)
(***************************************************************************)

(* B_WANTED of swbuf2 may be off again although somebody waits for it.     *)
HeaderChoice ==
  IF swbuf[1] = None THEN {1}
  ELSE IF \E b \in Actor : pc[b] = "header" /\ u[b].hdr = 2 THEN Header
  ELSE {2}

Swap(a) ==
  /\ At(a, "swap")
  /\ \E h \in HeaderChoice :
       IF swbuf[h] # None
         THEN Sleeps(a, "header", [u[a] EXCEPT !.hdr = h]) /\ UNCHANGED swbuf
         ELSE Sleeps(a, "io", u[a]) /\ swbuf' = [swbuf EXCEPT ![h] = a]
  /\ UNCHANGED <<space, procs, texts, files>>

SwapHeader(a) ==
  /\ At(a, "header")
  /\ swbuf' = [swbuf EXCEPT ![u[a].hdr] = a]
  /\ Sleeps(a, "io", [u[a] EXCEPT !.hdr = 0])
  /\ UNCHANGED <<space, procs, texts, files>>

(* An interrupt, while somebody runs or nobody can: the transfer of a is   *)
(* complete, or a second is over.                                          *)
Interrupt(a) ==
  /\ \/ pc[a] = "io" /\ pc' = [pc EXCEPT ![a] = "done"]
     \/ pc[a] = "runin" /\ pc' = [pc EXCEPT ![a] = "sched"]
  /\ IF cpu = None THEN \A b \in Actor : ~ Ready(b)
     ELSE GivesUp(cpu) \/ pc[cpu] \in {"sched", "victim", "swap", "exited", "dataread", "attached"}
  /\ UNCHANGED <<space, procs, texts, files, swbuf, u, cpu>>

(* The actor that started a transfer runs again after it.                  *)
Done(a, op) ==
  /\ At(a, "done") /\ u[a].op = op
  /\ swbuf' = [h \in Header |-> IF swbuf[h] = a THEN None ELSE swbuf[h]]

(***************************************************************************)
(* xccdec and xswap.                                                       *)
(***************************************************************************)
XccdecReturns(a, cc) ==
  IF cc = "xswap"
    THEN Goes(a, "swap", [u[a] EXCEPT !.x = None, !.cc = "none", !.op = "imageout"])
    ELSE Goes(a, cc, [u[a] EXCEPT !.x = None, !.cc = "none", !.op = "none"])

(* xccdec(x), called by a, which goes on at cc.  The test comes before the *)
(* lock, which xlock may then have to wait for.                            *)
Xccdec(a, x, cc) ==
  IF x = None \/ ccount[x] = 0 THEN XccdecReturns(a, cc)
  ELSE Goes(a, "xccdecLock", [u[a] EXCEPT !.x = x, !.cc = cc])

XccdecLock(a) ==
  LET x == u[a].x IN
  /\ At(a, "xccdecLock")
  /\ ccount' = [ccount EXCEPT ![x] = @ - 1]
  /\ CASE ccount[x] # 1 ->
            XccdecReturns(a, u[a].cc) /\ UNCHANGED <<core, coreT, xwrit, lock>>
       [] ccount[x] = 1 /\ ~ xwrit[x] ->
            /\ core' = core + 1
            /\ coreT' = [coreT EXCEPT ![x] = "absent"]
            /\ XccdecReturns(a, u[a].cc)
            /\ UNCHANGED <<xwrit, lock>>
       [] ccount[x] = 1 /\ xwrit[x] ->
            /\ xwrit' = [xwrit EXCEPT ![x] = FALSE]
            /\ lock' = [lock EXCEPT ![x] = a]
            /\ Goes(a, "swap", [u[a] EXCEPT !.op = "textout"])
            /\ UNCHANGED <<core, coreT>>
  /\ UNCHANGED <<swap, coreI, swapI, swapT, iptr, count, xload, procs, files, swbuf>>

TextWritten(a) ==
  LET x == u[a].x IN
  /\ Done(a, "textout")
  /\ swapT' = [swapT EXCEPT ![x] = coreT[x]]
  /\ coreT' = [coreT EXCEPT ![x] = "absent"]
  /\ core' = core + 1
  /\ lock' = [lock EXCEPT ![x] = None]
  /\ XccdecReturns(a, u[a].cc)
  /\ UNCHANGED <<swap, coreI, swapI, procs, iptr, count, ccount, xload, xwrit, files>>

(* xswap(p, ff, os), called by a, which goes on at xs.                     *)
Xswap(a) ==
  LET p == u[a].p IN
  /\ At(a, "xswap")
  /\ swap' = swap - size[p]
  /\ swapI' = [swapI EXCEPT ![p] = size[p]]
  /\ slock' = [slock EXCEPT ![p] = TRUE]
  /\ Xccdec(a, textp[p], "xswap")
  /\ UNCHANGED <<core, coreI, stat, parent, load, size, textp, prog, texts, files, swbuf>>

(* Mutant: the new size.                                                   *)
GivenNew(a) == size[u[a].p]

(* What xswap gives back: the old size, in core, not the new one.          *)
Given(a) == u[a].os

ImageWritten(a) ==
  LET p == u[a].p
      frame == [u[a] EXCEPT !.p = a, !.os = 0, !.ff = TRUE, !.op = "none", !.xs = "none"]
  IN  /\ Done(a, "imageout")
      /\ IF u[a].ff
           THEN core' = core + Given(a) /\ coreI' = [coreI EXCEPT ![p] = 0]
           ELSE UNCHANGED <<core, coreI>>
      /\ load' = [load EXCEPT ![p] = FALSE]
      /\ slock' = [slock EXCEPT ![p] = FALSE]
      /\ Goes(a, u[a].xs, frame)
      /\ UNCHANGED <<swap, swapI, stat, parent, size, textp, prog, texts, files>>

(***************************************************************************)
(* fork.                                                                   *)
(***************************************************************************)

(* Mutant: the parent may run meanwhile.                                   *)
StatRuns == "run"

(* The state of a parent whose image is written out as the child's.        *)
StatInSwap == "idl"

(* The new entry; the child waits off the run queue until setrq.           *)
Newproc(p, c) ==
  /\ stat' = [stat EXCEPT ![c] = "run", ![p] = IF coreI'[c] = 0 THEN StatInSwap ELSE "run"]
  /\ parent' = [parent EXCEPT ![c] = p]
  /\ load' = [load EXCEPT ![c] = TRUE]
  /\ size' = [size EXCEPT ![c] = size[p]]
  /\ textp' = [textp EXCEPT ![c] = textp[p]]
  /\ prog' = [prog EXCEPT ![c] = prog[p]]
  /\ count' = [x \in Text |-> IF x = textp[p] THEN count[x] + 1 ELSE count[x]]
  /\ ccount' = [x \in Text |-> IF x = textp[p] THEN ccount[x] + 1 ELSE ccount[x]]
  /\ UNCHANGED <<swap, swapI, slock, coreT, swapT, iptr, flags, files, swbuf>>

(* The child's image is a copy in core, or the parent's, written out as    *)
(* the child's.                                                            *)
Fork(p, c) ==
  /\ At(p, "user") /\ stat[c] = "free" /\ swap >= MaxSize
  /\ \/ /\ CoreFor(size[p])
        /\ core' = core - size[p]
        /\ coreI' = [coreI EXCEPT ![c] = size[p]]
        /\ pc' = [pc EXCEPT ![c] = "user"]
        /\ cpu' = p
        /\ UNCHANGED u
     \/ /\ NoCoreFor(size[p])
        /\ UNCHANGED <<core, coreI>>
        /\ Goes(p, "xswap", [u[p] EXCEPT !.call = "fork", !.up = c, !.p = c,
                                         !.ff = FALSE, !.xs = "forked"])
  /\ Newproc(p, c)

Forked(p) ==
  LET c == u[p].up IN
  /\ At(p, "forked")
  /\ stat' = [stat EXCEPT ![p] = "run"]
  /\ pc' = [pc EXCEPT ![p] = "user", ![c] = "user"]
  /\ u' = [u EXCEPT ![p] = Idle(p)]
  /\ cpu' = p
  /\ UNCHANGED <<space, parent, load, slock, size, textp, prog, texts, files, swbuf>>

(***************************************************************************)
(* exit and wait.                                                          *)
(***************************************************************************)
AfterXfree(frame) == IF frame.call = "exit" THEN "exited" ELSE "expand"
CallsXfree(p, frame) ==
  IF textp[p] = None THEN Goes(p, AfterXfree(frame), frame)
  ELSE Goes(p, "xfree", [frame EXCEPT !.x = textp[p]])

Exit(p) ==
  /\ At(p, "user")
  /\ CallsXfree(p, [u[p] EXCEPT !.call = "exit"])
  /\ UNCHANGED <<space, procs, texts, files, swbuf>>

Xfree(p) ==
  LET x == u[p].x
      f == iptr[x]
      after == AfterXfree(u[p])
  IN  /\ At(p, "xfree")
      /\ textp' = [textp EXCEPT ![p] = None]
      /\ count' = [count EXCEPT ![x] = @ - 1]
      /\ IF count[x] = 1 /\ f \notin sticky
           THEN /\ iptr' = [iptr EXCEPT ![x] = None]
                /\ swap' = swap + 1 /\ core' = core + 1
                /\ swapT' = [swapT EXCEPT ![x] = "absent"]
                /\ coreT' = [coreT EXCEPT ![x] = "absent"]
                /\ itext' = [itext EXCEPT ![f] = FALSE]
                /\ icount' = [icount EXCEPT ![f] = @ - 1]
                /\ Goes(p, after, [u[p] EXCEPT !.x = None])
           ELSE /\ Xccdec(p, x, after)
                /\ UNCHANGED <<core, swap, coreT, swapT, iptr, itext, icount>>
      /\ UNCHANGED <<coreI, swapI, stat, parent, load, slock, size, prog, ccount, flags,
                     ilock, opens, sticky, stale, swbuf>>

Orphans(p) == Children(p)

(* The rest of exit, from mfree to swtch.                                  *)
Exited(p) ==
  /\ At(p, "exited")
  /\ core' = core + size[p]
  /\ coreI' = [coreI EXCEPT ![p] = 0]
  /\ stat' = [stat EXCEPT ![p] = "zomb"]
  /\ size' = [size EXCEPT ![p] = 0] /\ prog' = [prog EXCEPT ![p] = None]
  /\ parent' = [q \in Proc |-> IF q \in Orphans(p) THEN Root ELSE parent[q]]
  /\ Sleeps(p, "none", Idle(p))
  /\ UNCHANGED <<swap, swapI, load, slock, textp, texts, files, swbuf>>

Wait(p) ==
  /\ At(p, "user") /\ Children(p) # {}
  /\ Goes(p, "wait", [u[p] EXCEPT !.call = "wait"])
  /\ UNCHANGED <<space, procs, texts, files, swbuf>>

Reap(p, c) ==
  /\ At(p, "wait") /\ c \in Zombies(p)
  /\ stat' = [stat EXCEPT ![c] = "free"]
  /\ parent' = [parent EXCEPT ![c] = None]
  /\ load' = [load EXCEPT ![c] = FALSE]
  /\ Returns(p)
  /\ UNCHANGED <<space, slock, size, textp, prog, texts, files, swbuf>>

(***************************************************************************)
(* break, and exec of a program with a shared text or (None) without.      *)
(***************************************************************************)
Break(p, n) ==
  /\ At(p, "user") /\ n # size[p]
  /\ Goes(p, "expand", [u[p] EXCEPT !.call = "break", !.new = n])
  /\ UNCHANGED <<space, procs, texts, files, swbuf>>

AfterExpand(p) ==
  IF u[p].call = "break" THEN Returns(p)
  ELSE Goes(p, IF u[p].f = None THEN "dataread" ELSE "xalloc", [u[p] EXCEPT !.new = 0])

Expand(p) ==
  LET n == size[p]
      new == u[p].new
  IN  /\ At(p, "expand")
      /\ size' = [size EXCEPT ![p] = new]
      /\ \/ /\ new <= n \/ CoreFor(new)
            /\ core' = core + n - new
            /\ coreI' = [coreI EXCEPT ![p] = new]
            /\ AfterExpand(p)
         \/ /\ new > n /\ NoCoreFor(new)
            /\ UNCHANGED <<core, coreI>>
            /\ Goes(p, "xswap", [u[p] EXCEPT !.new = 0, !.os = n, !.xs = "swapped"])
      /\ UNCHANGED <<swap, swapI, stat, parent, load, slock, textp, prog, texts, files, swbuf>>

(* The process is back after an xswap of itself, in expand or in xexpand.  *)
SwappedIn(p) ==
  /\ At(p, "swapped") /\ Loaded(p)
  /\ IF u[p].call # "break" /\ textp[p] # None THEN Goes(p, "attached", u[p])
     ELSE AfterExpand(p)
  /\ UNCHANGED <<space, procs, texts, files, swbuf>>

Exec(p, f) ==
  /\ At(p, "user")
  /\ LET frame == [u[p] EXCEPT !.call = "exec", !.f = f, !.new = ImageSize(f)] IN
     IF f = None THEN CallsXfree(p, frame) ELSE Goes(p, "namei", frame)
  /\ UNCHANGED <<space, procs, texts, files, swbuf>>

(* Mutant: the reference that exec itself has is allowed for.              *)
TextBusyLate(f) == ~ itext[f] /\ icount[f] > 1

TextBusy(f) == ~ itext[f] /\ icount[f] # 0

(* namei gives the inode locked, and getxfile refuses with ETXTBSY a file  *)
(* that is open and is not a running text.                                 *)
ExecNamei(p) ==
  LET f == u[p].f IN
  /\ At(p, "namei") /\ u[p].call = "exec"
  /\ IF TextBusy(f)
       THEN Returns(p) /\ UNCHANGED <<ilock, icount>>
       ELSE /\ ilock' = [ilock EXCEPT ![f] = p]
            /\ icount' = [icount EXCEPT ![f] = @ + 1]
            /\ CallsXfree(p, u[p])
  /\ UNCHANGED <<space, procs, texts, itext, opens, sticky, stale, swbuf>>

Xalloc(p) ==
  LET f == u[p].f IN
  /\ At(p, "xalloc")
  /\ \/ \E x \in Text :
          /\ iptr[x] = f
          /\ Goes(p, "xallocLock", [u[p] EXCEPT !.x = x])
          /\ UNCHANGED <<swap, textp, texts, itext, icount>>
     \/ /\ \A x \in Text : iptr[x] # f
        /\ LET x == CHOOSE x \in Text : iptr[x] = None IN
           /\ xload' = [xload EXCEPT ![x] = TRUE]
           /\ xwrit' = [xwrit EXCEPT ![x] = FALSE]
           /\ lock' = [lock EXCEPT ![x] = p]
           /\ count' = [count EXCEPT ![x] = 1]
           /\ ccount' = [ccount EXCEPT ![x] = 0]
           /\ iptr' = [iptr EXCEPT ![x] = f]
           /\ itext' = [itext EXCEPT ![f] = TRUE]
           /\ icount' = [icount EXCEPT ![f] = @ + 1]
           /\ swap' = swap - 1
           /\ swapT' = [swapT EXCEPT ![x] = "junk"]
           /\ textp' = [textp EXCEPT ![p] = x]
           /\ Goes(p, "xexpand", [u[p] EXCEPT !.call = "load"])
           /\ UNCHANGED coreT
  /\ UNCHANGED <<core, coreI, swapI, stat, parent, load, slock, size, prog,
                 ilock, opens, sticky, stale, swbuf>>

(* History: a process that waited in xlock, in xalloc or in xuntext, goes  *)
(* on with a text that is f's now, and not g's, for which it was found.    *)
WentOnWith(f, g) == stale' = (stale \/ f # g)

XallocLock(p) ==
  LET x == u[p].x
      frame == [u[p] EXCEPT !.x = None]
  IN  /\ At(p, "xallocLock")
      /\ count' = [count EXCEPT ![x] = @ + 1]
      /\ textp' = [textp EXCEPT ![p] = x]
      /\ IF ccount[x] = 0
           THEN /\ lock' = [lock EXCEPT ![x] = p]
                /\ Goes(p, "xexpand", frame)
                /\ UNCHANGED ccount
           ELSE /\ ccount' = [ccount EXCEPT ![x] = @ + 1]
                /\ Goes(p, "dataread", frame)
                /\ UNCHANGED lock
      /\ WentOnWith(iptr[x], u[p].f)
      /\ UNCHANGED <<space, stat, parent, load, slock, size, prog, coreT, swapT, iptr,
                     xload, xwrit, ilock, itext, icount, opens, sticky, swbuf>>

Xexpand(p) ==
  LET x == textp[p] IN
  /\ At(p, "xexpand")
  /\ \/ /\ CoreFor(1)
        /\ core' = core - 1
        /\ coreT' = [coreT EXCEPT ![x] = "junk"]
        /\ IF xload[x]
             THEN /\ ccount' = [ccount EXCEPT ![x] = @ + 1]
                  /\ lock' = [lock EXCEPT ![x] = None]
                  /\ Goes(p, "attached", u[p])
             ELSE /\ Goes(p, "swap", [u[p] EXCEPT !.op = "textin"])
                  /\ UNCHANGED <<ccount, lock>>
     \/ /\ NoCoreFor(1)
        /\ Goes(p, "xswap", [u[p] EXCEPT !.os = size[p], !.xs = "xexpandOut"])
        /\ UNCHANGED <<core, coreT, ccount, lock>>
  /\ UNCHANGED <<swap, coreI, swapI, procs, swapT, iptr, count, xload, xwrit, files, swbuf>>

(* xunlock and qswtch after the xswap.                                     *)
XexpandOut(p) ==
  /\ At(p, "xexpandOut")
  /\ lock' = [lock EXCEPT ![textp[p]] = None]
  /\ Goes(p, "swapped", u[p])
  /\ UNCHANGED <<space, procs, coreT, swapT, iptr, count, ccount, xload, xwrit, files, swbuf>>

XexpandRead(p) ==
  LET x == textp[p] IN
  /\ p # Sched /\ Done(p, "textin")
  /\ coreT' = [coreT EXCEPT ![x] = swapT[x]]
  /\ ccount' = [ccount EXCEPT ![x] = @ + 1]
  /\ lock' = [lock EXCEPT ![x] = None]
  /\ Goes(p, "attached", [u[p] EXCEPT !.op = "none"])
  /\ UNCHANGED <<space, procs, swapT, iptr, count, xload, xwrit, files>>

(* xalloc after xexpand: xunlock once more, or the text read from the file *)
(* with the image kept in core.                                            *)
Attached(p) ==
  LET x == textp[p] IN
  /\ At(p, "attached")
  /\ IF u[p].call = "load"
       THEN /\ slock' = [slock EXCEPT ![p] = TRUE]
            /\ Sleeps(p, "io", [u[p] EXCEPT !.op = "textread"])
            /\ UNCHANGED lock
       ELSE /\ lock' = [lock EXCEPT ![x] = None]
            /\ Goes(p, "dataread", u[p])
            /\ UNCHANGED slock
  /\ UNCHANGED <<space, stat, parent, load, size, textp, prog, coreT, swapT, iptr, count,
                 ccount, xload, xwrit, files, swbuf>>

TextRead(p) ==
  LET x == textp[p] IN
  /\ Done(p, "textread")
  /\ slock' = [slock EXCEPT ![p] = FALSE]
  /\ coreT' = [coreT EXCEPT ![x] = "good"]
  /\ xload' = [xload EXCEPT ![x] = FALSE]
  /\ xwrit' = [xwrit EXCEPT ![x] = TRUE]
  /\ lock' = [lock EXCEPT ![x] = None]
  /\ Goes(p, "dataread", [u[p] EXCEPT !.op = "none"])
  /\ UNCHANGED <<space, stat, parent, load, size, textp, prog, swapT, iptr, count, ccount,
                 files>>

DataRead(p) ==
  /\ At(p, "dataread")
  /\ Sleeps(p, "io", [u[p] EXCEPT !.call = "exec", !.op = "dataread"])
  /\ UNCHANGED <<space, procs, texts, files, swbuf>>

(* The end of exec, with the iput of exece.                                *)
ExecEnd(p) ==
  LET f == u[p].f IN
  /\ Done(p, "dataread")
  /\ prog' = [prog EXCEPT ![p] = f]
  /\ ilock' = [g \in File |-> IF g = f THEN None ELSE ilock[g]]
  /\ icount' = [g \in File |-> IF g = f THEN icount[g] - 1 ELSE icount[g]]
  /\ Returns(p)
  /\ UNCHANGED <<space, stat, parent, load, slock, size, textp, texts, itext, opens, sticky,
                 stale>>

(***************************************************************************)
(* open for writing and close.                                             *)
(***************************************************************************)
Open(p, f) ==
  /\ At(p, "user") /\ opens[f] < MaxOpens
  /\ Goes(p, "namei", [u[p] EXCEPT !.call = "open", !.f = f])
  /\ UNCHANGED <<space, procs, texts, files, swbuf>>

OpenNamei(p) ==
  LET f == u[p].f IN
  /\ At(p, "namei") /\ u[p].call = "open"
  /\ icount' = [icount EXCEPT ![f] = @ + 1]
  /\ IF itext[f]
       THEN /\ \E x \in Text : iptr[x] = f /\ Goes(p, "xuntext", [u[p] EXCEPT !.x = x])
            /\ ilock' = [ilock EXCEPT ![f] = p]
            /\ UNCHANGED opens
       ELSE /\ opens' = [opens EXCEPT ![f] = @ + 1]
            /\ Returns(p)
            /\ UNCHANGED ilock
  /\ UNCHANGED <<space, procs, texts, itext, sticky, stale, swbuf>>

Close(p, f) ==
  /\ At(p, "user") /\ opens[f] > 0
  /\ opens' = [opens EXCEPT ![f] = @ - 1]
  /\ icount' = [icount EXCEPT ![f] = @ - 1]
  /\ cpu' = p
  /\ UNCHANGED <<space, procs, texts, ilock, itext, sticky, stale, swbuf, pc, u>>

(* xuntext, and access and open after it: ETXTBSY if ITEXT is still set.   *)
Xuntext(p) ==
  LET x == u[p].x
      f == iptr[x]
      unused == count[x] = 0
      drop == IF unused THEN 1 ELSE 0
      busy == IF itext'[u[p].f] THEN 1 ELSE 0
  IN  /\ At(p, "xuntext")
      /\ iptr' = [iptr EXCEPT ![x] = IF unused THEN None ELSE f]
      /\ swapT' = [swapT EXCEPT ![x] = IF unused THEN "absent" ELSE @]
      /\ swap' = swap + drop
      /\ itext' = [g \in File |-> itext[g] /\ ~ (unused /\ g = f)]
      /\ ilock' = [ilock EXCEPT ![u[p].f] = None]
      /\ opens' = [opens EXCEPT ![u[p].f] = @ + 1 - busy]
      /\ icount' = [g \in File |-> icount[g] - (IF g = f THEN drop ELSE 0)
                                            - (IF g = u[p].f THEN busy ELSE 0)]
      /\ WentOnWith(f, u[p].f)
      /\ Returns(p)
      /\ UNCHANGED <<core, coreI, swapI, procs, coreT, count, ccount, flags, sticky, swbuf>>

(***************************************************************************)
(* sched.  Times are left out: any wanted process may be the one that is   *)
(* out longest, and any candidate that is not asleep at a bad priority may *)
(* or may not be old enough.                                               *)
(***************************************************************************)
SchedLoop ==
  /\ At(Sched, "sched") \/ At(Sched, "runout")
  /\ \/ /\ Wanting = {}
        /\ Sleeps(Sched, "runout", Idle(Sched))
     \/ \E p \in Wanting : Goes(Sched, "swapin", [Idle(Sched) EXCEPT !.p = p])
  /\ UNCHANGED <<space, procs, texts, files, swbuf>>

Swapin ==
  LET p == u[Sched].p IN
  /\ At(Sched, "swapin")
  /\ \/ /\ CoreFor(size[p])
        /\ core' = core - size[p]
        /\ coreI' = [coreI EXCEPT ![p] = size[p]]
        /\ IF textp[p] = None
             THEN Goes(Sched, "swap", [u[Sched] EXCEPT !.op = "imagein"])
             ELSE Goes(Sched, "swapinText", [u[Sched] EXCEPT !.x = textp[p]])
     \/ /\ NoCoreFor(size[p])
        /\ Goes(Sched, "victim", Idle(Sched))
        /\ UNCHANGED <<core, coreI>>
  /\ UNCHANGED <<swap, swapI, procs, texts, files, swbuf>>

SwapinText ==
  LET p == u[Sched].p
      x == u[Sched].x
      frame == [u[Sched] EXCEPT !.x = None, !.op = "imagein"]
  IN  /\ At(Sched, "swapinText")
      /\ \/ /\ ccount[x] # 0
            /\ ccount' = [ccount EXCEPT ![x] = @ + 1]
            /\ Goes(Sched, "swap", frame)
            /\ UNCHANGED <<core, coreI, coreT, lock>>
         \/ /\ ccount[x] = 0 /\ NoCoreFor(1)
            /\ core' = core + size[p]
            /\ coreI' = [coreI EXCEPT ![p] = 0]
            /\ Goes(Sched, "victim", Idle(Sched))
            /\ UNCHANGED <<coreT, ccount, lock>>
         \/ /\ ccount[x] = 0 /\ CoreFor(1)
            /\ core' = core - 1
            /\ coreT' = [coreT EXCEPT ![x] = "junk"]
            /\ IF xload[x]
                 THEN /\ ccount' = [ccount EXCEPT ![x] = @ + 1]
                      /\ Goes(Sched, "swap", frame)
                      /\ UNCHANGED lock
                 ELSE /\ lock' = [lock EXCEPT ![x] = Sched]
                      /\ Goes(Sched, "swap", [u[Sched] EXCEPT !.op = "textin"])
                      /\ UNCHANGED ccount
            /\ UNCHANGED coreI
      /\ UNCHANGED <<swap, swapI, procs, swapT, iptr, count, xload, xwrit, files, swbuf>>

SwapinTextRead ==
  LET x == u[Sched].x IN
  /\ Done(Sched, "textin")
  /\ coreT' = [coreT EXCEPT ![x] = swapT[x]]
  /\ ccount' = [ccount EXCEPT ![x] = @ + 1]
  /\ lock' = [lock EXCEPT ![x] = None]
  /\ Goes(Sched, "swap", [u[Sched] EXCEPT !.x = None, !.op = "imagein"])
  /\ UNCHANGED <<space, procs, swapT, iptr, count, xload, xwrit, files>>

SwapinEnd ==
  LET p == u[Sched].p IN
  /\ Done(Sched, "imagein")
  /\ swap' = swap + size[p]
  /\ swapI' = [swapI EXCEPT ![p] = 0]
  /\ load' = [load EXCEPT ![p] = TRUE]
  /\ Goes(Sched, "sched", Idle(Sched))
  /\ UNCHANGED <<core, coreI, stat, parent, slock, size, textp, prog, texts, files>>

(* Mutant: the lock of the text is not looked at.                          *)
CandidatesUnlocked == {p \in Proc : stat[p] = "run" /\ load[p] /\ ~ slock[p]}

(* Mutant: SLOCK is not looked at.                                         *)
CandidatesBusy ==
  {p \in Proc : /\ stat[p] = "run" /\ load[p]
                /\ textp[p] # None => lock[textp[p]] = None}

Candidates ==
  {p \in Proc : /\ stat[p] = "run" /\ load[p] /\ ~ slock[p]
                /\ textp[p] # None => lock[textp[p]] = None}
BadSleepers == {p \in Candidates : pc[p] = "wait" /\ Zombies(p) = {}}
Victims ==
  IF BadSleepers = {} THEN Candidates
  ELSE {p \in BadSleepers : \A q \in BadSleepers : size[q] <= size[p]}

Swapout ==
  /\ At(Sched, "victim")
  /\ \/ \E p \in Victims :
          /\ load' = [load EXCEPT ![p] = FALSE]
          /\ Goes(Sched, "xswap", [u[Sched] EXCEPT !.p = p, !.os = size[p], !.xs = "sched"])
     \/ /\ BadSleepers = {}
        /\ Sleeps(Sched, "runin", Idle(Sched))
        /\ UNCHANGED load
  /\ UNCHANGED <<space, stat, parent, slock, size, textp, prog, texts, files, swbuf>>

(***************************************************************************)
(* The specification.                                                      *)
(***************************************************************************)
(* At says this again and more; said first, TLC need not look at the       *)
(* operations of all the others.                                           *)
Turn(a) == cpu \in {a, None} /\ pc[a] \notin {"none", "io"}

(* Process 1 runs init, which forks and waits.                             *)
Calls(p) ==
  \/ \E c \in Proc : Fork(p, c)
  \/ Wait(p)
  \/ /\ p # Root
     /\ \/ Exit(p)
        \/ \E n \in Sizes : Break(p, n)
        \/ \E f \in File \cup {None} : Exec(p, f)
        \/ \E f \in File : Open(p, f) \/ Close(p, f)

Rest(p) ==
  \/ Forked(p)
  \/ Xfree(p) \/ Exited(p)
  \/ \E c \in Proc : Reap(p, c)
  \/ Expand(p) \/ SwappedIn(p)
  \/ ExecNamei(p) \/ Xalloc(p) \/ XallocLock(p) \/ Xexpand(p) \/ XexpandOut(p)
  \/ XexpandRead(p) \/ Attached(p) \/ TextRead(p) \/ DataRead(p) \/ ExecEnd(p)
  \/ OpenNamei(p) \/ Xuntext(p)

Swapping(a) ==
  \/ /\ Turn(a)
     /\ \/ Swap(a) \/ SwapHeader(a)
        \/ XccdecLock(a) \/ TextWritten(a)
        \/ Xswap(a) \/ ImageWritten(a)
  \/ Switch(a) \/ Interrupt(a)

Scheduling == SchedLoop \/ Swapin \/ SwapinText \/ SwapinTextRead \/ SwapinEnd \/ Swapout

Next ==
  \/ \E p \in Proc :
       /\ Turn(p)
       /\ \/ At(p, "user") /\ Calls(p)
          \/ pc[p] # "user" /\ Rest(p)
  \/ \E a \in Actor : Swapping(a)
  \/ Scheduling

Spec == Init /\ [][Next]_vars

(***************************************************************************)
(* Properties.                                                             *)
(***************************************************************************)

Copy == {"absent", "junk", "good"}

TypeOK ==
  /\ core \in 0 .. NCORE /\ swap \in 0 .. NSWAP
  /\ coreI \in [Proc -> 0 .. MaxSize] /\ swapI \in [Proc -> 0 .. MaxSize]
  /\ coreT \in [Text -> Copy] /\ swapT \in [Text -> Copy]
  /\ stat \in [Proc -> {"free", "run", "idl", "zomb"}]
  /\ parent \in [Proc -> Proc \cup {None}]
  /\ load \in [Proc -> BOOLEAN] /\ slock \in [Proc -> BOOLEAN]
  /\ size \in [Proc -> 0 .. MaxSize]
  /\ textp \in [Proc -> Text \cup {None}] /\ prog \in [Proc -> File \cup {None}]
  /\ iptr \in [Text -> File \cup {None}]
  /\ count \in [Text -> 0 .. Cardinality(Proc)]
  /\ ccount \in [Text -> 0 .. Cardinality(Proc)]
  /\ xload \in [Text -> BOOLEAN] /\ xwrit \in [Text -> BOOLEAN]
  /\ lock \in [Text -> Actor \cup {None}] /\ ilock \in [File -> Proc \cup {None}]
  /\ itext \in [File -> BOOLEAN] /\ icount \in [File -> Nat] /\ opens \in [File -> Nat]
  /\ sticky \subseteq File /\ stale \in BOOLEAN
  /\ swbuf \in [Header -> Actor \cup {None}]
  /\ cpu \in Actor \cup {None}

(* What the comments of malloc.c, inode.h and text.c say of every run.     *)
(* None of the three holds of every run of this code: xlock (text.c:103    *)
(* and 252) may wait while the text is freed, and what follows does not    *)
(* look again whether it is still the one that was asked for.  TLC finds   *)
(* each violated, TextCounts in the run proc_counts; what holds until that *)
(* has happened comes after them.                                          *)

(* Every unit of core and of the swap device is free, or part of exactly   *)
(* one image or text: what is given back was allocated (malloc.c, mfree),  *)
(* so nothing is freed twice, and nothing is lost.  Violated.              *)
MemoryOnce ==
  /\ core + SumFunction(coreI) + Cardinality({x \in Text : coreT[x] # "absent"}) = NCORE
  /\ swap + SumFunction(swapI) + Cardinality({x \in Text : swapT[x] # "absent"}) = NSWAP

(* p is on its way out of core, or into it, and its share of ccount has    *)
(* been given back, or taken, before SLOAD says so.                        *)
GoingOut(p) == \E a \in Actor : u[a].p = p /\ u[a].op = "imageout"
ComingIn(p) == u[Sched].p = p /\ u[Sched].op = "imagein"

(* The counts of texts and inodes agree with what they count whenever      *)
(* nobody is in the middle of a step: x_count the users, x_ccount those in *)
(* core, i_count the opens, the text and the process that has the inode.   *)
(* Violated: see the run proc_counts.                                      *)
TextCounts ==
  cpu = None =>
    /\ \A x \in Text : iptr[x] # None =>
         /\ count[x] = Cardinality(Users(x))
         /\ lock[x] = None =>
              ccount[x] = Cardinality({p \in Users(x) :
                            (load[p] /\ ~ GoingOut(p)) \/ ComingIn(p)})
    /\ \A f \in File :
         /\ itext[f] = (\E x \in Text : iptr[x] = f)
         /\ icount[f] = opens[f] + Cardinality({x \in Text : iptr[x] = f})
                        + (IF ilock[f] = None THEN 0 ELSE 1)

(* A process in user mode and in core has the text of its program in core, *)
(* read from the file or back from the swap device, and not one that was   *)
(* freed, reused or never read; and nobody has that file open for writing. *)
(* Violated.                                                               *)
TextIntact ==
  \A p \in Proc : pc[p] = "user" /\ load[p] =>
    IF prog[p] = None THEN textp[p] = None
    ELSE /\ textp[p] # None
         /\ iptr[textp[p]] = prog[p]
         /\ coreT[textp[p]] = "good"
         /\ opens[prog[p]] = 0

(* What is left of the three: each holds as long as nobody that waited in  *)
(* xlock has gone on with a text that was meanwhile freed, or given to     *)
(* another program.  So every double release, wrong count and wrong text   *)
(* comes from the two places without a second look.                        *)

(* Until then no unit is freed twice or lost, whatever fork, exec, break,  *)
(* exit and sched do between their sleeps.                                 *)
MemoryUnlessStale == ~ stale => MemoryOnce

(* Until then the counts agree.                                            *)
CountsUnlessStale == ~ stale => (cpu = None => TypeOK) /\ TextCounts

(* Until then a process in user mode has the text of its program.          *)
TextUnlessStale == ~ stale => TextIntact

(* A process that takes the processor finds its image in core.             *)
RunsInCore ==
  [][\A p \in Proc :
       cpu = None /\ pc'[p] # pc[p] /\ pc[p] \notin {"none", "io"} => coreI[p] > 0]_vars

(* The units that an image gives back, in core or on the swap device, are  *)
(* as many as it has there, and those it takes as many as it has then, by  *)
(* whatever size exit, expand, xswap and sched reckon with.                *)
ImagesOnce ==
  [][\A p \in Proc :
       /\ coreI'[p] # coreI[p] => core' + coreI'[p] = core + coreI[p]
       /\ swapI'[p] # swapI[p] => swap' + swapI'[p] = swap + swapI[p]]_vars

(* Whom an actor needs before it can go on: the owner of what it waits     *)
(* for, or sched when it is swapped out.                                   *)
Owner(a) ==
  CASE pc[a] = "namei" -> ilock[u[a].f]
    [] pc[a] = "header" -> swbuf[u[a].hdr]
    [] pc[a] = "wait" -> None
    [] OTHER -> lock[u[a].x]

Needs(a) ==
  IF cpu = a \/ pc[a] = "none" THEN None
  ELSE IF Waiting(a) THEN Owner(a)
  ELSE IF Loaded(a) THEN None
  ELSE Sched

(* Those of S wait for each other and for nobody else.                     *)
Embrace(S) == S # {} /\ \A a \in S : Needs(a) \in S
Needy == {a \in Actor : Needs(a) # None}

(* The only deadly embrace is the one with a process that xfree let go of  *)
(* its text, that sched took for a victim while xccdec wrote that text     *)
(* out, and that still has the text's lock (text.c:203-207, slp.c:255).    *)
(* No other order of text locks, inode locks, swap headers and swapped out *)
(* processes closes a circle, as long as nobody has gone on with a text    *)
(* that was freed.                                                         *)
OnlyEmbrace ==
  ~ stale =>
    \A S \in SUBSET Needy : Embrace(S) =>
      \E p \in S \ {Sched} : ~ load[p] /\ u[p].op = "textout" /\ textp[p] = None
=============================================================================
