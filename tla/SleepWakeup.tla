----------------------------- MODULE SleepWakeup -----------------------------
(***************************************************************************)
(* Process switching in the kernel, src/usr/sys/sys/slp.c: sleep, wakeup,  *)
(* setrq, setrun, qswtch and swtch, the swapping process sched, and the    *)
(* callers that make processes run from elsewhere (psignal, stop and       *)
(* ptrace in sig.c, the end of trap in trap.c, the once-a-second part of   *)
(* clock in clock.c, xswap in text.c).                                     *)
(*                                                                         *)
(* A proc structure has ONE link, p_link: it threads the hash chain of     *)
(* slpque while the process sleeps and runq while it waits for the         *)
(* processor.  The queues are therefore modelled link by link.             *)
(*                                                                         *)
(* There is one processor and the kernel is not preempted, so the code     *)
(* between two points where the processor can be given up, or where an     *)
(* interrupt matters, is one step.  An interrupt may occur before any      *)
(* step: sections at spl6 are inside one step.                             *)
(*                                                                         *)
(* Abstracted: the sizes of processes (core is counted in whole images),   *)
(* ages and nice (p_time only decides whether the age test of sched        *)
(* passes: either outcome), p_cpu (setpri gives PUSER), shared text,       *)
(* fork and exit.                                                          *)
(***************************************************************************)
EXTENDS Naturals, Sequences, FiniteSets, SequencesExt

CONSTANTS
    Proc,       \* the ordinary processes
    Sched,      \* process 0
    Chan,       \* the channels on which ordinary processes sleep
    RunOut,     \* the channel &runout
    RunIn,      \* the channel &runin
    SwapBuf,    \* the channel of the swap buffer header
    Hash,       \* channel -> hash chain: HASH(chan)
    Core,       \* how many images fit in core
    Traced,     \* the processes with STRC set
    NULL

PSWP == 0
PRIBIO == 20
PZERO == 25
PSLEP == 40
PUSER == 50

AllProc == Proc \cup {Sched}
AllChan == Chan \cup {RunOut, RunIn, SwapBuf}

ASSUME HashAssumption == \A c \in AllChan : c \in DOMAIN Hash
ASSUME SizeAssumption == /\ Core \in Nat \ {0}
                         /\ IsFiniteSet(Proc) /\ Proc # {} /\ Sched \notin Proc
                         /\ Traced \subseteq Proc
ASSUME ChanAssumption == /\ NULL \notin AllProc \cup AllChan
                         /\ {RunOut, RunIn, SwapBuf} \cap Chan = {}
                         /\ RunOut # RunIn /\ RunIn # SwapBuf /\ SwapBuf # RunOut

Bucket == {Hash[c] : c \in AllChan}

VARIABLES
    slpque,     \* slpque[HASH]: head of the chain
    runq,       \* head of the run queue
    link,       \* p_link
    wchan,      \* p_wchan
    stat,       \* p_stat
    pri,        \* p_pri
    sload,      \* SLOAD in p_flag
    sig,        \* p_sig # 0 with a signal that is not ignored
    runout,     \* scheduling flags of systm.h
    runin,
    runrun,
    curpri,
    onq,        \* setrq has printed "proc on q"
    hung,       \* wakeup loops for ever
    cur,        \* u.u_procp; NULL while process 0 searches runq or idles
    leaving,    \* cur is about to call swtch
    pc,         \* where a process is, or goes on when it is resumed
    chosen,     \* p of sched
    core,       \* images that still fit in core
    swapio      \* the swap transfer: none, started, done

queues == <<slpque, runq, link, wchan, stat, runout, runrun, onq, hung>>
control == <<cur, leaving, pc>>
swapper == <<chosen, core, swapio>>
vars == <<queues, pri, sload, sig, runin, curpri, control, swapper>>

(***************************************************************************)
(* The processes wait on runq in some order, the first Core of them in     *)
(* core: the state a number of forks has left.                             *)
(***************************************************************************)
Init ==
    \E s \in SetToSeqs(Proc) :
        /\ slpque = [b \in Bucket |-> NULL]
        /\ runq = s[1]
        /\ link = [p \in AllProc |->
              IF \E i \in 2 .. Len(s) : s[i - 1] = p
              THEN s[CHOOSE i \in 2 .. Len(s) : s[i - 1] = p] ELSE NULL]
        /\ wchan = [p \in AllProc |-> NULL]
        /\ stat = [p \in AllProc |-> "SRUN"]
        /\ pri = [p \in AllProc |-> IF p = Sched THEN PSWP ELSE PUSER]
        /\ sload = [p \in AllProc |->
              p = Sched \/ \E i \in 1 .. Core : i \in DOMAIN s /\ s[i] = p]
        /\ sig = [p \in Proc |-> FALSE]
        /\ runout = FALSE /\ runin = FALSE /\ runrun = FALSE /\ onq = FALSE
        /\ hung = FALSE
        /\ curpri = PSWP
        /\ cur = Sched
        /\ leaving = FALSE
        /\ pc = [p \in AllProc |-> IF p = Sched THEN "scan" ELSE "run"]
        /\ chosen = NULL
        /\ core = IF Core > Len(s) THEN Core - Len(s) ELSE 0
        /\ swapio = "none"

-----------------------------------------------------------------------------
(***************************************************************************)
(* The queues.  Q is what sleep, wakeup, setrun and setrq change; the      *)
(* operators take such a record and give the record they leave.            *)
(***************************************************************************)
Q == [slpque |-> slpque, runq |-> runq, link |-> link, wchan |-> wchan,
      stat |-> stat, runout |-> runout, runrun |-> runrun, onq |-> onq,
      hung |-> hung]

Becomes(k) ==
    /\ slpque' = k.slpque /\ runq' = k.runq /\ link' = k.link
    /\ wchan' = k.wchan /\ stat' = k.stat /\ runout' = k.runout
    /\ runrun' = k.runrun /\ onq' = k.onq /\ hung' = k.hung

(* What a loop along the links meets, one process after the other; once    *)
(* they have all been met it can only meet them again.                     *)
NPROC == Cardinality(AllProc)
Met(lnk, head) ==
    LET m[i \in 1 .. NPROC + 1] ==
          IF i = 1 THEN head
          ELSE IF m[i - 1] = NULL THEN NULL ELSE lnk[m[i - 1]]
    IN  m
On(lnk, head) == {Met(lnk, head)[i] : i \in 1 .. NPROC} \ {NULL}

(* setrq: put p at the head of runq, unless it is on it.                   *)
SetRq(k, p) ==
    IF p \in On(k.link, k.runq)
    THEN [k EXCEPT !.onq = TRUE]
    ELSE [k EXCEPT !.link[p] = k.runq, !.runq = p]

(* setrun of a process without a channel, up to its test of runout.        *)
Enqueue(k, p) ==
    [SetRq([k EXCEPT !.stat[p] = "SRUN"], p) EXCEPT !.runrun = @ \/ pri[p] < curpri]

(* Mutant: the successor is read after setrun has reused the link.         *)
LateSuccessor(k, r, p) == r.link[p]

(* sp of wakeup, saved before setrun reuses the link of p.                 *)
Successor(k, r, p) == k.link[p]

(* Process p leaves the chain of chan, where q is before it.               *)
Unlink(k, chan, q, p) ==
    LET u == IF q = NULL THEN [k EXCEPT !.slpque[Hash[chan]] = k.link[p]]
                         ELSE [k EXCEPT !.link[q] = k.link[p]]
    IN  [u EXCEPT !.wchan[p] = NULL]

(* The loop of wakeup is at l.p, with the predecessor l.q.  l.seen is what *)
(* it has passed since it last woke a process: meeting one of them again,  *)
(* it goes round for ever at spl6.  r is what setrun leaves when l.p is    *)
(* woken.                                                                  *)
Start(k, chan) == [k |-> k, p |-> k.slpque[Hash[chan]], q |-> NULL, seen |-> {}]

Turn(l, chan, r) ==
    LET k == l.k
        p == l.p
    IN  CASE p = NULL -> l
          [] p # NULL /\ p \in l.seen ->
               [l EXCEPT !.k.hung = TRUE, !.p = NULL]
          [] p # NULL /\ p \notin l.seen /\ k.wchan[p] # chan ->
               [k |-> k, p |-> k.link[p], q |-> p, seen |-> l.seen \cup {p}]
          [] p # NULL /\ p \notin l.seen /\ k.wchan[p] = chan ->
               [k |-> r, p |-> Successor(k, r, p), q |-> l.q, seen |-> {}]

(* Each turn wakes a process or passes one.                                *)
MaxTurns == (NPROC + 1) * (NPROC + 1)

(* The wakeup of sched by setrun.  It is a loop within a loop, and as      *)
(* runout is 0 then, setrun starts none within that one.                   *)
WakeupSched(k) ==
    LET l[n \in 0 .. MaxTurns] ==
          IF n = 0 THEN Start(k, RunOut)
          ELSE LET m == l[n - 1]
               IN  Turn(m, RunOut, Enqueue(Unlink(m.k, RunOut, m.q, m.p), m.p))
    IN  l[MaxTurns].k

(* Mutant: sched is not told that a process out of core can run.           *)
MakeRunSilently(k, p) == Enqueue(k, p)

(* The whole of setrun of a process without a channel.                     *)
MakeRun(k, p) ==
    LET r == Enqueue(k, p)
    IN  IF r.runout /\ ~sload[p] THEN WakeupSched([r EXCEPT !.runout = FALSE])
                                 ELSE r

Wakeup(k, chan) ==
    LET l[n \in 0 .. MaxTurns] ==
          IF n = 0 THEN Start(k, chan)
          ELSE LET m == l[n - 1]
               IN  Turn(m, chan, MakeRun(Unlink(m.k, chan, m.q, m.p), m.p))
    IN  l[MaxTurns].k

(* setrun: a process with a channel is woken with all that sleep on it.    *)
SetRun(k, p) == IF k.wchan[p] # NULL THEN Wakeup(k, k.wchan[p]) ELSE MakeRun(k, p)

(* The section of sleep at spl6: process p goes to the head of the chain.  *)
Sleeps(k, p, chan) ==
    [k EXCEPT !.stat[p] = "SSLEEP", !.wchan[p] = chan,
              !.link[p] = k.slpque[Hash[chan]], !.slpque[Hash[chan]] = p]

-----------------------------------------------------------------------------
(***************************************************************************)
(* Ordinary processes.  pc is "run" in a system call, "slept" when it will *)
(* return from a sleep that signals can disturb, "trap" on the way out of  *)
(* the kernel, "stopped" inside stop().                                    *)
(***************************************************************************)
Running(p) == cur = p /\ ~leaving /\ ~hung

(* sleep(chan, priority) with priority <= PZERO.                           *)
SleepHard(p) ==
    /\ Running(p) /\ pc[p] = "run"
    /\ \E c \in Chan : Becomes(Sleeps(Q, p, c))
    /\ pri' = [pri EXCEPT ![p] = PRIBIO]
    /\ leaving' = TRUE
    /\ UNCHANGED <<sload, sig, runin, curpri, cur, pc, swapper>>

(* Mutant: issig() is not asked before the sleep.                          *)
SleepSoftNoIssig(p) ==
    /\ Running(p) /\ pc[p] = "run"
    /\ pri' = [pri EXCEPT ![p] = PSLEP]
    /\ \E c \in Chan : Becomes(Sleeps(Q, p, c))
    /\ leaving' = TRUE
    /\ pc' = [pc EXCEPT ![p] = "slept"]
    /\ UNCHANGED <<sload, sig, runin, curpri, cur, swapper>>

(* Mutant: the process that a signal stops stays on the chain.             *)
SleepSoftStaysLinked(p) ==
    /\ Running(p) /\ pc[p] = "run"
    /\ pri' = [pri EXCEPT ![p] = PSLEP]
    /\ \E c \in Chan :
          LET k == Sleeps(Q, p, c)
          IN  Becomes(IF sig[p] THEN [k EXCEPT !.wchan[p] = NULL,
                                               !.stat[p] = "SRUN"] ELSE k)
    /\ leaving' = ~sig[p]
    /\ pc' = [pc EXCEPT ![p] = IF sig[p] THEN "trap" ELSE "slept"]
    /\ UNCHANGED <<sload, sig, runin, curpri, cur, swapper>>

(* sleep(chan, priority) with priority > PZERO: a signal that is there     *)
(* makes the process leave the chain again and go to psig.                 *)
SleepSoft(p) ==
    /\ Running(p) /\ pc[p] = "run"
    /\ pri' = [pri EXCEPT ![p] = PSLEP]
    /\ \/ /\ ~sig[p]
          /\ \E c \in Chan : Becomes(Sleeps(Q, p, c))
          /\ leaving' = TRUE
          /\ pc' = [pc EXCEPT ![p] = "slept"]
       \/ /\ sig[p]
          /\ pc' = [pc EXCEPT ![p] = "trap"]
          /\ UNCHANGED <<queues, leaving>>
    /\ UNCHANGED <<sload, sig, runin, curpri, cur, swapper>>

(* The rest of sleep, and swtch up to the resume of process 0.             *)
Swtch(p) ==
    /\ cur = p /\ leaving /\ ~hung
    /\ cur' = NULL
    /\ leaving' = FALSE
    /\ IF runin /\ pc[p] = "slept"
       THEN Becomes(Wakeup(Q, RunIn)) /\ runin' = FALSE
       ELSE UNCHANGED <<queues, runin>>
    /\ UNCHANGED <<pri, sload, sig, curpri, pc, swapper>>

(* The end of trap: psig for a signal (stop() if the process is traced),   *)
(* setpri, and qswtch if runrun is set.                                    *)
Trap(p) ==
    /\ Running(p) /\ pc[p] \in {"run", "trap", "stopped"}
    /\ ~(sig[p] /\ p \in Traced /\ pc[p] # "stopped")
    /\ sig' = [sig EXCEPT ![p] = FALSE]
    /\ pri' = [pri EXCEPT ![p] = PUSER]
    /\ curpri' = PUSER
    /\ LET better == runrun \/ PUSER < curpri
       IN  /\ leaving' = better
           /\ IF better THEN Becomes(SetRq([Q EXCEPT !.runrun = TRUE], p))
                        ELSE UNCHANGED queues
    /\ pc' = [pc EXCEPT ![p] = "run"]
    /\ UNCHANGED <<sload, runin, cur, swapper>>

(* stop(): wakeup of the parent, which sleeps on some channel.             *)
Stop(p) ==
    /\ Running(p) /\ pc[p] \in {"run", "trap"}
    /\ sig[p] /\ p \in Traced
    /\ \E c \in Chan :
          LET k == Wakeup(Q, c)
          IN  Becomes([k EXCEPT !.stat[p] = "SSTOP"])
    /\ leaving' = TRUE
    /\ pc' = [pc EXCEPT ![p] = "stopped"]
    /\ UNCHANGED <<pri, sload, sig, runin, curpri, cur, swapper>>

(* ptrace, or the exit of the parent: setrun of a stopped process.         *)
Continue(p, q) ==
    /\ Running(p) /\ pc[p] = "run"
    /\ stat[q] = "SSTOP"
    /\ Becomes(SetRun(Q, q))
    /\ UNCHANGED <<pri, sload, sig, runin, curpri, control, swapper>>

-----------------------------------------------------------------------------
(***************************************************************************)
(* What the running process or an interrupt does to other processes.       *)
(***************************************************************************)
WakeupChan(c) ==
    /\ ~hung
    /\ \E p \in AllProc : wchan[p] = c
    /\ Becomes(Wakeup(Q, c))
    /\ UNCHANGED <<pri, sload, sig, runin, curpri, control, swapper>>

(* psignal; no priority exceeds PUSER here, so it lowers none.             *)
PSignal(p) ==
    /\ ~sig[p] /\ ~hung
    /\ sig' = [sig EXCEPT ![p] = TRUE]
    /\ IF stat[p] = "SSLEEP" /\ pri[p] > PZERO
       THEN Becomes(SetRun(Q, p))
       ELSE UNCHANGED queues
    /\ UNCHANGED <<pri, sload, runin, curpri, control, swapper>>

(* clock, once a second: runrun, setpri of the user priorities, and the    *)
(* wakeup of sched.                                                        *)
Clock ==
    /\ ~hung
    /\ Becomes(IF runin THEN Wakeup([Q EXCEPT !.runrun = TRUE], RunIn)
                        ELSE [Q EXCEPT !.runrun = TRUE])
    /\ runin' = FALSE
    /\ UNCHANGED <<pri, sload, sig, curpri, control, swapper>>

(* The disk completes the swap transfer: iodone of swbuf.                  *)
SwapIntr ==
    /\ swapio = "started" /\ ~hung
    /\ swapio' = "done"
    /\ Becomes(Wakeup(Q, SwapBuf))
    /\ UNCHANGED <<pri, sload, sig, runin, curpri, control, chosen, core>>

-----------------------------------------------------------------------------
(***************************************************************************)
(* swtch in process 0 looks for the best process of runq that is in core.  *)
(***************************************************************************)
Eligible == {i \in 1 .. NPROC :
               LET p == Met(link, runq)[i] IN p # NULL /\ stat[p] = "SRUN" /\ sload[p]}

(* The first of the best on the queue leaves it and runs.                  *)
Dispatch ==
    \E i \in Eligible :
    LET m == Met(link, runq)
        p == m[i]
    IN  /\ cur = NULL /\ ~hung
        /\ \A j \in Eligible : pri[p] <= pri[m[j]] /\ (j < i => pri[p] < pri[m[j]])
        /\ cur' = p
        /\ curpri' = pri[p]
        /\ runrun' = FALSE
        /\ IF i = 1 THEN runq' = link[p] /\ UNCHANGED link
                    ELSE link' = [link EXCEPT ![m[i - 1]] = link[p]] /\ UNCHANGED runq
        /\ pc' = [pc EXCEPT ![p] =
              IF @ = "slept" THEN (IF sig[p] THEN "trap" ELSE "run") ELSE @]
        /\ UNCHANGED <<slpque, wchan, stat, runout, onq, hung, pri, sload, sig,
                       runin, leaving, swapper>>

-----------------------------------------------------------------------------
(***************************************************************************)
(* sched.  Its sleeps are at PSWP, so that no signal disturbs them.        *)
(***************************************************************************)
SchedSleeps(chan, flag, next) ==
    /\ Becomes(Sleeps([Q EXCEPT !.runout = @ \/ flag = "runout"], Sched, chan))
    /\ runin' = (runin \/ flag = "runin")
    /\ pri' = [pri EXCEPT ![Sched] = PSWP]
    /\ leaving' = TRUE
    /\ pc' = [pc EXCEPT ![Sched] = next]
    /\ UNCHANGED <<sload, sig, curpri, cur>>

Waiting == {p \in Proc : stat[p] = "SRUN" /\ ~sload[p]}

(* The search for a process to swap in, at spl6.                           *)
SchedScan ==
    /\ Running(Sched) /\ pc[Sched] = "scan"
    /\ \/ /\ Waiting = {}
          /\ SchedSleeps(RunOut, "runout", "scan")
          /\ UNCHANGED swapper
       \/ /\ \E p \in Waiting : chosen' = p
          /\ pc' = [pc EXCEPT ![Sched] = "swapin"]
          /\ UNCHANGED <<queues, pri, sload, sig, runin, curpri, cur, leaving,
                         core, swapio>>

(* swapin: malloc, and the transfer if there is core.                      *)
SchedSwapin ==
    /\ Running(Sched) /\ pc[Sched] = "swapin"
    /\ \/ /\ core > 0
          /\ core' = core - 1
          /\ swapio' = "started"
          /\ SchedSleeps(SwapBuf, "none", "reading")
       \/ /\ core = 0
          /\ pc' = [pc EXCEPT ![Sched] = "victim"]
          /\ UNCHANGED <<queues, pri, sload, sig, runin, curpri, cur, leaving,
                         core, swapio>>
    /\ UNCHANGED chosen

(* swap returns when B_DONE is set, which is what ends its sleep.          *)
SchedSwappedIn ==
    /\ Running(Sched) /\ pc[Sched] = "reading"
    /\ swapio = "done"
    /\ swapio' = "none"
    /\ sload' = [sload EXCEPT ![chosen] = TRUE]
    /\ chosen' = NULL
    /\ pc' = [pc EXCEPT ![Sched] = "scan"]
    /\ UNCHANGED <<queues, pri, sig, runin, curpri, cur, leaving, core>>

(* The search for a process to swap out, at spl6: one that sleeps at bad   *)
(* priority or is stopped, else the oldest if the ages allow.              *)
SchedVictim ==
    LET Bad == {p \in Proc : /\ sload[p]
                             /\ \/ stat[p] = "SSLEEP" /\ pri[p] >= PZERO
                                \/ stat[p] = "SSTOP"}
        Loaded == {p \in Proc : sload[p] /\ stat[p] \in {"SRUN", "SSLEEP"}}
    IN  /\ Running(Sched) /\ pc[Sched] = "victim"
        /\ \/ /\ \E p \in IF Bad # {} THEN Bad ELSE Loaded : chosen' = p
              /\ pc' = [pc EXCEPT ![Sched] = "swapout"]
              /\ UNCHANGED <<queues, pri, sload, sig, runin, curpri, cur,
                             leaving, core, swapio>>
           \/ /\ Bad = {}
              /\ chosen' = NULL
              /\ pc' = [pc EXCEPT ![Sched] = "norun"]
              /\ UNCHANGED <<queues, pri, sload, sig, runin, curpri, cur,
                             leaving, core, swapio>>

(* runin++ and the sleep, after the spl0 of the search.                    *)
SchedNoRun ==
    /\ Running(Sched) /\ pc[Sched] = "norun"
    /\ SchedSleeps(RunIn, "runin", "scan")
    /\ UNCHANGED swapper

(* xswap: SLOAD is cleared before the image is written.                    *)
SchedSwapout ==
    /\ Running(Sched) /\ pc[Sched] = "swapout"
    /\ sload' = [sload EXCEPT ![chosen] = FALSE]
    /\ swapio' = "started"
    /\ Becomes(Sleeps(Q, Sched, SwapBuf))
    /\ pri' = [pri EXCEPT ![Sched] = PSWP]
    /\ leaving' = TRUE
    /\ pc' = [pc EXCEPT ![Sched] = "writing"]
    /\ UNCHANGED <<sig, runin, curpri, cur, chosen, core>>

(* The end of xswap: mfree of the core, which wakes sched if runin is set, *)
(* and the wakeup of sched if runout is set.                               *)
SchedSwappedOut ==
    /\ Running(Sched) /\ pc[Sched] = "writing"
    /\ swapio = "done"
    /\ swapio' = "none"
    /\ core' = core + 1
    /\ sload' = [sload EXCEPT ![chosen] = FALSE]
    /\ LET k == IF runin THEN Wakeup(Q, RunIn) ELSE Q
       IN  Becomes(IF k.runout
                   THEN Wakeup([k EXCEPT !.runout = FALSE], RunOut) ELSE k)
    /\ runin' = FALSE
    /\ chosen' = NULL
    /\ pc' = [pc EXCEPT ![Sched] = "scan"]
    /\ UNCHANGED <<pri, sig, curpri, cur, leaving>>

-----------------------------------------------------------------------------
SchedNext ==
    \/ SchedScan \/ SchedSwapin \/ SchedSwappedIn
    \/ SchedVictim \/ SchedNoRun \/ SchedSwapout \/ SchedSwappedOut

Next ==
    \/ \E p \in Proc :
          \/ SleepHard(p) \/ SleepSoft(p) \/ Trap(p) \/ Stop(p) \/ PSignal(p)
          \/ \E q \in Proc \ {p} : Continue(p, q)
    \/ \E p \in AllProc : Swtch(p)
    \/ \E c \in Chan : WakeupChan(c)
    \/ Clock \/ SwapIntr \/ Dispatch \/ SchedNext

Spec == Init /\ [][Next]_vars

-----------------------------------------------------------------------------
(* TypeOK: every variable stays in its type.                               *)
TypeOK ==
    /\ slpque \in [Bucket -> AllProc \cup {NULL}]
    /\ runq \in AllProc \cup {NULL}
    /\ link \in [AllProc -> AllProc \cup {NULL}]
    /\ wchan \in [AllProc -> AllChan \cup {NULL}]
    /\ stat \in [AllProc -> {"SRUN", "SSLEEP", "SSTOP"}]
    /\ pri \in [AllProc -> {PSWP, PRIBIO, PSLEP, PUSER}]
    /\ sload \in [AllProc -> BOOLEAN]
    /\ sig \in [Proc -> BOOLEAN]
    /\ {runout, runin, runrun, onq, hung, leaving} \subseteq BOOLEAN
    /\ curpri \in {PSWP, PRIBIO, PSLEP, PUSER}
    /\ cur \in AllProc \cup {NULL}
    /\ pc \in [AllProc -> {"run", "slept", "trap", "stopped", "scan", "swapin",
                           "reading", "victim", "norun", "swapout", "writing"}]
    /\ chosen \in Proc \cup {NULL}
    /\ core \in 0 .. Core
    /\ swapio \in {"none", "started", "done"}

OnRunq == On(link, runq)
OnChain(b) == On(link, slpque[b])
Ends(head) == Met(link, head)[NPROC + 1] = NULL

(***************************************************************************)
(* EntersRunQueue: a process that can run, and does not have the processor *)
(* or is about to leave it, is on runq ("a wakeup occurs on chan, at which *)
(* time the process enters the scheduling queue", slp.c).                  *)
(***************************************************************************)
EntersRunQueue ==
    \A p \in AllProc :
        stat[p] = "SRUN" /\ (p # cur \/ leaving) => p \in OnRunq

(***************************************************************************)
(* QueuesOK: the one link of each process threads exactly the queue its    *)
(* state asks for.  The chain of a hash value holds the processes with a   *)
(* channel of that value, runq those that can run and do not have the      *)
(* processor (or are about to leave it), and each list ends.  Nested       *)
(* wakeups, and interrupts before swtch, must not mix the lists.           *)
(***************************************************************************)
QueuesOK ==
    /\ TypeOK /\ ~ onq
    /\ \A p \in AllProc : wchan[p] # NULL <=> stat[p] = "SSLEEP"
    /\ \A b \in Bucket :
          /\ OnChain(b) = {p \in AllProc : wchan[p] # NULL /\ Hash[wchan[p]] = b}
          /\ Ends(slpque[b])
    /\ EntersRunQueue
    /\ \A p \in OnRunq : stat[p] = "SRUN" /\ (p # cur \/ leaving)
    /\ Ends(runq)

(***************************************************************************)
(* WakesAll: a step that ends the sleep of one process on a channel ends   *)
(* the sleep of all of them (slp.c: "Wake up all processes sleeping on     *)
(* chan"), whatever else is on the chain and whomever setrun wakes on the  *)
(* way.                                                                    *)
(***************************************************************************)
WakesAll ==
    [][\A c \in AllChan :
         (\E p \in AllProc : wchan[p] = c /\ wchan'[p] # c)
            => \A p \in AllProc : wchan'[p] # c]_vars

(***************************************************************************)
(* SchedHasWork: sched never sleeps for want of work while a process that  *)
(* can run is swapped out, whatever made it runnable; and when it sleeps   *)
(* for want of core or of work the flag that makes others wake it is set.  *)
(***************************************************************************)
SchedHasWork ==
    /\ wchan[Sched] = RunOut => runout /\ Waiting = {}
    /\ wchan[Sched] = RunIn => runin

(***************************************************************************)
(* NoSignalLost: no process sleeps at a priority that signals can disturb  *)
(* with a signal pending: psignal and sleep cannot miss each other.        *)
(***************************************************************************)
NoSignalLost ==
    \A p \in Proc : stat[p] = "SSLEEP" /\ pri[p] > PZERO => ~sig[p]
=============================================================================
