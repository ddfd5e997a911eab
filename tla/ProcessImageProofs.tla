------------------------- MODULE ProcessImageProofs -------------------------
(***************************************************************************)
(* The images of processes: whatever sched swaps out and in, and whoever   *)
(* writes out his own image in fork or expand, a process that takes the    *)
(* processor finds its image in core, and an image gives back the units    *)
(* that it has.  The texts play no part in it.                             *)
(***************************************************************************)
EXTENDS ProcessImage, TLAPS

(* The places of a transfer.                                               *)
Transfer == {"swap", "header", "io", "done"}

(* A frame has these fields.                                               *)
IsFrame(r) ==
  DOMAIN r = {"call", "up", "p", "os", "ff", "x", "f", "new", "op", "hdr", "cc", "xs"}

(* At place w with frame r an actor is in xccdec, or in xswap.             *)
InXccdec(w, r) == w = "xccdecLock" \/ (w \in Transfer /\ r.op = "textout")
InXswap(w, r) ==
  \/ w = "xswap"
  \/ InXccdec(w, r) /\ r.cc = "xswap"
  \/ w \in Transfer /\ r.op = "imageout"

(* It returns from xccdec and xswap to where it was called, and who goes   *)
(* to expand has a size to expand to.                                      *)
FrameOK(w, r) ==
  /\ IsFrame(r)
  /\ r.xs # "none" <=> InXswap(w, r)
  /\ r.cc # "none" <=> InXccdec(w, r)
  /\ r.cc \in {"none", "xswap", "exited", "expand"}
  /\ \/ r.cc = "expand" \/ w = "expand"
     \/ w = "namei" /\ r.call = "exec"
     \/ w = "xfree" /\ r.call # "exit"
     => r.new \in Sizes

(* A process runs under its own entry and swaps its own image, except that *)
(* in fork it does both for the child, and then keeps its own in core.     *)
ProcFrame(p, w, r) ==
  /\ FrameOK(w, r)
  /\ w # "runin"
  /\ r.xs \in {"none", "forked", "swapped", "xexpandOut"}
  /\ r.call = "fork" => /\ r.up \in Proc \ {p}
                        /\ \/ w = "forked"
                           \/ r.xs = "forked" /\ r.p = r.up /\ ~ r.ff
  /\ r.call # "fork" => r.up = p /\ r.p = p /\ r.xs # "forked" /\ w # "forked"

SchedFrame(w, r) ==
  /\ FrameOK(w, r)
  /\ r.xs \in {"none", "sched"} /\ r.cc \in {"none", "xswap"}
  /\ w \in Transfer => r.op \in {"imageout", "textout", "textin", "imagein"}
  /\ w \notin Transfer => r.op \notin {"textin", "imagein"}
  /\ w \in {"sched", "victim", "runout", "runin", "xswap", "xccdecLock", "swapin",
            "swapinText"} \cup Transfer

ActorFrame(a, w, r) == IF a = Sched THEN SchedFrame(w, r) ELSE ProcFrame(a, w, r)

Control ==
  /\ DOMAIN pc = Actor /\ DOMAIN u = Actor
  /\ \A a \in Actor : ActorFrame(a, pc[a], u[a])

Stats == {"free", "run", "idl", "zomb"}

Domains ==
  /\ coreI \in [Proc -> Int] /\ size \in [Proc -> Int]
  /\ load \in [Proc -> BOOLEAN] /\ slock \in [Proc -> BOOLEAN]
  /\ stat \in [Proc -> Stats] /\ DOMAIN parent = Proc

(* An entry in use has a size, one that is not has nothing in core, and    *)
(* one that is in core and can run has its image there.                    *)
EntryOK(p) ==
  /\ stat[p] \in {"free", "zomb"} => pc[p] = "none" /\ coreI[p] = 0
  /\ stat[p] \in {"run", "idl"} => size[p] \in Sizes
  /\ load[p] /\ pc[p] # "none" => coreI[p] > 0

(* A process in fork that writes out the child's image is in core itself   *)
(* and off the run queue, and the child is nobody else's and does not run. *)
ForkOK(p) ==
  u[p].call = "fork" =>
    LET c == u[p].up IN
    /\ stat[p] = "idl" /\ load[p]
    /\ pc[c] = "none" /\ stat[c] = "run" /\ parent[c] = p
    /\ pc[p] = "forked" => ~ load[c]

(* An image that its process writes out is locked.                         *)
OutOK(p) == u[p].xs # "none" => load[u[p].p] /\ (pc[p] = "xswap" \/ slock[u[p].p])

(* What sched swaps in or out has SLOAD off.                               *)
SchedIn(w, r) == w = "swapinText" \/ r.op \in {"textin", "imagein"}
SchedBusy(w, r) == r.xs # "none" \/ w = "swapin" \/ SchedIn(w, r)
SchedOK ==
  LET p == u[Sched].p IN
  /\ SchedBusy(pc[Sched], u[Sched]) => p \in Proc /\ stat[p] = "run" /\ ~ load[p]
  /\ SchedIn(pc[Sched], u[Sched]) => coreI[p] > 0

(* Who has the processor is in core, but right after he wrote out his own  *)
(* image, and nothing happens between the call of xswap and SLOCK, or      *)
(* between the return of xswap and setrq.                                  *)
Away == {"swapped", "xexpandOut", "forked"}
CpuOK ==
  /\ \A p \in Proc : cpu = p => pc[p] \in Away \/ Loaded(p)
  /\ \A a \in Actor : pc[a] \in {"xswap", "forked"} => cpu = a

Images == /\ Domains
          /\ \A p \in Proc : EntryOK(p) /\ ForkOK(p) /\ OutOK(p)
          /\ SchedOK /\ CpuOK

Inv == Control /\ Images

-----------------------------------------------------------------------------
(* What the assumptions say of the names.                                  *)
LEMMA Names ==
  /\ Sched \notin Proc /\ None \notin Actor /\ Sched # None
  /\ Sched \in Actor /\ Proc \subseteq Actor
  /\ Sizes \subseteq Nat \ {0} /\ MaxSize \in Sizes /\ \A f : ImageSize(f) \in Sizes
BY ProcessImageAssumption DEF Actor, Sizes, ImageSize

(* An actor gets a frame that suits its place.                             *)
LEMMA Placed ==
  ASSUME Control, NEW a \in Actor, NEW w, NEW r, Place(a, w, r), ActorFrame(a, w, r)
  PROVE  /\ Control' /\ pc'[a] = w /\ u'[a] = r
         /\ \A b \in Actor : b # a => pc'[b] = pc[b] /\ u'[b] = u[b]
<1>1. /\ DOMAIN pc' = Actor /\ DOMAIN u' = Actor /\ pc'[a] = w /\ u'[a] = r
      /\ \A b \in Actor : b # a => pc'[b] = pc[b] /\ u'[b] = u[b]
  BY DEF Control, Place
<1>2. \A b \in Actor : ActorFrame(b, pc[b], u[b])
  BY DEF Control
<1>3. \A b \in Actor : ActorFrame(b, pc'[b], u'[b])
  BY <1>1, <1>2
<1>4. Control'
  BY <1>1, <1>3 DEF Control, ActorFrame, SchedFrame, ProcFrame, FrameOK
<1>5. QED BY <1>1, <1>4

(* The one who takes a step is at its place and in core, and meanwhile     *)
(* nobody else is between xswap and SLOCK.                                 *)
LEMMA AtFacts ==
  ASSUME Inv, NEW a \in Actor, NEW w, At(a, w)
  PROVE  /\ pc[a] = w /\ cpu \in {a, None}
         /\ a \in Proc /\ w \notin Away => Loaded(a)
         /\ a \in Proc /\ cpu = None => Loaded(a)
         /\ \A b \in Actor : b # a => pc[b] \notin {"xswap", "forked"}
<1>1. pc[a] = w /\ cpu \in {a, None} /\ (cpu = None => Loaded(a))
  BY Names DEF At, MayStart, Ready
<1>2. a \in Proc /\ w \notin Away => Loaded(a)
  BY <1>1 DEF Inv, Images, CpuOK
<1>3. \A b \in Actor : b # a => pc[b] \notin {"xswap", "forked"}
  BY <1>1, Names DEF Inv, Images, CpuOK
<1>4. QED BY <1>1, <1>2, <1>3

(* The frames of processes and of sched.                                   *)
LEMMA Frames ==
  ASSUME Inv
  PROVE  /\ \A p \in Proc : ProcFrame(p, pc[p], u[p])
         /\ SchedFrame(pc[Sched], u[Sched])
BY Names DEF Inv, Control, ActorFrame

(* The child of a fork that is not over.                                   *)
LEMMA Child ==
  ASSUME Inv, NEW p \in Proc
  PROVE  /\ u[p].call = "fork" => /\ u[p].up \in Proc \ {p}
                                  /\ pc[u[p].up] = "none" /\ parent[u[p].up] = p
                                  /\ stat[u[p].up] = "run" /\ stat[p] = "idl" /\ load[p]
         /\ u[p].call # "fork" => u[p].up = p /\ u[p].p = p
         /\ u[p].xs # "none" => u[p].p \in {p, u[p].up}
<1>1. ProcFrame(p, pc[p], u[p])
  BY Frames
<1>2. ForkOK(p)
  BY DEF Inv, Images
<1>3. pc[p] = "forked" => u[p].xs = "none"
  BY <1>1 DEF ProcFrame, FrameOK, InXswap, InXccdec, Transfer
<1>4. QED BY <1>1, <1>2, <1>3 DEF ProcFrame, ForkOK

(* Who is in core and takes a step has its image there.                    *)
LEMMA LoadedHasImage ==
  ASSUME Inv, NEW p \in Proc, Loaded(p), pc[p] # "none"
  PROVE  coreI[p] > 0 /\ load[p] /\ stat[p] \in {"run", "idl"}
<1>1. load[p] /\ stat[p] \in {"run", "idl"}
  BY Child, Names DEF Loaded
<1>2. QED BY <1>1 DEF Inv, Images, EntryOK

-----------------------------------------------------------------------------
(* A step does not touch the entry of q, but perhaps locks it.             *)
Same(q) ==
  /\ coreI'[q] = coreI[q] /\ size'[q] = size[q] /\ load'[q] = load[q]
  /\ stat'[q] = stat[q] /\ (slock[q] => slock'[q])

LEMMA Others ==
  ASSUME Inv, NEW q \in Proc, Same(q), pc'[q] = pc[q], u'[q] = u[q],
         u[q].call = "fork" => /\ Same(u[q].up) /\ pc'[u[q].up] = pc[u[q].up]
                               /\ parent'[u[q].up] = q
  PROVE  EntryOK(q)' /\ ForkOK(q)' /\ OutOK(q)'
<1>1. EntryOK(q) /\ ForkOK(q) /\ OutOK(q)
  BY DEF Inv, Images
<1>2. EntryOK(q)'
  BY <1>1 DEF EntryOK, Same
<1>3. ForkOK(q)'
  BY <1>1 DEF ForkOK, Same
<1>4. OutOK(q)'
  BY <1>1, Child DEF OutOK, Same
<1>5. QED BY <1>2, <1>3, <1>4

(* A step of p that changes nothing of any entry but the lock, and unlocks *)
(* only p.                                                                 *)
Alike(p) ==
  /\ UNCHANGED <<coreI, size, load, stat, parent>>
  /\ slock' \in [Proc -> BOOLEAN]
  /\ \A q \in Proc : q # p /\ slock[q] => slock'[q]

LEMMA ProcMoves ==
  ASSUME Inv, NEW p \in Proc, NEW w, NEW r, Place(p, w, r), ProcFrame(p, w, r), Alike(p),
         pc[p] \notin {"none", "forked"}, w \notin {"none", "forked"},
         \A b \in Actor : b # p => pc[b] \notin {"xswap", "forked"},
         r.call = "fork" => u[p].call = "fork" /\ r.up = u[p].up,
         r.xs # "none" => \/ w = "xswap" /\ load[r.p]
                          \/ /\ w # "xswap" /\ u[p].xs # "none" /\ r.p = u[p].p
                             /\ slock'[r.p],
         cpu' \in {p, None}, w = "xswap" => cpu' = p,
         cpu' = p => w \in Away \/ (load[r.up] /\ stat[r.up] = "run")
  PROVE  Inv'
<1>1. ActorFrame(p, w, r) /\ p \in Actor /\ p # Sched
  BY Names DEF ActorFrame
<1>2. /\ Control' /\ pc'[p] = w /\ u'[p] = r
      /\ \A b \in Actor : b # p => pc'[b] = pc[b] /\ u'[b] = u[b]
  BY <1>1, Placed DEF Inv
<1>3. ASSUME NEW q \in Proc, q # p
      PROVE  EntryOK(q)' /\ ForkOK(q)' /\ OutOK(q)'
  <2>1. Same(q) /\ pc'[q] = pc[q] /\ u'[q] = u[q]
    BY <1>2, <1>3, Names DEF Same, Alike
  <2>2. u[q].call = "fork" => /\ Same(u[q].up) /\ pc'[u[q].up] = pc[u[q].up]
                              /\ parent'[u[q].up] = q
    BY <1>2, Child, Names DEF Same, Alike
  <2>3. QED BY <2>1, <2>2, Others
<1>4. EntryOK(p)'
  BY <1>2 DEF EntryOK, Alike, Inv, Images
<1>5. ForkOK(p)'
  <2> SUFFICES ASSUME r.call = "fork" PROVE ForkOK(p)'
    BY <1>2 DEF ForkOK
  <2> DEFINE c == u[p].up
  <2>1. u[p].call = "fork" /\ r.up = c /\ c \in Proc \ {p}
    BY Child
  <2>2. pc'[c] = pc[c]
    BY <1>2, <2>1, Names
  <2>3. QED BY <1>2, <2>1, <2>2 DEF ForkOK, Alike, Inv, Images
<1>6. OutOK(p)'
  <2>1. load' = load
    BY DEF Alike
  <2>2. r.xs # "none" => load[r.p] /\ (w = "xswap" \/ slock'[r.p])
    BY Frames, <1>2 DEF OutOK, Inv, Images, InXswap, InXccdec, Transfer
  <2>3. QED BY <1>2, <2>1, <2>2 DEF OutOK
<1>7. SchedOK'
  BY <1>1, <1>2, Names DEF SchedOK, Alike, Inv, Images
<1>8. CpuOK'
  BY <1>1, <1>2, Names DEF CpuOK, Alike, Loaded
<1>9. Domains'
  BY DEF Domains, Alike, Inv, Images
<1>10. QED BY <1>2, <1>3, <1>4, <1>5, <1>6, <1>7, <1>8, <1>9 DEF Inv, Images

LEMMA SchedMoves ==
  ASSUME Inv, NEW w, NEW r, Place(Sched, w, r), SchedFrame(w, r), Alike(Sched),
         \A p \in Proc : pc[p] \notin {"xswap", "forked"},
         SchedBusy(w, r) => r.p \in Proc /\ stat[r.p] = "run" /\ ~ load[r.p],
         SchedIn(w, r) => coreI[r.p] > 0,
         cpu' \in {Sched, None}, w = "xswap" => cpu' = Sched
  PROVE  Inv'
<1>1. ActorFrame(Sched, w, r) /\ Sched \in Actor
  BY Names DEF ActorFrame
<1>2. /\ Control' /\ pc'[Sched] = w /\ u'[Sched] = r
      /\ \A b \in Actor : b # Sched => pc'[b] = pc[b] /\ u'[b] = u[b]
  BY <1>1, Placed DEF Inv
<1>3. ASSUME NEW q \in Proc
      PROVE  EntryOK(q)' /\ ForkOK(q)' /\ OutOK(q)'
  <2>1. Same(q) /\ pc'[q] = pc[q] /\ u'[q] = u[q]
    BY <1>2, Names DEF Same, Alike
  <2>2. u[q].call = "fork" => /\ Same(u[q].up) /\ pc'[u[q].up] = pc[u[q].up]
                              /\ parent'[u[q].up] = q
    BY <1>2, Child, Names DEF Same, Alike
  <2>3. QED BY <2>1, <2>2, Others
<1>4. SchedOK'
  BY <1>2 DEF SchedOK, Alike
<1>5. w # "forked"
  BY DEF SchedFrame, Transfer
<1>6. CpuOK'
  BY <1>1, <1>2, <1>5, Names DEF CpuOK, Alike, Actor
<1>7. Domains'
  BY DEF Domains, Alike, Inv, Images
<1>8. QED BY <1>2, <1>3, <1>4, <1>6, <1>7 DEF Inv, Images

(* Nobody's frame or entry changes.                                        *)
LEMMA Stays ==
  ASSUME Inv, UNCHANGED <<coreI, size, load, slock, stat, parent, pc, u>>,
         \A a \in Actor : pc[a] \in {"xswap", "forked"} => cpu' = a,
         \A p \in Proc : cpu' = p => pc[p] \in Away \/ Loaded(p)
  PROVE  Inv'
<1>1. Control'
  BY DEF Inv, Control, ActorFrame, SchedFrame, ProcFrame, FrameOK
<1>2. \A q \in Proc : EntryOK(q)' /\ ForkOK(q)' /\ OutOK(q)'
  BY DEF Inv, Images, EntryOK, ForkOK, OutOK
<1>3. SchedOK' /\ Domains'
  BY DEF Inv, Images, SchedOK, Domains
<1>4. CpuOK'
  BY DEF CpuOK, Loaded
<1>5. QED BY <1>1, <1>2, <1>3, <1>4 DEF Inv, Images

-----------------------------------------------------------------------------
(* Outside xswap and xccdec.                                               *)
PlainPlace(w, op) ==
  /\ w \notin {"xswap", "xccdecLock", "forked", "runin"}
  /\ w \in Transfer => op \notin {"textout", "imageout"}
Plain(p, r) ==
  /\ IsFrame(r) /\ r.xs = "none" /\ r.cc = "none"
  /\ r.call # "fork" /\ r.up = p /\ r.p = p

LEMMA PlainAt ==
  ASSUME Inv, NEW p \in Proc, PlainPlace(pc[p], u[p].op)
  PROVE  Plain(p, u[p])
<1>1. ProcFrame(p, pc[p], u[p])
  BY Frames
<1>2. ~ InXccdec(pc[p], u[p]) /\ ~ InXswap(pc[p], u[p]) /\ pc[p] # "forked"
  BY DEF PlainPlace, InXccdec, InXswap
<1>3. QED BY <1>1, <1>2 DEF ProcFrame, FrameOK, Plain

(* The new size that goes to expand.                                       *)
NewOK(w, r) ==
  \/ w = "expand"
  \/ w = "namei" /\ r.call = "exec"
  \/ w = "xfree" /\ r.call # "exit"
  => r.new \in Sizes

LEMMA NewAt ==
  ASSUME Inv, NEW p \in Proc
  PROVE  NewOK(pc[p], u[p])
BY Frames DEF ProcFrame, FrameOK, NewOK

LEMMA PlainFrame ==
  ASSUME NEW p \in Proc, NEW w, NEW r, PlainPlace(w, r.op), Plain(p, r), NewOK(w, r)
  PROVE  ProcFrame(p, w, r)
BY DEF PlainPlace, Plain, NewOK, ProcFrame, FrameOK, InXccdec, InXswap

LEMMA Walks ==
  ASSUME Inv, NEW p \in Proc, NEW w0, At(p, w0), w0 \notin {"none", "forked", "xswap"},
         NEW w, NEW r, Place(p, w, r), Alike(p), cpu' \in {p, None},
         PlainPlace(w, r.op), w # "none", Plain(p, r), NewOK(w, r),
         w \in Away \/ Loaded(p), u[p].call # "fork"
  PROVE  Inv'
<1>1. p \in Actor
  BY Names
<1>2. pc[p] = w0 /\ \A b \in Actor : b # p => pc[b] \notin {"xswap", "forked"}
  BY <1>1, AtFacts
<1>3. ProcFrame(p, w, r)
  BY PlainFrame
<1>4. r.call # "fork" /\ r.xs = "none" /\ r.up = p /\ w # "xswap" /\ w # "forked"
  BY DEF Plain, PlainPlace
<1>5. w \in Away \/ (load[r.up] /\ stat[r.up] = "run")
  BY <1>4, Child, Names DEF Loaded
<1>6. QED BY <1>2, <1>3, <1>4, <1>5, ProcMoves

(* A process in user mode, and one that goes back to it.                   *)
LEMMA IdleIsPlain ==
  ASSUME NEW p \in Proc
  PROVE  Plain(p, Idle(p)) /\ Idle(p).op = "none"
BY DEF Plain, Idle, IsFrame

LEMMA NothingMoves ==
  ASSUME Inv, UNCHANGED <<coreI, size, load, slock, stat, parent>>
  PROVE  \A a : Alike(a)
BY DEF Inv, Images, Domains, Alike

(* Who is outside xswap and xccdec and in no transfer takes a step.        *)
Quiet(w) == w \notin {"none", "xswap", "xccdecLock", "forked", "runin"} \cup Transfer

LEMMA QuietAt ==
  ASSUME Inv, NEW p \in Proc, NEW w0, At(p, w0), Quiet(w0)
  PROVE  /\ p \in Actor /\ pc[p] = w0 /\ Plain(p, u[p]) /\ NewOK(w0, u[p])
         /\ w0 \notin Away => Loaded(p)
<1>1. p \in Actor /\ pc[p] = w0 /\ (w0 \notin Away => Loaded(p))
  BY Names, AtFacts
<1>2. PlainPlace(pc[p], u[p].op)
  BY <1>1 DEF Quiet, PlainPlace
<1>3. QED BY <1>1, <1>2, PlainAt, NewAt

LEMMA QuietWalks ==
  ASSUME Inv, NEW p \in Proc, NEW w0, At(p, w0), Quiet(w0),
         NEW w, NEW r, Place(p, w, r), Alike(p), cpu' \in {p, None},
         PlainPlace(w, r.op), w # "none", Plain(p, r), NewOK(w, r),
         w \in Away \/ w0 \notin Away \/ Loaded(p)
  PROVE  Inv'
<1>1. w0 \notin {"none", "forked", "xswap"} /\ u[p].call # "fork" /\ (w \in Away \/ Loaded(p))
  BY QuietAt DEF Quiet, Plain
<1>2. QED BY <1>1, Walks

(* The transfers of exec, which a process does outside xswap and xccdec.   *)
LEMMA DoneWalks ==
  ASSUME Inv, NEW p \in Proc, NEW op, Done(p, op), op \notin {"textout", "imageout"},
         NEW w, NEW r, Goes(p, w, r), Alike(p),
         PlainPlace(w, r.op), w # "none", Plain(p, u[p]) => Plain(p, r), NewOK(w, r)
  PROVE  Inv'
<1>1. p \in Actor /\ At(p, "done") /\ u[p].op = op
  BY Names DEF Done
<1>2. pc[p] = "done" /\ Loaded(p)
  BY <1>1, AtFacts DEF Away
<1>3. Plain(p, u[p])
  BY <1>1, <1>2, PlainAt DEF PlainPlace
<1>4. u[p].call # "fork" /\ Place(p, w, r) /\ cpu' \in {p, None}
  BY <1>3 DEF Plain, Goes
<1>5. QED BY <1>1, <1>2, <1>3, <1>4, Walks

-----------------------------------------------------------------------------
(* The steps of exit, wait, break, exec and open that touch no entry.      *)
LEMMA CallsXfreeStep ==
  ASSUME Inv, NEW p \in Proc, NEW w0, At(p, w0), Quiet(w0), w0 \notin Away, Alike(p),
         NEW r, CallsXfree(p, r), Plain(p, r), r.call # "exit" => r.new \in Sizes
  PROVE  Inv'
<1>1. CASE textp[p] = None
  <2>1. Place(p, AfterXfree(r), r) /\ cpu' = p
    BY <1>1 DEF CallsXfree, Goes
  <2>2. PlainPlace(AfterXfree(r), r.op) /\ AfterXfree(r) # "none" /\ NewOK(AfterXfree(r), r)
    BY DEF AfterXfree, PlainPlace, NewOK, Transfer
  <2>3. QED BY <2>1, <2>2, QuietWalks
<1>2. CASE textp[p] # None
  <2> DEFINE s == [r EXCEPT !.x = textp[p]]
  <2>1. Place(p, "xfree", s) /\ cpu' = p
    BY <1>2 DEF CallsXfree, Goes
  <2>2. Plain(p, s) /\ s.call = r.call /\ s.new = r.new
    BY DEF Plain, IsFrame
  <2>3. PlainPlace("xfree", s.op) /\ NewOK("xfree", s)
    BY <2>2 DEF PlainPlace, NewOK, Transfer
  <2>4. QED BY <2>1, <2>2, <2>3, QuietWalks
<1>3. QED BY <1>1, <1>2

LEMMA ExitStep ==
  ASSUME Inv, NEW p \in Proc, Exit(p) PROVE Inv'
<1> DEFINE r == [u[p] EXCEPT !.call = "exit"]
<1>1. At(p, "user") /\ CallsXfree(p, r) /\ UNCHANGED <<coreI, size, load, slock, stat, parent>>
  BY DEF Exit, space, procs
<1>2. Quiet("user") /\ "user" \notin Away
  BY DEF Quiet, Away, Transfer
<1>3. Plain(p, r) /\ r.call = "exit"
  <2>1. Plain(p, u[p])
    BY <1>1, <1>2, QuietAt
  <2>2. QED BY <2>1 DEF Plain, IsFrame
<1> HIDE DEF r
<1>4. QED BY <1>1, <1>2, <1>3, NothingMoves, CallsXfreeStep

LEMMA ExecStep ==
  ASSUME Inv, NEW p \in Proc, NEW f, Exec(p, f) PROVE Inv'
<1> DEFINE r == [u[p] EXCEPT !.call = "exec", !.f = f, !.new = ImageSize(f)]
<1>1. /\ At(p, "user") /\ UNCHANGED <<coreI, size, load, slock, stat, parent>>
      /\ CallsXfree(p, r) \/ Goes(p, "namei", r)
  BY DEF Exec, space, procs
<1>2. Quiet("user") /\ "user" \notin Away
  BY DEF Quiet, Away, Transfer
<1>3. Plain(p, r) /\ r.call = "exec" /\ r.new \in Sizes
  <2>1. Plain(p, u[p]) /\ ImageSize(f) \in Sizes
    BY <1>1, <1>2, QuietAt, Names
  <2>2. IsFrame(r)
    BY <2>1 DEF Plain, IsFrame
  <2>3. QED BY <2>1, <2>2 DEF Plain, IsFrame
<1> HIDE DEF r
<1>4. CASE CallsXfree(p, r)
  BY <1>1, <1>2, <1>3, <1>4, NothingMoves, CallsXfreeStep
<1>5. CASE Goes(p, "namei", r)
  <2>1. Place(p, "namei", r) /\ cpu' = p /\ PlainPlace("namei", r.op) /\ NewOK("namei", r)
    BY <1>3, <1>5 DEF Goes, PlainPlace, NewOK, Transfer
  <2>2. QED BY <1>1, <1>2, <1>3, <2>1, NothingMoves, QuietWalks
<1>6. QED BY <1>1, <1>4, <1>5

LEMMA ExecNameiStep ==
  ASSUME Inv, NEW p \in Proc, ExecNamei(p) PROVE Inv'
<1>1. /\ At(p, "namei") /\ UNCHANGED <<coreI, size, load, slock, stat, parent>>
      /\ CallsXfree(p, u[p]) \/ Goes(p, "user", Idle(p))
      /\ u[p].call = "exec"
  BY DEF ExecNamei, Returns, space, procs
<1>2. Quiet("namei") /\ "namei" \notin Away
  BY DEF Quiet, Away, Transfer
<1>3. Plain(p, u[p]) /\ u[p].new \in Sizes
  BY <1>1, <1>2, QuietAt DEF NewOK
<1>4. CASE CallsXfree(p, u[p])
  BY <1>1, <1>2, <1>3, <1>4, NothingMoves, CallsXfreeStep
<1>5. CASE Goes(p, "user", Idle(p))
  <2>1. /\ Place(p, "user", Idle(p)) /\ cpu' = p
        /\ PlainPlace("user", Idle(p).op) /\ NewOK("user", Idle(p))
    BY <1>5 DEF Goes, PlainPlace, NewOK, Transfer
  <2>2. QED BY <1>1, <1>2, <2>1, IdleIsPlain, NothingMoves, QuietWalks
<1>6. QED BY <1>1, <1>4, <1>5

(* A frame that differs in fields that say nothing of the images.          *)
LEMMA PlainEdits ==
  ASSUME NEW p, NEW r, Plain(p, r)
  PROVE  /\ \A x : Plain(p, [r EXCEPT !.x = x]) /\ [r EXCEPT !.x = x].op = r.op
         /\ \A s : Plain(p, [r EXCEPT !.op = s]) /\ [r EXCEPT !.op = s].op = s
         /\ \A n : Plain(p, [r EXCEPT !.new = n]) /\ [r EXCEPT !.new = n].op = r.op
         /\ \A n : [r EXCEPT !.new = n].new = n
BY DEF Plain, IsFrame

LEMMA WaitStep ==
  ASSUME Inv, NEW p \in Proc, Wait(p) PROVE Inv'
<1> DEFINE r == [u[p] EXCEPT !.call = "wait"]
<1>1. /\ At(p, "user") /\ UNCHANGED <<coreI, size, load, slock, stat, parent>>
      /\ Place(p, "wait", r) /\ cpu' = p
  BY DEF Wait, Goes, space, procs
<1>2. Quiet("user") /\ "user" \notin Away /\ PlainPlace("wait", r.op)
  BY DEF Quiet, Away, Transfer, PlainPlace
<1>3. Plain(p, u[p])
  BY <1>1, <1>2, QuietAt
<1>4. Plain(p, r) /\ NewOK("wait", r)
  BY <1>3 DEF Plain, IsFrame, NewOK
<1> HIDE DEF r
<1>5. QED BY <1>1, <1>2, <1>4, NothingMoves, QuietWalks

LEMMA BreakStep ==
  ASSUME Inv, NEW p \in Proc, NEW n \in Sizes, Break(p, n) PROVE Inv'
<1> DEFINE r == [u[p] EXCEPT !.call = "break", !.new = n]
<1>1. /\ At(p, "user") /\ UNCHANGED <<coreI, size, load, slock, stat, parent>>
      /\ Place(p, "expand", r) /\ cpu' = p
  BY DEF Break, Goes, space, procs
<1>2. Quiet("user") /\ "user" \notin Away /\ PlainPlace("expand", r.op)
  BY DEF Quiet, Away, Transfer, PlainPlace
<1>3. Plain(p, u[p])
  BY <1>1, <1>2, QuietAt
<1>4. Plain(p, r) /\ NewOK("expand", r)
  BY <1>3 DEF Plain, IsFrame, NewOK
<1> HIDE DEF r
<1>5. QED BY <1>1, <1>2, <1>4, NothingMoves, QuietWalks

LEMMA OpenStep ==
  ASSUME Inv, NEW p \in Proc, NEW f, Open(p, f) PROVE Inv'
<1> DEFINE r == [u[p] EXCEPT !.call = "open", !.f = f]
<1>1. /\ At(p, "user") /\ UNCHANGED <<coreI, size, load, slock, stat, parent>>
      /\ Place(p, "namei", r) /\ cpu' = p
  BY DEF Open, Goes, space, procs
<1>2. Quiet("user") /\ "user" \notin Away /\ PlainPlace("namei", r.op)
  BY DEF Quiet, Away, Transfer, PlainPlace
<1>3. Plain(p, u[p])
  BY <1>1, <1>2, QuietAt
<1>4. Plain(p, r) /\ NewOK("namei", r)
  BY <1>3 DEF Plain, IsFrame, NewOK
<1> HIDE DEF r
<1>5. QED BY <1>1, <1>2, <1>4, NothingMoves, QuietWalks

LEMMA CloseStep ==
  ASSUME Inv, NEW p \in Proc, NEW f, Close(p, f) PROVE Inv'
<1>1. /\ At(p, "user") /\ UNCHANGED <<coreI, size, load, slock, stat, parent, pc, u>>
      /\ cpu' = p
  BY DEF Close, space, procs
<1>2. Loaded(p) /\ pc[p] = "user" /\ \A b \in Actor : b # p => pc[b] \notin {"xswap", "forked"}
  BY <1>1, Names, AtFacts DEF Away
<1>3. QED BY <1>1, <1>2, Stays

LEMMA OpenNameiStep ==
  ASSUME Inv, NEW p \in Proc, OpenNamei(p) PROVE Inv'
<1>1. /\ At(p, "namei") /\ UNCHANGED <<coreI, size, load, slock, stat, parent>>
      /\ Quiet("namei") /\ "namei" \notin Away
  BY DEF OpenNamei, Quiet, Away, Transfer, space, procs
<1>2. Plain(p, u[p])
  BY <1>1, QuietAt
<1>3. CASE Goes(p, "user", Idle(p))
  <2>1. /\ Place(p, "user", Idle(p)) /\ cpu' = p
        /\ PlainPlace("user", Idle(p).op) /\ NewOK("user", Idle(p))
    BY <1>3 DEF Goes, PlainPlace, NewOK, Transfer
  <2>2. QED BY <1>1, <2>1, IdleIsPlain, NothingMoves, QuietWalks
<1>4. ASSUME NEW x, Goes(p, "xuntext", [u[p] EXCEPT !.x = x]) PROVE Inv'
  <2> DEFINE r == [u[p] EXCEPT !.x = x]
  <2>1. Plain(p, r)
    BY <1>2, PlainEdits
  <2>2. Place(p, "xuntext", r) /\ cpu' = p /\ PlainPlace("xuntext", r.op) /\ NewOK("xuntext", r)
    BY <1>4 DEF Goes, PlainPlace, NewOK, Transfer
  <2> HIDE DEF r
  <2>3. QED BY <1>1, <2>1, <2>2, NothingMoves, QuietWalks
<1>5. QED BY <1>3, <1>4 DEF OpenNamei, Returns

LEMMA XuntextStep ==
  ASSUME Inv, NEW p \in Proc, Xuntext(p) PROVE Inv'
<1>1. /\ At(p, "xuntext") /\ UNCHANGED <<coreI, size, load, slock, stat, parent>>
      /\ Quiet("xuntext") /\ "xuntext" \notin Away
  BY DEF Xuntext, Quiet, Away, Transfer, procs
<1>2. /\ Place(p, "user", Idle(p)) /\ cpu' = p
      /\ PlainPlace("user", Idle(p).op) /\ NewOK("user", Idle(p))
  BY DEF Xuntext, Returns, Goes, PlainPlace, NewOK, Transfer
<1>3. QED BY <1>1, <1>2, IdleIsPlain, NothingMoves, QuietWalks

(* xccdec, called by xfree.                                                *)
LEMMA XfreeStep ==
  ASSUME Inv, NEW p \in Proc, Xfree(p) PROVE Inv'
<1> DEFINE x == u[p].x
           after == AfterXfree(u[p])
           r == [u[p] EXCEPT !.x = None]
           s == [u[p] EXCEPT !.x = None, !.cc = "none", !.op = "none"]
           t == [u[p] EXCEPT !.x = x, !.cc = after]
<1>1. /\ At(p, "xfree") /\ UNCHANGED <<coreI, size, load, slock, stat, parent>>
      /\ Goes(p, after, r) \/ Xccdec(p, x, after)
  BY DEF Xfree
<1>2. Quiet("xfree") /\ "xfree" \notin Away
  BY DEF Quiet, Away, Transfer
<1>3. Plain(p, u[p]) /\ NewOK("xfree", u[p]) /\ Loaded(p) /\ pc[p] = "xfree" /\ p \in Actor
  BY <1>1, <1>2, QuietAt
<1>4. /\ after \in {"exited", "expand"} /\ (after = "expand" => u[p].new \in Sizes)
      /\ \A o : PlainPlace(after, o)
  BY <1>3 DEF AfterXfree, NewOK, PlainPlace, Transfer
<1>5. after = "exited" \/ after = "expand"
  BY <1>4
<1>6. Goes(p, after, r) \/ Goes(p, after, s) \/ Goes(p, "xccdecLock", t)
  BY <1>1, <1>4 DEF Xccdec, XccdecReturns
<1> HIDE DEF after
<1>7. CASE Goes(p, after, r)
  <2>1. Plain(p, r) /\ NewOK(after, r) /\ after # "none"
    BY <1>3, <1>4 DEF Plain, IsFrame, NewOK
  <2>2. Place(p, after, r) /\ cpu' = p
    BY <1>7 DEF Goes
  <2> HIDE DEF r
  <2>3. QED BY <1>1, <1>2, <1>4, <2>1, <2>2, NothingMoves, QuietWalks
<1>8. CASE Goes(p, after, s)
  <2>1. Plain(p, s) /\ NewOK(after, s) /\ after # "none"
    BY <1>3, <1>4 DEF Plain, IsFrame, NewOK
  <2>2. Place(p, after, s) /\ cpu' = p
    BY <1>8 DEF Goes
  <2> HIDE DEF s
  <2>3. QED BY <1>1, <1>2, <1>4, <2>1, <2>2, NothingMoves, QuietWalks
<1>9. CASE Goes(p, "xccdecLock", t)
  <2>1. /\ IsFrame(t) /\ t.xs = "none" /\ t.cc = after /\ t.call # "fork" /\ t.up = p /\ t.p = p
        /\ t.new = u[p].new
    BY <1>3 DEF Plain, IsFrame
  <2> HIDE DEF t, x
  <2>2. ProcFrame(p, "xccdecLock", t)
    BY <2>1, <1>4 DEF ProcFrame, FrameOK, InXswap, InXccdec, Transfer
  <2>3. Place(p, "xccdecLock", t) /\ cpu' = p
    BY <1>9 DEF Goes
  <2>4. \A b \in Actor : b # p => pc[b] \notin {"xswap", "forked"}
    BY <1>1, <1>3, AtFacts
  <2>5. load[t.up] /\ stat[t.up] = "run"
    BY <1>3, <2>1, Names DEF Loaded, Plain
  <2>6. Alike(p)
    BY <1>1, NothingMoves
  <2>7. QED BY <1>3, <2>1, <2>2, <2>3, <2>4, <2>5, <2>6, ProcMoves
<1>10. QED BY <1>6, <1>7, <1>8, <1>9

(* break and exec after expand.                                            *)
LEMMA AfterExpandFrame ==
  ASSUME NEW p \in Proc, AfterExpand(p), Plain(p, u[p])
  PROVE  \E w, r : /\ Place(p, w, r) /\ cpu' = p /\ w # "none"
                   /\ PlainPlace(w, r.op) /\ Plain(p, r) /\ NewOK(w, r)
<1>1. CASE Goes(p, "user", Idle(p))
  <2>1. PlainPlace("user", Idle(p).op) /\ NewOK("user", Idle(p)) /\ Plain(p, Idle(p))
    BY IdleIsPlain DEF PlainPlace, NewOK, Transfer
  <2>2. QED BY <1>1, <2>1 DEF Goes
<1>2. CASE \E w \in {"dataread", "xalloc"} : Goes(p, w, [u[p] EXCEPT !.new = 0])
  <2> DEFINE r == [u[p] EXCEPT !.new = 0]
  <2>1. PICK w \in {"dataread", "xalloc"} : Goes(p, w, r)
    BY <1>2
  <2>2. PlainPlace(w, r.op) /\ NewOK(w, r) /\ w # "none"
    BY DEF PlainPlace, NewOK, Transfer
  <2>3. Plain(p, r)
    BY PlainEdits
  <2> HIDE DEF r
  <2>4. QED BY <2>1, <2>2, <2>3 DEF Goes
<1>3. QED BY <1>1, <1>2 DEF AfterExpand, Returns

LEMMA SwappedInStep ==
  ASSUME Inv, NEW p \in Proc, SwappedIn(p) PROVE Inv'
<1>1. /\ At(p, "swapped") /\ Loaded(p) /\ UNCHANGED <<coreI, size, load, slock, stat, parent>>
      /\ Goes(p, "attached", u[p]) \/ AfterExpand(p)
  BY DEF SwappedIn, space, procs
<1>2. Quiet("swapped")
  BY DEF Quiet, Transfer
<1>3. Plain(p, u[p])
  BY <1>1, <1>2, QuietAt
<1>4. CASE Goes(p, "attached", u[p])
  <2>1. /\ Place(p, "attached", u[p]) /\ cpu' = p /\ PlainPlace("attached", u[p].op)
        /\ NewOK("attached", u[p])
    BY <1>4 DEF Goes, PlainPlace, NewOK, Transfer
  <2>2. QED BY <1>1, <1>2, <1>3, <2>1, NothingMoves, QuietWalks
<1>5. CASE AfterExpand(p)
  <2>1. PICK w, r : /\ Place(p, w, r) /\ cpu' = p /\ w # "none"
                    /\ PlainPlace(w, r.op) /\ Plain(p, r) /\ NewOK(w, r)
    BY <1>3, <1>5, AfterExpandFrame
  <2>2. QED BY <1>1, <1>2, <2>1, NothingMoves, QuietWalks
<1>6. QED BY <1>1, <1>4, <1>5

-----------------------------------------------------------------------------
(* The steps of exec on the text and the file.                             *)
LEMMA XallocStep ==
  ASSUME Inv, NEW p \in Proc, Xalloc(p) PROVE Inv'
<1>1. /\ At(p, "xalloc") /\ UNCHANGED <<coreI, size, load, slock, stat, parent>>
      /\ \/ \E x : Goes(p, "xallocLock", [u[p] EXCEPT !.x = x])
         \/ Goes(p, "xexpand", [u[p] EXCEPT !.call = "load"])
  BY DEF Xalloc
<1>2. Quiet("xalloc") /\ "xalloc" \notin Away
  BY DEF Quiet, Away, Transfer
<1>3. Plain(p, u[p])
  BY <1>1, <1>2, QuietAt
<1>4. ASSUME NEW x, Goes(p, "xallocLock", [u[p] EXCEPT !.x = x]) PROVE Inv'
  <2> DEFINE r == [u[p] EXCEPT !.x = x]
  <2>1. Plain(p, r)
    BY <1>3, PlainEdits
  <2>2. /\ Place(p, "xallocLock", r) /\ cpu' = p /\ PlainPlace("xallocLock", r.op)
        /\ NewOK("xallocLock", r)
    BY <1>4 DEF Goes, PlainPlace, NewOK, Transfer
  <2> HIDE DEF r
  <2>3. QED BY <1>1, <1>2, <2>1, <2>2, NothingMoves, QuietWalks
<1>5. CASE Goes(p, "xexpand", [u[p] EXCEPT !.call = "load"])
  <2> DEFINE r == [u[p] EXCEPT !.call = "load"]
  <2>1. Plain(p, r)
    BY <1>3 DEF Plain, IsFrame
  <2>2. /\ Place(p, "xexpand", r) /\ cpu' = p /\ PlainPlace("xexpand", r.op)
        /\ NewOK("xexpand", r)
    BY <1>5 DEF Goes, PlainPlace, NewOK, Transfer
  <2> HIDE DEF r
  <2>3. QED BY <1>1, <1>2, <2>1, <2>2, NothingMoves, QuietWalks
<1>6. QED BY <1>1, <1>4, <1>5

LEMMA XallocLockStep ==
  ASSUME Inv, NEW p \in Proc, XallocLock(p) PROVE Inv'
<1> DEFINE r == [u[p] EXCEPT !.x = None]
<1>1. /\ At(p, "xallocLock") /\ UNCHANGED <<coreI, size, load, slock, stat, parent>>
      /\ Goes(p, "xexpand", r) \/ Goes(p, "dataread", r)
  BY DEF XallocLock, space
<1>2. Quiet("xallocLock") /\ "xallocLock" \notin Away
  BY DEF Quiet, Away, Transfer
<1>3. Plain(p, u[p])
  BY <1>1, <1>2, QuietAt
<1>4. Plain(p, r) /\ \A w \in {"xexpand", "dataread"} : PlainPlace(w, r.op) /\ NewOK(w, r)
  BY <1>3, PlainEdits DEF PlainPlace, NewOK, Transfer
<1> HIDE DEF r
<1>5. PICK w \in {"xexpand", "dataread"} : Place(p, w, r) /\ cpu' = p
  BY <1>1 DEF Goes
<1>6. QED BY <1>1, <1>2, <1>4, <1>5, NothingMoves, QuietWalks

LEMMA XexpandOutStep ==
  ASSUME Inv, NEW p \in Proc, XexpandOut(p) PROVE Inv'
<1>1. /\ At(p, "xexpandOut") /\ UNCHANGED <<coreI, size, load, slock, stat, parent>>
      /\ Place(p, "swapped", u[p]) /\ cpu' = p
  BY DEF XexpandOut, Goes, space, procs
<1>2. /\ Quiet("xexpandOut") /\ "swapped" \in Away /\ PlainPlace("swapped", u[p].op)
      /\ NewOK("swapped", u[p])
  BY DEF Quiet, Away, PlainPlace, NewOK, Transfer
<1>3. QED BY <1>1, <1>2, QuietAt, NothingMoves, QuietWalks

LEMMA XexpandReadStep ==
  ASSUME Inv, NEW p \in Proc, XexpandRead(p) PROVE Inv'
<1> DEFINE r == [u[p] EXCEPT !.op = "none"]
<1>1. /\ Done(p, "textin") /\ UNCHANGED <<coreI, size, load, slock, stat, parent>>
      /\ Goes(p, "attached", r)
  BY DEF XexpandRead, space, procs
<1>2. PlainPlace("attached", r.op) /\ NewOK("attached", r) /\ (Plain(p, u[p]) => Plain(p, r))
  BY PlainEdits DEF PlainPlace, NewOK, Transfer
<1> HIDE DEF r
<1>3. QED BY <1>1, <1>2, NothingMoves, DoneWalks

LEMMA LockMoves ==
  ASSUME Inv, NEW p \in Proc, UNCHANGED <<coreI, size, load, stat, parent>>,
         NEW b \in BOOLEAN, slock' = [slock EXCEPT ![p] = b]
  PROVE  Alike(p)
BY DEF Inv, Images, Domains, Alike

LEMMA AttachedStep ==
  ASSUME Inv, NEW p \in Proc, Attached(p) PROVE Inv'
<1> DEFINE r == [u[p] EXCEPT !.op = "textread"]
<1>1. /\ At(p, "attached") /\ UNCHANGED <<coreI, size, load, stat, parent>>
      /\ \/ slock' = [slock EXCEPT ![p] = TRUE] /\ Sleeps(p, "io", r)
         \/ slock' = slock /\ Goes(p, "dataread", u[p])
  BY DEF Attached, space
<1>2. Alike(p)
  BY <1>1, LockMoves, NothingMoves
<1>3. Quiet("attached") /\ "attached" \notin Away
  BY DEF Quiet, Away, Transfer
<1>4. Plain(p, u[p])
  BY <1>1, <1>3, QuietAt
<1>5. Plain(p, r) /\ r.op = "textread"
  BY <1>4, PlainEdits
<1> HIDE DEF r
<1>6. CASE Sleeps(p, "io", r)
  <2>1. Place(p, "io", r) /\ cpu' = None /\ PlainPlace("io", r.op) /\ NewOK("io", r)
    BY <1>5, <1>6 DEF Sleeps, PlainPlace, NewOK
  <2>2. QED BY <1>1, <1>2, <1>3, <1>5, <2>1, QuietWalks
<1>7. CASE Goes(p, "dataread", u[p])
  <2>1. /\ Place(p, "dataread", u[p]) /\ cpu' = p /\ PlainPlace("dataread", u[p].op)
        /\ NewOK("dataread", u[p])
    BY <1>7 DEF Goes, PlainPlace, NewOK, Transfer
  <2>2. QED BY <1>1, <1>2, <1>3, <1>4, <2>1, QuietWalks
<1>8. QED BY <1>1, <1>6, <1>7

LEMMA TextReadStep ==
  ASSUME Inv, NEW p \in Proc, TextRead(p) PROVE Inv'
<1> DEFINE r == [u[p] EXCEPT !.op = "none"]
<1>1. /\ Done(p, "textread") /\ UNCHANGED <<coreI, size, load, stat, parent>>
      /\ slock' = [slock EXCEPT ![p] = FALSE] /\ Goes(p, "dataread", r)
  BY DEF TextRead, space
<1>2. PlainPlace("dataread", r.op) /\ NewOK("dataread", r) /\ (Plain(p, u[p]) => Plain(p, r))
  BY PlainEdits DEF PlainPlace, NewOK, Transfer
<1> HIDE DEF r
<1>3. QED BY <1>1, <1>2, LockMoves, DoneWalks

LEMMA DataReadStep ==
  ASSUME Inv, NEW p \in Proc, DataRead(p) PROVE Inv'
<1> DEFINE r == [u[p] EXCEPT !.call = "exec", !.op = "dataread"]
<1>1. /\ At(p, "dataread") /\ UNCHANGED <<coreI, size, load, slock, stat, parent>>
      /\ Place(p, "io", r) /\ cpu' = None
  BY DEF DataRead, Sleeps, space, procs
<1>2. Quiet("dataread") /\ "dataread" \notin Away
  BY DEF Quiet, Away, Transfer
<1>3. Plain(p, u[p])
  BY <1>1, <1>2, QuietAt
<1>4. Plain(p, r) /\ PlainPlace("io", r.op) /\ NewOK("io", r)
  BY <1>3 DEF Plain, IsFrame, PlainPlace, NewOK
<1> HIDE DEF r
<1>5. QED BY <1>1, <1>2, <1>4, NothingMoves, QuietWalks

LEMMA ExecEndStep ==
  ASSUME Inv, NEW p \in Proc, ExecEnd(p) PROVE Inv'
<1>1. /\ Done(p, "dataread") /\ UNCHANGED <<coreI, size, load, slock, stat, parent>>
      /\ Goes(p, "user", Idle(p))
  BY DEF ExecEnd, Returns, space
<1>2. PlainPlace("user", Idle(p).op) /\ NewOK("user", Idle(p)) /\ Plain(p, Idle(p))
  BY IdleIsPlain DEF PlainPlace, NewOK, Transfer
<1>3. QED BY <1>1, <1>2, NothingMoves, DoneWalks

-----------------------------------------------------------------------------
(* A step that touches the entries in T and the frames of actors in T:     *)
(* they are in no fork of another process, and sched is at work on none.   *)
LEMMA Elsewhere ==
  ASSUME Inv, NEW T, Sched \notin T,
         \A q \in Proc : q \notin T => Same(q),
         \A b \in Actor : b \notin T => pc'[b] = pc[b] /\ u'[b] = u[b],
         \A t \in T : (stat[t] = "run" /\ ~ load[t]) => Same(t),
         \A q \in Proc : q \notin T /\ u[q].call = "fork" =>
           u[q].up \notin T /\ parent'[u[q].up] = q
  PROVE  SchedOK' /\ \A q \in Proc : q \notin T => EntryOK(q)' /\ ForkOK(q)' /\ OutOK(q)'
<1>1. ASSUME NEW q \in Proc, q \notin T PROVE EntryOK(q)' /\ ForkOK(q)' /\ OutOK(q)'
  <2>1. Same(q) /\ pc'[q] = pc[q] /\ u'[q] = u[q]
    BY <1>1, Names
  <2>2. u[q].call = "fork" => /\ Same(u[q].up) /\ pc'[u[q].up] = pc[u[q].up]
                              /\ parent'[u[q].up] = q
    BY <1>1, Child, Names
  <2>3. QED BY <2>1, <2>2, Others
<1>2. SchedOK'
  <2> DEFINE p == u[Sched].p
  <2>1. pc'[Sched] = pc[Sched] /\ u'[Sched] = u[Sched]
    BY Names
  <2>2. p \in Proc /\ stat[p] = "run" /\ ~ load[p] => Same(p)
    OBVIOUS
  <2>3. SchedIn(pc[Sched], u[Sched]) => SchedBusy(pc[Sched], u[Sched])
    BY DEF SchedBusy
  <2>4. QED BY <2>1, <2>2, <2>3 DEF SchedOK, Same, Inv, Images
<1>3. QED BY <1>1, <1>2

(* The one who takes a step without leaving the processor.                 *)
LEMMA KeepsCpu ==
  ASSUME NEW a \in Actor, cpu' = a,
         \A b \in Actor : b # a => pc'[b] \notin {"xswap", "forked"},
         a \in Proc => pc'[a] \in Away \/ (load'[u'[a].up] /\ stat'[u'[a].up] = "run")
  PROVE  CpuOK'
BY Names DEF CpuOK, Loaded

LEMMA ExitedStep ==
  ASSUME Inv, NEW p \in Proc, Exited(p) PROVE Inv'
<1>1. At(p, "exited") /\ Quiet("exited") /\ "exited" \notin Away
  BY DEF Exited, Quiet, Away, Transfer
<1>2. p \in Actor /\ pc[p] = "exited" /\ Plain(p, u[p]) /\ Loaded(p) /\ p # Sched
  BY <1>1, QuietAt, Names
<1>3. /\ coreI' = [coreI EXCEPT ![p] = 0] /\ stat' = [stat EXCEPT ![p] = "zomb"]
      /\ size' = [size EXCEPT ![p] = 0] /\ UNCHANGED <<load, slock>>
      /\ parent' = [q \in Proc |-> IF q \in Orphans(p) THEN Root ELSE parent[q]]
      /\ Place(p, "none", Idle(p)) /\ cpu' = None
  BY DEF Exited, Sleeps
<1>4. load[p] /\ stat[p] = "run"
  BY <1>2 DEF Loaded, Plain
<1>5. ActorFrame(p, "none", Idle(p))
  BY <1>2 DEF ActorFrame, ProcFrame, FrameOK, InXswap, InXccdec, IsFrame, Idle, Transfer
<1>6. /\ Control' /\ pc'[p] = "none" /\ u'[p] = Idle(p)
      /\ \A b \in Actor : b # p => pc'[b] = pc[b] /\ u'[b] = u[b]
  BY <1>2, <1>3, <1>5, Placed DEF Inv
<1>7. \A q \in Proc : q # p => Same(q)
  BY <1>3 DEF Same, Inv, Images, Domains
<1>8. \A q \in Proc : q # p /\ u[q].call = "fork" => u[q].up # p /\ parent'[u[q].up] = q
  BY <1>2, <1>3, Child DEF Orphans, Children
<1>9. SchedOK' /\ \A q \in Proc : q # p => EntryOK(q)' /\ ForkOK(q)' /\ OutOK(q)'
  <2> DEFINE T == {p}
  <2>1. Sched \notin T /\ \A q : q \in T <=> q = p
    BY <1>2
  <2> HIDE DEF T
  <2>2. SchedOK' /\ \A q \in Proc : q \notin T => EntryOK(q)' /\ ForkOK(q)' /\ OutOK(q)'
    BY <1>4, <1>6, <1>7, <1>8, <2>1, Elsewhere
  <2>3. QED BY <2>1, <2>2
<1>10. EntryOK(p)' /\ ForkOK(p)' /\ OutOK(p)'
  BY <1>3, <1>6 DEF EntryOK, ForkOK, OutOK, Idle, Inv, Images, Domains
<1>11. CpuOK'
  <2>1. \A b \in Actor : pc[b] \notin {"xswap", "forked"}
    BY <1>1, <1>2, AtFacts
  <2>2. QED BY <1>3, <1>6, <2>1, Names DEF CpuOK
<1>12. Domains'
  BY <1>3 DEF Domains, Inv, Images, Stats
<1>13. QED BY <1>6, <1>9, <1>10, <1>11, <1>12 DEF Inv, Images

LEMMA ReapStep ==
  ASSUME Inv, NEW p \in Proc, NEW c \in Proc, Reap(p, c) PROVE Inv'
<1>1. At(p, "wait") /\ Quiet("wait") /\ "wait" \notin Away
  BY DEF Reap, Quiet, Away, Transfer
<1>2. p \in Actor /\ pc[p] = "wait" /\ Plain(p, u[p]) /\ Loaded(p) /\ p # Sched
  BY <1>1, QuietAt, Names
<1>3. /\ stat' = [stat EXCEPT ![c] = "free"] /\ parent' = [parent EXCEPT ![c] = None]
      /\ load' = [load EXCEPT ![c] = FALSE] /\ UNCHANGED <<coreI, size, slock>>
      /\ Place(p, "user", Idle(p)) /\ cpu' = p /\ stat[c] = "zomb"
  BY DEF Reap, Returns, Goes, Zombies, space
<1>4. load[p] /\ stat[p] = "run" /\ c # p /\ c # Sched
  BY <1>2, <1>3, Names DEF Loaded, Plain
<1>5. PlainPlace("user", Idle(p).op) /\ NewOK("user", Idle(p)) /\ Plain(p, Idle(p))
  BY IdleIsPlain DEF PlainPlace, NewOK, Transfer
<1>6. ActorFrame(p, "user", Idle(p))
  BY <1>2, <1>5, PlainFrame DEF ActorFrame
<1>7. /\ Control' /\ pc'[p] = "user" /\ u'[p] = Idle(p)
      /\ \A b \in Actor : b # p => pc'[b] = pc[b] /\ u'[b] = u[b]
  BY <1>2, <1>3, <1>6, Placed DEF Inv
<1>8. \A q \in Proc : q # c => Same(q)
  BY <1>3 DEF Same, Inv, Images, Domains
<1>9. \A q \in Proc : u[q].call = "fork" => u[q].up \notin {p, c} /\ parent'[u[q].up] = q
  BY <1>2, <1>3, Child DEF Inv, Images, Domains
<1>10. SchedOK' /\ \A q \in Proc : q \notin {p, c} => EntryOK(q)' /\ ForkOK(q)' /\ OutOK(q)'
  <2> DEFINE T == {p, c}
  <2>1. Sched \notin T /\ \A q : q \in T <=> q = p \/ q = c
    BY <1>2, <1>4
  <2> HIDE DEF T
  <2>2. SchedOK' /\ \A q \in Proc : q \notin T => EntryOK(q)' /\ ForkOK(q)' /\ OutOK(q)'
    BY <1>3, <1>4, <1>7, <1>8, <1>9, <2>1, Elsewhere
  <2>3. QED BY <2>1, <2>2
<1>11. EntryOK(p)' /\ ForkOK(p)' /\ OutOK(p)'
  BY <1>2, <1>3, <1>4, <1>7 DEF EntryOK, ForkOK, OutOK, Idle, Inv, Images, Domains
<1>12. EntryOK(c)' /\ ForkOK(c)' /\ OutOK(c)'
  <2>1. pc[c] = "none" /\ u[c].call # "fork"
    BY <1>3, Child DEF EntryOK, Inv, Images
  <2>2. u[c].xs = "none"
    BY <2>1, Frames DEF ProcFrame, FrameOK, InXswap, InXccdec, Transfer
  <2>3. pc'[c] = "none" /\ u'[c] = u[c]
    BY <1>4, <1>7, <2>1, Names
  <2>4. QED BY <1>3, <2>1, <2>2, <2>3 DEF EntryOK, ForkOK, OutOK, Inv, Images, Domains
<1>13. CpuOK'
  <2>1. \A b \in Actor : b # p => pc'[b] \notin {"xswap", "forked"}
    BY <1>1, <1>2, <1>7, AtFacts
  <2>2. Idle(p).up = p /\ load'[p] /\ stat'[p] = "run"
    BY <1>3, <1>4 DEF Idle, Inv, Images, Domains
  <2>3. QED BY <1>2, <1>3, <1>7, <2>1, <2>2, KeepsCpu
<1>14. Domains'
  BY <1>3 DEF Domains, Inv, Images, Stats
<1>15. QED BY <1>7, <1>10, <1>11, <1>12, <1>13, <1>14 DEF Inv, Images

(* A step of p that changes its own image and size.                        *)
LEMMA Resizes ==
  ASSUME Inv, NEW p \in Proc, At(p, "expand"), UNCHANGED <<load, slock, stat, parent>>,
         NEW n \in Sizes, size' = [size EXCEPT ![p] = n],
         NEW m \in Int, m > 0, coreI' = [coreI EXCEPT ![p] = m],
         NEW w, NEW r, Goes(p, w, r), ProcFrame(p, w, r), r.call # "fork",
         r.xs # "none" => w = "xswap"
  PROVE  Inv'
<1>1. Quiet("expand") /\ "expand" \notin Away
  BY DEF Quiet, Away, Transfer
<1>2. p \in Actor /\ pc[p] = "expand" /\ Plain(p, u[p]) /\ Loaded(p) /\ p # Sched
  BY <1>1, QuietAt, Names
<1>3. load[p] /\ stat[p] = "run"
  BY <1>2 DEF Loaded, Plain
<1>4. ActorFrame(p, w, r) /\ Place(p, w, r) /\ cpu' = p
  BY <1>2 DEF ActorFrame, Goes
<1>5. /\ Control' /\ pc'[p] = w /\ u'[p] = r
      /\ \A b \in Actor : b # p => pc'[b] = pc[b] /\ u'[b] = u[b]
  BY <1>2, <1>4, Placed DEF Inv
<1>6. \A q \in Proc : q # p => Same(q)
  BY DEF Same, Inv, Images, Domains
<1>7. \A q \in Proc : u[q].call = "fork" => u[q].up # p /\ parent'[u[q].up] = q
  BY <1>2, Child
<1>8. SchedOK' /\ \A q \in Proc : q # p => EntryOK(q)' /\ ForkOK(q)' /\ OutOK(q)'
  <2> DEFINE T == {p}
  <2>1. Sched \notin T /\ \A q : q \in T <=> q = p
    BY <1>2
  <2> HIDE DEF T
  <2>2. SchedOK' /\ \A q \in Proc : q \notin T => EntryOK(q)' /\ ForkOK(q)' /\ OutOK(q)'
    BY <1>3, <1>5, <1>6, <1>7, <2>1, Elsewhere
  <2>3. QED BY <2>1, <2>2
<1>9. EntryOK(p)'
  BY <1>3, <1>5 DEF EntryOK, Inv, Images, Domains
<1>10. ForkOK(p)' /\ OutOK(p)'
  BY <1>3, <1>5 DEF ForkOK, OutOK, ProcFrame
<1>11. CpuOK'
  <2>1. \A b \in Actor : b # p => pc'[b] \notin {"xswap", "forked"}
    BY <1>2, <1>5, AtFacts
  <2>2. r.up = p
    BY DEF ProcFrame
  <2>3. QED BY <1>2, <1>3, <1>4, <1>5, <2>1, <2>2, KeepsCpu
<1>12. Domains'
  BY Names DEF Domains, Inv, Images
<1>13. QED BY <1>5, <1>8, <1>9, <1>10, <1>11, <1>12 DEF Inv, Images

LEMMA ExpandStep ==
  ASSUME Inv, NEW p \in Proc, Expand(p) PROVE Inv'
<1> DEFINE new == u[p].new
           r == [u[p] EXCEPT !.new = 0, !.os = size[p], !.xs = "swapped"]
<1>1. /\ At(p, "expand") /\ Quiet("expand") /\ "expand" \notin Away
      /\ UNCHANGED <<load, slock, stat, parent>> /\ size' = [size EXCEPT ![p] = new]
  BY DEF Expand, Quiet, Away, Transfer
<1>2. Plain(p, u[p]) /\ new \in Sizes /\ Loaded(p) /\ pc[p] = "expand"
  BY <1>1, QuietAt DEF NewOK
<1>3. coreI[p] > 0 /\ coreI \in [Proc -> Int] /\ new \in Int /\ new > 0
  <2>1. coreI[p] > 0
    BY <1>2, LoadedHasImage
  <2>2. coreI \in [Proc -> Int]
    BY DEF Inv, Images, Domains
  <2>3. Sizes \subseteq Nat \ {0}
    BY Names
  <2>4. new \in Nat /\ new # 0
    BY <1>2, <2>3
  <2>5. QED BY <2>1, <2>2, <2>4
<1> HIDE DEF new
<1>4. CASE coreI' = [coreI EXCEPT ![p] = new] /\ AfterExpand(p)
  <2>1. PICK w, s : /\ Place(p, w, s) /\ cpu' = p /\ w # "none"
                    /\ PlainPlace(w, s.op) /\ Plain(p, s) /\ NewOK(w, s)
    BY <1>2, <1>4, AfterExpandFrame
  <2>2. ProcFrame(p, w, s) /\ Goes(p, w, s) /\ s.call # "fork" /\ s.xs = "none"
    BY <2>1, PlainFrame DEF Goes, Plain
  <2>3. QED BY <1>1, <1>2, <1>3, <1>4, <2>2, Resizes
<1>5. CASE coreI' = coreI /\ Goes(p, "xswap", r)
  <2>1. /\ IsFrame(r) /\ r.xs = "swapped" /\ r.cc = "none" /\ r.call # "fork"
        /\ r.up = p /\ r.p = p
    BY <1>2 DEF Plain, IsFrame
  <2> HIDE DEF r
  <2>2. ProcFrame(p, "xswap", r)
    BY <2>1 DEF ProcFrame, FrameOK, InXswap, InXccdec, Transfer
  <2>3. coreI' = [coreI EXCEPT ![p] = coreI[p]] /\ coreI[p] \in Int
    BY <1>3, <1>5
  <2>4. QED BY <1>1, <1>2, <1>3, <1>5, <2>1, <2>2, <2>3, Resizes
<1>6. QED BY <1>4, <1>5 DEF Expand, new

LEMMA XexpandStep ==
  ASSUME Inv, NEW p \in Proc, Xexpand(p) PROVE Inv'
<1> DEFINE r == [u[p] EXCEPT !.op = "textin"]
           s == [u[p] EXCEPT !.os = size[p], !.xs = "xexpandOut"]
<1>1. /\ At(p, "xexpand") /\ UNCHANGED <<coreI, size, load, slock, stat, parent>>
      /\ Goes(p, "attached", u[p]) \/ Goes(p, "swap", r) \/ Goes(p, "xswap", s)
  BY DEF Xexpand, procs
<1>2. Quiet("xexpand") /\ "xexpand" \notin Away
  BY DEF Quiet, Away, Transfer
<1>3. Plain(p, u[p]) /\ Loaded(p) /\ pc[p] = "xexpand" /\ p \in Actor
  BY <1>1, <1>2, QuietAt
<1>4. CASE Goes(p, "attached", u[p])
  <2>1. /\ Place(p, "attached", u[p]) /\ cpu' = p /\ PlainPlace("attached", u[p].op)
        /\ NewOK("attached", u[p])
    BY <1>4 DEF Goes, PlainPlace, NewOK, Transfer
  <2>2. QED BY <1>1, <1>2, <1>3, <2>1, NothingMoves, QuietWalks
<1>5. CASE Goes(p, "swap", r)
  <2>1. Plain(p, r) /\ r.op = "textin"
    BY <1>3, PlainEdits
  <2> HIDE DEF r
  <2>2. Place(p, "swap", r) /\ cpu' = p /\ PlainPlace("swap", r.op) /\ NewOK("swap", r)
    BY <1>5, <2>1 DEF Goes, PlainPlace, NewOK
  <2>3. QED BY <1>1, <1>2, <2>1, <2>2, NothingMoves, QuietWalks
<1>6. CASE Goes(p, "xswap", s)
  <2>1. /\ IsFrame(s) /\ s.xs = "xexpandOut" /\ s.cc = "none" /\ s.call # "fork"
        /\ s.up = p /\ s.p = p
    BY <1>3 DEF Plain, IsFrame
  <2> HIDE DEF s
  <2>2. ProcFrame(p, "xswap", s)
    BY <2>1 DEF ProcFrame, FrameOK, InXswap, InXccdec, Transfer
  <2>3. load[p] /\ stat[p] = "run"
    BY <1>3, Names DEF Loaded, Plain
  <2>4. \A b \in Actor : b # p => pc[b] \notin {"xswap", "forked"}
    BY <1>1, <1>3, AtFacts
  <2>5. Place(p, "xswap", s) /\ cpu' = p /\ Alike(p)
    BY <1>1, <1>6, NothingMoves DEF Goes
  <2>6. QED BY <1>3, <2>1, <2>2, <2>3, <2>4, <2>5, ProcMoves
<1>7. QED BY <1>1, <1>4, <1>5, <1>6

-----------------------------------------------------------------------------
(* fork.  A new entry is one that was free.                                *)
LEMMA FreeEntry ==
  ASSUME Inv, NEW c \in Proc, stat[c] = "free"
  PROVE  /\ pc[c] = "none" /\ coreI[c] = 0 /\ Plain(c, u[c])
         /\ \A q \in Proc : u[q].call = "fork" => u[q].up # c
<1>1. pc[c] = "none" /\ coreI[c] = 0
  BY DEF Inv, Images, EntryOK
<1>2. Plain(c, u[c])
  BY <1>1, PlainAt DEF PlainPlace, Transfer
<1>3. QED BY <1>1, <1>2, Child

LEMMA Newborn ==
  ASSUME Inv, NEW p \in Proc, NEW c \in Proc, Fork(p, c)
  PROVE  /\ p # c /\ pc[p] = "user" /\ Plain(p, u[p]) /\ load[p] /\ stat[p] = "run"
         /\ coreI[p] > 0 /\ size[p] \in Sizes
         /\ pc[c] = "none" /\ coreI[c] = 0 /\ stat[c] = "free" /\ Plain(c, u[c])
         /\ \A q \in Proc : u[q].call = "fork" => u[q].up \notin {p, c}
         /\ \A b \in Actor : b # p => pc[b] \notin {"xswap", "forked"}
<1>1. At(p, "user") /\ stat[c] = "free" /\ Quiet("user") /\ "user" \notin Away
  BY DEF Fork, Quiet, Away, Transfer
<1>2. Plain(p, u[p]) /\ Loaded(p) /\ pc[p] = "user" /\ p \in Actor
  BY <1>1, QuietAt
<1>3. load[p] /\ stat[p] = "run"
  BY <1>2, Names DEF Loaded, Plain
<1>4. coreI[p] > 0
  BY <1>2, LoadedHasImage
<1>5. size[p] \in Sizes
  BY <1>3 DEF Inv, Images, EntryOK
<1>6. \A b \in Actor : b # p => pc[b] \notin {"xswap", "forked"}
  BY <1>1, <1>2, AtFacts
<1>7. pc[c] = "none" /\ coreI[c] = 0 /\ Plain(c, u[c])
  BY <1>1, FreeEntry
<1>8. \A q \in Proc : u[q].call = "fork" => u[q].up \notin {p, c}
  BY <1>1, <1>2, FreeEntry, Child
<1>9. QED BY <1>1, <1>2, <1>3, <1>4, <1>5, <1>6, <1>7, <1>8

(* What fork leaves alone.                                                 *)
LEMMA ForkElsewhere ==
  ASSUME Inv, NEW p \in Proc, NEW c \in Proc, Fork(p, c)
  PROVE  /\ SchedOK' /\ Domains'
         /\ \A q \in Proc : q \notin {p, c} => EntryOK(q)' /\ ForkOK(q)' /\ OutOK(q)'
<1>1. /\ \E n \in {stat[p], "idl", "run"} : stat' = [stat EXCEPT ![c] = "run", ![p] = n]
      /\ parent' = [parent EXCEPT ![c] = p] /\ load' = [load EXCEPT ![c] = TRUE]
      /\ size' = [size EXCEPT ![c] = size[p]] /\ slock' = slock
      /\ coreI' = [coreI EXCEPT ![c] = size[p]] \/ coreI' = coreI
  BY DEF Fork, Newproc, StatInSwap
<1>2. \A b \in Actor : b \notin {p, c} => pc'[b] = pc[b] /\ u'[b] = u[b]
  BY DEF Fork, Goes, Place, Inv, Control
<1>3. Domains'
  BY <1>1, Newborn DEF Domains, Stats, Inv, Images
<1>4. \A q \in Proc : q \notin {p, c} => Same(q)
  BY <1>1 DEF Same, Inv, Images, Domains
<1>5. \A q \in Proc : q \notin {p, c} /\ u[q].call = "fork" =>
        u[q].up \notin {p, c} /\ parent'[u[q].up] = q
  BY <1>1, Newborn, Child
<1> DEFINE T == {p, c}
<1>6. Sched \notin T /\ \A q : q \in T <=> q = p \/ q = c
  BY Names
<1>7. \A t \in T : ~ (stat[t] = "run" /\ ~ load[t])
  BY Newborn
<1> HIDE DEF T
<1>8. SchedOK' /\ \A q \in Proc : q \notin T => EntryOK(q)' /\ ForkOK(q)' /\ OutOK(q)'
  BY <1>2, <1>4, <1>5, <1>6, <1>7, Elsewhere
<1>9. QED BY <1>3, <1>6, <1>8

LEMMA ForkCopies ==
  ASSUME Inv, NEW p \in Proc, NEW c \in Proc, Fork(p, c),
         coreI' = [coreI EXCEPT ![c] = size[p]], pc' = [pc EXCEPT ![c] = "user"], u' = u,
         cpu' = p
  PROVE  Inv'
<1>1. /\ p # c /\ pc[p] = "user" /\ Plain(p, u[p]) /\ load[p] /\ stat[p] = "run"
      /\ coreI[p] > 0 /\ size[p] \in Sizes /\ pc[c] = "none" /\ Plain(c, u[c])
      /\ p \in Actor /\ c \in Actor /\ c # Sched
  BY Newborn, Names
<1>2. coreI'[c] = size[p] /\ size[p] \in Nat /\ size[p] > 0
  BY <1>1, Names DEF Inv, Images, Domains
<1>3. stat' = [stat EXCEPT ![c] = "run", ![p] = "run"]
  <2>1. ~ (coreI'[c] = 0)
    BY <1>2
  <2>2. QED BY <2>1 DEF Fork, Newproc
<1>4. /\ load' = [load EXCEPT ![c] = TRUE] /\ size' = [size EXCEPT ![c] = size[p]]
      /\ slock' = slock
  BY DEF Fork, Newproc
<1>5. DOMAIN pc = Actor /\ DOMAIN u = Actor /\ \A a \in Actor : ActorFrame(a, pc[a], u[a])
  BY DEF Inv, Control
<1>6. Control'
  <2>1. ActorFrame(c, "user", u[c])
    BY <1>1, PlainFrame DEF ActorFrame, PlainPlace, NewOK, Transfer
  <2>2. \A a \in Actor : ActorFrame(a, pc'[a], u'[a])
    BY <1>1, <1>5, <2>1
  <2>3. QED BY <1>5, <2>2 DEF Control, ActorFrame, SchedFrame, ProcFrame, FrameOK
<1>7. EntryOK(p)' /\ ForkOK(p)' /\ OutOK(p)'
  <2>1. /\ stat'[p] = "run" /\ size'[p] = size[p] /\ coreI'[p] = coreI[p] /\ pc'[p] = "user"
        /\ u'[p] = u[p]
    BY <1>1, <1>3, <1>4, <1>5 DEF Inv, Images, Domains
  <2>2. QED BY <1>1, <2>1 DEF EntryOK, ForkOK, OutOK, Plain
<1>8. EntryOK(c)' /\ ForkOK(c)' /\ OutOK(c)'
  <2>1. stat'[c] = "run" /\ size'[c] = size[p] /\ pc'[c] = "user" /\ u'[c] = u[c]
    BY <1>1, <1>3, <1>4, <1>5 DEF Inv, Images, Domains
  <2>2. QED BY <1>1, <1>2, <2>1 DEF EntryOK, ForkOK, OutOK, Plain
<1>9. CpuOK'
  <2>1. \A b \in Actor : b # p => pc'[b] \notin {"xswap", "forked"}
    BY <1>5, Newborn
  <2>2. u'[p].up = p /\ load'[p] /\ stat'[p] = "run"
    BY <1>1, <1>3, <1>4 DEF Plain, Inv, Images, Domains
  <2>3. QED BY <1>1, <2>1, <2>2, KeepsCpu
<1>10. QED BY <1>6, <1>7, <1>8, <1>9, ForkElsewhere DEF Inv, Images
LEMMA ForkWrites ==
  ASSUME Inv, NEW p \in Proc, NEW c \in Proc, Fork(p, c), coreI' = coreI,
         Goes(p, "xswap", [u[p] EXCEPT !.call = "fork", !.up = c, !.p = c,
                                       !.ff = FALSE, !.xs = "forked"])
  PROVE  Inv'
<1> DEFINE r == [u[p] EXCEPT !.call = "fork", !.up = c, !.p = c, !.ff = FALSE, !.xs = "forked"]
<1>1. /\ p # c /\ pc[p] = "user" /\ Plain(p, u[p]) /\ load[p] /\ stat[p] = "run"
      /\ coreI[p] > 0 /\ size[p] \in Sizes /\ pc[c] = "none" /\ Plain(c, u[c])
      /\ coreI[c] = 0 /\ p \in Actor /\ c \in Actor /\ p # Sched /\ c # Sched
  BY Newborn, Names
<1>2. /\ stat' = [stat EXCEPT ![c] = "run", ![p] = "idl"]
      /\ load' = [load EXCEPT ![c] = TRUE] /\ size' = [size EXCEPT ![c] = size[p]]
      /\ slock' = slock /\ parent' = [parent EXCEPT ![c] = p]
  <2>1. coreI'[c] = 0
    BY <1>1
  <2>2. QED BY <2>1 DEF Fork, Newproc, StatInSwap
<1>3. Place(p, "xswap", r) /\ cpu' = p
  BY DEF Goes
<1>4. /\ IsFrame(r) /\ r.xs = "forked" /\ r.cc = "none" /\ r.call = "fork"
      /\ r.up = c /\ r.p = c /\ r.ff = FALSE
  BY <1>1 DEF Plain, IsFrame
<1> HIDE DEF r
<1>5. ActorFrame(p, "xswap", r)
  BY <1>1, <1>4 DEF ActorFrame, ProcFrame, FrameOK, InXswap, InXccdec, Transfer
<1>6. /\ Control' /\ pc'[p] = "xswap" /\ u'[p] = r
      /\ \A b \in Actor : b # p => pc'[b] = pc[b] /\ u'[b] = u[b]
  BY <1>1, <1>3, <1>5, Placed DEF Inv
<1>7. /\ stat'[p] = "idl" /\ load'[p] /\ size'[p] = size[p] /\ coreI'[p] = coreI[p]
      /\ stat'[c] = "run" /\ load'[c] /\ size'[c] = size[p] /\ parent'[c] = p
      /\ pc'[c] = "none" /\ u'[c] = u[c]
  BY <1>1, <1>2, <1>6 DEF Inv, Images, Domains
<1>8. EntryOK(p)' /\ ForkOK(p)' /\ OutOK(p)'
  BY <1>1, <1>4, <1>6, <1>7 DEF EntryOK, ForkOK, OutOK
<1>9. EntryOK(c)' /\ ForkOK(c)' /\ OutOK(c)'
  BY <1>1, <1>7 DEF EntryOK, ForkOK, OutOK, Plain
<1>10. CpuOK'
  <2>1. \A b \in Actor : b # p => pc'[b] \notin {"xswap", "forked"}
    BY <1>6, Newborn
  <2>2. QED BY <1>1, <1>3, <1>4, <1>6, <1>7, <2>1, KeepsCpu
<1>11. QED BY <1>6, <1>8, <1>9, <1>10, ForkElsewhere DEF Inv, Images

LEMMA ForkStep ==
  ASSUME Inv, NEW p \in Proc, NEW c \in Proc, Fork(p, c) PROVE Inv'
BY ForkCopies, ForkWrites DEF Fork

(* setrq, after the image of the child is written out.                     *)
LEMMA ForkedStep ==
  ASSUME Inv, NEW p \in Proc, Forked(p) PROVE Inv'
<1>1. At(p, "forked") /\ UNCHANGED <<coreI, size, load, slock, parent>>
  BY DEF Forked, space
<1>2. /\ pc[p] = "forked" /\ p \in Actor /\ p # Sched
      /\ \A b \in Actor : b # p => pc[b] \notin {"xswap", "forked"}
  BY <1>1, AtFacts, Names
<1>3. u[p].call = "fork"
  BY <1>2, Frames DEF ProcFrame
<1>4. PICK c \in Proc : /\ c = u[p].up /\ c # p /\ pc[c] = "none" /\ parent[c] = p
                        /\ stat[c] = "run" /\ stat[p] = "idl" /\ load[p] /\ ~ load[c]
                        /\ c \in Actor /\ c # Sched
  <2>1. ForkOK(p)
    BY DEF Inv, Images
  <2>2. QED BY <1>2, <1>3, <2>1, Child, Names DEF ForkOK
<1>17. /\ stat' = [stat EXCEPT ![p] = "run"]
       /\ pc' = [pc EXCEPT ![p] = "user", ![c] = "user"]
       /\ u' = [u EXCEPT ![p] = Idle(p)] /\ cpu' = p
  BY <1>4 DEF Forked
<1>5. DOMAIN pc = Actor /\ DOMAIN u = Actor /\ \A a \in Actor : ActorFrame(a, pc[a], u[a])
  BY DEF Inv, Control
<1>6. /\ pc'[p] = "user" /\ u'[p] = Idle(p) /\ pc'[c] = "user" /\ u'[c] = u[c]
      /\ \A b \in Actor : b \notin {p, c} => pc'[b] = pc[b] /\ u'[b] = u[b]
  BY <1>17, <1>2, <1>4, <1>5
<1>7. Plain(c, u[c]) /\ Plain(p, Idle(p)) /\ \A o : PlainPlace("user", o)
  BY <1>4, PlainAt, IdleIsPlain DEF PlainPlace, Transfer
<1>8. Control'
  <2>1. ActorFrame(c, "user", u[c]) /\ ActorFrame(p, "user", Idle(p))
    BY <1>2, <1>4, <1>7, PlainFrame DEF ActorFrame, NewOK
  <2>2. \A a \in Actor : ActorFrame(a, pc'[a], u'[a])
    BY <1>5, <1>6, <2>1
  <2>3. DOMAIN pc' = Actor /\ DOMAIN u' = Actor
    BY <1>17, <1>5
  <2>4. QED BY <2>2, <2>3 DEF Control, ActorFrame, SchedFrame, ProcFrame, FrameOK
<1>9. stat'[p] = "run" /\ \A q \in Proc : q # p => Same(q)
  BY <1>1, <1>17 DEF Same, Inv, Images, Domains
<1>10. \A q \in Proc : q \notin {p, c} /\ u[q].call = "fork" =>
         u[q].up \notin {p, c} /\ parent'[u[q].up] = q
  BY <1>1, <1>2, <1>4, Child
<1>11. SchedOK' /\ \A q \in Proc : q \notin {p, c} => EntryOK(q)' /\ ForkOK(q)' /\ OutOK(q)'
  <2> DEFINE T == {p, c}
  <2>1. Sched \notin T /\ \A q : q \in T <=> q = p \/ q = c
    BY <1>2, <1>4
  <2>2. \A t \in T : (stat[t] = "run" /\ ~ load[t]) => Same(t)
    BY <1>4, <1>9
  <2> HIDE DEF T
  <2>3. SchedOK' /\ \A q \in Proc : q \notin T => EntryOK(q)' /\ ForkOK(q)' /\ OutOK(q)'
    BY <1>6, <1>9, <1>10, <2>1, <2>2, Elsewhere
  <2>4. QED BY <2>1, <2>3
<1>12. EntryOK(p)' /\ ForkOK(p)' /\ OutOK(p)'
  BY <1>1, <1>17, <1>2, <1>4, <1>6, <1>7, <1>9 DEF EntryOK, ForkOK, OutOK, Plain, Inv, Images
<1>13. EntryOK(c)' /\ ForkOK(c)' /\ OutOK(c)'
  <2>1. EntryOK(c) /\ Same(c)
    BY <1>4, <1>9 DEF Inv, Images
  <2>2. EntryOK(c)'
    BY <1>4, <1>6, <2>1 DEF EntryOK, Same
  <2>3. QED BY <1>6, <1>7, <2>2 DEF ForkOK, OutOK, Plain
<1>14. CpuOK'
  <2>1. \A b \in Actor : b # p => pc'[b] \notin {"xswap", "forked"}
    BY <1>2, <1>6
  <2>2. u'[p].up = p /\ load'[p] /\ stat'[p] = "run"
    BY <1>1, <1>4, <1>6, <1>7, <1>9 DEF Plain
  <2>3. QED BY <1>2, <1>17, <2>1, <2>2, KeepsCpu
<1>15. Domains'
  BY <1>1, <1>17 DEF Domains, Inv, Images, Stats
<1>16. QED BY <1>8, <1>11, <1>12, <1>13, <1>14, <1>15 DEF Inv, Images

-----------------------------------------------------------------------------
(* Transfers, xccdec and xswap, of a process or of sched.                  *)
LEMMA SwapMoves ==
  ASSUME Inv, NEW a \in Actor, NEW w0, At(a, w0), w0 \notin Away \cup {"none"},
         NEW w, NEW r, Place(a, w, r), ActorFrame(a, w, r), w \notin {"none", "forked", "xswap"},
         Alike(a), cpu' \in {a, None},
         r.call = u[a].call /\ r.up = u[a].up /\ r.p = u[a].p /\ r.xs = u[a].xs,
         a \in Proc /\ r.xs # "none" => slock'[r.p],
         SchedIn(w, r) => SchedIn(w0, u[a]), SchedBusy(w, r) => SchedBusy(w0, u[a])
  PROVE  Inv'
<1>1. /\ pc[a] = w0 /\ (a \in Proc => Loaded(a))
      /\ \A b \in Actor : b # a => pc[b] \notin {"xswap", "forked"}
  BY AtFacts
<1>2. CASE a = Sched
  <2>1. Place(Sched, w, r) /\ SchedFrame(w, r) /\ Alike(Sched) /\ cpu' \in {Sched, None}
    BY <1>2 DEF ActorFrame
  <2>2. \A p \in Proc : pc[p] \notin {"xswap", "forked"}
    BY <1>1, <1>2, Names
  <2>3. /\ SchedBusy(w, r) => r.p \in Proc /\ stat[r.p] = "run" /\ ~ load[r.p]
        /\ SchedIn(w, r) => coreI[r.p] > 0
    BY <1>1, <1>2 DEF SchedOK, Inv, Images
  <2>4. QED BY <2>1, <2>2, <2>3, SchedMoves
<1>3. CASE a \in Proc
  <2>1. ProcFrame(a, w, r) /\ a # Sched
    BY <1>3, Names DEF ActorFrame
  <2>2. load[r.up] /\ stat[r.up] = "run"
    BY <1>1, <1>3, <2>1 DEF Loaded
  <2>3. pc[a] \notin {"none", "forked"}
    BY <1>1 DEF Away
  <2>4. QED BY <1>1, <1>3, <2>1, <2>2, <2>3, ProcMoves
<1>4. QED BY <1>2, <1>3 DEF Actor

(* A process outside the call of xswap has the image it writes out locked. *)
LEMMA OutLocked ==
  ASSUME Inv, NEW p \in Proc, pc[p] # "xswap", u[p].xs # "none"
  PROVE  slock[u[p].p] /\ load[u[p].p]
BY DEF Inv, Images, OutOK

(* From one step of a transfer to the next.                                *)
LEMMA TransferMoves ==
  ASSUME Inv, NEW a \in Actor, NEW w0 \in Transfer, At(a, w0),
         NEW w \in Transfer, NEW r, Place(a, w, r), cpu' \in {a, None},
         UNCHANGED <<coreI, size, load, slock, stat, parent>>,
         r = u[a] \/ \E h : r = [u[a] EXCEPT !.hdr = h]
  PROVE  Inv'
<1>1. pc[a] = w0 /\ ActorFrame(a, w0, u[a])
  BY AtFacts DEF Inv, Control
<1>2. IsFrame(u[a])
  BY <1>1 DEF ActorFrame, ProcFrame, SchedFrame, FrameOK
<1>3. /\ IsFrame(r) /\ r.call = u[a].call /\ r.up = u[a].up /\ r.p = u[a].p /\ r.ff = u[a].ff
      /\ r.xs = u[a].xs /\ r.cc = u[a].cc /\ r.op = u[a].op /\ r.new = u[a].new
  BY <1>2 DEF IsFrame
<1>4. ActorFrame(a, w, r)
  BY <1>1, <1>3 DEF ActorFrame, ProcFrame, SchedFrame, FrameOK, InXswap, InXccdec, Transfer
<1>5. a \in Proc /\ r.xs # "none" => slock'[r.p]
  BY <1>1, <1>3, OutLocked DEF Transfer
<1>6. /\ SchedIn(w, r) => SchedIn(w0, u[a])
      /\ SchedBusy(w, r) => SchedBusy(w0, u[a])
  BY <1>3 DEF SchedIn, SchedBusy, Transfer
<1>7. w0 \notin Away \cup {"none"} /\ w \notin {"none", "forked", "xswap"}
  BY DEF Transfer, Away
<1>8. QED BY <1>3, <1>4, <1>5, <1>6, <1>7, NothingMoves, SwapMoves

LEMMA SwapStep ==
  ASSUME Inv, NEW a \in Actor, Swap(a) PROVE Inv'
<1>1. At(a, "swap") /\ UNCHANGED <<coreI, size, load, slock, stat, parent>>
      /\ \/ \E h : Place(a, "header", [u[a] EXCEPT !.hdr = h])
         \/ Place(a, "io", u[a])
      /\ cpu' = None
  BY DEF Swap, Sleeps, space, procs
<1>2. {"swap", "header", "io"} \subseteq Transfer
  BY DEF Transfer
<1>3. QED BY <1>1, <1>2, TransferMoves

LEMMA SwapHeaderStep ==
  ASSUME Inv, NEW a \in Actor, SwapHeader(a) PROVE Inv'
<1>1. /\ At(a, "header") /\ UNCHANGED <<coreI, size, load, slock, stat, parent>>
      /\ Place(a, "io", [u[a] EXCEPT !.hdr = 0]) /\ cpu' = None
  BY DEF SwapHeader, Sleeps, space, procs
<1>2. {"header", "io"} \subseteq Transfer
  BY DEF Transfer
<1>3. QED BY <1>1, <1>2, TransferMoves

(* xccdec returns, to xswap, exit or expand.                               *)
LEMMA XccdecBack ==
  ASSUME Inv, NEW a \in Actor, NEW w0, At(a, w0), InXccdec(w0, u[a]),
         XccdecReturns(a, u[a].cc), UNCHANGED <<coreI, size, load, slock, stat, parent>>
  PROVE  Inv'
<1> DEFINE cc == u[a].cc
           r == [u[a] EXCEPT !.x = None, !.cc = "none", !.op = "imageout"]
           s == [u[a] EXCEPT !.x = None, !.cc = "none", !.op = "none"]
<1>1. /\ pc[a] = w0 /\ ActorFrame(a, w0, u[a]) /\ w0 \notin Away \cup {"none"} /\ w0 # "xswap"
      /\ w0 # "swapinText" /\ w0 # "swapin"
  BY AtFacts DEF Inv, Control, InXccdec, Transfer, Away
<1>2. IsFrame(u[a]) /\ cc \in {"xswap", "exited", "expand"} /\ (a = Sched => cc = "xswap")
      /\ (cc = "expand" => u[a].new \in Sizes)
  BY <1>1 DEF ActorFrame, ProcFrame, SchedFrame, FrameOK
<1>3. cc = "xswap" <=> u[a].xs # "none"
  BY <1>1, <1>2 DEF ActorFrame, ProcFrame, SchedFrame, FrameOK, InXswap, InXccdec, Transfer
<1>4. a \in Proc /\ u[a].xs # "none" => slock[u[a].p]
  BY <1>1, OutLocked
<1>5. CASE cc = "xswap"
  <2>1. /\ IsFrame(r) /\ r.call = u[a].call /\ r.up = u[a].up /\ r.p = u[a].p /\ r.ff = u[a].ff
        /\ r.xs = u[a].xs /\ r.cc = "none" /\ r.op = "imageout" /\ r.new = u[a].new
    BY <1>2 DEF IsFrame
  <2>2. Place(a, "swap", r) /\ cpu' \in {a, None}
    BY <1>5 DEF XccdecReturns, Goes
  <2> HIDE DEF r, s, cc
  <2>3. ActorFrame(a, "swap", r)
    BY <1>1, <1>3, <1>5, <2>1
    DEF cc, ActorFrame, ProcFrame, SchedFrame, FrameOK, InXswap, InXccdec, Transfer
  <2>4. /\ SchedIn("swap", r) => SchedIn(w0, u[a])
        /\ SchedBusy("swap", r) => SchedBusy(w0, u[a])
    BY <2>1 DEF SchedIn, SchedBusy
  <2>5. QED BY <1>1, <1>4, <2>1, <2>2, <2>3, <2>4, NothingMoves, SwapMoves
<1>6. CASE cc # "xswap"
  <2>1. /\ IsFrame(s) /\ s.call = u[a].call /\ s.up = u[a].up /\ s.p = u[a].p /\ s.ff = u[a].ff
        /\ s.xs = u[a].xs /\ s.cc = "none" /\ s.op = "none" /\ s.new = u[a].new
    BY <1>2 DEF IsFrame
  <2>2. Place(a, cc, s) /\ cpu' \in {a, None}
    BY <1>6 DEF XccdecReturns, Goes
  <2>3. u[a].xs = "none" /\ a # Sched /\ cc \in {"exited", "expand"}
    BY <1>2, <1>3, <1>6
  <2> HIDE DEF r, s, cc
  <2>4. ActorFrame(a, cc, s)
    BY <1>1, <1>2, <2>1, <2>3
    DEF ActorFrame, ProcFrame, SchedFrame, FrameOK, InXswap, InXccdec, Transfer
  <2>5. ~ SchedIn(cc, s) /\ ~ SchedBusy(cc, s) /\ cc \notin {"none", "forked", "xswap"}
    BY <2>1, <2>3 DEF SchedIn, SchedBusy
  <2>6. QED BY <1>1, <2>1, <2>2, <2>3, <2>4, <2>5, NothingMoves, SwapMoves
<1>7. QED BY <1>5, <1>6

LEMMA XccdecLockStep ==
  ASSUME Inv, NEW a \in Actor, XccdecLock(a) PROVE Inv'
<1> DEFINE r == [u[a] EXCEPT !.op = "textout"]
<1>1. /\ At(a, "xccdecLock") /\ UNCHANGED <<coreI, size, load, slock, stat, parent>>
      /\ XccdecReturns(a, u[a].cc) \/ Goes(a, "swap", r)
  BY DEF XccdecLock, procs
<1>2. CASE XccdecReturns(a, u[a].cc)
  BY <1>1, <1>2, XccdecBack DEF InXccdec
<1>3. CASE Goes(a, "swap", r)
  <2>1. pc[a] = "xccdecLock" /\ ActorFrame(a, "xccdecLock", u[a])
    BY <1>1, AtFacts DEF Inv, Control
  <2>2. IsFrame(u[a])
    BY <2>1 DEF ActorFrame, ProcFrame, SchedFrame, FrameOK
  <2>3. /\ IsFrame(r) /\ r.call = u[a].call /\ r.up = u[a].up /\ r.p = u[a].p /\ r.ff = u[a].ff
        /\ r.xs = u[a].xs /\ r.cc = u[a].cc /\ r.op = "textout" /\ r.new = u[a].new
    BY <2>2 DEF IsFrame
  <2>4. Place(a, "swap", r) /\ cpu' \in {a, None}
    BY <1>3 DEF Goes
  <2> HIDE DEF r
  <2>5. ActorFrame(a, "swap", r)
    BY <2>1, <2>3 DEF ActorFrame, ProcFrame, SchedFrame, FrameOK, InXswap, InXccdec, Transfer
  <2>6. a \in Proc /\ r.xs # "none" => slock'[r.p]
    BY <1>1, <2>1, <2>3, OutLocked
  <2>7. /\ SchedIn("swap", r) => SchedIn("xccdecLock", u[a])
        /\ SchedBusy("swap", r) => SchedBusy("xccdecLock", u[a])
    BY <2>3 DEF SchedIn, SchedBusy
  <2>8. QED BY <1>1, <2>3, <2>4, <2>5, <2>6, <2>7, NothingMoves, SwapMoves DEF Away
<1>4. QED BY <1>1, <1>2, <1>3

LEMMA TextWrittenStep ==
  ASSUME Inv, NEW a \in Actor, TextWritten(a) PROVE Inv'
<1>1. /\ At(a, "done") /\ u[a].op = "textout" /\ XccdecReturns(a, u[a].cc)
      /\ UNCHANGED <<coreI, size, load, slock, stat, parent>>
  BY DEF TextWritten, Done, procs
<1>2. QED BY <1>1, XccdecBack DEF InXccdec, Transfer

(* xswap locks the image and calls xccdec.                                 *)
LEMMA XswapStep ==
  ASSUME Inv, NEW a \in Actor, Xswap(a) PROVE Inv'
<1> DEFINE x == textp[u[a].p]
           r == [u[a] EXCEPT !.x = None, !.cc = "none", !.op = "imageout"]
           s == [u[a] EXCEPT !.x = x, !.cc = "xswap"]
<1>1. /\ At(a, "xswap") /\ UNCHANGED <<coreI, size, load, stat, parent>>
      /\ slock' = [slock EXCEPT ![u[a].p] = TRUE]
      /\ Goes(a, "swap", r) \/ Goes(a, "xccdecLock", s)
  BY DEF Xswap, Xccdec, XccdecReturns
<1>2. pc[a] = "xswap" /\ ActorFrame(a, "xswap", u[a])
  BY <1>1, AtFacts DEF Inv, Control
<1>3. IsFrame(u[a]) /\ u[a].xs # "none" /\ u[a].cc = "none"
  BY <1>2 DEF ActorFrame, ProcFrame, SchedFrame, FrameOK, InXswap, InXccdec, Transfer
<1>4. u[a].p \in Proc
  BY <1>2, <1>3, Child DEF SchedOK, SchedBusy, Inv, Images, Actor
<1>5. slock'[u[a].p] /\ Alike(a)
  BY <1>1, <1>4 DEF Alike, Inv, Images, Domains
<1>6. CASE Goes(a, "swap", r)
  <2>1. /\ IsFrame(r) /\ r.call = u[a].call /\ r.up = u[a].up /\ r.p = u[a].p /\ r.ff = u[a].ff
        /\ r.xs = u[a].xs /\ r.cc = "none" /\ r.op = "imageout" /\ r.new = u[a].new
    BY <1>3 DEF IsFrame
  <2>2. Place(a, "swap", r) /\ cpu' \in {a, None}
    BY <1>6 DEF Goes
  <2> HIDE DEF r, s, x
  <2>3. ActorFrame(a, "swap", r)
    BY <1>2, <1>3, <2>1
    DEF ActorFrame, ProcFrame, SchedFrame, FrameOK, InXswap, InXccdec, Transfer
  <2>4. /\ SchedIn("swap", r) => SchedIn("xswap", u[a])
        /\ SchedBusy("swap", r) => SchedBusy("xswap", u[a])
    BY <2>1 DEF SchedIn, SchedBusy
  <2>5. QED BY <1>1, <1>5, <2>1, <2>2, <2>3, <2>4, SwapMoves DEF Away
<1>7. CASE Goes(a, "xccdecLock", s)
  <2>1. /\ IsFrame(s) /\ s.call = u[a].call /\ s.up = u[a].up /\ s.p = u[a].p /\ s.ff = u[a].ff
        /\ s.xs = u[a].xs /\ s.cc = "xswap" /\ s.op = u[a].op /\ s.new = u[a].new
    BY <1>3 DEF IsFrame
  <2>2. Place(a, "xccdecLock", s) /\ cpu' \in {a, None}
    BY <1>7 DEF Goes
  <2> HIDE DEF r, s, x
  <2>3. ActorFrame(a, "xccdecLock", s)
    BY <1>2, <1>3, <2>1
    DEF ActorFrame, ProcFrame, SchedFrame, FrameOK, InXswap, InXccdec, Transfer
  <2>4. /\ SchedIn("xccdecLock", s) => SchedIn("xswap", u[a])
        /\ SchedBusy("xccdecLock", s) => SchedBusy("xswap", u[a])
    BY <2>1 DEF SchedIn, SchedBusy
  <2>5. QED BY <1>1, <1>5, <2>1, <2>2, <2>3, <2>4, SwapMoves DEF Away
<1>8. QED BY <1>1, <1>6, <1>7

LEMMA SwitchStep ==
  ASSUME Inv, NEW a \in Actor, Switch(a) PROVE Inv'
<1>1. /\ cpu = a /\ GivesUp(a) /\ cpu' = None
      /\ UNCHANGED <<coreI, size, load, slock, stat, parent, pc, u>>
  BY DEF Switch, space, procs
<1>2. pc[a] \notin {"xswap", "forked"}
  BY <1>1 DEF GivesUp, Blocked, Waiting
<1>3. \A b \in Actor : pc[b] \notin {"xswap", "forked"}
  BY <1>1, <1>2 DEF CpuOK, Inv, Images
<1>4. QED BY <1>1, <1>3, Names, Stays
(* An interrupt ends a transfer while another may have the processor.      *)
LEMMA InterruptStep ==
  ASSUME Inv, NEW a \in Actor, Interrupt(a) PROVE Inv'
<1>1. /\ \/ pc[a] = "io" /\ pc' = [pc EXCEPT ![a] = "done"]
         \/ pc[a] = "runin" /\ pc' = [pc EXCEPT ![a] = "sched"]
      /\ UNCHANGED <<coreI, size, load, slock, stat, parent, u, cpu>>
  BY DEF Interrupt, space, procs
<1>2. DOMAIN pc = Actor /\ DOMAIN u = Actor /\ \A b \in Actor : ActorFrame(b, pc[b], u[b])
  BY DEF Inv, Control
<1>3. PICK w : /\ pc' = [pc EXCEPT ![a] = w]
               /\ (pc[a] = "io" /\ w = "done") \/ (pc[a] = "runin" /\ w = "sched")
  BY <1>1
<1>4. pc'[a] = w /\ \A b \in Actor : b # a => pc'[b] = pc[b]
  BY <1>2, <1>3
<1>5. ActorFrame(a, w, u[a])
  BY <1>2, <1>3 DEF ActorFrame, ProcFrame, SchedFrame, FrameOK, InXswap, InXccdec, Transfer
<1>6. Control'
  <2>1. \A b \in Actor : ActorFrame(b, pc'[b], u'[b])
    BY <1>1, <1>2, <1>4, <1>5
  <2>2. DOMAIN pc' = Actor /\ DOMAIN u' = Actor
    BY <1>1, <1>2, <1>3
  <2>3. QED BY <2>1, <2>2 DEF Control, ActorFrame, SchedFrame, ProcFrame, FrameOK
<1>7. \A q \in Proc : Same(q)
  BY <1>1 DEF Same
<1>8. ASSUME NEW q \in Proc PROVE EntryOK(q)' /\ ForkOK(q)' /\ OutOK(q)'
  <2>1. u[q].call = "fork" => pc'[u[q].up] = pc[u[q].up]
    BY <1>3, <1>4, Child, Names
  <2>2. CASE q # a
    BY <1>1, <1>4, <1>7, <2>1, <2>2, Child, Others, Names
  <2>3. CASE q = a
    <3>1. EntryOK(q) /\ ForkOK(q) /\ OutOK(q) /\ q \in Actor
      BY Names DEF Inv, Images
    <3>2. pc[q] \notin {"none", "xswap"} /\ pc'[q] # "forked"
      BY <1>3, <1>4, <2>3
    <3>3. EntryOK(q)'
      BY <1>1, <3>1, <3>2 DEF EntryOK
    <3>4. ForkOK(q)'
      BY <1>1, <2>1, <3>1, <3>2 DEF ForkOK
    <3>5. OutOK(q)'
      BY <1>1, <3>1, <3>2 DEF OutOK
    <3>6. QED BY <3>3, <3>4, <3>5
  <2>4. QED BY <2>2, <2>3
<1>9. SchedOK'
  <2>1. SchedOK
    BY DEF Inv, Images
  <2>2. pc'[Sched] \in {"swapin", "swapinText"} => pc'[Sched] = pc[Sched]
    BY <1>3, <1>4, Names
  <2>3. QED BY <1>1, <2>1, <2>2 DEF SchedOK, SchedBusy, SchedIn
<1>10. CpuOK'
  <2>1. CpuOK
    BY DEF Inv, Images
  <2>2. \A b \in Actor : /\ pc[b] \in Away => pc'[b] = pc[b]
                         /\ pc'[b] \in {"xswap", "forked"} => pc'[b] = pc[b]
    BY <1>3, <1>4 DEF Away
  <2>3. QED BY <1>1, <2>1, <2>2, Names DEF CpuOK, Loaded
<1>11. Domains'
  BY <1>1 DEF Domains, Inv, Images
<1>12. QED BY <1>6, <1>8, <1>9, <1>10, <1>11 DEF Inv, Images

(* xswap is over: the space in core is given back, unless the image is the *)
(* child's in fork, and SLOAD is off.                                      *)
LEMMA ProcImageWritten ==
  ASSUME Inv, NEW a \in Proc, ImageWritten(a) PROVE Inv'
<1> DEFINE r == [u[a] EXCEPT !.p = a, !.os = 0, !.ff = TRUE, !.op = "none", !.xs = "none"]
<1>1. a \in Actor /\ a # Sched
  BY Names
<1>2. PICK p : p = u[a].p
  OBVIOUS
<1>3. /\ At(a, "done") /\ u[a].op = "imageout"
      /\ IF u[a].ff THEN coreI' = [coreI EXCEPT ![p] = 0] ELSE coreI' = coreI
      /\ load' = [load EXCEPT ![p] = FALSE] /\ slock' = [slock EXCEPT ![p] = FALSE]
      /\ UNCHANGED <<stat, parent, size>>
      /\ Place(a, u[a].xs, r) /\ cpu' = a
  BY <1>2 DEF ImageWritten, Done, Goes
<1>4. PICK w : w = u[a].xs
  OBVIOUS
<1>5. pc[a] = "done" /\ ProcFrame(a, "done", u[a])
  BY <1>1, <1>3, AtFacts, Frames
<1>6. w \in {"forked", "swapped", "xexpandOut"} /\ u[a].cc = "none" /\ IsFrame(u[a])
  BY <1>3, <1>4, <1>5 DEF ProcFrame, FrameOK, InXswap, InXccdec, Transfer
<1>7. p \in Proc /\ load[p] /\ p \in {a, u[a].up}
  BY <1>2, <1>4, <1>5, <1>6, OutLocked, Child
<1>8. /\ IsFrame(r) /\ r.call = u[a].call /\ r.up = u[a].up /\ r.p = a /\ r.xs = "none"
      /\ r.cc = "none" /\ r.op = "none"
  BY <1>6 DEF IsFrame
<1> HIDE DEF r
<1>9. u[a].call = "fork" <=> w = "forked"
  BY <1>4, <1>5, <1>6 DEF ProcFrame
<1>10. ActorFrame(a, w, r)
  BY <1>1, <1>5, <1>6, <1>8, <1>9
  DEF ActorFrame, ProcFrame, FrameOK, InXswap, InXccdec, Transfer
<1>11. /\ Control' /\ pc'[a] = w /\ u'[a] = r
       /\ \A b \in Actor : b # a => pc'[b] = pc[b] /\ u'[b] = u[b]
  BY <1>1, <1>3, <1>4, <1>10, Placed DEF Inv
<1>12. \A q \in Proc : q # p => Same(q)
  BY <1>3, <1>7 DEF Same, Inv, Images, Domains
<1>13. \A q \in Proc : u[q].call = "fork" => /\ u[q].up # a /\ parent'[u[q].up] = q
                                            /\ (q # a => u[q].up # p)
  <2>1. u[a].call # "fork" => p = a
    BY <1>2, Child
  <2>2. u[a].call = "fork" => u[a].up \in Proc /\ parent[u[a].up] = a
    BY Child
  <2>3. QED BY <1>3, <1>5, <1>7, <2>1, <2>2, Child
<1>14. ~ (stat[a] = "run" /\ ~ load[a])
  BY <1>2, <1>7, Child
<1>15. /\ SchedOK'
       /\ \A q \in Proc : q \notin {a, p} => EntryOK(q)' /\ ForkOK(q)' /\ OutOK(q)'
  <2> DEFINE T == {a, p}
  <2>1. Sched \notin T /\ \A q : q \in T <=> q = a \/ q = p
    BY <1>1, <1>7, Names
  <2> HIDE DEF T
  <2>2. SchedOK' /\ \A q \in Proc : q \notin T => EntryOK(q)' /\ ForkOK(q)' /\ OutOK(q)'
    BY <1>7, <1>11, <1>12, <1>13, <1>14, <2>1, Elsewhere
  <2>3. QED BY <2>1, <2>2
<1>16. EntryOK(a) /\ ForkOK(a) /\ EntryOK(p)
  BY <1>7 DEF Inv, Images
<1>17. ~ load'[p]
  BY <1>3, <1>7 DEF Inv, Images, Domains
<1>18. \A q \in {a, p} : EntryOK(q)' /\ ForkOK(q)' /\ OutOK(q)'
  <2>1. CASE w = "forked"
    <3>1. u[a].call = "fork" /\ p = u[a].up /\ p # a
      BY <1>5, <1>2, <1>4, <1>9, <2>1, Child DEF ProcFrame
    <3>2. /\ stat[a] = "idl" /\ load[a] /\ pc[p] = "none" /\ stat[p] = "run" /\ parent[p] = a
      BY <3>1, <1>7, Child
    <3>3. Same(a) /\ pc'[p] = "none" /\ u'[p] = u[p]
      BY <1>7, <1>11, <1>12, <3>1, <3>2, Names
    <3>4. EntryOK(a)'
      BY <1>5, <1>11, <1>16, <2>1, <3>2, <3>3 DEF EntryOK, Same
    <3>5. ForkOK(a)' /\ OutOK(a)'
      BY <1>3, <1>8, <1>11, <1>17, <3>1, <3>2, <3>3 DEF ForkOK, OutOK, Same
    <3>6. EntryOK(p)'
      BY <1>3, <1>16, <1>17, <3>2, <3>3 DEF EntryOK
    <3>7. u[p].call # "fork" /\ u[p].xs = "none"
      BY <1>7, <3>2, Child, Frames DEF ProcFrame, FrameOK, InXswap, InXccdec, Transfer
    <3>8. ForkOK(p)' /\ OutOK(p)'
      BY <3>3, <3>7 DEF ForkOK, OutOK
    <3>9. QED BY <3>4, <3>5, <3>6, <3>8
  <2>2. CASE w # "forked"
    <3>1. u[a].call # "fork" /\ p = a
      BY <1>2, <1>9, <2>2, Child
    <3>2. EntryOK(a)'
      BY <1>3, <1>5, <1>16, <1>17, <3>1 DEF EntryOK
    <3>3. ForkOK(a)' /\ OutOK(a)'
      BY <1>8, <1>11, <3>1 DEF ForkOK, OutOK
    <3>4. QED BY <3>1, <3>2, <3>3
  <2>3. QED BY <2>1, <2>2
<1>19. CpuOK'
  <2>1. \A b \in Actor : b # a => pc'[b] \notin {"xswap", "forked"}
    BY <1>1, <1>3, <1>11, AtFacts
  <2>2. pc'[a] \in Away
    BY <1>6, <1>11 DEF Away
  <2>3. QED BY <1>1, <1>3, <2>1, <2>2, KeepsCpu
<1>20. Domains'
  <2>1. coreI' \in [Proc -> Int] /\ load' \in [Proc -> BOOLEAN] /\ slock' \in [Proc -> BOOLEAN]
    BY <1>3, <1>7 DEF Domains, Inv, Images
  <2>2. QED BY <1>3, <2>1 DEF Domains, Inv, Images
<1>21. QED BY <1>11, <1>15, <1>18, <1>19, <1>20 DEF Inv, Images

(* sched touches the entry of a process that has no image to write out.    *)
LEMMA SchedTouches ==
  ASSUME Inv, NEW p \in Proc, NEW w0, At(Sched, w0),
         stat[p] = "run", ~ load[p] \/ ~ slock[p],
         UNCHANGED <<size, stat, parent>>,
         coreI' \in [Proc -> Int], load' \in [Proc -> BOOLEAN], slock' \in [Proc -> BOOLEAN],
         \A q \in Proc : q # p =>
           coreI'[q] = coreI[q] /\ load'[q] = load[q] /\ slock'[q] = slock[q],
         load'[p] => coreI'[p] > 0,
         NEW w, NEW r, Goes(Sched, w, r), SchedFrame(w, r),
         SchedBusy(w, r) => r.p = p /\ ~ load'[p],
         SchedIn(w, r) => r.p = p /\ coreI'[p] > 0
  PROVE  Inv'
<1>1. Sched \in Actor /\ Sched \notin Proc
  BY Names
<1>2. \A q \in Proc : pc[q] \notin {"xswap", "forked"}
  BY <1>1, AtFacts, Names
<1>3. ActorFrame(Sched, w, r) /\ Place(Sched, w, r) /\ cpu' = Sched
  BY DEF ActorFrame, Goes
<1>4. /\ Control' /\ pc'[Sched] = w /\ u'[Sched] = r
      /\ \A b \in Actor : b # Sched => pc'[b] = pc[b] /\ u'[b] = u[b]
  BY <1>1, <1>3, Placed DEF Inv
<1>5. \A q \in Proc : q # p => Same(q)
  BY DEF Same
<1>6. \A q \in Proc : u[q].call = "fork" => u[q].up # p /\ parent'[u[q].up] = q
  <2> TAKE q \in Proc
  <2> HAVE u[q].call = "fork"
  <2>1. u[q].up \in Proc /\ parent[u[q].up] = q
    BY Child
  <2>2. u[q].xs = "forked" /\ u[q].p = u[q].up
    BY <1>2, Frames DEF ProcFrame
  <2>3. load[u[q].up] /\ slock[u[q].up]
    BY <1>2, <2>2, OutLocked
  <2>4. QED BY <2>1, <2>3
<1>7. ASSUME NEW q \in Proc, q # p PROVE EntryOK(q)' /\ ForkOK(q)' /\ OutOK(q)'
  <2>1. Same(q) /\ pc'[q] = pc[q] /\ u'[q] = u[q]
    BY <1>1, <1>4, <1>5, <1>7, Names
  <2>2. u[q].call = "fork" => /\ Same(u[q].up) /\ pc'[u[q].up] = pc[u[q].up]
                              /\ parent'[u[q].up] = q
    BY <1>1, <1>4, <1>5, <1>6, Child, Names
  <2>3. QED BY <2>1, <2>2, Others
<1>8. EntryOK(p)' /\ ForkOK(p)' /\ OutOK(p)'
  <2>1. EntryOK(p) /\ pc'[p] = pc[p] /\ u'[p] = u[p]
    BY <1>1, <1>4, Names DEF Inv, Images
  <2>2. u[p].call # "fork" /\ u[p].p = p
    BY Child
  <2>3. u[p].xs = "none"
    BY <1>2, <2>2, OutLocked
  <2>4. EntryOK(p)'
    BY <2>1 DEF EntryOK
  <2>5. QED BY <2>1, <2>2, <2>3, <2>4 DEF ForkOK, OutOK
<1>9. SchedOK'
  BY <1>4 DEF SchedOK
<1>10. CpuOK'
  BY <1>1, <1>2, <1>3, <1>4, Names, KeepsCpu DEF Actor
<1>11. Domains'
  BY DEF Domains, Inv, Images
<1>12. QED BY <1>4, <1>7, <1>8, <1>9, <1>10, <1>11 DEF Inv, Images

LEMMA SchedImageWritten ==
  ASSUME Inv, ImageWritten(Sched) PROVE Inv'
<1> DEFINE r == [u[Sched] EXCEPT !.p = Sched, !.os = 0, !.ff = TRUE, !.op = "none",
                                 !.xs = "none"]
<1>1. Sched \in Actor
  BY Names
<1>2. PICK p : p = u[Sched].p
  OBVIOUS
<1>3. /\ At(Sched, "done") /\ u[Sched].op = "imageout"
      /\ coreI' = [coreI EXCEPT ![p] = 0] \/ coreI' = coreI
      /\ load' = [load EXCEPT ![p] = FALSE] /\ slock' = [slock EXCEPT ![p] = FALSE]
      /\ UNCHANGED <<size, stat, parent>>
      /\ Goes(Sched, u[Sched].xs, r)
  BY <1>2 DEF ImageWritten, Done
<1>4. pc[Sched] = "done" /\ SchedFrame("done", u[Sched])
  BY <1>1, <1>3, AtFacts, Frames
<1>5. u[Sched].xs = "sched" /\ u[Sched].cc = "none" /\ IsFrame(u[Sched])
  BY <1>3, <1>4 DEF SchedFrame, FrameOK, InXswap, InXccdec, Transfer
<1>6. p \in Proc /\ stat[p] = "run" /\ ~ load[p]
  BY <1>2, <1>5 DEF SchedOK, SchedBusy, Inv, Images
<1>7. IsFrame(r) /\ r.xs = "none" /\ r.cc = "none" /\ r.op = "none"
  BY <1>5 DEF IsFrame
<1> HIDE DEF r
<1>8. SchedFrame("sched", r) /\ ~ SchedBusy("sched", r) /\ ~ SchedIn("sched", r)
  BY <1>7 DEF SchedFrame, SchedBusy, SchedIn, FrameOK, InXswap, InXccdec, Transfer
<1>9. /\ coreI' \in [Proc -> Int] /\ load' \in [Proc -> BOOLEAN] /\ slock' \in [Proc -> BOOLEAN]
      /\ ~ load'[p]
      /\ \A q \in Proc : q # p => coreI'[q] = coreI[q] /\ load'[q] = load[q] /\ slock'[q] = slock[q]
  BY <1>3, <1>6 DEF Domains, Inv, Images
<1>10. QED BY <1>3, <1>5, <1>6, <1>8, <1>9, SchedTouches

LEMMA ImageWrittenStep ==
  ASSUME Inv, NEW a \in Actor, ImageWritten(a) PROVE Inv'
BY ProcImageWritten, SchedImageWritten DEF Actor

-----------------------------------------------------------------------------
(* sched.                                                                  *)
SchedPlain(w, r) ==
  /\ IsFrame(r) /\ r.xs = "none" /\ r.cc = "none"
  /\ \/ /\ w \in {"sched", "victim", "runout", "runin", "swapin", "swapinText"}
        /\ r.op \notin {"textin", "imagein"}
     \/ w \in Transfer /\ r.op \in {"textin", "imagein"}

LEMMA SchedPlainFrame ==
  ASSUME NEW w, NEW r, SchedPlain(w, r)
  PROVE  SchedFrame(w, r)
BY DEF SchedPlain, SchedFrame, FrameOK, InXswap, InXccdec, Transfer

LEMMA SchedIdle ==
  /\ \A w \in {"sched", "victim", "runout", "runin"} :
       SchedPlain(w, Idle(Sched)) /\ ~ SchedBusy(w, Idle(Sched)) /\ ~ SchedIn(w, Idle(Sched))
  /\ \A p : /\ SchedPlain("swapin", [Idle(Sched) EXCEPT !.p = p])
            /\ ~ SchedIn("swapin", [Idle(Sched) EXCEPT !.p = p])
            /\ [Idle(Sched) EXCEPT !.p = p].p = p
BY DEF SchedPlain, SchedBusy, SchedIn, Idle, IsFrame

LEMMA SchedLoopStep ==
  ASSUME Inv, SchedLoop PROVE Inv'
<1>1. /\ At(Sched, "sched") \/ At(Sched, "runout")
      /\ UNCHANGED <<coreI, size, load, slock, stat, parent>>
      /\ \/ Sleeps(Sched, "runout", Idle(Sched))
         \/ \E p \in Wanting : Goes(Sched, "swapin", [Idle(Sched) EXCEPT !.p = p])
  BY DEF SchedLoop, space, procs
<1>2. \A p \in Proc : pc[p] \notin {"xswap", "forked"}
  BY <1>1, AtFacts, Names
<1>3. CASE Sleeps(Sched, "runout", Idle(Sched))
  <2>1. Place(Sched, "runout", Idle(Sched)) /\ cpu' = None
    BY <1>3 DEF Sleeps
  <2>2. QED BY <1>1, <1>2, <2>1, SchedIdle, SchedPlainFrame, NothingMoves, SchedMoves
<1>4. ASSUME NEW p \in Wanting, Goes(Sched, "swapin", [Idle(Sched) EXCEPT !.p = p])
      PROVE  Inv'
  <2> DEFINE r == [Idle(Sched) EXCEPT !.p = p]
  <2>1. p \in Proc /\ stat[p] = "run" /\ ~ load[p]
    BY DEF Wanting
  <2>2. Place(Sched, "swapin", r) /\ cpu' = Sched
    BY <1>4 DEF Goes
  <2>3. SchedFrame("swapin", r) /\ ~ SchedIn("swapin", r) /\ r.p = p
    BY SchedIdle, SchedPlainFrame
  <2> HIDE DEF r
  <2>4. QED BY <1>1, <1>2, <2>1, <2>2, <2>3, NothingMoves, SchedMoves
<1>5. QED BY <1>1, <1>3, <1>4

(* The process that sched brings in.                                       *)
LEMMA Incoming ==
  ASSUME Inv, NEW w0, At(Sched, w0),
         \/ w0 \in {"swapin", "swapinText"}
         \/ w0 \in Transfer /\ u[Sched].op \in {"textin", "imagein"}
  PROVE  /\ u[Sched].p \in Proc /\ stat[u[Sched].p] = "run" /\ ~ load[u[Sched].p]
         /\ size[u[Sched].p] \in Sizes
         /\ w0 # "swapin" => coreI[u[Sched].p] > 0
         /\ IsFrame(u[Sched]) /\ u[Sched].xs = "none" /\ u[Sched].cc = "none"
         /\ w0 \notin Transfer => u[Sched].op \notin {"textin", "imagein"}
<1>1. pc[Sched] = w0 /\ SchedFrame(w0, u[Sched])
  BY Names, AtFacts, Frames
<1>2. /\ SchedBusy(w0, u[Sched]) /\ (w0 # "swapin" => SchedIn(w0, u[Sched]))
  BY DEF SchedBusy, SchedIn, Transfer
<1>3. /\ u[Sched].p \in Proc /\ stat[u[Sched].p] = "run" /\ ~ load[u[Sched].p]
      /\ w0 # "swapin" => coreI[u[Sched].p] > 0
  BY <1>1, <1>2 DEF SchedOK, Inv, Images
<1>4. size[u[Sched].p] \in Sizes
  BY <1>3 DEF EntryOK, Inv, Images
<1>5. /\ IsFrame(u[Sched]) /\ u[Sched].xs = "none" /\ u[Sched].cc = "none"
      /\ w0 \notin Transfer => u[Sched].op \notin {"textin", "imagein"}
  BY <1>1 DEF SchedFrame, FrameOK, InXswap, InXccdec, Transfer
<1>6. QED BY <1>3, <1>4, <1>5

LEMMA SwapinStep ==
  ASSUME Inv, Swapin PROVE Inv'
<1> DEFINE r == [u[Sched] EXCEPT !.op = "imagein"]
<1>1. PICK p \in Proc : /\ p = u[Sched].p /\ stat[p] = "run" /\ ~ load[p]
                        /\ size[p] \in Sizes /\ IsFrame(u[Sched])
                        /\ u[Sched].xs = "none" /\ u[Sched].cc = "none"
                        /\ u[Sched].op \notin {"textin", "imagein"}
  BY Incoming DEF Swapin, Transfer
<1>2. /\ At(Sched, "swapin") /\ UNCHANGED <<size, load, slock, stat, parent>>
      /\ \/ /\ coreI' = [coreI EXCEPT ![p] = size[p]]
            /\ \/ Goes(Sched, "swap", r)
               \/ \E x : Goes(Sched, "swapinText", [u[Sched] EXCEPT !.x = x])
         \/ coreI' = coreI /\ Goes(Sched, "victim", Idle(Sched))
  BY <1>1 DEF Swapin, procs
<1>3. \A q \in Proc : pc[q] \notin {"xswap", "forked"}
  BY <1>2, AtFacts, Names
<1>4. ASSUME NEW w, NEW s, coreI' = [coreI EXCEPT ![p] = size[p]], Goes(Sched, w, s),
             SchedPlain(w, s), s.p = p
      PROVE  Inv'
  <2>1. /\ coreI' \in [Proc -> Int] /\ coreI'[p] > 0
        /\ load' \in [Proc -> BOOLEAN] /\ slock' \in [Proc -> BOOLEAN] /\ ~ load'[p]
        /\ \A q \in Proc : q # p =>
             coreI'[q] = coreI[q] /\ load'[q] = load[q] /\ slock'[q] = slock[q]
    BY <1>1, <1>2, <1>4, Names DEF Domains, Inv, Images
  <2>2. SchedFrame(w, s)
    BY <1>4, SchedPlainFrame
  <2>3. QED BY <1>1, <1>2, <1>4, <2>1, <2>2, SchedTouches
<1>5. ASSUME coreI' = [coreI EXCEPT ![p] = size[p]], Goes(Sched, "swap", r) PROVE Inv'
  <2>1. SchedPlain("swap", r) /\ r.p = p
    BY <1>1 DEF SchedPlain, IsFrame, Transfer
  <2>2. QED BY <1>4, <1>5, <2>1
<1>6. ASSUME coreI' = [coreI EXCEPT ![p] = size[p]],
             NEW x, Goes(Sched, "swapinText", [u[Sched] EXCEPT !.x = x])
      PROVE  Inv'
  <2> DEFINE s == [u[Sched] EXCEPT !.x = x]
  <2>1. SchedPlain("swapinText", s) /\ s.p = p
    BY <1>1 DEF SchedPlain, IsFrame
  <2>2. Goes(Sched, "swapinText", s)
    BY <1>6
  <2> HIDE DEF s
  <2>3. QED BY <1>4, <1>6, <2>1, <2>2
<1>7. ASSUME coreI' = coreI, Goes(Sched, "victim", Idle(Sched)) PROVE Inv'
  <2>1. Place(Sched, "victim", Idle(Sched)) /\ cpu' = Sched
    BY <1>7 DEF Goes
  <2>2. QED BY <1>2, <1>3, <1>7, <2>1, SchedIdle, SchedPlainFrame, NothingMoves, SchedMoves
<1>8. QED BY <1>2, <1>5, <1>6, <1>7

LEMMA SwapinTextStep ==
  ASSUME Inv, SwapinText PROVE Inv'
<1> DEFINE r == [u[Sched] EXCEPT !.x = None, !.op = "imagein"]
           s == [u[Sched] EXCEPT !.op = "textin"]
<1>1. PICK p \in Proc : /\ p = u[Sched].p /\ stat[p] = "run" /\ ~ load[p] /\ coreI[p] > 0
                        /\ size[p] \in Sizes /\ IsFrame(u[Sched])
                        /\ u[Sched].xs = "none" /\ u[Sched].cc = "none"
  BY Incoming DEF SwapinText
<1>2. /\ At(Sched, "swapinText") /\ UNCHANGED <<size, load, slock, stat, parent>>
      /\ \/ coreI' = coreI /\ (Goes(Sched, "swap", r) \/ Goes(Sched, "swap", s))
         \/ coreI' = [coreI EXCEPT ![p] = 0] /\ Goes(Sched, "victim", Idle(Sched))
  BY <1>1 DEF SwapinText, procs
<1>3. \A q \in Proc : pc[q] \notin {"xswap", "forked"}
  BY <1>2, AtFacts, Names
<1>4. SchedPlain("swap", r) /\ r.p = p /\ SchedPlain("swap", s) /\ s.p = p
  BY <1>1 DEF SchedPlain, IsFrame, Transfer
<1> HIDE DEF r, s
<1>5. CASE coreI' = coreI /\ (Goes(Sched, "swap", r) \/ Goes(Sched, "swap", s))
  <2>1. PICK t \in {r, s} : Goes(Sched, "swap", t)
    BY <1>5
  <2>2. Place(Sched, "swap", t) /\ cpu' = Sched /\ SchedFrame("swap", t) /\ t.p = p
    BY <1>4, <2>1, SchedPlainFrame DEF Goes
  <2>3. QED BY <1>1, <1>2, <1>3, <1>5, <2>2, NothingMoves, SchedMoves
<1>6. CASE coreI' = [coreI EXCEPT ![p] = 0] /\ Goes(Sched, "victim", Idle(Sched))
  <2>1. /\ coreI' \in [Proc -> Int]
        /\ load' \in [Proc -> BOOLEAN] /\ slock' \in [Proc -> BOOLEAN] /\ ~ load'[p]
        /\ \A q \in Proc : q # p =>
             coreI'[q] = coreI[q] /\ load'[q] = load[q] /\ slock'[q] = slock[q]
    BY <1>1, <1>2, <1>6 DEF Domains, Inv, Images
  <2>2. /\ SchedFrame("victim", Idle(Sched)) /\ ~ SchedBusy("victim", Idle(Sched))
        /\ ~ SchedIn("victim", Idle(Sched))
    BY SchedIdle, SchedPlainFrame
  <2>3. QED BY <1>1, <1>2, <1>6, <2>1, <2>2, SchedTouches
<1>7. QED BY <1>2, <1>5, <1>6

LEMMA SwapinTextReadStep ==
  ASSUME Inv, SwapinTextRead PROVE Inv'
<1> DEFINE r == [u[Sched] EXCEPT !.x = None, !.op = "imagein"]
<1>1. /\ At(Sched, "done") /\ u[Sched].op = "textin" /\ Goes(Sched, "swap", r)
      /\ UNCHANGED <<coreI, size, load, slock, stat, parent>>
  BY DEF SwapinTextRead, Done, space, procs
<1>2. PICK p \in Proc : /\ p = u[Sched].p /\ stat[p] = "run" /\ ~ load[p] /\ coreI[p] > 0
                        /\ IsFrame(u[Sched]) /\ u[Sched].xs = "none" /\ u[Sched].cc = "none"
  BY <1>1, Incoming DEF Transfer
<1>3. \A q \in Proc : pc[q] \notin {"xswap", "forked"}
  BY <1>1, AtFacts, Names
<1>4. SchedPlain("swap", r) /\ r.p = p
  BY <1>2 DEF SchedPlain, IsFrame, Transfer
<1>5. Place(Sched, "swap", r) /\ cpu' = Sched
  BY <1>1 DEF Goes
<1> HIDE DEF r
<1>6. QED BY <1>1, <1>2, <1>3, <1>4, <1>5, SchedPlainFrame, NothingMoves, SchedMoves

LEMMA SwapinEndStep ==
  ASSUME Inv, SwapinEnd PROVE Inv'
<1>1. /\ At(Sched, "done") /\ u[Sched].op = "imagein" /\ Goes(Sched, "sched", Idle(Sched))
      /\ load' = [load EXCEPT ![u[Sched].p] = TRUE]
      /\ UNCHANGED <<coreI, size, slock, stat, parent>>
  BY DEF SwapinEnd, Done
<1>2. PICK p \in Proc : p = u[Sched].p /\ stat[p] = "run" /\ ~ load[p] /\ coreI[p] > 0
  BY <1>1, Incoming DEF Transfer
<1>3. /\ coreI' \in [Proc -> Int] /\ coreI'[p] > 0
      /\ load' \in [Proc -> BOOLEAN] /\ slock' \in [Proc -> BOOLEAN]
      /\ \A q \in Proc : q # p =>
           coreI'[q] = coreI[q] /\ load'[q] = load[q] /\ slock'[q] = slock[q]
  BY <1>1, <1>2 DEF Domains, Inv, Images
<1>4. /\ SchedFrame("sched", Idle(Sched)) /\ ~ SchedBusy("sched", Idle(Sched))
      /\ ~ SchedIn("sched", Idle(Sched))
  BY SchedIdle, SchedPlainFrame
<1>5. QED BY <1>1, <1>2, <1>3, <1>4, SchedTouches

(* A victim is neither locked nor out, so it is in no xswap of its own.    *)
LEMMA SwapoutStep ==
  ASSUME Inv, Swapout PROVE Inv'
<1>1. At(Sched, "victim") /\ UNCHANGED <<coreI, size, slock, stat, parent>>
  BY DEF Swapout, space
<1>2. \A q \in Proc : pc[q] \notin {"xswap", "forked"}
  BY <1>1, AtFacts, Names
<1>3. pc[Sched] = "victim" /\ SchedFrame("victim", u[Sched])
  BY <1>1, AtFacts, Frames, Names
<1>4. IsFrame(u[Sched]) /\ u[Sched].cc = "none"
  BY <1>3 DEF SchedFrame, FrameOK, InXccdec, Transfer
<1>5. CASE load' = load /\ Sleeps(Sched, "runin", Idle(Sched))
  <2>1. Place(Sched, "runin", Idle(Sched)) /\ cpu' = None
    BY <1>5 DEF Sleeps
  <2>2. QED BY <1>1, <1>2, <1>5, <2>1, SchedIdle, SchedPlainFrame, NothingMoves, SchedMoves
<1>6. ASSUME NEW p \in Victims, load' = [load EXCEPT ![p] = FALSE],
             Goes(Sched, "xswap", [u[Sched] EXCEPT !.p = p, !.os = size[p], !.xs = "sched"])
      PROVE  Inv'
  <2> DEFINE r == [u[Sched] EXCEPT !.p = p, !.os = size[p], !.xs = "sched"]
  <2>1. p \in Proc /\ stat[p] = "run" /\ ~ slock[p]
    BY DEF Victims, BadSleepers, Candidates
  <2>2. IsFrame(r) /\ r.p = p /\ r.xs = "sched" /\ r.cc = "none" /\ r.op = u[Sched].op
    BY <1>4 DEF IsFrame
  <2>3. Goes(Sched, "xswap", r)
    BY <1>6
  <2> HIDE DEF r
  <2>4. SchedFrame("xswap", r)
    BY <1>3, <2>2 DEF SchedFrame, FrameOK, InXswap, InXccdec, Transfer
  <2>5. ~ SchedIn("xswap", r)
    BY <1>3, <2>2 DEF SchedFrame, SchedIn, Transfer
  <2>6. /\ coreI' \in [Proc -> Int] /\ ~ load'[p]
        /\ load' \in [Proc -> BOOLEAN] /\ slock' \in [Proc -> BOOLEAN]
        /\ \A q \in Proc : q # p =>
             coreI'[q] = coreI[q] /\ load'[q] = load[q] /\ slock'[q] = slock[q]
    BY <1>1, <1>6, <2>1 DEF Domains, Inv, Images
  <2>7. QED BY <1>1, <2>1, <2>2, <2>3, <2>4, <2>5, <2>6, SchedTouches
<1>7. QED BY <1>5, <1>6 DEF Swapout

-----------------------------------------------------------------------------
(* The invariant.                                                          *)
LEMMA InvInit == Init => Inv
<1> SUFFICES ASSUME Init PROVE Inv
  OBVIOUS
<1>1. /\ \A a \in Actor : u[a] = Idle(a) /\ pc[a] \in {"user", "sched", "none"}
      /\ \A p \in Proc : /\ pc[p] # "sched"
                         /\ stat[p] = "free" \/ (stat[p] = "run" /\ size[p] = 1 /\ coreI[p] = 1)
                         /\ stat[p] = "free" => coreI[p] = 0 /\ pc[p] = "none" /\ ~ load[p]
      /\ pc[Sched] = "sched" /\ cpu = None
      /\ DOMAIN pc = Actor /\ DOMAIN u = Actor
  <2>1. /\ pc = [a \in Actor |-> IF a = Root THEN "user"
                                 ELSE IF a = Sched THEN "sched" ELSE "none"]
        /\ u = [a \in Actor |-> Idle(a)] /\ cpu = None
    BY DEF Init
  <2>2. \A p \in Proc : /\ stat[p] = IF p = Root THEN "run" ELSE "free"
                        /\ size[p] = IF p = Root THEN 1 ELSE 0
                        /\ coreI[p] = IF p = Root THEN 1 ELSE 0
                        /\ load[p] = (p = Root)
    BY DEF Init
  <2>3. Root \in Proc /\ Sched \notin Proc /\ Sched \in Actor /\ Proc \subseteq Actor
    BY Names, ProcessImageAssumption
  <2>4. \A a \in Actor : u[a] = Idle(a)
    BY <2>1
  <2>5. \A a \in Actor : pc[a] = IF a = Root THEN "user"
                                ELSE IF a = Sched THEN "sched" ELSE "none"
    BY <2>1
  <2>6. DOMAIN pc = Actor /\ DOMAIN u = Actor
    BY <2>1
  <2>7. QED BY <2>1, <2>2, <2>3, <2>4, <2>5, <2>6
<1>2. Control
  <2>1. \A p \in Proc : ProcFrame(p, pc[p], u[p])
    <3> TAKE p \in Proc
    <3>1. pc[p] \in {"user", "none"} /\ u[p] = Idle(p)
      BY <1>1, Names
    <3>2. PlainPlace(pc[p], u[p].op) /\ NewOK(pc[p], u[p]) /\ Plain(p, u[p])
      BY <3>1, IdleIsPlain DEF PlainPlace, NewOK, Transfer
    <3>3. QED BY <3>2, PlainFrame
  <2>2. SchedFrame(pc[Sched], u[Sched])
    BY <1>1, Names, SchedIdle, SchedPlainFrame
  <2>3. QED BY <1>1, <2>1, <2>2, Names DEF Control, ActorFrame, Actor
<1>3. Domains
  BY DEF Init, Domains, Stats
<1>4. \A p \in Proc : EntryOK(p) /\ ForkOK(p) /\ OutOK(p)
  <2> TAKE p \in Proc
  <2>1. u[p].call = "none" /\ u[p].xs = "none"
    BY <1>1, Names DEF Idle
  <2>2. 1 \in Sizes
    BY ProcessImageAssumption DEF Sizes
  <2>3. EntryOK(p)
    BY <1>1, <2>2 DEF EntryOK
  <2>4. QED BY <2>1, <2>3 DEF ForkOK, OutOK
<1>5. SchedOK
  BY <1>1, Names, SchedIdle DEF SchedOK
<1>6. CpuOK
  BY <1>1, Names DEF CpuOK
<1>7. QED BY <1>2, <1>3, <1>4, <1>5, <1>6 DEF Inv, Images

LEMMA InvNext == Inv /\ [Next]_vars => Inv'
<1> SUFFICES ASSUME Inv, [Next]_vars PROVE Inv'
  OBVIOUS
<1>1. ASSUME NEW p \in Proc, Calls(p) PROVE Inv'
  <2>1. \A f \in File \cup {None} : Exec(p, f) => Inv'
    BY ExecStep
  <2>2. \A f \in File : Open(p, f) \/ Close(p, f) => Inv'
    BY OpenStep, CloseStep
  <2>3. QED BY <1>1, <2>1, <2>2, ForkStep, WaitStep, ExitStep, BreakStep DEF Calls
<1>2. ASSUME NEW p \in Proc, Rest(p) PROVE Inv'
  BY <1>2, ForkedStep, XfreeStep, ExitedStep, ReapStep, ExpandStep, SwappedInStep,
     ExecNameiStep, XallocStep, XallocLockStep, XexpandStep, XexpandOutStep, XexpandReadStep,
     AttachedStep, TextReadStep, DataReadStep, ExecEndStep, OpenNameiStep, XuntextStep
  DEF Rest
<1>3. ASSUME NEW a \in Actor, Swapping(a) PROVE Inv'
  BY <1>3, SwapStep, SwapHeaderStep, XccdecLockStep, TextWrittenStep, XswapStep,
     ImageWrittenStep, SwitchStep, InterruptStep DEF Swapping
<1>4. CASE Scheduling
  BY <1>4, SchedLoopStep, SwapinStep, SwapinTextStep, SwapinTextReadStep, SwapinEndStep,
     SwapoutStep DEF Scheduling
<1>5. CASE UNCHANGED vars
  <2>1. UNCHANGED <<coreI, size, load, slock, stat, parent, pc, u, cpu>>
    BY <1>5 DEF vars, space, procs, place
  <2>2. QED BY <2>1, Stays DEF Inv, Images, CpuOK
<1>6. QED BY <1>1, <1>2, <1>3, <1>4, <1>5 DEF Next

-----------------------------------------------------------------------------
(* The actions that give a process another place are its own, but for the  *)
(* birth of a process and the end of a transfer.                           *)
Alone(a) == \A b \in Actor : b # a => pc'[b] = pc[b]
OnlyMoves(a) ==
  /\ \E w : At(a, w)
  /\ \A b \in Actor : b # a => pc'[b] = pc[b] \/ pc[b] = "none"

LEMMA PlaceMoves ==
  ASSUME Inv, NEW a
  PROVE  /\ \A w, r : Place(a, w, r) \/ Goes(a, w, r) \/ Sleeps(a, w, r) => Alone(a)
         /\ Returns(a) => Alone(a)
         /\ pc' = pc => Alone(a)
BY DEF Inv, Control, Place, Goes, Sleeps, Returns, Alone

LEMMA CallsMove ==
  ASSUME Inv, NEW p \in Proc, Calls(p)
  PROVE  OnlyMoves(p)
<1>1. ASSUME NEW c \in Proc, Fork(p, c) PROVE OnlyMoves(p)
  <2>1. At(p, "user") /\ pc[c] = "none"
    BY <1>1, Newborn DEF Fork
  <2>2. pc' = [pc EXCEPT ![c] = "user"] \/ Alone(p)
    BY <1>1, PlaceMoves DEF Fork
  <2>3. \A b \in Actor : b # c /\ pc' = [pc EXCEPT ![c] = "user"] => pc'[b] = pc[b]
    BY DEF Inv, Control
  <2>4. QED BY <2>1, <2>2, <2>3 DEF OnlyMoves, Alone
<1>2. \A r : CallsXfree(p, r) => Alone(p)
  BY PlaceMoves DEF CallsXfree
<1>3. CASE Wait(p) \/ Exit(p)
  <2>1. At(p, "user") /\ Alone(p)
    BY <1>2, <1>3, PlaceMoves DEF Wait, Exit
  <2>2. QED BY <2>1 DEF OnlyMoves, Alone
<1>4. ASSUME NEW n, Break(p, n) PROVE OnlyMoves(p)
  <2>1. At(p, "user") /\ Alone(p)
    BY <1>4, PlaceMoves DEF Break
  <2>2. QED BY <2>1 DEF OnlyMoves, Alone
<1>5. ASSUME NEW f, Exec(p, f) \/ Open(p, f) \/ Close(p, f) PROVE OnlyMoves(p)
  <2>1. At(p, "user") /\ Alone(p)
    BY <1>2, <1>5, PlaceMoves DEF Exec, Open, Close
  <2>2. QED BY <2>1 DEF OnlyMoves, Alone
<1>6. QED BY <1>1, <1>3, <1>4, <1>5 DEF Calls

LEMMA RestMoves ==
  ASSUME Inv, NEW p \in Proc, Rest(p)
  PROVE  OnlyMoves(p)
<1>1. CASE Forked(p)
  <2>1. PICK c : c = u[p].up
    OBVIOUS
  <2>2. At(p, "forked") /\ pc' = [pc EXCEPT ![p] = "user", ![c] = "user"]
    BY <1>1, <2>1 DEF Forked
  <2>3. pc[p] = "forked" /\ u[p].call = "fork"
    BY <2>2, AtFacts, Frames, Names DEF ProcFrame
  <2>4. pc[c] = "none"
    BY <2>1, <2>3, Child
  <2>5. \A b \in Actor : b # p /\ b # c => pc'[b] = pc[b]
    BY <2>2 DEF Inv, Control
  <2>6. QED BY <2>2, <2>4, <2>5 DEF OnlyMoves
<1>2. \A r : CallsXfree(p, r) => Alone(p)
  BY PlaceMoves DEF CallsXfree
<1>3. AfterExpand(p) => Alone(p)
  BY PlaceMoves DEF AfterExpand
<1>4. \A x, w : Xccdec(p, x, w) => Alone(p)
  BY PlaceMoves DEF Xccdec, XccdecReturns
<1>5. CASE Xfree(p) \/ Exited(p) \/ ExecNamei(p) \/ Expand(p) \/ SwappedIn(p)
  <2>1. (\E w : At(p, w)) /\ Alone(p)
    BY <1>2, <1>3, <1>4, <1>5, PlaceMoves DEF Xfree, Exited, ExecNamei, Expand, SwappedIn
  <2>2. QED BY <2>1 DEF OnlyMoves, Alone
<1>6. ASSUME NEW c \in Proc, Reap(p, c) PROVE OnlyMoves(p)
  BY <1>6, PlaceMoves DEF Reap, OnlyMoves, Alone
<1>7. CASE Xalloc(p) \/ XallocLock(p) \/ Xexpand(p) \/ XexpandOut(p) \/ Attached(p)
  <2>1. (\E w : At(p, w)) /\ Alone(p)
    BY <1>7, PlaceMoves DEF Xalloc, XallocLock, Xexpand, XexpandOut, Attached
  <2>2. QED BY <2>1 DEF OnlyMoves, Alone
<1>8. CASE XexpandRead(p) \/ TextRead(p) \/ DataRead(p) \/ ExecEnd(p)
  <2>1. (\E w : At(p, w)) /\ Alone(p)
    BY <1>8, PlaceMoves DEF XexpandRead, TextRead, DataRead, ExecEnd, Done
  <2>2. QED BY <2>1 DEF OnlyMoves, Alone
<1>9. CASE OpenNamei(p) \/ Xuntext(p)
  <2>1. (\E w : At(p, w)) /\ Alone(p)
    BY <1>9, PlaceMoves DEF OpenNamei, Xuntext
  <2>2. QED BY <2>1 DEF OnlyMoves, Alone
<1>10. QED BY <1>1, <1>5, <1>6, <1>7, <1>8, <1>9 DEF Rest

LEMMA SwappingMoves ==
  ASSUME Inv, NEW a \in Actor, Swapping(a)
  PROVE  OnlyMoves(a) \/ Interrupt(a) \/ pc' = pc
<1>1. \A x, w : Xccdec(a, x, w) => Alone(a)
  BY PlaceMoves DEF Xccdec, XccdecReturns
<1>2. \A w : XccdecReturns(a, w) => Alone(a)
  BY PlaceMoves DEF XccdecReturns
<1>3. CASE Swap(a) \/ SwapHeader(a)
  <2>1. (\E w : At(a, w)) /\ Alone(a)
    BY <1>3, PlaceMoves DEF Swap, SwapHeader
  <2>2. QED BY <2>1 DEF OnlyMoves, Alone
<1>4. CASE XccdecLock(a) \/ TextWritten(a) \/ Xswap(a) \/ ImageWritten(a)
  <2>1. (\E w : At(a, w)) /\ Alone(a)
    BY <1>1, <1>2, <1>4, PlaceMoves DEF XccdecLock, TextWritten, Xswap, ImageWritten, Done
  <2>2. QED BY <2>1 DEF OnlyMoves, Alone
<1>5. QED BY <1>3, <1>4 DEF Swapping, Switch

LEMMA SchedulingMoves ==
  ASSUME Inv, Scheduling
  PROVE  OnlyMoves(Sched)
<1>1. (\E w : At(Sched, w)) /\ Alone(Sched)
  BY PlaceMoves DEF Scheduling, SchedLoop, Swapin, SwapinText, SwapinTextRead, SwapinEnd,
                    Swapout, Done
<1>2. QED BY <1>1 DEF OnlyMoves, Alone

(* What RunsInCore says of a step.                                         *)
RunsStep ==
  \A p \in Proc :
    cpu = None /\ pc'[p] # pc[p] /\ pc[p] \notin {"none", "io"} => coreI[p] > 0

LEMMA RunsInCoreStep == Inv /\ [Next]_vars => [RunsStep]_vars
<1> SUFFICES ASSUME Inv, Next PROVE RunsStep
  OBVIOUS
<1> SUFFICES ASSUME NEW p \in Proc, cpu = None, pc'[p] # pc[p], pc[p] \notin {"none", "io"}
             PROVE  coreI[p] > 0
  BY DEF RunsStep
<1>1. \A a \in Actor : Interrupt(a) => FALSE
  <2> TAKE a \in Actor
  <2> HAVE Interrupt(a)
  <2>1. p = a
    BY Names DEF Interrupt, Inv, Control
  <2>2. QED BY <2>1, Frames DEF Interrupt, ProcFrame
<1>2. PICK a \in Actor : OnlyMoves(a)
  BY <1>1, CallsMove, RestMoves, SwappingMoves, SchedulingMoves, Names DEF Next
<1>3. p = a
  BY <1>2, Names DEF OnlyMoves
<1>4. Loaded(p)
  BY <1>2, <1>3, AtFacts DEF OnlyMoves
<1>5. QED BY <1>4, LoadedHasImage

(* A process that takes the processor finds its image in core: what sched  *)
(* swaps out is neither running nor being written out by its owner, what   *)
(* it swaps in is whole before SLOAD says so, and a parent keeps its image *)
(* while that of its child is written out, whoever is spared and for any   *)
(* number of processes, programs and texts.                                *)
THEOREM RunsInCoreHolds == Spec => RunsInCore
<1>1. Init => Inv
  BY InvInit
<1>2. Inv /\ [Next]_vars => Inv'
  BY InvNext
<1>3. Inv /\ [Next]_vars => [RunsStep]_vars
  BY RunsInCoreStep
<1>4. [RunsStep]_vars <=>
      [\A p \in Proc :
         cpu = None /\ pc'[p] # pc[p] /\ pc[p] \notin {"none", "io"} => coreI[p] > 0]_vars
  BY DEF RunsStep
<1>5. QED BY <1>1, <1>2, <1>3, <1>4, PTL DEF Spec, RunsInCore
-----------------------------------------------------------------------------
(* How much an image has in core and on the swap device.  While somebody   *)
(* is in xswap with it, his frame says that: only in fork the space in     *)
(* core is not given back, and the size may be a new one by then.          *)
Writes(a, p) == u[a].xs # "none" /\ u[a].p = p
Written(a) ==
  u[a].xs # "none" =>
    /\ coreI[u[a].p] = IF u[a].ff THEN u[a].os ELSE 0
    /\ swapI[u[a].p] = IF pc[a] = "xswap" THEN 0 ELSE size[u[a].p]
GivesBack(a) == (a \in Proc /\ u[a].call = "fork") \/ u[a].ff

(* Otherwise it is whole in one place, or in both while sched reads it in. *)
Coming(p) == SchedIn(pc[Sched], u[Sched]) /\ u[Sched].p = p
AtRest(p) ==
  IF load[p] THEN coreI[p] = size[p] /\ swapI[p] = 0
  ELSE swapI[p] = size[p] /\ coreI[p] = IF Coming(p) THEN size[p] ELSE 0

(* Who is gone has nothing on the swap device.                             *)
Gone == {"free", "zomb"}
Lies(p) ==
  IF stat[p] \in Gone THEN swapI[p] = 0
  ELSE (\E a \in Actor : Writes(a, p)) \/ AtRest(p)

Held ==
  /\ swapI \in [Proc -> Int]
  /\ \A p \in Proc : Lies(p)
  /\ \A a \in Actor : Written(a) /\ GivesBack(a)

(* What is written out is an entry's image, and by one actor only.         *)
LEMMA Writer ==
  ASSUME Inv, NEW a \in Actor, u[a].xs # "none"
  PROVE  /\ u[a].p \in Proc
         /\ IF a = Sched THEN ~ load[u[a].p] ELSE load[u[a].p]
         /\ stat[u[a].p] = "run" \/ u[a].p = a
         /\ a # Sched => a \in Proc /\ (u[a].p = a \/ (u[a].p = u[a].up /\ u[a].call = "fork"))
<1>1. CASE a = Sched
  <2>1. SchedBusy(pc[Sched], u[Sched])
    BY <1>1 DEF SchedBusy
  <2>2. QED BY <1>1, <2>1 DEF SchedOK, Inv, Images
<1>2. CASE a \in Proc
  <2>1. a # Sched /\ ProcFrame(a, pc[a], u[a]) /\ OutOK(a)
    BY <1>2, Names, Frames DEF Inv, Images
  <2>2. pc[a] # "forked"
    BY <2>1 DEF ProcFrame, FrameOK, InXswap, InXccdec, Transfer
  <2>3. QED BY <1>2, <2>1, <2>2, Child DEF ProcFrame, OutOK
<1>3. QED BY <1>1, <1>2 DEF Actor

LEMMA OneWriter ==
  ASSUME Inv, NEW a \in Actor, NEW b \in Actor, NEW p, Writes(a, p), Writes(b, p)
  PROVE  a = b
<1>1. /\ u[a].xs # "none" /\ u[b].xs # "none" /\ u[a].p = p /\ u[b].p = p
  BY DEF Writes
<1>2. a = Sched <=> b = Sched
  BY <1>1, Writer
<1>3. \A c \in Actor : c # Sched /\ u[c].xs # "none" => pc[c] # "none"
  BY Frames DEF Actor, ProcFrame, FrameOK, InXswap, InXccdec, Transfer
<1>4. CASE a # Sched /\ b # Sched
  <2>1. /\ a \in Proc /\ (p = a \/ (p = u[a].up /\ u[a].call = "fork"))
        /\ b \in Proc /\ (p = b \/ (p = u[b].up /\ u[b].call = "fork"))
    BY <1>1, <1>4, Writer
  <2>2. /\ p = u[a].up /\ u[a].call = "fork" => pc[p] = "none" /\ parent[p] = a
        /\ p = u[b].up /\ u[b].call = "fork" => pc[p] = "none" /\ parent[p] = b
    BY <2>1, Child
  <2>3. QED BY <1>1, <1>3, <1>4, <2>1, <2>2
<1>5. QED BY <1>2, <1>4

(* Who takes a step of its own has its image whole in core.                *)
LEMMA OwnImage ==
  ASSUME Inv, Held, NEW p \in Proc, NEW w0, At(p, w0), Quiet(w0), w0 \notin Away
  PROVE  /\ load[p] /\ stat[p] = "run" /\ coreI[p] = size[p] /\ swapI[p] = 0
         /\ \A b \in Actor : ~ Writes(b, p)
         /\ u[p].xs = "none" /\ u[p].ff /\ IsFrame(u[p])
<1>1. Plain(p, u[p]) /\ Loaded(p) /\ pc[p] = w0 /\ p \in Actor
  BY QuietAt
<1>2. load[p] /\ stat[p] = "run"
  BY <1>1, Names DEF Loaded, Plain
<1>3. u[p].xs = "none" /\ u[p].ff /\ IsFrame(u[p])
  BY <1>1 DEF Plain, Held, GivesBack
<1>4. \A b \in Actor : ~ Writes(b, p)
  <2> SUFFICES ASSUME NEW b \in Actor, Writes(b, p) PROVE FALSE
    OBVIOUS
  <2>1. u[b].xs # "none" /\ u[b].p = p /\ b # p
    BY <1>3 DEF Writes
  <2>2. b \in Proc /\ p = u[b].up /\ u[b].call = "fork"
    BY <1>2, <2>1, Writer
  <2>3. pc[p] = "none"
    BY <2>2, Child
  <2>4. QED BY <1>1, <2>3 DEF Quiet
<1>5. AtRest(p)
  BY <1>2, <1>4 DEF Held, Lies, Gone
<1>6. QED BY <1>2, <1>3, <1>4, <1>5 DEF AtRest

-----------------------------------------------------------------------------
(* A step of a that touches no image, and neither what a does with one.    *)
LEMMA HeldStays ==
  ASSUME Inv, Held, UNCHANGED <<coreI, swapI, size, load, stat>>, NEW a \in Actor,
         \A b \in Actor : b # a => pc'[b] = pc[b] /\ u'[b] = u[b],
         u'[a].xs = u[a].xs, GivesBack(a)',
         u[a].xs # "none" =>
           /\ u'[a].p = u[a].p /\ u'[a].os = u[a].os /\ u'[a].ff = u[a].ff
           /\ pc'[a] = "xswap" <=> pc[a] = "xswap",
         a = Sched => \A p : Coming(p)' <=> Coming(p)
  PROVE  Held'
<1>1. \A b \in Actor : \A p : Writes(b, p)' <=> Writes(b, p)
  BY DEF Writes
<1>2. \A p : Coming(p)' <=> Coming(p)
  BY Names DEF Coming
<1>3. \A p \in Proc : Lies(p)'
  BY <1>1, <1>2 DEF Held, Lies, AtRest
<1>4. \A b \in Actor : Written(b)' /\ GivesBack(b)'
  BY DEF Held, Written, GivesBack
<1>5. QED BY <1>3, <1>4 DEF Held

(* A step of a that touches the image of q only.                           *)
LEMMA HeldBut ==
  ASSUME Inv, Held, NEW a \in Actor, NEW q \in Proc, swapI' \in [Proc -> Int],
         \A p \in Proc : p # q =>
           /\ coreI'[p] = coreI[p] /\ swapI'[p] = swapI[p] /\ size'[p] = size[p]
           /\ load'[p] = load[p] /\ (stat'[p] \in Gone <=> stat[p] \in Gone),
         \A b \in Actor : b # a =>
           /\ u'[b] = u[b] /\ (pc'[b] = pc[b] \/ (u[b].xs = "none" /\ b # Sched))
           /\ ~ Writes(b, q),
         u[a].xs = "none" \/ u[a].p = q, u'[a].xs = "none" \/ u'[a].p = q,
         a = Sched => \A p : p # q => ~ Coming(p) /\ ~ Coming(p)',
         Lies(q)', Written(a)', GivesBack(a)'
  PROVE  Held'
<1>1. \A b \in Actor : \A p : p # q => (Writes(b, p)' <=> Writes(b, p))
  BY DEF Writes
<1>2. \A p : p # q => (Coming(p)' <=> Coming(p))
  BY Names DEF Coming
<1>3. \A p \in Proc : p # q => Lies(p)'
  BY <1>1, <1>2 DEF Held, Lies, AtRest
<1>4. ASSUME NEW b \in Actor, b # a PROVE Written(b)' /\ GivesBack(b)'
  <2>1. u[b].xs # "none" => u[b].p \in Proc /\ u[b].p # q
    BY <1>4, Writer DEF Writes
  <2>2. QED BY <1>4, <2>1 DEF Held, Written, GivesBack
<1>5. QED BY <1>3, <1>4 DEF Held

-----------------------------------------------------------------------------
(* The steps outside xswap that touch no image.                            *)
Still == UNCHANGED <<coreI, swapI, size, load, stat>>
Steps(p) == \E w, r : Place(p, w, r) /\ r.xs = "none" /\ r.ff

LEMMA HeldPlain ==
  ASSUME Inv, Held, Still, NEW p \in Proc, NEW w0, At(p, w0), PlainPlace(w0, u[p].op),
         IsFrame(u[p]) /\ u[p].xs = "none" /\ u[p].ff => Steps(p)
  PROVE  Held'
<1>1. p \in Actor /\ pc[p] = w0 /\ p # Sched
  BY Names, AtFacts
<1>2. IsFrame(u[p]) /\ u[p].xs = "none" /\ u[p].ff
  BY <1>1, PlainAt DEF Plain, Held, GivesBack
<1>3. PICK w, r : Place(p, w, r) /\ r.xs = "none" /\ r.ff
  BY <1>2 DEF Steps
<1>4. u'[p] = r /\ \A b \in Actor : b # p => pc'[b] = pc[b] /\ u'[b] = u[b]
  BY <1>1, <1>3 DEF Place, Inv, Control
<1>5. QED BY <1>1, <1>2, <1>3, <1>4, HeldStays DEF Still, GivesBack

LEMMA StepsTo ==
  ASSUME NEW p
  PROVE  /\ \A w, r : /\ Place(p, w, r) \/ Goes(p, w, r) \/ Sleeps(p, w, r)
                      /\ r.xs = "none" /\ r.ff
                      => Steps(p)
         /\ Returns(p) => Steps(p)
BY DEF Steps, Goes, Sleeps, Returns, Idle

(* What is written into a frame there is none of that.                     *)
LEMMA Kept ==
  ASSUME NEW p, IsFrame(u[p]), u[p].xs = "none", u[p].ff
  PROVE  /\ \A c : [u[p] EXCEPT !.call = c].xs = "none" /\ [u[p] EXCEPT !.call = c].ff
         /\ \A x : [u[p] EXCEPT !.x = x].xs = "none" /\ [u[p] EXCEPT !.x = x].ff
         /\ \A n : [u[p] EXCEPT !.new = n].xs = "none" /\ [u[p] EXCEPT !.new = n].ff
         /\ \A o : [u[p] EXCEPT !.op = o].xs = "none" /\ [u[p] EXCEPT !.op = o].ff
         /\ \A c, n : /\ [u[p] EXCEPT !.call = c, !.new = n].xs = "none"
                      /\ [u[p] EXCEPT !.call = c, !.new = n].ff
         /\ \A c, f : /\ [u[p] EXCEPT !.call = c, !.f = f].xs = "none"
                      /\ [u[p] EXCEPT !.call = c, !.f = f].ff
         /\ \A c, o : /\ [u[p] EXCEPT !.call = c, !.op = o].xs = "none"
                      /\ [u[p] EXCEPT !.call = c, !.op = o].ff
         /\ \A x, c : /\ [u[p] EXCEPT !.x = x, !.cc = c].xs = "none"
                      /\ [u[p] EXCEPT !.x = x, !.cc = c].ff
         /\ \A x, c, o : /\ [u[p] EXCEPT !.x = x, !.cc = c, !.op = o].xs = "none"
                         /\ [u[p] EXCEPT !.x = x, !.cc = c, !.op = o].ff
BY DEF IsFrame

LEMMA XfreeSteps ==
  ASSUME NEW p, NEW r, IsFrame(r), r.xs = "none", r.ff, CallsXfree(p, r)
  PROVE  Steps(p)
<1>1. [r EXCEPT !.x = textp[p]].xs = "none" /\ [r EXCEPT !.x = textp[p]].ff
  BY DEF IsFrame
<1>2. QED BY <1>1, StepsTo DEF CallsXfree

LEMMA HeldCalls ==
  ASSUME Inv, Held, NEW p \in Proc,
         \/ Wait(p) \/ Exit(p) \/ (\E n : Break(p, n))
         \/ \E f : Exec(p, f) \/ Open(p, f) \/ Close(p, f)
  PROVE  Held'
<1>1. At(p, "user") /\ PlainPlace("user", u[p].op) /\ Still
  BY DEF Wait, Exit, Break, Exec, Open, Close, PlainPlace, Transfer, Still, space, procs
<1>2. ASSUME IsFrame(u[p]), u[p].xs = "none", u[p].ff
      PROVE  Steps(p) \/ UNCHANGED <<pc, u>>
  <2>1. ASSUME NEW f, Exec(p, f) PROVE Steps(p)
    <3> DEFINE r == [u[p] EXCEPT !.call = "exec", !.f = f, !.new = ImageSize(f)]
    <3>1. IsFrame(r) /\ r.xs = "none" /\ r.ff
      BY <1>2 DEF IsFrame
    <3>2. CallsXfree(p, r) \/ Goes(p, "namei", r)
      BY <2>1 DEF Exec
    <3> HIDE DEF r
    <3>3. QED BY <3>1, <3>2, StepsTo, XfreeSteps
  <2>2. \A c : IsFrame([u[p] EXCEPT !.call = c])
    BY <1>2 DEF IsFrame
  <2>3. CASE Wait(p)
    BY <1>2, <2>3, Kept, StepsTo DEF Wait
  <2>4. CASE Exit(p)
    BY <1>2, <2>2, <2>4, Kept, XfreeSteps DEF Exit
  <2>5. CASE \E n : Break(p, n)
    BY <1>2, <2>5, Kept, StepsTo DEF Break
  <2>6. CASE \E f : Exec(p, f)
    BY <2>1, <2>6
  <2>7. CASE \E f : Open(p, f)
    BY <1>2, <2>7, Kept, StepsTo DEF Open
  <2>8. CASE \E f : Close(p, f)
    BY <2>8 DEF Close
  <2>9. QED BY <2>3, <2>4, <2>5, <2>6, <2>7, <2>8
<1>3. CASE UNCHANGED <<pc, u>>
  <2>1. p \in Actor /\ p # Sched
    BY Names
  <2>2. QED BY <1>1, <1>3, <2>1, HeldStays DEF Still, Held, GivesBack
<1>4. CASE ~ UNCHANGED <<pc, u>>
  BY <1>1, <1>2, <1>4, HeldPlain
<1>5. QED BY <1>3, <1>4

LEMMA HeldRest ==
  ASSUME Inv, Held, NEW p \in Proc,
         \/ Xfree(p) \/ SwappedIn(p) \/ ExecNamei(p) \/ Xalloc(p) \/ XallocLock(p)
         \/ XexpandOut(p) \/ Attached(p) \/ DataRead(p) \/ OpenNamei(p) \/ Xuntext(p)
         \/ XexpandRead(p) \/ TextRead(p) \/ ExecEnd(p)
  PROVE  Held'
<1>1. PICK w0 : At(p, w0) /\ PlainPlace(w0, u[p].op) /\ Still
  <2>1. \A w : w \in {"xfree", "swapped", "namei", "xalloc", "xallocLock", "xexpandOut",
                      "attached", "dataread", "xuntext"} => PlainPlace(w, u[p].op)
    BY DEF PlainPlace, Transfer
  <2>2. u[p].op \in {"textin", "textread", "dataread"} => PlainPlace("done", u[p].op)
    BY DEF PlainPlace
  <2>3. CASE Xfree(p) \/ SwappedIn(p) \/ ExecNamei(p) \/ Xalloc(p) \/ XallocLock(p)
    BY <2>1, <2>3 DEF Xfree, SwappedIn, ExecNamei, Xalloc, XallocLock, Still, space, procs
  <2>4. CASE XexpandOut(p) \/ Attached(p) \/ DataRead(p) \/ OpenNamei(p) \/ Xuntext(p)
    BY <2>1, <2>4 DEF XexpandOut, Attached, DataRead, OpenNamei, Xuntext, Still, space, procs
  <2>5. CASE XexpandRead(p) \/ TextRead(p) \/ ExecEnd(p)
    BY <2>2, <2>5 DEF XexpandRead, TextRead, ExecEnd, Done, Still, space, procs
  <2>6. QED BY <2>3, <2>4, <2>5
<1>2. ASSUME IsFrame(u[p]), u[p].xs = "none", u[p].ff PROVE Steps(p)
  <2>1. \A x, w : Xccdec(p, x, w) => Steps(p)
    BY <1>2, Kept, StepsTo DEF Xccdec, XccdecReturns
  <2>2. AfterExpand(p) => Steps(p)
    BY <1>2, Kept, StepsTo DEF AfterExpand
  <2>3. \A r : r = u[p] /\ CallsXfree(p, r) => Steps(p)
    BY <1>2, XfreeSteps
  <2>4. CASE Xfree(p)
    BY <1>2, <2>1, <2>4, Kept, StepsTo DEF Xfree
  <2>5. CASE SwappedIn(p) \/ ExecNamei(p)
    BY <1>2, <2>2, <2>3, <2>5, StepsTo DEF SwappedIn, ExecNamei
  <2>6. CASE Xalloc(p)
    BY <1>2, <2>6, Kept, StepsTo DEF Xalloc
  <2>7. CASE XallocLock(p)
    BY <1>2, <2>7, Kept, StepsTo DEF XallocLock
  <2>8. CASE XexpandOut(p) \/ Attached(p) \/ DataRead(p)
    BY <1>2, <2>8, Kept, StepsTo DEF XexpandOut, Attached, DataRead
  <2>9. CASE OpenNamei(p) \/ Xuntext(p)
    BY <1>2, <2>9, Kept, StepsTo DEF OpenNamei, Xuntext
  <2>10. CASE XexpandRead(p) \/ TextRead(p) \/ ExecEnd(p)
    BY <1>2, <2>10, Kept, StepsTo DEF XexpandRead, TextRead, ExecEnd
  <2>11. QED BY <2>4, <2>5, <2>6, <2>7, <2>8, <2>9, <2>10
<1>3. QED BY <1>1, <1>2, HeldPlain

(* The steps of a transfer, and of xccdec.                                 *)
LEMMA HeldMoves ==
  ASSUME Inv, Held, Still, NEW a \in Actor, pc[a] # "xswap",
         NEW w, NEW r, Place(a, w, r), w # "xswap",
         r.call = u[a].call /\ r.p = u[a].p /\ r.os = u[a].os /\ r.ff = u[a].ff,
         r.xs = u[a].xs, a = Sched => (SchedIn(w, r) <=> SchedIn(pc[a], u[a]))
  PROVE  Held'
<1>1. /\ pc'[a] = w /\ u'[a] = r
      /\ \A b \in Actor : b # a => pc'[b] = pc[b] /\ u'[b] = u[b]
  BY DEF Place, Inv, Control
<1>2. GivesBack(a)'
  BY <1>1 DEF Held, GivesBack
<1>3. a = Sched => \A p : Coming(p)' <=> Coming(p)
  BY <1>1 DEF Coming
<1>4. QED BY <1>1, <1>2, <1>3, HeldStays DEF Still

LEMMA HeldReturns ==
  ASSUME Inv, Held, Still, NEW a \in Actor, InXccdec(pc[a], u[a]), XccdecReturns(a, u[a].cc)
  PROVE  Held'
<1>1. /\ IsFrame(u[a]) /\ u[a].cc \in {"xswap", "exited", "expand"}
      /\ pc[a] \in {"xccdecLock"} \cup Transfer
      /\ a = Sched => ~ SchedIn(pc[a], u[a])
  BY DEF Inv, Control, ActorFrame, SchedFrame, ProcFrame, FrameOK, InXccdec, SchedIn, Transfer
<1>2. \E w \in {"swap", "exited", "expand"}, o \in {"imageout", "none"} :
        Place(a, w, [u[a] EXCEPT !.x = None, !.cc = "none", !.op = o])
  BY <1>1 DEF XccdecReturns, Goes
<1>3. PICK w \in {"swap", "exited", "expand"}, o \in {"imageout", "none"} :
        Place(a, w, [u[a] EXCEPT !.x = None, !.cc = "none", !.op = o])
  BY <1>2
<1> DEFINE r == [u[a] EXCEPT !.x = None, !.cc = "none", !.op = o]
<1>4. /\ r.call = u[a].call /\ r.p = u[a].p /\ r.os = u[a].os /\ r.ff = u[a].ff
      /\ r.xs = u[a].xs /\ r.op = o
  BY <1>1 DEF IsFrame
<1> HIDE DEF r
<1>5. ~ SchedIn(w, r)
  BY <1>4 DEF SchedIn
<1>6. Place(a, w, r)
  BY <1>3 DEF r
<1>7. pc[a] # "xswap" /\ w # "xswap"
  BY <1>1 DEF Transfer
<1>8. QED BY <1>1, <1>4, <1>5, <1>6, <1>7, HeldMoves

LEMMA HeldSwapping ==
  ASSUME Inv, Held, NEW a \in Actor,
         Swap(a) \/ SwapHeader(a) \/ XccdecLock(a) \/ TextWritten(a) \/ Switch(a) \/ Interrupt(a)
  PROVE  Held'
<1>1. Still
  BY DEF Swap, SwapHeader, XccdecLock, TextWritten, Switch, Interrupt, Still, space, procs
<1>2. IsFrame(u[a])
  BY DEF Inv, Control, ActorFrame, SchedFrame, ProcFrame, FrameOK
<1>3. CASE Switch(a)
  BY <1>1, <1>3, HeldStays DEF Switch, Still, Held, GivesBack, Coming
<1>4. CASE Interrupt(a)
  <2>1. \E w \in {"done", "sched"} :
          pc' = [pc EXCEPT ![a] = w] /\ pc[a] = IF w = "done" THEN "io" ELSE "runin"
    BY <1>4 DEF Interrupt
  <2>2. PICK w \in {"done", "sched"} :
          pc' = [pc EXCEPT ![a] = w] /\ pc[a] = IF w = "done" THEN "io" ELSE "runin"
    BY <2>1
  <2>3. u' = u /\ pc'[a] = w /\ \A b \in Actor : b # a => pc'[b] = pc[b]
    BY <1>4, <2>2 DEF Interrupt, Inv, Control
  <2>4. SchedIn(w, u[a]) <=> SchedIn(pc[a], u[a])
    BY <2>2 DEF SchedIn
  <2>5. GivesBack(a)' /\ \A p : a = Sched => (Coming(p)' <=> Coming(p))
    BY <2>3, <2>4 DEF Held, GivesBack, Coming
  <2>6. QED BY <1>1, <2>2, <2>3, <2>5, HeldStays DEF Still
<1>5. CASE Swap(a) \/ SwapHeader(a)
  <2>1. pc[a] \in {"swap", "header"}
    BY <1>5, AtFacts DEF Swap, SwapHeader
  <2>2. \E w \in {"header", "io"} : \/ \E h : Place(a, w, [u[a] EXCEPT !.hdr = h])
                                    \/ Place(a, w, u[a])
    BY <1>5 DEF Swap, SwapHeader, Sleeps
  <2>3. \E w, r : /\ w \in {"header", "io"} /\ Place(a, w, r)
                  /\ r = u[a] \/ \E h : r = [u[a] EXCEPT !.hdr = h]
    BY <2>2
  <2>4. PICK w, r : /\ w \in {"header", "io"} /\ Place(a, w, r)
                    /\ r = u[a] \/ \E h : r = [u[a] EXCEPT !.hdr = h]
    BY <2>3
  <2>5. /\ r.call = u[a].call /\ r.p = u[a].p /\ r.os = u[a].os /\ r.ff = u[a].ff
        /\ r.xs = u[a].xs /\ r.op = u[a].op
    BY <1>2, <2>4 DEF IsFrame
  <2>6. SchedIn(w, r) <=> SchedIn(pc[a], u[a])
    BY <2>1, <2>4, <2>5 DEF SchedIn
  <2>7. QED BY <1>1, <2>1, <2>4, <2>5, <2>6, HeldMoves
<1>6. CASE XccdecLock(a)
  <2>1. pc[a] = "xccdecLock"
    BY <1>6, AtFacts DEF XccdecLock
  <2>2. CASE XccdecReturns(a, u[a].cc)
    BY <1>1, <2>1, <2>2, HeldReturns DEF InXccdec
  <2>3. CASE Goes(a, "swap", [u[a] EXCEPT !.op = "textout"])
    <3> DEFINE r == [u[a] EXCEPT !.op = "textout"]
    <3>1. /\ r.call = u[a].call /\ r.p = u[a].p /\ r.os = u[a].os /\ r.ff = u[a].ff
          /\ r.xs = u[a].xs /\ r.op = "textout"
      BY <1>2 DEF IsFrame
    <3>2. Place(a, "swap", r)
      BY <2>3 DEF Goes
    <3> HIDE DEF r
    <3>3. a = Sched => ~ SchedIn("swap", r) /\ ~ SchedIn(pc[a], u[a])
      BY <2>1, <3>1, Frames DEF SchedIn, Inv, Control, ActorFrame, SchedFrame, ProcFrame, FrameOK,
                                InXccdec, Transfer
    <3>4. QED BY <1>1, <2>1, <3>1, <3>2, <3>3, HeldMoves
  <2>4. QED BY <1>6, <2>2, <2>3 DEF XccdecLock
<1>7. CASE TextWritten(a)
  <2>1. pc[a] = "done" /\ u[a].op = "textout"
    BY <1>7, AtFacts DEF TextWritten, Done
  <2>2. QED BY <1>1, <1>7, <2>1, HeldReturns DEF TextWritten, InXccdec, Transfer
<1>8. QED BY <1>3, <1>4, <1>5, <1>6, <1>7

-----------------------------------------------------------------------------
(* The steps that take or give back space for an image.                    *)
Balanced ==
  \A p \in Proc :
    /\ coreI'[p] # coreI[p] => core' + coreI'[p] = core + coreI[p]
    /\ swapI'[p] # swapI[p] => swap' + swapI'[p] = swap + swapI[p]

(* Nobody is in xswap with the image of one who is gone.                   *)
LEMMA GoneUnwritten ==
  ASSUME Inv, NEW c \in Proc, stat[c] \in Gone, NEW b \in Actor
  PROVE  ~ Writes(b, c)
<1> SUFFICES ASSUME Writes(b, c) PROVE FALSE
  OBVIOUS
<1>1. u[b].xs # "none" /\ u[b].p = c
  BY DEF Writes
<1>2. b = c
  BY <1>1, Writer DEF Gone
<1>3. pc[c] = "none"
  BY DEF EntryOK, Inv, Images, Gone
<1>4. QED BY <1>1, <1>2, <1>3, Frames DEF ProcFrame, FrameOK, InXswap, InXccdec, Transfer

(* The space and the place of the others.                                  *)
LEMMA ImageTypes ==
  ASSUME Inv, Held
  PROVE  /\ coreI \in [Proc -> Int] /\ swapI \in [Proc -> Int] /\ size \in [Proc -> Int]
         /\ load \in [Proc -> BOOLEAN] /\ stat \in [Proc -> Stats]
BY DEF Inv, Images, Domains, Held

LEMMA Moved ==
  ASSUME Inv, NEW a \in Actor, NEW w, NEW r, Place(a, w, r)
  PROVE  /\ pc'[a] = w /\ u'[a] = r
         /\ \A b \in Actor : b # a => pc'[b] = pc[b] /\ u'[b] = u[b]
BY DEF Place, Inv, Control

LEMMA HeldFork ==
  ASSUME Inv, Held, NEW p \in Proc, NEW c \in Proc, Fork(p, c),
         core \in Int, swap \in Int
  PROVE  Held' /\ Balanced
<1>1. /\ p # c /\ p \in Actor /\ c \in Actor /\ p # Sched /\ c # Sched
      /\ coreI[c] = 0 /\ stat[c] = "free" /\ stat[p] = "run" /\ size[p] \in Int
      /\ u[p].xs = "none" /\ u[p].ff /\ u[c].xs = "none" /\ IsFrame(u[p])
  BY Newborn, Names, GoneUnwritten DEF Plain, Held, GivesBack, Sizes
<1>2. swapI[c] = 0 /\ \A b \in Actor : ~ Writes(b, c)
  BY <1>1, GoneUnwritten DEF Held, Lies, Gone
<1>3. /\ \E n \in {"idl", "run"} : stat' = [stat EXCEPT ![c] = "run", ![p] = n]
      /\ load' = [load EXCEPT ![c] = TRUE] /\ size' = [size EXCEPT ![c] = size[p]]
      /\ swapI' = swapI
  BY DEF Fork, Newproc, StatInSwap
<1>4. /\ stat'[c] = "run" /\ load'[c] /\ size'[c] = size[p]
      /\ \A q \in Proc : q # c => /\ size'[q] = size[q] /\ load'[q] = load[q]
                                  /\ stat'[q] \in Gone <=> stat[q] \in Gone
  BY <1>1, <1>3, ImageTypes DEF Gone
<1>5. CASE /\ core' = core - size[p] /\ coreI' = [coreI EXCEPT ![c] = size[p]]
           /\ pc' = [pc EXCEPT ![c] = "user"] /\ u' = u
  <2>1. coreI'[c] = size[p] /\ \A q \in Proc : q # c => coreI'[q] = coreI[q]
    BY <1>5, ImageTypes
  <2>2. Lies(c)'
    BY <1>2, <1>3, <1>4, <2>1 DEF Lies, AtRest, Gone
  <2>3. \A b \in Actor : b # c => pc'[b] = pc[b]
    BY <1>5 DEF Inv, Control
  <2>4. Written(p)' /\ GivesBack(p)'
    BY <1>1, <1>5 DEF Written, GivesBack
  <2>5. Held'
    BY <1>1, <1>2, <1>3, <1>4, <1>5, <2>1, <2>2, <2>3, <2>4, HeldBut DEF Held
  <2>6. Balanced
    BY <1>1, <1>3, <1>5, <2>1 DEF Balanced
  <2>7. QED BY <2>5, <2>6
<1>6. CASE /\ coreI' = coreI
           /\ Goes(p, "xswap", [u[p] EXCEPT !.call = "fork", !.up = c, !.p = c,
                                            !.ff = FALSE, !.xs = "forked"])
  <2> DEFINE r == [u[p] EXCEPT !.call = "fork", !.up = c, !.p = c, !.ff = FALSE,
                               !.xs = "forked"]
  <2>1. r.call = "fork" /\ r.p = c /\ ~ r.ff /\ r.xs = "forked"
    BY <1>1 DEF IsFrame
  <2>2. Place(p, "xswap", r)
    BY <1>6 DEF Goes
  <2> HIDE DEF r
  <2>3. /\ pc'[p] = "xswap" /\ u'[p] = r
        /\ \A b \in Actor : b # p => pc'[b] = pc[b] /\ u'[b] = u[b]
    BY <1>1, <2>2, Moved
  <2>4. Lies(c)'
    BY <1>1, <1>4, <2>1, <2>3 DEF Lies, Writes, Gone
  <2>5. Written(p)' /\ GivesBack(p)'
    BY <1>1, <1>2, <1>3, <1>6, <2>1, <2>3 DEF Written, GivesBack
  <2>6. Held'
    BY <1>1, <1>2, <1>3, <1>4, <1>6, <2>1, <2>3, <2>4, <2>5, HeldBut DEF Held
  <2>7. QED BY <1>3, <1>6, <2>6 DEF Balanced
<1>7. QED BY <1>5, <1>6 DEF Fork

LEMMA HeldForked ==
  ASSUME Inv, Held, NEW p \in Proc, Forked(p)
  PROVE  Held' /\ Balanced
<1>1. p \in Actor /\ p # Sched
  BY Names
<1>2. PICK c : c = u[p].up
  OBVIOUS
<1>3. /\ At(p, "forked") /\ stat' = [stat EXCEPT ![p] = "run"]
      /\ pc' = [pc EXCEPT ![p] = "user", ![c] = "user"] /\ u' = [u EXCEPT ![p] = Idle(p)]
      /\ UNCHANGED <<coreI, swapI, size, load>>
  BY <1>2 DEF Forked, space
<1>4. pc[p] = "forked" /\ u[p].call = "fork" /\ u[p].xs = "none"
  BY <1>1, <1>3, AtFacts, Frames DEF ProcFrame, FrameOK, InXswap, InXccdec, Transfer
<1>5. /\ c \in Proc \ {p} /\ c \in Actor /\ pc[c] = "none" /\ stat[p] = "idl" /\ load[p]
  BY <1>2, <1>4, Child, Names
<1>6. c # Sched /\ u[c].xs = "none"
  BY <1>5, Names, Frames DEF ProcFrame, FrameOK, InXswap, InXccdec, Transfer
<1>7. \A b \in Actor : ~ Writes(b, p)
  <2> SUFFICES ASSUME NEW b \in Actor, Writes(b, p) PROVE FALSE
    OBVIOUS
  <2>1. u[b].xs # "none" /\ u[b].p = p
    BY DEF Writes
  <2>2. b # p /\ stat[p] # "run"
    BY <1>4, <1>5, <2>1
  <2>3. QED BY <2>1, <2>2, Writer
<1>8. AtRest(p)
  BY <1>5, <1>7 DEF Held, Lies, Gone
<1>9. Lies(p)'
  BY <1>3, <1>5, <1>8 DEF Lies, AtRest, Gone, Inv, Images, Domains
<1>10. /\ u'[p] = Idle(p) /\ \A b \in Actor : b # p => u'[b] = u[b]
       /\ \A b \in Actor : b # p /\ b # c => pc'[b] = pc[b]
  BY <1>1, <1>3, <1>5 DEF Inv, Control
<1>11. Written(p)' /\ GivesBack(p)' /\ u'[p].xs = "none"
  BY <1>10 DEF Written, GivesBack, Idle
<1>12. \A q \in Proc : q # p => stat'[q] = stat[q]
  BY <1>3 DEF Inv, Images, Domains
<1>13. Held'
  BY <1>1, <1>3, <1>4, <1>6, <1>7, <1>9, <1>10, <1>11, <1>12, HeldBut DEF Held
<1>14. QED BY <1>3, <1>13 DEF Balanced

LEMMA HeldExited ==
  ASSUME Inv, Held, NEW p \in Proc, Exited(p), core \in Int
  PROVE  Held' /\ Balanced
<1>1. At(p, "exited") /\ Quiet("exited") /\ "exited" \notin Away
  BY DEF Exited, Quiet, Away, Transfer
<1>2. /\ coreI' = [coreI EXCEPT ![p] = 0] /\ stat' = [stat EXCEPT ![p] = "zomb"]
      /\ size' = [size EXCEPT ![p] = 0] /\ load' = load /\ swapI' = swapI
      /\ core' = core + size[p] /\ Place(p, "none", Idle(p))
  BY DEF Exited, Sleeps
<1>3. /\ coreI[p] = size[p] /\ swapI[p] = 0 /\ u[p].xs = "none"
      /\ \A b \in Actor : ~ Writes(b, p)
  BY <1>1, OwnImage
<1>4. p \in Actor /\ p # Sched
  BY Names
<1>5. /\ coreI'[p] = 0 /\ stat'[p] = "zomb"
      /\ \A q \in Proc : q # p => /\ coreI'[q] = coreI[q] /\ size'[q] = size[q]
                                  /\ stat'[q] = stat[q]
  BY <1>2, ImageTypes
<1>6. u'[p] = Idle(p) /\ \A b \in Actor : b # p => pc'[b] = pc[b] /\ u'[b] = u[b]
  BY <1>2, <1>4, Moved
<1>7. Lies(p)' /\ Written(p)' /\ GivesBack(p)' /\ u'[p].xs = "none"
  BY <1>2, <1>3, <1>5, <1>6 DEF Lies, Gone, Written, GivesBack, Idle
<1>8. Held'
  BY <1>2, <1>3, <1>4, <1>5, <1>6, <1>7, HeldBut DEF Held
<1>9. Balanced
  BY <1>2, <1>3, <1>5, ImageTypes DEF Balanced
<1>10. QED BY <1>8, <1>9

LEMMA HeldReap ==
  ASSUME Inv, Held, NEW p \in Proc, NEW c \in Proc, Reap(p, c)
  PROVE  Held' /\ Balanced
<1>1. At(p, "wait") /\ Quiet("wait") /\ "wait" \notin Away
  BY DEF Reap, Quiet, Away, Transfer
<1>2. /\ stat' = [stat EXCEPT ![c] = "free"] /\ load' = [load EXCEPT ![c] = FALSE]
      /\ UNCHANGED <<coreI, swapI, size>> /\ stat[c] = "zomb" /\ Place(p, "user", Idle(p))
  BY DEF Reap, Returns, Goes, Zombies, space
<1>3. u[p].xs = "none" /\ p \in Actor /\ p # Sched
  BY <1>1, OwnImage, Names
<1>4. swapI[c] = 0 /\ \A b \in Actor : ~ Writes(b, c)
  BY <1>2, GoneUnwritten DEF Held, Lies, Gone
<1>5. /\ stat'[c] = "free"
      /\ \A q \in Proc : q # c => load'[q] = load[q] /\ stat'[q] = stat[q]
  BY <1>2, ImageTypes
<1>6. u'[p] = Idle(p) /\ \A b \in Actor : b # p => pc'[b] = pc[b] /\ u'[b] = u[b]
  BY <1>2, <1>3, Moved
<1>7. Lies(c)' /\ Written(p)' /\ GivesBack(p)' /\ u'[p].xs = "none"
  BY <1>2, <1>4, <1>5, <1>6 DEF Lies, Gone, Written, GivesBack, Idle
<1>8. Held'
  BY <1>2, <1>3, <1>4, <1>5, <1>6, <1>7, HeldBut DEF Held
<1>9. QED BY <1>2, <1>8 DEF Balanced

LEMMA HeldExpand ==
  ASSUME Inv, Held, NEW p \in Proc, Expand(p), core \in Int
  PROVE  Held' /\ Balanced
<1>1. At(p, "expand") /\ Quiet("expand") /\ "expand" \notin Away
  BY DEF Expand, Quiet, Away, Transfer
<1>2. PICK new : new = u[p].new
  OBVIOUS
<1>3. /\ size' = [size EXCEPT ![p] = new] /\ UNCHANGED <<swapI, stat, load>>
      /\ \/ /\ core' = core + size[p] - new /\ coreI' = [coreI EXCEPT ![p] = new]
            /\ AfterExpand(p)
         \/ /\ coreI' = coreI
            /\ Goes(p, "xswap", [u[p] EXCEPT !.new = 0, !.os = size[p], !.xs = "swapped"])
  BY <1>2 DEF Expand
<1>4. /\ load[p] /\ stat[p] = "run" /\ coreI[p] = size[p] /\ swapI[p] = 0
      /\ u[p].xs = "none" /\ u[p].ff /\ IsFrame(u[p])
      /\ \A b \in Actor : ~ Writes(b, p)
  BY <1>1, OwnImage
<1>5. u[p].p = p /\ new \in Int
  <2>1. Plain(p, u[p]) /\ NewOK("expand", u[p])
    BY <1>1, QuietAt
  <2>2. new \in Sizes
    BY <1>2, <2>1 DEF NewOK
  <2>3. QED BY <2>1, <2>2, Names DEF Plain
<1>6. p \in Actor /\ p # Sched
  BY Names
<1>7. size'[p] = new /\ \A q \in Proc : q # p => size'[q] = size[q]
  BY <1>3, ImageTypes
<1>8. CASE /\ core' = core + size[p] - new /\ coreI' = [coreI EXCEPT ![p] = new]
           /\ AfterExpand(p)
  <2>1. Steps(p)
    BY <1>4, <1>8, Kept, StepsTo DEF AfterExpand
  <2>2. PICK w, r : Place(p, w, r) /\ r.xs = "none" /\ r.ff
    BY <2>1 DEF Steps
  <2>3. u'[p] = r /\ \A b \in Actor : b # p => pc'[b] = pc[b] /\ u'[b] = u[b]
    BY <1>6, <2>2, Moved
  <2>4. coreI'[p] = new /\ \A q \in Proc : q # p => coreI'[q] = coreI[q]
    BY <1>8, ImageTypes
  <2>5. Lies(p)' /\ Written(p)' /\ GivesBack(p)' /\ u'[p].xs = "none"
    BY <1>3, <1>4, <1>7, <2>2, <2>3, <2>4 DEF Lies, AtRest, Gone, Written, GivesBack
  <2>6. Held'
    BY <1>3, <1>4, <1>6, <1>7, <2>3, <2>4, <2>5, HeldBut DEF Held
  <2>7. size[p] \in Int
    BY ImageTypes
  <2>8. Balanced
    BY <1>3, <1>4, <1>5, <1>8, <2>4, <2>7 DEF Balanced
  <2>9. QED BY <2>6, <2>8
<1>9. CASE /\ coreI' = coreI
           /\ Goes(p, "xswap", [u[p] EXCEPT !.new = 0, !.os = size[p], !.xs = "swapped"])
  <2> DEFINE r == [u[p] EXCEPT !.new = 0, !.os = size[p], !.xs = "swapped"]
  <2>1. r.xs = "swapped" /\ r.ff /\ r.os = size[p] /\ r.p = p
    BY <1>4, <1>5 DEF IsFrame
  <2>2. Place(p, "xswap", r)
    BY <1>9 DEF Goes
  <2> HIDE DEF r
  <2>3. /\ pc'[p] = "xswap" /\ u'[p] = r
        /\ \A b \in Actor : b # p => pc'[b] = pc[b] /\ u'[b] = u[b]
    BY <1>6, <2>2, Moved
  <2>4. Lies(p)' /\ Written(p)' /\ GivesBack(p)'
    BY <1>3, <1>4, <1>6, <1>9, <2>1, <2>3 DEF Lies, Gone, Writes, Written, GivesBack
  <2>5. Held'
    BY <1>3, <1>4, <1>6, <1>7, <1>9, <2>1, <2>3, <2>4, HeldBut DEF Held
  <2>6. QED BY <1>3, <1>9, <2>5 DEF Balanced
<1>10. QED BY <1>3, <1>8, <1>9

LEMMA HeldXexpand ==
  ASSUME Inv, Held, NEW p \in Proc, Xexpand(p)
  PROVE  Held' /\ Balanced
<1>1. At(p, "xexpand") /\ Quiet("xexpand") /\ "xexpand" \notin Away
  BY DEF Xexpand, Quiet, Away, Transfer
<1>2. Still
  BY DEF Xexpand, Still, procs
<1>3. /\ load[p] /\ stat[p] = "run" /\ coreI[p] = size[p] /\ swapI[p] = 0
      /\ u[p].xs = "none" /\ u[p].ff /\ IsFrame(u[p])
      /\ \A b \in Actor : ~ Writes(b, p)
  BY <1>1, OwnImage
<1>4. CASE Goes(p, "attached", u[p]) \/ Goes(p, "swap", [u[p] EXCEPT !.op = "textin"])
  <2>1. Steps(p)
    BY <1>3, <1>4, Kept, StepsTo
  <2>2. PlainPlace("xexpand", u[p].op)
    BY DEF PlainPlace, Transfer
  <2>3. QED BY <1>1, <1>2, <2>1, <2>2, HeldPlain DEF Still, Balanced
<1>5. CASE Goes(p, "xswap", [u[p] EXCEPT !.os = size[p], !.xs = "xexpandOut"])
  <2> DEFINE r == [u[p] EXCEPT !.os = size[p], !.xs = "xexpandOut"]
  <2>1. u[p].p = p /\ p \in Actor /\ p # Sched
    BY <1>1, QuietAt, Names DEF Plain
  <2>2. r.xs = "xexpandOut" /\ r.ff /\ r.os = size[p] /\ r.p = p
    BY <1>3, <2>1 DEF IsFrame
  <2>3. Place(p, "xswap", r)
    BY <1>5 DEF Goes
  <2> HIDE DEF r
  <2>4. /\ pc'[p] = "xswap" /\ u'[p] = r
        /\ \A b \in Actor : b # p => pc'[b] = pc[b] /\ u'[b] = u[b]
    BY <2>1, <2>3, Moved
  <2>5. Lies(p)' /\ Written(p)' /\ GivesBack(p)'
    BY <1>2, <1>3, <2>1, <2>2, <2>4 DEF Still, Lies, Gone, Writes, Written, GivesBack
  <2>6. Held'
    BY <1>2, <1>3, <2>1, <2>2, <2>4, <2>5, HeldBut DEF Held, Still
  <2>7. QED BY <1>2, <2>6 DEF Still, Balanced
<1>6. QED BY <1>4, <1>5 DEF Xexpand

(* The call of xswap takes the space on the swap device.                   *)
LEMMA HeldXswap ==
  ASSUME Inv, Held, NEW a \in Actor, Xswap(a), swap \in Int
  PROVE  Held' /\ Balanced
<1>1. pc[a] = "xswap" /\ IsFrame(u[a]) /\ u[a].xs # "none"
  BY AtFacts DEF Xswap, Inv, Control, ActorFrame, SchedFrame, ProcFrame, FrameOK, InXswap
<1>2. PICK q \in Proc : q = u[a].p
  BY <1>1, Writer
<1>3. /\ swap' = swap - size[q] /\ swapI' = [swapI EXCEPT ![q] = size[q]]
      /\ UNCHANGED <<coreI, stat, load, size>> /\ Xccdec(a, textp[q], "xswap")
  BY <1>2 DEF Xswap
<1>4. /\ swapI[q] = 0 /\ swapI'[q] = size[q] /\ size[q] \in Int
      /\ \A p \in Proc : p # q => swapI'[p] = swapI[p]
      /\ swapI' \in [Proc -> Int]
  BY <1>1, <1>2, <1>3, ImageTypes DEF Held, Written
<1>5. PICK w, r :
        /\ w \in {"swap", "xccdecLock"} /\ Place(a, w, r)
        /\ r.call = u[a].call /\ r.p = u[a].p /\ r.os = u[a].os /\ r.ff = u[a].ff
        /\ r.xs = u[a].xs /\ (r.op = "imageout" \/ (w = "xccdecLock" /\ r.op = u[a].op))
  <2> DEFINE s == [u[a] EXCEPT !.x = None, !.cc = "none", !.op = "imageout"]
             t == [u[a] EXCEPT !.x = textp[q], !.cc = "xswap"]
  <2>1. /\ s.call = u[a].call /\ s.p = u[a].p /\ s.os = u[a].os /\ s.ff = u[a].ff
        /\ s.xs = u[a].xs /\ s.op = "imageout"
        /\ t.call = u[a].call /\ t.p = u[a].p /\ t.os = u[a].os /\ t.ff = u[a].ff
        /\ t.xs = u[a].xs /\ t.op = u[a].op
    BY <1>1 DEF IsFrame
  <2>2. Place(a, "swap", s) \/ Place(a, "xccdecLock", t)
    BY <1>3 DEF Xccdec, XccdecReturns, Goes
  <2> HIDE DEF s, t
  <2>3. QED BY <2>1, <2>2
<1>6. /\ pc'[a] = w /\ u'[a] = r
      /\ \A b \in Actor : b # a => pc'[b] = pc[b] /\ u'[b] = u[b]
  BY <1>5, Moved
<1>7. stat[q] \notin Gone /\ \A b \in Actor : b # a => ~ Writes(b, q)
  BY <1>1, <1>2, GoneUnwritten, OneWriter DEF Writes
<1>8. Lies(q)' /\ Written(a)' /\ GivesBack(a)'
  <2>1. Writes(a, q)'
    BY <1>1, <1>2, <1>5, <1>6 DEF Writes
  <2>2. Lies(q)'
    BY <1>3, <1>7, <2>1 DEF Lies
  <2>3. Written(a)' /\ GivesBack(a)'
    BY <1>1, <1>2, <1>3, <1>4, <1>5, <1>6 DEF Held, Written, GivesBack
  <2>4. QED BY <2>2, <2>3
<1>9. a = Sched => \A p : ~ Coming(p) /\ ~ Coming(p)'
  <2> SUFFICES ASSUME a = Sched PROVE ~ SchedIn(pc[a], u[a]) /\ ~ SchedIn(w, r)
    BY <1>6 DEF Coming
  <2>1. u[a].op \notin {"textin", "imagein"}
    BY <1>1, Frames DEF SchedFrame, Transfer
  <2>2. QED BY <1>1, <1>5, <2>1 DEF SchedIn
<1>10. Held'
  BY <1>2, <1>3, <1>4, <1>5, <1>6, <1>7, <1>8, <1>9, HeldBut
<1>11. QED BY <1>3, <1>4, <1>10 DEF Balanced

(* The end of xswap gives back the space in core.                          *)
LEMMA HeldImageWritten ==
  ASSUME Inv, Held, NEW a \in Actor, ImageWritten(a), core \in Int
  PROVE  Held' /\ Balanced
<1> DEFINE r == [u[a] EXCEPT !.p = a, !.os = 0, !.ff = TRUE, !.op = "none", !.xs = "none"]
<1>1. pc[a] = "done" /\ u[a].op = "imageout"
  BY AtFacts DEF ImageWritten, Done
<1>2. IsFrame(u[a]) /\ u[a].xs # "none"
  BY <1>1 DEF Inv, Control, ActorFrame, SchedFrame, ProcFrame, FrameOK, InXswap, Transfer
<1>3. PICK q \in Proc : q = u[a].p
  BY <1>2, Writer
<1>4. /\ IF u[a].ff THEN core' = core + u[a].os /\ coreI' = [coreI EXCEPT ![q] = 0]
         ELSE core' = core /\ coreI' = coreI
      /\ load' = [load EXCEPT ![q] = FALSE] /\ UNCHANGED <<swapI, stat, size>>
      /\ Place(a, u[a].xs, r)
  BY <1>3 DEF ImageWritten, Given, Goes
<1>5. /\ coreI[q] = IF u[a].ff THEN u[a].os ELSE 0
      /\ swapI[q] = size[q]
  BY <1>1, <1>2, <1>3 DEF Held, Written
<1>6. /\ coreI'[q] = 0 /\ ~ load'[q]
      /\ \A p \in Proc : p # q => coreI'[p] = coreI[p] /\ load'[p] = load[p]
  BY <1>4, <1>5, ImageTypes
<1>7. r.xs = "none" /\ r.ff /\ r.op = "none"
  BY <1>2 DEF IsFrame
<1> HIDE DEF r
<1>8. /\ pc'[a] = u[a].xs /\ u'[a] = r
      /\ \A b \in Actor : b # a => pc'[b] = pc[b] /\ u'[b] = u[b]
  BY <1>4, Moved
<1>9. stat[q] \notin Gone /\ \A b \in Actor : b # a => ~ Writes(b, q)
  BY <1>2, <1>3, GoneUnwritten, OneWriter DEF Writes
<1>10. a = Sched => \A p : ~ Coming(p) /\ ~ Coming(p)'
  BY <1>1, <1>2, <1>7, <1>8, Frames DEF Coming, SchedIn, SchedFrame
<1>11. ~ Coming(q)'
  <2>1. CASE a = Sched
    BY <1>10, <2>1
  <2>2. CASE a # Sched
    <3>1. load[q] /\ pc'[Sched] = pc[Sched] /\ u'[Sched] = u[Sched]
      BY <1>2, <1>3, <1>8, <2>2, Writer, Names
    <3>2. Coming(q) => ~ load[q]
      BY DEF Coming, SchedBusy, SchedOK, Inv, Images
    <3>3. QED BY <3>1, <3>2 DEF Coming
  <2>3. QED BY <2>1, <2>2
<1>12. Lies(q)' /\ Written(a)' /\ GivesBack(a)'
  BY <1>4, <1>5, <1>6, <1>7, <1>8, <1>9, <1>11 DEF Lies, AtRest, Written, GivesBack
<1>13. Held'
  BY <1>3, <1>4, <1>6, <1>7, <1>8, <1>9, <1>10, <1>12, HeldBut DEF Held
<1>14. Balanced
  BY <1>4, <1>5, <1>6, ImageTypes DEF Balanced
<1>15. QED BY <1>13, <1>14

-----------------------------------------------------------------------------
(* The steps of sched.                                                     *)
LEMMA SchedKeeps ==
  ASSUME Inv, Held, Still, NEW w, NEW r, Place(Sched, w, r), r.xs = "none", r.ff,
         u[Sched].xs = "none",
         \/ ~ SchedIn(pc[Sched], u[Sched]) /\ ~ SchedIn(w, r)
         \/ SchedIn(pc[Sched], u[Sched]) /\ SchedIn(w, r) /\ r.p = u[Sched].p
  PROVE  Held'
<1>1. /\ Sched \in Actor /\ pc'[Sched] = w /\ u'[Sched] = r
      /\ \A b \in Actor : b # Sched => pc'[b] = pc[b] /\ u'[b] = u[b]
  BY Names, Moved
<1>2. GivesBack(Sched)' /\ \A p : Coming(p)' <=> Coming(p)
  BY <1>1 DEF GivesBack, Coming
<1>3. QED BY <1>1, <1>2, HeldStays DEF Still

LEMMA SchedTurns ==
  ASSUME Inv, Held, Still, NEW w, NEW r, Place(Sched, w, r),
         pc[Sched] \in {"sched", "runout", "victim", "swapin"},
         \/ w \in {"runout", "runin", "victim"} /\ r = Idle(Sched)
         \/ w = "swapin" /\ \E p : r = [Idle(Sched) EXCEPT !.p = p]
  PROVE  Held'
<1>1. u[Sched].xs = "none" /\ ~ SchedIn(pc[Sched], u[Sched])
  BY Frames DEF SchedFrame, FrameOK, InXswap, InXccdec, SchedIn, Transfer
<1>2. r.xs = "none" /\ r.ff /\ r.op = "none"
  BY DEF Idle
<1>3. ~ SchedIn(w, r)
  BY <1>2 DEF SchedIn
<1>4. QED BY <1>1, <1>2, <1>3, SchedKeeps

LEMMA HeldSchedLoop ==
  ASSUME Inv, Held, SchedLoop PROVE Held' /\ Balanced
<1>1. pc[Sched] \in {"sched", "runout"} /\ Still
  BY Names, AtFacts DEF SchedLoop, Still, space, procs
<1>2. \/ Place(Sched, "runout", Idle(Sched))
      \/ \E p : Place(Sched, "swapin", [Idle(Sched) EXCEPT !.p = p])
  BY DEF SchedLoop, Sleeps, Goes
<1>3. QED BY <1>1, <1>2, SchedTurns DEF Still, Balanced

(* A process that is out and that nobody writes out any more.              *)
LEMMA OutAlone ==
  ASSUME Inv, Held, NEW q \in Proc, ~ load[q], stat[q] = "run", u[Sched].xs = "none"
  PROVE  (\A b \in Actor : ~ Writes(b, q)) /\ AtRest(q)
<1>1. \A b \in Actor : ~ Writes(b, q)
  BY Writer DEF Writes
<1>2. QED BY <1>1 DEF Held, Lies, Gone

LEMMA HeldSwapin ==
  ASSUME Inv, Held, Swapin, core \in Int PROVE Held' /\ Balanced
<1>1. PICK q \in Proc : /\ q = u[Sched].p /\ stat[q] = "run" /\ ~ load[q]
                        /\ IsFrame(u[Sched]) /\ u[Sched].xs = "none"
                        /\ u[Sched].op \notin {"textin", "imagein"}
  BY Incoming DEF Swapin, Transfer
<1>2. pc[Sched] = "swapin" /\ ~ SchedIn(pc[Sched], u[Sched]) /\ Sched \in Actor
  BY <1>1, Names, AtFacts DEF Swapin, SchedIn
<1>3. UNCHANGED <<swapI, size, load, stat>>
  BY DEF Swapin, procs
<1>4. CASE coreI' = coreI /\ Goes(Sched, "victim", Idle(Sched))
  BY <1>2, <1>3, <1>4, SchedTurns DEF Goes, Still, Balanced
<1>5. CASE /\ core' = core - size[q] /\ coreI' = [coreI EXCEPT ![q] = size[q]]
           /\ \/ Goes(Sched, "swap", [u[Sched] EXCEPT !.op = "imagein"])
              \/ \E x : Goes(Sched, "swapinText", [u[Sched] EXCEPT !.x = x])
  <2>1. (\A b \in Actor : ~ Writes(b, q)) /\ coreI[q] = 0 /\ swapI[q] = size[q]
    BY <1>1, <1>2, OutAlone DEF AtRest, Coming
  <2>2. PICK w, r : /\ Place(Sched, w, r)
                    /\ \/ w = "swap" /\ r = [u[Sched] EXCEPT !.op = "imagein"]
                       \/ w = "swapinText" /\ \E x : r = [u[Sched] EXCEPT !.x = x]
    BY <1>5 DEF Goes
  <2>3. /\ r.xs = "none" /\ r.p = q /\ r.ff = u[Sched].ff /\ r.call = u[Sched].call
        /\ SchedIn(w, r)
    BY <1>1, <2>2 DEF IsFrame, SchedIn
  <2>4. /\ pc'[Sched] = w /\ u'[Sched] = r
        /\ \A b \in Actor : b # Sched => pc'[b] = pc[b] /\ u'[b] = u[b]
    BY <1>2, <2>2, Moved
  <2>5. coreI'[q] = size[q] /\ \A p \in Proc : p # q => coreI'[p] = coreI[p]
    BY <1>5, ImageTypes
  <2>6. Lies(q)'
    BY <1>1, <1>3, <2>1, <2>3, <2>4, <2>5 DEF Lies, AtRest, Coming, Gone
  <2>7. Written(Sched)' /\ GivesBack(Sched)'
    BY <1>2, <2>3, <2>4 DEF Written, GivesBack, Held
  <2>8. \A p : p # q => ~ Coming(p) /\ ~ Coming(p)'
    BY <1>2, <2>3, <2>4 DEF Coming
  <2>9. Held'
    BY <1>1, <1>2, <1>3, <2>1, <2>3, <2>4, <2>5, <2>6, <2>7, <2>8, HeldBut DEF Held
  <2>10. Balanced
    BY <1>3, <1>5, <2>1, <2>5, ImageTypes DEF Balanced
  <2>11. QED BY <2>9, <2>10
<1>6. QED BY <1>1, <1>4, <1>5 DEF Swapin

LEMMA HeldSwapinText ==
  ASSUME Inv, Held, SwapinText, core \in Int PROVE Held' /\ Balanced
<1>1. PICK q \in Proc : /\ q = u[Sched].p /\ stat[q] = "run" /\ ~ load[q]
                        /\ IsFrame(u[Sched]) /\ u[Sched].xs = "none"
  BY Incoming DEF SwapinText
<1>2. pc[Sched] = "swapinText" /\ SchedIn(pc[Sched], u[Sched]) /\ Sched \in Actor
  BY Names, AtFacts DEF SwapinText, SchedIn
<1>3. UNCHANGED <<swapI, size, load, stat>>
  BY DEF SwapinText, procs
<1>4. u[Sched].ff
  BY <1>2, Names DEF Held, GivesBack
<1>5. ASSUME coreI' = coreI, NEW r, Goes(Sched, "swap", r),
             \/ r = [u[Sched] EXCEPT !.x = None, !.op = "imagein"]
             \/ r = [u[Sched] EXCEPT !.op = "textin"]
      PROVE  Held' /\ Balanced
  <2>1. r.xs = "none" /\ r.ff /\ r.p = u[Sched].p /\ SchedIn("swap", r)
    BY <1>1, <1>4, <1>5 DEF IsFrame, SchedIn
  <2>2. QED BY <1>1, <1>2, <1>3, <1>5, <2>1, SchedKeeps DEF Goes, Still, Balanced
<1>6. CASE /\ core' = core + size[q] /\ coreI' = [coreI EXCEPT ![q] = 0]
           /\ Goes(Sched, "victim", Idle(Sched))
  <2>1. /\ \A b \in Actor : ~ Writes(b, q)
        /\ coreI[q] = size[q] /\ swapI[q] = size[q]
    BY <1>1, <1>2, OutAlone DEF AtRest, Coming
  <2>2. /\ pc'[Sched] = "victim" /\ u'[Sched] = Idle(Sched)
        /\ \A b \in Actor : b # Sched => pc'[b] = pc[b] /\ u'[b] = u[b]
    BY <1>2, <1>6, Moved DEF Goes
  <2>3. coreI'[q] = 0 /\ \A p \in Proc : p # q => coreI'[p] = coreI[p]
    BY <1>6, ImageTypes
  <2>4. \A p : ~ Coming(p)'
    BY <2>2, SchedIdle DEF Coming
  <2>5. Lies(q)'
    BY <1>1, <1>3, <2>1, <2>3, <2>4 DEF Lies, AtRest, Gone
  <2>6. Written(Sched)' /\ GivesBack(Sched)' /\ u'[Sched].xs = "none"
    BY <2>2 DEF Written, GivesBack, Idle
  <2>7. \A p : p # q => ~ Coming(p)
    BY <1>1 DEF Coming
  <2>8. Held'
    BY <1>1, <1>2, <1>3, <2>1, <2>2, <2>3, <2>4, <2>5, <2>6, <2>7, HeldBut DEF Held
  <2>9. Balanced
    BY <1>3, <1>6, <2>1, <2>3, ImageTypes DEF Balanced
  <2>10. QED BY <2>8, <2>9
<1>7. QED BY <1>1, <1>5, <1>6 DEF SwapinText

LEMMA HeldSwapinTextRead ==
  ASSUME Inv, Held, SwapinTextRead PROVE Held' /\ Balanced
<1> DEFINE r == [u[Sched] EXCEPT !.x = None, !.op = "imagein"]
<1>1. /\ At(Sched, "done") /\ u[Sched].op = "textin" /\ Place(Sched, "swap", r) /\ Still
  BY DEF SwapinTextRead, Done, Goes, Still, space, procs
<1>2. IsFrame(u[Sched]) /\ u[Sched].xs = "none" /\ u[Sched].ff
  BY <1>1, Incoming, Names DEF Transfer, Held, GivesBack
<1>3. /\ r.xs = "none" /\ r.ff /\ r.p = u[Sched].p /\ SchedIn("swap", r)
      /\ SchedIn(pc[Sched], u[Sched])
  BY <1>1, <1>2 DEF IsFrame, SchedIn
<1> HIDE DEF r
<1>4. QED BY <1>1, <1>2, <1>3, SchedKeeps DEF Still, Balanced

LEMMA HeldSwapinEnd ==
  ASSUME Inv, Held, SwapinEnd, swap \in Int PROVE Held' /\ Balanced
<1>1. /\ At(Sched, "done") /\ u[Sched].op = "imagein"
  BY DEF SwapinEnd, Done
<1>2. PICK q \in Proc : /\ q = u[Sched].p /\ stat[q] = "run" /\ ~ load[q]
                        /\ u[Sched].xs = "none"
  BY <1>1, Incoming DEF Transfer
<1>3. /\ swap' = swap + size[q] /\ swapI' = [swapI EXCEPT ![q] = 0]
      /\ load' = [load EXCEPT ![q] = TRUE] /\ UNCHANGED <<coreI, stat, size>>
      /\ Place(Sched, "sched", Idle(Sched))
  BY <1>2 DEF SwapinEnd, Goes
<1>4. /\ \A b \in Actor : ~ Writes(b, q)
      /\ coreI[q] = size[q] /\ swapI[q] = size[q]
  BY <1>1, <1>2, OutAlone DEF AtRest, Coming, SchedIn
<1>5. /\ Sched \in Actor /\ u'[Sched] = Idle(Sched)
      /\ \A b \in Actor : b # Sched => pc'[b] = pc[b] /\ u'[b] = u[b]
      /\ \A p : ~ Coming(p)'
  BY <1>3, Names, Moved, SchedIdle DEF Coming
<1>6. /\ swapI'[q] = 0 /\ load'[q] /\ swapI' \in [Proc -> Int]
      /\ \A p \in Proc : p # q => swapI'[p] = swapI[p] /\ load'[p] = load[p]
  BY <1>3, ImageTypes
<1>7. Lies(q)' /\ Written(Sched)' /\ GivesBack(Sched)' /\ u'[Sched].xs = "none"
  BY <1>2, <1>3, <1>4, <1>5, <1>6 DEF Lies, AtRest, Gone, Written, GivesBack, Idle
<1>8. \A p : p # q => ~ Coming(p)
  BY <1>2 DEF Coming
<1>9. Held'
  BY <1>2, <1>3, <1>4, <1>5, <1>6, <1>7, <1>8, HeldBut
<1>10. Balanced
  BY <1>3, <1>4, <1>6, ImageTypes DEF Balanced
<1>11. QED BY <1>9, <1>10

(* The image of a victim is in core as a whole, and has nobody in xswap.   *)
LEMMA HeldSwapout ==
  ASSUME Inv, Held, Swapout PROVE Held' /\ Balanced
<1>1. pc[Sched] = "victim" /\ Sched \in Actor /\ UNCHANGED <<coreI, swapI, size, stat>>
  BY Names, AtFacts DEF Swapout, space
<1>2. /\ u[Sched].xs = "none" /\ ~ SchedIn(pc[Sched], u[Sched]) /\ IsFrame(u[Sched])
      /\ u[Sched].op \notin {"textin", "imagein"}
  BY <1>1, Frames DEF SchedFrame, FrameOK, InXswap, InXccdec, SchedIn, Transfer
<1>3. u[Sched].ff
  BY <1>1, Names DEF Held, GivesBack
<1>4. CASE load' = load /\ Sleeps(Sched, "runin", Idle(Sched))
  BY <1>1, <1>4, SchedTurns DEF Sleeps, Still, Balanced
<1>5. ASSUME NEW q \in Victims, load' = [load EXCEPT ![q] = FALSE],
             Goes(Sched, "xswap", [u[Sched] EXCEPT !.p = q, !.os = size[q], !.xs = "sched"])
      PROVE  Held' /\ Balanced
  <2> DEFINE r == [u[Sched] EXCEPT !.p = q, !.os = size[q], !.xs = "sched"]
  <2>1. q \in Proc /\ stat[q] = "run" /\ load[q] /\ ~ slock[q]
    BY DEF Victims, BadSleepers, Candidates
  <2>2. \A b \in Actor : ~ Writes(b, q)
    <3> SUFFICES ASSUME NEW b \in Actor, Writes(b, q) PROVE FALSE
      OBVIOUS
    <3>1. b \in Proc /\ u[b].xs # "none" /\ u[b].p = q
      BY <1>2 DEF Writes, Actor
    <3>2. pc[b] # "xswap"
      BY <3>1, AtFacts, Names DEF Swapout
    <3>3. QED BY <2>1, <3>1, <3>2, OutLocked
  <2>3. coreI[q] = size[q] /\ swapI[q] = 0
    BY <2>1, <2>2 DEF Held, Lies, AtRest, Gone
  <2>4. r.p = q /\ r.os = size[q] /\ r.xs = "sched" /\ r.ff /\ r.op = u[Sched].op
    BY <1>2, <1>3 DEF IsFrame
  <2>5. Place(Sched, "xswap", r)
    BY <1>5 DEF Goes
  <2> HIDE DEF r
  <2>6. /\ pc'[Sched] = "xswap" /\ u'[Sched] = r
        /\ \A b \in Actor : b # Sched => pc'[b] = pc[b] /\ u'[b] = u[b]
    BY <1>1, <2>5, Moved
  <2>7. Lies(q)' /\ Written(Sched)' /\ GivesBack(Sched)'
    BY <1>1, <2>1, <2>3, <2>4, <2>6 DEF Lies, Gone, Writes, Written, GivesBack
  <2>8. \A p : ~ Coming(p) /\ ~ Coming(p)'
    BY <1>2, <2>4, <2>6 DEF Coming, SchedIn
  <2>9. \A p \in Proc : p # q => load'[p] = load[p]
    BY <1>5, ImageTypes
  <2>10. Held'
    BY <1>1, <1>2, <2>1, <2>2, <2>4, <2>6, <2>7, <2>8, <2>9, HeldBut DEF Held
  <2>11. QED BY <1>1, <2>10 DEF Balanced
<1>6. QED BY <1>4, <1>5 DEF Swapout

-----------------------------------------------------------------------------
(* The free units are a number.                                            *)
Counted == core \in Int /\ swap \in Int

LEMMA CountedProcs ==
  ASSUME Inv, Held, Counted, NEW p \in Proc, Calls(p) \/ Rest(p)
  PROVE  Counted'
<1>1. \A q \in Proc : size[q] \in Int
  BY ImageTypes
<1>2. CASE Calls(p)
  <2>1. CASE \E c \in Proc : Fork(p, c)
    <3>1. core' \in {core, core - size[p]} /\ swap' = swap
      BY <2>1 DEF Fork, Newproc
    <3>2. QED BY <1>1, <3>1 DEF Counted
  <2>2. CASE \/ Wait(p) \/ Exit(p) \/ (\E n : Break(p, n))
             \/ \E f : Exec(p, f) \/ Open(p, f) \/ Close(p, f)
    <3>1. UNCHANGED <<core, swap>>
      BY <2>2 DEF Wait, Exit, Break, Exec, Open, Close, space
    <3>2. QED BY <3>1 DEF Counted
  <2>3. QED BY <1>2, <2>1, <2>2 DEF Calls
<1>3. CASE Expand(p)
  <2>1. u[p].new \in Int
    <3>1. At(p, "expand") /\ Quiet("expand")
      BY <1>3 DEF Expand, Quiet, Transfer
    <3>2. NewOK("expand", u[p])
      BY <3>1, QuietAt
    <3>3. PICK new : new = u[p].new
      OBVIOUS
    <3>4. new \in Sizes
      BY <3>2, <3>3 DEF NewOK
    <3>5. new \in Int
      BY <3>4, Names
    <3>6. QED BY <3>3, <3>5
  <2>2. core' \in {core, core + size[p] - u[p].new} /\ swap' = swap
    BY <1>3 DEF Expand
  <2>3. QED BY <1>1, <2>1, <2>2 DEF Counted
<1>4. CASE \/ Forked(p) \/ SwappedIn(p) \/ ExecNamei(p) \/ XallocLock(p) \/ XexpandOut(p)
           \/ XexpandRead(p) \/ Attached(p) \/ TextRead(p) \/ DataRead(p) \/ ExecEnd(p)
           \/ OpenNamei(p) \/ \E c \in Proc : Reap(p, c)
  BY <1>4 DEF Forked, SwappedIn, ExecNamei, XallocLock, XexpandOut, XexpandRead, Attached,
              TextRead, DataRead, ExecEnd, OpenNamei, Reap, space, Counted
<1>5. CASE Xfree(p) \/ Exited(p) \/ Xalloc(p) \/ Xexpand(p) \/ Xuntext(p)
  <2>1. CASE Xfree(p)
    <3>1. core' \in {core, core + 1} /\ swap' \in {swap, swap + 1}
      BY <2>1 DEF Xfree
    <3>2. QED BY <3>1 DEF Counted
  <2>2. CASE Exited(p)
    <3>1. core' = core + size[p] /\ swap' = swap
      BY <2>2 DEF Exited
    <3>2. QED BY <1>1, <3>1 DEF Counted
  <2>3. CASE Xalloc(p)
    <3>1. core' = core /\ swap' \in {swap, swap - 1}
      BY <2>3 DEF Xalloc
    <3>2. QED BY <3>1 DEF Counted
  <2>4. CASE Xexpand(p)
    <3>1. core' \in {core, core - 1} /\ swap' = swap
      BY <2>4 DEF Xexpand
    <3>2. QED BY <3>1 DEF Counted
  <2>5. CASE Xuntext(p)
    <3>1. core' = core /\ swap' \in {swap + 0, swap + 1}
      BY <2>5 DEF Xuntext
    <3>2. QED BY <3>1 DEF Counted
  <2>6. QED BY <1>5, <2>1, <2>2, <2>3, <2>4, <2>5
<1>6. QED BY <1>2, <1>3, <1>4, <1>5 DEF Rest

LEMMA CountedOthers ==
  ASSUME Inv, Held, Counted, Scheduling \/ \E a \in Actor : Swapping(a)
  PROVE  Counted'
<1>1. \A q \in Proc : size[q] \in Int /\ coreI[q] \in Int
  BY ImageTypes
<1>2. CASE Scheduling
  <2>1. Swapin \/ SwapinText \/ SwapinEnd => u[Sched].p \in Proc
    BY Incoming DEF Swapin, SwapinText, SwapinEnd, Done, Transfer
  <2>2. CASE Swapin \/ SwapinText \/ SwapinEnd
    BY <1>1, <2>1, <2>2 DEF Swapin, SwapinText, SwapinEnd, Counted
  <2>3. CASE SchedLoop \/ SwapinTextRead \/ Swapout
    BY <2>3 DEF SchedLoop, SwapinTextRead, Swapout, space, Counted
  <2>4. QED BY <1>2, <2>2, <2>3 DEF Scheduling
<1>3. ASSUME NEW a \in Actor, Swapping(a) PROVE Counted'
  <2>1. CASE Xswap(a)
    <3>1. u[a].p \in Proc
      <4>1. u[a].xs # "none"
        BY <2>1, AtFacts DEF Xswap, Inv, Control, ActorFrame, SchedFrame, ProcFrame, FrameOK,
                             InXswap
      <4>2. QED BY <4>1, Writer
    <3>2. QED BY <1>1, <2>1, <3>1 DEF Xswap, Counted
  <2>2. CASE ImageWritten(a)
    <3>1. u[a].xs # "none"
      BY <2>2, AtFacts DEF ImageWritten, Done, Inv, Control, ActorFrame, SchedFrame, ProcFrame,
                           FrameOK, InXswap, Transfer
    <3>2. u[a].ff => u[a].os \in Int
      BY <1>1, <3>1, Writer DEF Held, Written
    <3>3. QED BY <2>2, <3>2 DEF ImageWritten, Given, Counted
  <2>3. CASE \/ Swap(a) \/ SwapHeader(a) \/ XccdecLock(a) \/ TextWritten(a) \/ Switch(a)
             \/ Interrupt(a)
    <3>1. CASE Swap(a) \/ SwapHeader(a) \/ Switch(a) \/ Interrupt(a)
      <4>1. UNCHANGED <<core, swap>>
        BY <3>1 DEF Swap, SwapHeader, Switch, Interrupt, space
      <4>2. QED BY <4>1 DEF Counted
    <3>2. CASE XccdecLock(a) \/ TextWritten(a)
      <4>1. core' \in {core, core + 1} /\ swap' = swap
        BY <3>2 DEF XccdecLock, TextWritten
      <4>2. QED BY <4>1 DEF Counted
    <3>3. QED BY <2>3, <3>1, <3>2
  <2>4. QED BY <1>3, <2>1, <2>2, <2>3 DEF Swapping
<1>4. QED BY <1>2, <1>3

LEMMA HeldInit == Init => Held /\ Counted
<1> SUFFICES ASSUME Init PROVE Held /\ Counted
  OBVIOUS
<1>1. Inv
  BY InvInit
<1>2. /\ swapI = [p \in Proc |-> 0] /\ core = NCORE - 1 /\ swap = NSWAP
      /\ u = [a \in Actor |-> Idle(a)]
      /\ \A p \in Proc : /\ stat[p] = IF p = Root THEN "run" ELSE "free"
                         /\ size[p] = IF p = Root THEN 1 ELSE 0
                         /\ coreI[p] = IF p = Root THEN 1 ELSE 0
                         /\ load[p] = (p = Root)
  BY DEF Init
<1>3. \A a \in Actor : u[a] = Idle(a)
  BY <1>2
<1>4. \A a \in Actor : Written(a) /\ GivesBack(a)
  <2>1. \A a \in Actor : u[a].xs = "none" /\ u[a].ff
    <3>1. \A a \in Actor : Idle(a).xs = "none" /\ Idle(a).ff
      BY DEF Idle
    <3>2. QED BY <1>3, <3>1
  <2>2. QED BY <2>1 DEF Written, GivesBack
<1>5. \A p \in Proc : Lies(p)
  BY <1>2 DEF Lies, AtRest, Gone
<1>6. Counted
  BY <1>2, ProcessImageAssumption DEF Counted
<1>7. QED BY <1>2, <1>4, <1>5, <1>6 DEF Held

LEMMA HeldNext ==
  ASSUME Inv, Held, Counted, [Next]_vars
  PROVE  Held' /\ Counted' /\ [Balanced]_vars
<1>1. core \in Int /\ swap \in Int
  BY DEF Counted
<1>2. ASSUME NEW p \in Proc, Calls(p) PROVE Held' /\ Counted' /\ Balanced
  <2>1. CASE \E c \in Proc : Fork(p, c)
    BY <1>1, <1>2, <2>1, HeldFork, CountedProcs
  <2>2. CASE ~ \E c \in Proc : Fork(p, c)
    <3>1. \/ Wait(p) \/ Exit(p) \/ (\E n : Break(p, n))
          \/ \E f : Exec(p, f) \/ Open(p, f) \/ Close(p, f)
      BY <1>2, <2>2 DEF Calls
    <3>2. UNCHANGED <<coreI, swapI>>
      BY <3>1 DEF Wait, Exit, Break, Exec, Open, Close, space
    <3>3. QED BY <1>2, <3>1, <3>2, HeldCalls, CountedProcs DEF Balanced
  <2>3. QED BY <2>1, <2>2
<1>3. ASSUME NEW p \in Proc, Rest(p) PROVE Held' /\ Counted' /\ Balanced
  <2>1. CASE Forked(p) \/ Exited(p) \/ Expand(p) \/ Xexpand(p) \/ \E c \in Proc : Reap(p, c)
    BY <1>1, <1>3, <2>1, HeldForked, HeldExited, HeldExpand, HeldXexpand, HeldReap, CountedProcs
  <2>2. CASE \/ Xfree(p) \/ SwappedIn(p) \/ ExecNamei(p) \/ Xalloc(p) \/ XallocLock(p)
             \/ XexpandOut(p) \/ Attached(p) \/ DataRead(p) \/ OpenNamei(p) \/ Xuntext(p)
             \/ XexpandRead(p) \/ TextRead(p) \/ ExecEnd(p)
    <3>1. UNCHANGED <<coreI, swapI>>
      BY <2>2 DEF Xfree, SwappedIn, ExecNamei, Xalloc, XallocLock, XexpandOut, Attached, DataRead,
                  OpenNamei, Xuntext, XexpandRead, TextRead, ExecEnd, space
    <3>2. QED BY <1>3, <2>2, <3>1, HeldRest, CountedProcs DEF Balanced
  <2>3. QED BY <1>3, <2>1, <2>2 DEF Rest
<1>4. ASSUME NEW a \in Actor, Swapping(a) PROVE Held' /\ Counted' /\ Balanced
  <2>1. CASE Xswap(a) \/ ImageWritten(a)
    BY <1>1, <1>4, <2>1, HeldXswap, HeldImageWritten, CountedOthers
  <2>2. CASE \/ Swap(a) \/ SwapHeader(a) \/ XccdecLock(a) \/ TextWritten(a) \/ Switch(a)
             \/ Interrupt(a)
    <3>1. UNCHANGED <<coreI, swapI>>
      BY <2>2 DEF Swap, SwapHeader, XccdecLock, TextWritten, Switch, Interrupt, space
    <3>2. QED BY <1>4, <2>2, <3>1, HeldSwapping, CountedOthers DEF Balanced
  <2>3. QED BY <1>4, <2>1, <2>2 DEF Swapping
<1>5. CASE Scheduling
  BY <1>1, <1>5, HeldSchedLoop, HeldSwapin, HeldSwapinText, HeldSwapinTextRead, HeldSwapinEnd,
     HeldSwapout, CountedOthers DEF Scheduling
<1>6. CASE UNCHANGED vars
  BY <1>6 DEF vars, space, procs, place, Held, Lies, AtRest, Coming, Writes, Written, GivesBack,
              Counted
<1>7. QED BY <1>2, <1>3, <1>4, <1>5, <1>6 DEF Next

(* What an image gives back is what it has, and what it takes is what it   *)
(* has then: the size that xswap is given as the old one, the size in the  *)
(* entry when sched reads an image in, and that of exit and expand are the *)
(* size of the image at that time, whoever writes it out and for whom.     *)
THEOREM ImagesOnceHolds == Spec => ImagesOnce
<1>1. Init => Inv /\ Held /\ Counted
  BY InvInit, HeldInit
<1>2. Inv /\ Held /\ Counted /\ [Next]_vars => (Inv /\ Held /\ Counted)'
  BY InvNext, HeldNext
<1>3. Inv /\ Held /\ Counted /\ [Next]_vars => [Balanced]_vars
  BY HeldNext
<1>4. [Balanced]_vars <=>
      [\A p \in Proc :
         /\ coreI'[p] # coreI[p] => core' + coreI'[p] = core + coreI[p]
         /\ swapI'[p] # swapI[p] => swap' + swapI'[p] = swap + swapI[p]]_vars
  BY DEF Balanced
<1>5. QED BY <1>1, <1>2, <1>3, <1>4, PTL DEF Spec, ImagesOnce
=============================================================================
