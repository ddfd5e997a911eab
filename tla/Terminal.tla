------------------------------ MODULE Terminal ------------------------------
(***************************************************************************)
(* The console in its usual mode (neither RAW nor CBREAK, with echo): the  *)
(* queues of dev/tty.c, read, write and TIOCSETP on one side, the keyboard *)
(* interrupt and the timer of dev/sc.c on the other.                       *)
(*                                                                         *)
(* A process that has the processor, cpu, keeps it until it sleeps or      *)
(* returns; its steps are the code between two places where an interrupt   *)
(* may come in.  The characters of a key matter only as far as canon tells *)
(* them apart, those of the output queue only by their number; the count   *)
(* of a read or write is any.                                              *)
(***************************************************************************)
EXTENDS Integers, Sequences, FiniteSets

CONSTANTS
  Proc,      \* the processes that have the terminal open
  None,
  Key,       \* the keys in use
  TTYHOG,    \* more than this in the raw queue is thrown away
  CANBSIZ,   \* the length of canonb, less the two that canon skips
  TTHIWAT,   \* a writer waits above this
  TTLOWAT    \* and is woken at this

(* char is any other key; a queue may hold "delim", 0377, as well.         *)
Keys == {"char", "erase", "kill", "nl", "eof", "stop", "start", "intr"}
Chars == {"char", "erase", "kill", "nl", "eof"}

ASSUME TerminalAssumption ==
  /\ None \notin Proc /\ Key \subseteq Keys
  /\ TTYHOG \in Nat /\ CANBSIZ \in Nat \ {0}
  /\ TTLOWAT \in Nat /\ TTHIWAT \in Nat /\ TTLOWAT <= TTHIWAT

VARIABLES
  rawq, canq,      \* t_rawq and t_canq
  outq,            \* t_outq.c_cc
  delct,           \* t_delct
  stopped, asleep, \* TTSTOP and ASLEEP in t_state
  tout,            \* scxint is in the callout table
  pc,              \* where a process is
  line, last,      \* canonb, as far as it is filled, and the last key taken
  cpu,             \* the process that has the processor
  cut, early, split \* see NoFalseEof

queues == <<rawq, canq, delct>>
output == <<outq, stopped, asleep, tout>>
canonb == <<line, last, cut, early, split>>
place == <<pc, cpu>>
vars == <<queues, output, canonb, place>>

Init ==
  /\ rawq = <<>> /\ canq = <<>> /\ outq = 0 /\ delct = 0
  /\ stopped = FALSE /\ asleep = FALSE /\ tout = FALSE
  /\ pc = [p \in Proc |-> "user"]
  /\ line = <<>> /\ last = "none" /\ cpu = None
  /\ cut = FALSE /\ early = FALSE /\ split = FALSE

At(p, where) == pc[p] = where /\ cpu \in {p, None}
Goes(p, where) == pc' = [pc EXCEPT ![p] = where] /\ cpu' = p
Stops(p, where) == pc' = [pc EXCEPT ![p] = where] /\ cpu' = None

(* Mutant: canon does not test again after its sleep.                      *)
ReaderTakes == "getc"

(* wakeup on t_rawq and on t_outq: the sleeper goes back to its test.      *)
Reader == "canon"
Woken(in, out) ==
  [p \in Proc |-> CASE in /\ pc[p] = "readsleep" -> Reader
                    [] out /\ pc[p] = "writesleep" -> "write"
                    [] out /\ pc[p] = "setsleep" -> "setp"
                    [] OTHER -> pc[p]]

(* scstart puts the whole queue on the screen, and enters scxint.          *)
Scstart(n) ==
  /\ outq' = 0
  /\ tout' = (tout \/ n > 0)

Ttstart(n, stop) ==
  IF stop THEN outq' = n /\ UNCHANGED tout ELSE Scstart(n)

(***************************************************************************)
(* ttwrite, and wflushtty for TIOCSETP.                                    *)
(***************************************************************************)
StartWrite(p) ==
  /\ At(p, "user")
  /\ Goes(p, "write")
  /\ UNCHANGED <<queues, output, canonb>>

(* Mutant: the writer sleeps without ASLEEP.                               *)
WriteTestNoFlag(p) ==
  /\ At(p, "write")
  /\ IF outq > TTHIWAT /\ stopped
       THEN Stops(p, "writesleep") /\ UNCHANGED <<outq, asleep, tout>>
       ELSE /\ Goes(p, "put")
            /\ IF outq > TTHIWAT THEN Scstart(outq) ELSE UNCHANGED <<outq, tout>>
            /\ UNCHANGED asleep
  /\ UNCHANGED <<queues, canonb, stopped>>

(* The test at spl5, which an interrupt cannot divide.                     *)
WriteTest(p) ==
  /\ At(p, "write")
  /\ IF outq > TTHIWAT /\ stopped
       THEN Stops(p, "writesleep") /\ asleep' = TRUE /\ UNCHANGED <<outq, tout>>
       ELSE /\ Goes(p, "put")
            /\ IF outq > TTHIWAT THEN Scstart(outq) ELSE UNCHANGED <<outq, tout>>
            /\ UNCHANGED asleep
  /\ UNCHANGED <<queues, canonb, stopped>>

WritePut(p) ==
  /\ At(p, "put")
  /\ outq' = outq + 1
  /\ Goes(p, "start") \/ Goes(p, "write")
  /\ UNCHANGED <<queues, stopped, asleep, tout, canonb>>

WriteEnd(p) ==
  /\ At(p, "start")
  /\ Ttstart(outq, stopped)
  /\ Stops(p, "user")
  /\ UNCHANGED <<queues, stopped, asleep, canonb>>

StartSetp(p) ==
  /\ At(p, "user")
  /\ Goes(p, "setp")
  /\ UNCHANGED <<queues, output, canonb>>

(* wflushtty calls t_oproc itself, whatever the state.                     *)
SetpSleep(p) ==
  /\ At(p, "setp") /\ outq > 0
  /\ Scstart(outq)
  /\ asleep' = TRUE
  /\ Stops(p, "setsleep")
  /\ UNCHANGED <<queues, stopped, canonb>>

(* Mutant: the count of delimiters stays.                                  *)
FlushttyKeeps ==
  /\ rawq' = <<>> /\ canq' = <<>> /\ UNCHANGED delct
  /\ outq' = 0 /\ stopped' = FALSE
  /\ cut' = (\E p \in Proc : pc[p] \in {"getc", "delct", "canonend", "first"})
  /\ split' = FALSE
  /\ early' = \E p \in Proc : pc[p] = "delct"

(* flushtty, and what it means to a process in canon, or about to take the *)
(* first character (see NoFalseEof).                                       *)
Flushtty ==
  /\ rawq' = <<>> /\ canq' = <<>> /\ delct' = 0
  /\ outq' = 0 /\ stopped' = FALSE
  /\ cut' = (\E p \in Proc : pc[p] \in {"getc", "delct", "canonend", "first"})
  /\ split' = FALSE
  /\ early' = \E p \in Proc : pc[p] = "delct"

SetpFlush(p) ==
  /\ At(p, "setp") /\ outq = 0
  /\ Flushtty
  /\ pc' = [Woken(TRUE, TRUE) EXCEPT ![p] = "user"] /\ cpu' = None
  /\ UNCHANGED <<asleep, tout, line, last>>

(***************************************************************************)
(* ttread and canon.                                                       *)
(***************************************************************************)
StartRead(p) ==
  /\ At(p, "user")
  /\ Goes(p, IF canq = <<>> THEN "canon" ELSE "first")
  /\ UNCHANGED <<queues, output, canonb>>

(* The test at spl5, which an interrupt cannot divide.                     *)
CanonSleep(p) ==
  /\ At(p, "canon") /\ delct = 0
  /\ Stops(p, "readsleep")
  /\ UNCHANGED <<queues, output, canonb>>

CanonBegin(p) ==
  /\ At(p, "canon") /\ delct # 0
  /\ Goes(p, "getc")
  /\ UNCHANGED <<queues, output, canonb>>

(* One character: it ends the line, changes it or is added to it.          *)
Edited(c) ==
  CASE c = "erase" -> SubSeq(line, 1, Len(line) - 1)
    [] c = "kill" -> <<>>
    [] c = "eof" -> line
    [] OTHER -> Append(line, c)

CanonGetc(p) ==
  LET c == Head(rawq) IN
  /\ At(p, "getc") /\ rawq # <<>>
  /\ rawq' = Tail(rawq)
  /\ IF c = "delim"
       THEN Goes(p, "delct") /\ UNCHANGED <<line, last>>
       ELSE /\ line' = Edited(c)
            /\ last' = c
            /\ Goes(p, IF Len(line') >= CANBSIZ THEN "canonend" ELSE "getc")
  /\ UNCHANGED <<canq, delct, output, cut, early, split>>

CanonEmpty(p) ==
  /\ At(p, "getc") /\ rawq = <<>>
  /\ Goes(p, "canonend")
  /\ UNCHANGED <<queues, output, canonb>>

CanonDelct(p) ==
  /\ At(p, "delct")
  /\ delct' = delct - 1
  /\ Goes(p, "canonend")
  /\ UNCHANGED <<rawq, canq, output, canonb>>

(* An empty line makes ttread return nothing.                              *)
CanonEnd(p) ==
  /\ At(p, "canonend")
  /\ canq' = canq \o line
  /\ line' = <<>> /\ last' = "none" /\ cut' = FALSE
  /\ split' = (Len(line) >= CANBSIZ /\ rawq # <<>> /\ rawq[1] = "delim")
  /\ IF line = <<>> THEN Stops(p, "user") ELSE Goes(p, "first")
  /\ UNCHANGED <<rawq, delct, output, early>>

(* The test of t_canq.c_cc, and then the character itself.  If the first   *)
(* test finds the queue empty, ttread returns nothing here too.            *)
CopyFirst(p) ==
  /\ At(p, "first")
  /\ IF canq = <<>> THEN Stops(p, "user") ELSE Goes(p, "passc")
  /\ cut' = FALSE
  /\ UNCHANGED <<queues, output, line, last, early, split>>

Copy(p) ==
  /\ At(p, "copy")
  /\ IF canq = <<>> THEN Stops(p, "user") ELSE Goes(p, "passc")
  /\ UNCHANGED <<queues, output, canonb>>

CopyPassc(p) ==
  /\ At(p, "passc")
  /\ canq' = IF canq = <<>> THEN <<>> ELSE Tail(canq)
  /\ Stops(p, "user") \/ Goes(p, "copy")
  /\ UNCHANGED <<rawq, delct, output, canonb>>

(* A signal ends a call that sleeps, or has been woken and not run yet.    *)
Interrupted(p) ==
  /\ pc[p] \in {"readsleep", "writesleep", "setsleep", "canon", "write", "setp"}
  /\ cpu = None
  /\ Stops(p, "user")
  /\ UNCHANGED <<queues, output, canonb>>

(***************************************************************************)
(* Interrupts.                                                             *)
(***************************************************************************)

(* ^S, which does nothing a second time, and ^Q, which needs a ^S.         *)
KeyStop ==
  /\ "stop" \in Key /\ ~ stopped
  /\ stopped' = TRUE
  /\ UNCHANGED <<queues, outq, asleep, tout, canonb, place>>

KeyStart ==
  /\ "start" \in Key /\ stopped
  /\ stopped' = FALSE
  /\ Scstart(outq)
  /\ UNCHANGED <<queues, asleep, canonb, place>>

(* The interrupt key; any other key on a queue that is too long.  Output   *)
(* that was stopped starts before it is thrown away.                       *)
KeyFlush ==
  /\ "intr" \in Key \/ Len(rawq) > TTYHOG
  /\ Flushtty
  /\ tout' = (tout \/ (stopped /\ outq > 0))
  /\ pc' = Woken(TRUE, TRUE)
  /\ UNCHANGED <<asleep, line, last, cpu>>

(* A key on a queue that is not.  The echo starts the output.              *)
KeyChar(c) ==
  /\ c \in Key \cap Chars /\ Len(rawq) <= TTYHOG
  /\ IF c \in {"nl", "eof"}
       THEN /\ rawq' = rawq \o <<c, "delim">>
            /\ delct' = delct + 1
            /\ pc' = Woken(TRUE, FALSE)
       ELSE rawq' = Append(rawq, c) /\ UNCHANGED <<delct, pc>>
  /\ stopped' = FALSE
  /\ Scstart(outq + IF c = "eof" THEN 0 ELSE 1)
  /\ UNCHANGED <<canq, asleep, canonb, cpu>>

(* The callout: it finds no process in a section at spl5.                  *)
Scxint ==
  /\ tout
  /\ outq' = IF stopped THEN outq ELSE 0
  /\ tout' = (~ stopped /\ outq > 0)
  /\ IF asleep /\ outq' <= TTLOWAT
       THEN asleep' = FALSE /\ pc' = Woken(FALSE, TRUE)
       ELSE UNCHANGED <<asleep, pc>>
  /\ UNCHANGED <<queues, stopped, canonb, cpu>>

(***************************************************************************)
(* The specification.                                                      *)
(***************************************************************************)
Calls(p) ==
  \/ Interrupted(p)
  \/ StartRead(p) \/ StartWrite(p) \/ StartSetp(p)

Rest(p) ==
  \/ WriteTest(p) \/ WritePut(p) \/ WriteEnd(p)
  \/ SetpSleep(p) \/ SetpFlush(p)
  \/ CanonSleep(p) \/ CanonBegin(p) \/ CanonGetc(p) \/ CanonEmpty(p)
  \/ CanonDelct(p) \/ CanonEnd(p)
  \/ CopyFirst(p) \/ Copy(p) \/ CopyPassc(p)

Keyboard ==
  \/ KeyStop \/ KeyStart \/ KeyFlush
  \/ \E c \in Chars : KeyChar(c)

Next == (\E p \in Proc : Calls(p) \/ Rest(p)) \/ Keyboard \/ Scxint

Spec == Init /\ [][Next]_vars

(* swtch takes every ready process again and again, since p_cpu lowers the *)
(* priority of those that run; the clock calls what is in the callouts.    *)
(* Nobody has to type.                                                     *)
FairSpec ==
  /\ Spec
  /\ \A p \in Proc : SF_vars(Rest(p))
  /\ WF_vars(Scxint)

(***************************************************************************)
(* Properties.                                                             *)
(***************************************************************************)
Places == {"user", "write", "put", "start", "writesleep", "setp", "setsleep", "canon",
           "readsleep", "getc", "delct", "canonend", "first", "copy", "passc"}

TypeOK ==
  /\ rawq \in Seq(Chars \cup {"delim"}) /\ canq \in Seq({"char", "nl"})
  /\ line \in Seq({"char", "nl"}) /\ last \in Chars \cup {"none"}
  /\ outq \in Nat /\ delct \in -1 .. Len(rawq) + 1
  /\ {stopped, asleep, tout, cut, early, split} \subseteq BOOLEAN
  /\ pc \in [Proc -> Places]
  /\ cpu \in Proc \cup {None}

DelimsOf(q) == Cardinality({i \in 1 .. Len(q) : q[i] = "delim"})
Delims == DelimsOf(rawq)

(* t_delct is the "number of delimiters in raw q" (tty.h), one more while  *)
(* canon has taken one and not counted it down.  Only a flush that comes   *)
(* just then (early) leaves it one behind, until the next flush; as long   *)
(* as it is right nobody sleeps while a line waits in the queue.           *)
DelctCounts ==
  /\ TypeOK
  /\ delct + (IF early THEN 1 ELSE 0)
       = Delims + (IF \E p \in Proc : pc[p] = "delct" THEN 1 ELSE 0)
  /\ \A p \in Proc : pc[p] = "readsleep" /\ Delims > 0 => early

(* Who is between two places where it may sleep has the processor: what    *)
(* makes the count inductive, as only one process can be in canon.         *)
Running == {"put", "start", "getc", "delct", "canonend", "first", "copy", "passc"}
CpuOK == \A p \in Proc : pc[p] \in Running => cpu = p

DelctInv == DelctCounts /\ CpuOK

(* A read returns nothing only for an end of file key at the beginning of  *)
(* a line ("the standard end-of-file indication", tty(4)), whoever else    *)
(* reads and whatever is typed; but for three cases: the queues were       *)
(* flushed while canon was at work or between that and the first test of   *)
(* t_canq.c_cc in the loop of ttread (cut), t_delct was behind (early), or *)
(* the line before filled canonb exactly and left its delimiter (split).   *)
(* There are two places where it returns nothing: an empty line of canon,  *)
(* and that first test.                                                    *)
NoFalseEof ==
  [][\A p \in Proc :
       /\ CanonEnd(p) /\ line = <<>> => last \in {"eof", "erase", "kill"} \/ cut \/ early
                                         \/ (split /\ last = "none")
       /\ CopyFirst(p) /\ canq = <<>> => cut]_vars

(* If output is not stopped again and again, and the processor is free     *)
(* again and again (no endless write, no endless typing), every write and  *)
(* every TIOCSETP ends: the one who sleeps has left ASLEEP, and scxint is  *)
(* on its way or the start key will enter it.                              *)
WritesEnd ==
  <>[]~ stopped /\ []<>(cpu = None) =>
    \A p \in Proc : pc[p] \in {"writesleep", "setsleep"} ~> pc[p] = "user"
=============================================================================
