------------------------------- MODULE Callout -------------------------------
(***************************************************************************)
(* The callout table, src/usr/sys/sys/clock.c: timeout enters a function   *)
(* that clock calls after a number of ticks.  The table is a list that     *)
(* ends at the first entry without a function; each entry holds the ticks  *)
(* from the entry before it.                                               *)
(*                                                                         *)
(* Ticks come in two kinds.  One that interrupts code at the base level    *)
(* counts and then, at spl5, calls what has expired and closes the table   *)
(* up.  All others only count; spl5 lets the clock in, so they also occur  *)
(* between two steps of the former.  timeout runs at spl7, in one step; it *)
(* is called by the base code, by device handlers (none is let in at spl5) *)
(* and by the functions themselves.                                        *)
(*                                                                         *)
(* A timer stands for a function with its argument.  No caller enters one  *)
(* that is in the table already (tout of sc.c, TIMEOUT of tty.h, mtr of    *)
(* fd.c).  The time in the entry that ends the table and whatever is left  *)
(* beyond that entry are not read by anything, and are cleared here.       *)
(***************************************************************************)
EXTENDS Integers, FiniteSets, FiniteSetsExt

CONSTANTS
    Timer,          \* functions with their arguments
    NCALL,          \* entries of the table
    MaxTim,         \* bound: the longest time asked for
    MaxRunTicks,    \* bound: ticks while one clock calls functions
    MaxCopyTicks,   \* bound: ticks while the table is closed up, in all
    NoFunc          \* c_func of an entry that is not in use

ASSUME CalloutAssumption ==
    /\ NCALL \in Nat \ {0, 1} /\ MaxTim \in Nat \ {0}
    /\ MaxRunTicks \in Nat /\ MaxCopyTicks \in Nat
    /\ NoFunc \notin Timer

(* The table, and the memory that follows it.                              *)
Slot == 0 .. NCALL

Off == -1

VARIABLES
    func,       \* c_func and c_arg of each entry
    time,       \* c_time of each entry
    pc,         \* what the clock at spl5 does: "idle", "run", "func",
                \* "move", "load" or "store"
    p1, p2,     \* its pointers
    reg,        \* p1->c_time on its way to p2->c_time
    ticks,      \* ticks that interrupted its calls
    missed,     \* history: ticks that interrupted the closing up, so far
    due         \* history: ticks before the timer is due, Off if not entered

vars == <<func, time, pc, p1, p2, reg, ticks, missed, due>>

Init ==
    /\ func = [s \in Slot |-> NoFunc]
    /\ time = [s \in Slot |-> 0]
    /\ pc = "idle" /\ p1 = 0 /\ p2 = 0 /\ reg = 0 /\ ticks = 0 /\ missed = 0
    /\ due = [t \in Timer |-> Off]

InUse(s) == func[s] # NoFunc

(* The sums of all entries of w up to each one.                            *)
Sums(w) ==
    LET sum[s \in Slot] == IF s = 0 THEN w[0] ELSE sum[s - 1] + w[s]
    IN  sum

(* "update first non-zero time", and what it stands for.                   *)
Count ==
    LET first == Min({s \in Slot : ~InUse(s) \/ time[s] > 0} \cup {NCALL})
    IN  /\ time' = IF InUse(first) THEN [time EXCEPT ![first] = @ - 1] ELSE time
        /\ due' = [t \in Timer |-> IF due[t] > 0 THEN due[t] - 1 ELSE due[t]]

(* Mutant: the callouts are looked at when a tick expires the first entry, *)
(* not whenever the first entry has expired.                               *)
TickBaseOnExpiry ==
    /\ pc = "idle"
    /\ Count
    /\ pc' = IF InUse(0) /\ time[0] = 1 THEN "run" ELSE "idle"
    /\ ticks' = 0
    /\ UNCHANGED <<func, p1, p2, reg, missed>>

(* A tick that interrupts the base level.                                  *)
TickBase ==
    /\ pc = "idle"
    /\ Count
    /\ pc' = IF InUse(0) /\ time'[0] <= 0 THEN "run" ELSE "idle"
    /\ ticks' = 0
    /\ UNCHANGED <<func, p1, p2, reg, missed>>

(* A tick that interrupts code at a higher level, clock itself included.   *)
TickHigh ==
    /\ \/ pc = "idle" /\ UNCHANGED <<ticks, missed>>
       \/ /\ pc \in {"run", "func"} /\ ticks < MaxRunTicks
          /\ ticks' = ticks + 1 /\ UNCHANGED missed
       \/ /\ pc \in {"move", "load", "store"} /\ missed < MaxCopyTicks
          /\ missed' = missed + 1 /\ UNCHANGED ticks
    /\ Count
    /\ UNCHANGED <<func, pc, p1, p2, reg>>

(* Mutant: the time of the entry that follows is left as it was.           *)
EnterAlone(t, tim) ==
    LET upto == Sums(time)
        at == Min({s \in Slot : ~InUse(s) \/ upto[s] > tim})
    IN  /\ func' = [s \in Slot |-> IF s < at THEN func[s]
                                   ELSE IF s = at THEN t ELSE func[s - 1]]
        /\ time' = [s \in Slot |->
              IF s < at THEN time[s]
              ELSE IF s = at THEN tim - (upto[s] - time[s])
              ELSE time[s - 1]]

(* timeout: the place is before the first entry that expires later, whose  *)
(* own time is then counted from the new one.                              *)
EnterSorted(t, tim) ==
    LET upto == Sums(time)
        at == Min({s \in Slot : ~InUse(s) \/ upto[s] > tim})
        mine == IF at = 0 THEN tim ELSE tim - upto[at - 1]
    IN  /\ at < NCALL - 1       \* else panic("Timeout table overflow")
        /\ func' = [s \in Slot |-> IF s < at THEN func[s]
                                   ELSE IF s = at THEN t ELSE func[s - 1]]
        /\ time' = [s \in Slot |->
              IF s < at THEN time[s]
              ELSE IF s = at THEN mine
              ELSE IF s = at + 1 /\ InUse(at) THEN time[at] - mine
              ELSE time[s - 1]]

(* timeout called by base code, a device handler, or a function.           *)
Timeout(t, tim) ==
    /\ pc \in {"idle", "func"}
    /\ due[t] = Off
    /\ EnterSorted(t, tim)
    /\ due' = [due EXCEPT ![t] = tim]
    /\ UNCHANGED <<pc, p1, p2, reg, ticks, missed>>

(* The loop over what has expired: call it ...                             *)
Call ==
    /\ pc = "run" /\ InUse(p1) /\ time[p1] <= 0
    /\ pc' = "func"
    /\ due' = [due EXCEPT ![func[p1]] = Off]
    /\ UNCHANGED <<func, time, p1, p2, reg, ticks, missed>>

(* ... it returns ...                                                      *)
FuncReturn ==
    /\ pc = "func"
    /\ pc' = "run"
    /\ p1' = p1 + 1
    /\ UNCHANGED <<func, time, p2, reg, ticks, missed, due>>

(* Mutant: p1 has passed the entry that ended the loop.                    *)
RunEndPast ==
    /\ pc = "run" /\ (~InUse(p1) \/ time[p1] > 0)
    /\ pc' = "move"
    /\ p1' = IF InUse(p1) THEN p1 + 1 ELSE p1
    /\ p2' = 0
    /\ ticks' = 0
    /\ UNCHANGED <<func, time, reg, missed, due>>

(* ... and the loop ends.                                                  *)
RunEnd ==
    /\ pc = "run" /\ (~InUse(p1) \/ time[p1] > 0)
    /\ pc' = "move"
    /\ p2' = 0
    /\ ticks' = 0
    /\ UNCHANGED <<func, time, p1, reg, missed, due>>

(* The table is closed up: p2->c_func = p1->c_func, until there is none;   *)
Move ==
    /\ pc = "move"
    /\ IF InUse(p1)
       THEN /\ func' = [func EXCEPT ![p2] = func[p1]]
            /\ pc' = "load" /\ UNCHANGED <<time, p1, p2, ticks>>
       ELSE /\ func' = [s \in Slot |-> IF s < p2 THEN func[s] ELSE NoFunc]
            /\ time' = [s \in Slot |-> IF s < p2 THEN time[s] ELSE 0]
            /\ pc' = "idle" /\ p1' = 0 /\ p2' = 0 /\ ticks' = 0
    /\ UNCHANGED <<reg, missed, due>>

(* p2->c_time = p1->c_time, a load and a store; p1++, p2++.                *)
Load ==
    /\ pc = "load"
    /\ reg' = time[p1]
    /\ pc' = "store"
    /\ UNCHANGED <<func, time, p1, p2, ticks, missed, due>>

Store ==
    /\ pc = "store"
    /\ time' = [time EXCEPT ![p2] = reg]
    /\ pc' = "move"
    /\ p1' = p1 + 1 /\ p2' = p2 + 1
    /\ reg' = 0
    /\ UNCHANGED <<func, ticks, missed, due>>

Clock == Call \/ FuncReturn \/ RunEnd \/ Move \/ Load \/ Store

Next ==
    \/ TickBase \/ TickHigh \/ Clock
    \/ \E t \in Timer, tim \in 1 .. MaxTim : Timeout(t, tim)

Spec == Init /\ [][Next]_vars

(* The clock goes on, and keeps interrupting code at the base level: the   *)
(* kernel's sections at a higher level are short, idle is at spl0.         *)
FairSpec == Spec /\ WF_vars(TickBase) /\ WF_vars(Clock)

-----------------------------------------------------------------------------
(* TypeOK: every variable stays in its type.                               *)
TypeOK ==
    /\ func \in [Slot -> Timer \cup {NoFunc}]
    /\ time \in [Slot -> 0 .. MaxTim]
    /\ pc \in {"idle", "run", "func", "move", "load", "store"}
    /\ {p1, p2} \subseteq Slot
    /\ reg \in 0 .. MaxTim
    /\ ticks \in 0 .. MaxRunTicks /\ missed \in 0 .. MaxCopyTicks
    /\ due \in [Timer -> Off .. MaxTim]

(* The entries that stand for a timer that is still to be called: those    *)
(* already moved, and those from p1 to the end of the table.               *)
End == Min({s \in Slot : s >= p1 /\ ~InUse(s)} \cup {NCALL})
Live ==
    LET from == IF pc = "func" THEN p1 + 1 ELSE p1
        moved == IF pc = "store" \/ pc = "load" \/ pc = "move"
                 THEN 0 .. p2 - 1 ELSE {}
    IN  moved \cup from .. End - 1

(* The ticks that are left before each of them is called, as the table     *)
(* tells.                                                                  *)
LiveTime == [s \in Slot |-> IF s \in Live THEN time[s] ELSE 0]
Left == Sums(LiveTime)

(***************************************************************************)
(* OneEntryEach: the entries still to be called are one for each timer     *)
(* that was entered, at every moment of the call loop and of the closing   *)
(* up: none is lost or called twice, and the table keeps its type.         *)
(***************************************************************************)
OneEntryEach ==
    /\ TypeOK
    /\ {func[s] : s \in Live} = {t \in Timer : due[t] # Off}
    /\ \A r, s \in Live : func[r] = func[s] => r = s

(***************************************************************************)
(* OnTime: the times up to an entry add up to the ticks that are left      *)
(* before it is due: "fun(arg) is called in tim/HZ seconds ... decrementing *)
(* the first entry has the effect of updating all entries" (clock.c).      *)
(* Ticks that hit the closing up of the table can be forgotten (between    *)
(* Load and Store), and make a timer late by one each; nothing ever makes  *)
(* one early.                                                              *)
(***************************************************************************)
OnTime ==
    \A s \in Live : Left[s] - due[func[s]] \in 0 .. missed

(***************************************************************************)
(* What the invariants rest on.  The entries in use come first, and those  *)
(* that expired during one run of the calls are at most one for each timer *)
(* and tick: so the table is long enough if that many fit (RoomEnough),    *)
(* which timeout does not test when it enters a timer before the last one. *)
(***************************************************************************)
RoomEnough == IsFiniteSet(Timer) /\ Cardinality(Timer) * (MaxRunTicks + 2) < NCALL

Shape(n) ==
    /\ \A s \in Slot : InUse(s) <=> s < n
    /\ \A s \in Slot : s >= n => time[s] = 0
    /\ pc \in {"func", "load", "store"} => p1 < n

ShapeOK == \E n \in p1 .. NCALL - 1 : Shape(n)

PointersOK ==
    /\ pc \in {"run", "func"} =>
          \A s \in Slot : s < p1 \/ (s = p1 /\ (pc = "func" \/ p1 = 0)) => time[s] = 0
    /\ pc = "run" /\ p1 = 0 => InUse(0)
    /\ pc \in {"move", "load", "store"} => p2 < p1
    /\ pc \notin {"move", "load", "store"} => p2 = 0
    /\ pc \in {"load", "store"} => func[p2] = func[p1]
    /\ pc = "idle" => p1 = 0 /\ ticks = 0
    /\ pc # "store" => reg = 0
    /\ pc = "store" => reg >= time[p1]

ExpiredOK ==
    pc \in {"run", "func"} =>
        \A s \in Slot : (\A r \in 0 .. s : InUse(r) /\ time[r] = 0)
                          => s < Cardinality(Timer) * (ticks + 1)

(* Between Load and Store the entry on its way counts for what reg holds.  *)
TimesOK ==
    pc = "store" =>
        \A s \in Live : s >= p1 => Left[s] + (reg - time[p1]) - due[func[s]] \in 0 .. missed

CalloutInv == OneEntryEach /\ ShapeOK /\ PointersOK /\ ExpiredOK /\ OnTime /\ TimesOK

(***************************************************************************)
(* EachIsCalled: every timer that was entered is called, however many      *)
(* ticks only count, and whatever the functions enter again.               *)
(***************************************************************************)
EachIsCalled == \A t \in Timer : due[t] # Off ~> due[t] = Off
=============================================================================
