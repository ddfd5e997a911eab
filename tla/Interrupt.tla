------------------------------ MODULE Interrupt ------------------------------
(***************************************************************************)
(* Interrupt priorities, src/usr/sys/conf/mch.s.  The machine's interrupt  *)
(* controller is never masked: the assembler code at call1 looks at the    *)
(* word pl, which has a bit for each IRQ the running code lets in, and     *)
(* either calls the handler at once, with the pl of its device, or notes   *)
(* the IRQ in iq.  Whoever changes pl (spl0 ... spl7, splx, the return     *)
(* from a handler) calls unqint, which takes from iq what pl lets in.      *)
(* The clock handler, sys/clock.c, lowers pl itself when it interrupted    *)
(* code at the base level.                                                 *)
(*                                                                         *)
(* Hardware interrupts are off (cli) in unqint and from the entry of an    *)
(* interrupt until pl is set, so these are single steps here.  A process   *)
(* switch is made by swtch, at spl0, and is seen as the base code going on.*)
(* Intr in a name tells it from that of Callout, the code run at spl5.     *)
(***************************************************************************)
EXTENDS Naturals, Sequences

CONSTANTS
    IRQ,        \* the lines in use, among 0 .. 15
    MaxNest     \* bound: no more than this many handlers on the stack

(* The names of the levels: spl0, spl1, spl4 ... spl7.                     *)
Level == {0, 1, 4, 5, 6, 7}

(* .set IPL0,0xffff  IPL1,0xfdfb  IPL4,0xfd41  IPL5,0xbd01  IPL6,0xbd00    *)
Mask == [l \in Level |->
            CASE l = 0 -> 65535 [] l = 1 -> 65019 [] l = 4 -> 64833
              [] l = 5 -> 48385 [] l = 6 -> 48384 [] l = 7 -> 0]

(* The IRQs that a level lets in: the bits of its mask.                    *)
LetIn(l) == {i \in IRQ : (Mask[l] \div 2^i) % 2 = 1}

(* _ipltbl: the level at which the handler of an IRQ runs; the lines that  *)
(* no device uses have mask 0, which is IPL7.                              *)
Ipl(i) == IF i = 0 THEN 6
          ELSE IF i \in {1, 3, 4} THEN 4
          ELSE IF i \in {6, 14, 15} THEN 5
          ELSE 7

ASSUME IrqAssumption == IRQ \subseteq 0 .. 15 /\ MaxNest \in Nat

VARIABLES
    pl,         \* the level of the running code
    iq,         \* the IRQs noted
    stack,      \* the handlers that have not returned, the running one last
    unq         \* the running code is in unqint

intrVars == <<pl, iq, stack, unq>>

(* A handler's frame: its IRQ, the pl that its return restores, and how    *)
(* far it is: at its own level, in a section at spl6, or (clock) in the    *)
(* part that runs at spl5 or spl1.                                         *)
Frame == [irq : IRQ, saved : Level, at : {"own", "spl6", "callout", "bolt"}]

IntrInit == pl = 7 /\ iq = {} /\ stack = <<>> /\ unq = FALSE

Top == stack[Len(stack)]
SetTop(at) == stack' = [stack EXCEPT ![Len(stack)].at = at]

(* 2: in call1: push pl, set it from ipltbl, sti, call the handler.        *)
Enter(i) ==
    /\ stack' = Append(stack, [irq |-> i, saved |-> pl, at |-> "own"])
    /\ pl' = Ipl(i)
    /\ unq' = FALSE

(* Mutant: one IRQ only is remembered.                                     *)
RaiseForgets(i) ==
    /\ ~unq /\ Len(stack) < MaxNest
    /\ IF i \in LetIn(pl) THEN Enter(i) /\ UNCHANGED iq
                          ELSE iq' = {i} /\ UNCHANGED <<pl, stack, unq>>

(* Mutant: the mask is not looked at while a handler is running.           *)
RaiseUnmasked(i) ==
    /\ ~unq /\ Len(stack) < MaxNest
    /\ IF i \in LetIn(pl) \/ stack # <<>>
       THEN Enter(i) /\ UNCHANGED iq
       ELSE iq' = iq \cup {i} /\ UNCHANGED <<pl, stack, unq>>

(* A device interrupts: bt ecx,pl; bts ecx,iq.                             *)
Raise(i) ==
    /\ ~unq /\ Len(stack) < MaxNest
    /\ IF i \in LetIn(pl) THEN Enter(i) /\ UNCHANGED iq
                          ELSE iq' = iq \cup {i} /\ UNCHANGED <<pl, stack, unq>>

(* unqint: bsf takes the lowest IRQ that pl lets in; it loops until there  *)
(* is none.                                                                *)
Unqint ==
    /\ unq
    /\ \/ /\ iq \cap LetIn(pl) = {}
          /\ unq' = FALSE
          /\ UNCHANGED <<pl, iq, stack>>
       \/ \E i \in iq \cap LetIn(pl) :
             /\ \A h \in iq \cap LetIn(pl) : i <= h
             /\ iq' = iq \ {i}
             /\ Enter(i)

(* Base code calls spl0 ... spl7 or splx.                                  *)
Spl(l) ==
    /\ stack = <<>> /\ ~unq
    /\ l # pl
    /\ pl' = l
    /\ unq' = TRUE
    /\ UNCHANGED <<iq, stack>>

Running(at) == stack # <<>> /\ ~unq /\ Top.at = at

(* A handler calls spl6 (wakeup, brelse) ...                               *)
HandlerSpl6 ==
    /\ Running("own") /\ pl < 6
    /\ SetTop("spl6")
    /\ pl' = 6
    /\ unq' = TRUE
    /\ UNCHANGED iq

(* ... and splx.                                                           *)
HandlerSplx ==
    /\ Running("spl6")
    /\ SetTop("own")
    /\ pl' = Ipl(Top.irq)
    /\ unq' = TRUE
    /\ UNCHANGED iq

(* Mutant: the callouts are run whatever code was interrupted.             *)
ClockCalloutAlways ==
    /\ Running("own") /\ Top.irq = 0
    /\ SetTop("callout")
    /\ pl' = 5
    /\ unq' = TRUE
    /\ UNCHANGED iq

(* clock: BASEPRI(tr.pl) returns unless pl was IPL0; the callouts, at spl5. *)
ClockCallout ==
    /\ Running("own") /\ Top.irq = 0 /\ Top.saved = 0
    /\ SetTop("callout")
    /\ pl' = 5
    /\ unq' = TRUE
    /\ UNCHANGED iq

(* clock, once a second: "lightning bolt", at spl1.                        *)
ClockBolt ==
    /\ stack # <<>> /\ ~unq /\ Top.at \in {"own", "callout"}
    /\ Top.irq = 0 /\ Top.saved = 0
    /\ SetTop("bolt")
    /\ pl' = 1
    /\ unq' = TRUE
    /\ UNCHANGED iq

(* The handler returns: popl pl, call unqint, iret.                        *)
Return ==
    /\ stack # <<>> /\ ~unq /\ Top.at # "spl6"
    /\ pl' = Top.saved
    /\ stack' = SubSeq(stack, 1, Len(stack) - 1)
    /\ unq' = TRUE
    /\ UNCHANGED iq

IntrNext ==
    \/ \E i \in IRQ : Raise(i)
    \/ \E l \in Level : Spl(l)
    \/ Unqint \/ HandlerSpl6 \/ HandlerSplx
    \/ ClockCallout \/ ClockBolt \/ Return

(***************************************************************************)
(* Handlers return, and the base code comes back to spl0 (swtch, idle and  *)
(* the return to user mode are at spl0) once interrupts leave them the     *)
(* time.  Strong, for a section at a higher level disables both.           *)
(***************************************************************************)
IntrFairness ==
    /\ WF_intrVars(Unqint) /\ WF_intrVars(HandlerSplx)
    /\ SF_intrVars(Return) /\ SF_intrVars(Spl(0))

IntrSpec == IntrInit /\ [][IntrNext]_intrVars

IntrFairSpec == IntrSpec /\ IntrFairness

-----------------------------------------------------------------------------
(* IntrTypeOK: every variable stays in its type.                           *)
IntrTypeOK ==
    /\ pl \in Level
    /\ iq \subseteq IRQ
    /\ stack \in Seq(Frame)
    /\ unq \in BOOLEAN

(***************************************************************************)
(* SplExcludes: a handler only ever runs on top of code at a lower level   *)
(* than its device's, so that a section at spl n is not entered by the     *)
(* handlers of level n and below, nor a handler by itself.  The kernel's   *)
(* critical sections (sleep, wakeup, getblk, iowait ...) rest on it.       *)
(***************************************************************************)
SplExcludes == \A k \in 1 .. Len(stack) : Ipl(stack[k].irq) > stack[k].saved

(***************************************************************************)
(* ClockOnce: however clock interrupts nest, one instance at most is past  *)
(* the test of BASEPRI, in the callouts or the once-a-second part; and the *)
(* handlers never nest deeper than clock, terminal, disk, clock.           *)
(***************************************************************************)
ClockOnce ==
    \A j, k \in 1 .. Len(stack) :
        {stack[j].at, stack[k].at} \subseteq {"callout", "bolt"} => j = k

(***************************************************************************)
(* NotedIsHandled: if the devices are quiet from some time on, an          *)
(* interrupt that was noted is handled.  (While a device of a low IRQ      *)
(* number keeps interrupting, unqint may take it for ever.)                *)
(***************************************************************************)
NotedIsHandled ==
    <>[][\A i \in IRQ : ~Raise(i)]_intrVars =>
        \A i \in IRQ :
            i \in iq ~> \E k \in 1 .. Len(stack) : stack[k].irq = i
=============================================================================
