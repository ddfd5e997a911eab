------------------------------- MODULE Channel -------------------------------
(***************************************************************************)
(* What a pipe promises (usr/man/man2/pipe.2, and the comments of          *)
(* sys/pipe.c): a first-in first-out queue of bytes between the processes  *)
(* that have its two ends open, into which every write of at most PIPSIZ   *)
(* bytes goes in one piece.                                                *)
(***************************************************************************)
EXTENDS Naturals, Sequences, SequencesExt

CONSTANTS
    Proc,       \* the processes
    Counts,     \* how much a write call writes
    PIPSIZ      \* the size of a write that is not divided

VARIABLES
    queue,      \* written and not read
    todo,       \* todo[p]: what the write call of p has still to write
    got,        \* got[p]: what a read call of p has delivered
    open        \* the ends that some process has open

vars == <<queue, todo, got, open>>

Init ==
    /\ queue = <<>>
    /\ todo = [p \in Proc |-> <<>>]
    /\ got = [p \in Proc |-> <<>>]
    /\ open = {"r", "w"}

(* The i-th unit that a call of p writes is <<p, i>>.                      *)
Write(p, n) ==
    /\ "w" \in open /\ todo[p] = <<>>
    /\ todo' = [todo EXCEPT ![p] = [i \in 1 .. n |-> <<p, i>>]]
    /\ UNCHANGED <<queue, got, open>>

(* One piece of at most PIPSIZ; the whole of a write that is not longer.   *)
Send(p) ==
    LET n == IF Len(todo[p]) < PIPSIZ THEN Len(todo[p]) ELSE PIPSIZ
    IN  /\ n > 0 /\ open = {"r", "w"}
        /\ Len(queue) < PIPSIZ
        /\ queue' = queue \o SubSeq(todo[p], 1, n)
        /\ todo' = [todo EXCEPT ![p] = SubSeq(@, n + 1, Len(@))]
        /\ UNCHANGED <<got, open>>

(* The write ends before it is complete: a signal, or nobody can read.     *)
GiveUp(p) ==
    /\ todo[p] # <<>>
    /\ todo' = [todo EXCEPT ![p] = <<>>]
    /\ UNCHANGED <<queue, got, open>>

Receive(p) ==
    /\ "r" \in open /\ got[p] = <<>>
    /\ \E n \in 1 .. Len(queue) :
          /\ got' = [got EXCEPT ![p] = SubSeq(queue, 1, n)]
          /\ queue' = SubSeq(queue, n + 1, Len(queue))
    /\ UNCHANGED <<todo, open>>

(* The reader has used what it was given.                                  *)
Taken(p) ==
    /\ got' = [got EXCEPT ![p] = <<>>]
    /\ UNCHANGED <<queue, todo, open>>

(* The last descriptor of an end is closed; with the second end the data   *)
(* that nobody can read any more are dropped.                              *)
Shut(e) ==
    /\ e \in open
    /\ open' = open \ {e}
    /\ UNCHANGED <<queue, todo, got>>

Drop == open = {} /\ queue' = <<>> /\ UNCHANGED <<todo, got, open>>

Next ==
    \/ \E p \in Proc : Send(p) \/ GiveUp(p) \/ Receive(p) \/ Taken(p)
    \/ \E p \in Proc, n \in Counts : Write(p, n)
    \/ \E e \in {"r", "w"} : Shut(e)
    \/ Drop

Spec == Init /\ [][Next]_vars
=============================================================================
