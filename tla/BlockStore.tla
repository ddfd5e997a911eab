----------------------------- MODULE BlockStore -----------------------------
(***************************************************************************)
(* What the buffer cache promises to the file system: every block is one   *)
(* register, whatever is cached, delayed or on its way to the disk.  A     *)
(* process that reads a block sees the value stored last, and has the      *)
(* block to itself until it stores a new value or lets it go.  A block     *)
(* changes only when a process that set out to write it stores a value,    *)
(* once for every time it set out.                                         *)
(***************************************************************************)
CONSTANTS Proc, Blk, Data, None

VARIABLES
  store,  \* the value of each block
  seen,   \* the block a process has read and holds, with the value it saw
  todo    \* the blocks a process has set out to write and has yet to store

vars == <<store, seen, todo>>

View == [blk : Blk, val : Data]

Init ==
  /\ store \in [Blk -> Data]
  /\ seen = [p \in Proc |-> None]
  /\ todo = [p \in Proc |-> {}]

Exclusive(p, b) == \A q \in Proc \ {p} : seen[q] = None \/ seen[q].blk # b

SetOut(p, B) ==
  /\ seen[p] = None
  /\ todo[p] = {}
  /\ todo' = [todo EXCEPT ![p] = B]
  /\ UNCHANGED <<store, seen>>

Fetch(p, b) ==
  /\ seen[p] = None
  /\ Exclusive(p, b)
  /\ seen' = [seen EXCEPT ![p] = [blk |-> b, val |-> store[b]]]
  /\ UNCHANGED <<store, todo>>

(* The process is done with what it read, or gives up what it set out for. *)
Drop(p) ==
  /\ seen[p] # None \/ todo[p] # {}
  /\ seen' = [seen EXCEPT ![p] = None]
  /\ todo' = [todo EXCEPT ![p] = {}]
  /\ UNCHANGED store

(* Storing to the block that was read ends the exclusive use of it.        *)
Store(p, b, d) ==
  /\ b \in todo[p]
  /\ Exclusive(p, b)
  /\ store' = [store EXCEPT ![b] = d]
  /\ todo' = [todo EXCEPT ![p] = @ \ {b}]
  /\ seen' = IF seen[p] # None /\ seen[p].blk = b
               THEN [seen EXCEPT ![p] = None]
               ELSE seen

Next == \E p \in Proc :
          \/ Drop(p)
          \/ \E B \in SUBSET Blk : SetOut(p, B)
          \/ \E b \in Blk : Fetch(p, b) \/ \E d \in Data : Store(p, b, d)

Spec == Init /\ [][Next]_vars
=============================================================================
