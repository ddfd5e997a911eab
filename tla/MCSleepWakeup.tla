--------------------------- MODULE MCSleepWakeup ---------------------------
(* Instances of SleepWakeup.  In both, two channels share a hash chain; in  *)
(* HashShared the scheduler's &runout is on it too, as it may be: HASH(x)   *)
(* is (x >> 5) & 077 and the channels are the addresses of buffers, inodes, *)
(* proc structures and terminals.                                           *)
EXTENDS SleepWakeup, TLC

CONSTANTS p1, p2, p3, c1, c2, cOut, cIn, cSwap

(* p3 is traced; the other two are interchangeable.                         *)
Symmetry == Permutations({p1, p2})

HashApart == (c1 :> 1) @@ (c2 :> 1) @@ (cIn :> 1) @@ (cOut :> 2) @@ (cSwap :> 3)
HashShared == (c1 :> 1) @@ (c2 :> 1) @@ (cIn :> 2) @@ (cOut :> 1) @@ (cSwap :> 3)
=============================================================================
