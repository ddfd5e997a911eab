--------------------------- MODULE MCBufferCache ---------------------------
(* Instances of BufferCache for TLC: the mixes of callers that the runs    *)
(* use.  b1, b2 and b3 are blocks; reads ahead and bmap pair them.         *)
EXTENDS BufferCache, TLC

CONSTANTS b1, b2, b3

T(o, b, r, g) == [op |-> o, blk |-> b, ra |-> r, rel |-> g]

Sync  == T("bflush", None, None, "brelse")
Empty == T("geteblk", None, None, "brelse")

(* readi, writei (part of a block and a whole one), exec's bawrite, free's *)
(* bwrite, geteblk of a hole, sync.                                        *)
FileTasks ==
  {T("bread", b, None, "brelse") : b \in Blk}
    \cup {T("bread", b1, None, "bdwrite"), T("getblk", b2, None, "bdwrite"),
          T("getblk", b1, None, "bawrite"), T("getblk", b2, None, "bwrite"),
          Sync}

(* Those that hold one buffer while they wait for another: read-ahead over *)
(* the same blocks in two directions, as two readers of the block device   *)
(* can ask for, and bmap; with a reader that delays its write, and an      *)
(* empty block.                                                            *)
HolderTasks ==
  {T("breada", b1, b2, "brelse"), T("breada", b2, b1, "brelse"),
   T("bmap", b1, b2, "bdwrite"), T("bread", b2, None, "bdwrite"), Empty}

Symmetric == Permutations(Proc) \cup Permutations(Buf) \cup Permutations(Data)
============================================================================
