---------------------------- MODULE MCFileSystem ----------------------------
(* Instances of FileSystem for TLC.  Slots are not ordered: iget may take  *)
(* any free entry, the kernel takes the first.                             *)
EXTENDS FileSystem, TLC

DataSymmetric == Permutations(Slot) \cup Permutations(Blk) \cup Permutations(Name)

(* The processes are alike unless some of them are the super user's.       *)
Symmetric == Permutations(Proc) \cup DataSymmetric
=============================================================================
