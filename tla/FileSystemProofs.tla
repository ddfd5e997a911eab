-------------------------- MODULE FileSystemProofs --------------------------
(***************************************************************************)
(* The inode table: counts, links and locks agree with what the processes  *)
(* do, an open file stays allocated, ialloc gives an inode to one file,    *)
(* and nobody waits for ever for a lock.  The blocks: each is in the free  *)
(* list, in one file or in the hands of one process.  For any number of    *)
(* processes, names, blocks, inodes and entries of the table; what ialloc  *)
(* gives out and the blocks, if everyone's open looks at the mode.         *)
(***************************************************************************)
EXTENDS FileSystem, FiniteSetTheorems, SequenceTheorems, WellFoundedInduction, TLAPS

-----------------------------------------------------------------------------
(* Sets of processes and of names that grow by one.                        *)
LEMMA OneMore ==
  ASSUME NEW A, IsFiniteSet(A), NEW S, NEW T, S \subseteq A, NEW a \in A, a \notin S,
         T = S \cup {a}
  PROVE  Cardinality(S) \in Nat /\ Cardinality(T) = Cardinality(S) + 1
BY FS_Subset, FS_AddElement, FS_CardinalityType

(* What a process counts for in i_count of an entry.                       *)
Ref(p, s) == HasRef(p) /\ u[p].ip = s
Refs(s) == {p \in Proc : HasRef(p) /\ u[p].ip = s}
Fds(s) == {p \in Proc : fd[p] = s}
CountAt(s) == inode[s].count = Cardinality(Fds(s)) + Cardinality(Refs(s))

(* The other processes are where they were, with what they had.            *)
Elsewhere(p) ==
  \A q \in Proc \ {p} : pc'[q] = pc[q] /\ u'[q] = u[q] /\ fd'[q] = fd[q]

(* A step of p takes or gives back one reference, or turns one into        *)
(* another.                                                                *)
CountKind(p, s) ==
  \/ /\ inode'[s].count = inode[s].count
     /\ \/ (fd'[p] = s <=> fd[p] = s) /\ (Ref(p, s)' <=> Ref(p, s))
        \/ fd[p] = s /\ fd'[p] # s /\ ~ Ref(p, s) /\ Ref(p, s)'
        \/ fd[p] # s /\ fd'[p] = s /\ Ref(p, s) /\ ~ Ref(p, s)'
  \/ /\ inode'[s].count = inode[s].count + 1
     /\ (fd'[p] = s <=> fd[p] = s) /\ ~ Ref(p, s) /\ Ref(p, s)'
  \/ /\ inode'[s].count = inode[s].count - 1
     /\ (fd'[p] = s <=> fd[p] = s) /\ Ref(p, s) /\ ~ Ref(p, s)'

LEMMA SetsFinite ==
  ASSUME NEW s
  PROVE  /\ IsFiniteSet(Fds(s)) /\ IsFiniteSet(Refs(s))
         /\ Cardinality(Fds(s)) \in Nat /\ Cardinality(Refs(s)) \in Nat
<1>1. IsFiniteSet(Proc) /\ Fds(s) \subseteq Proc /\ Refs(s) \subseteq Proc
  BY FileSystemAssumption DEF Fds, Refs
<1>2. QED BY <1>1, FS_Subset, FS_CardinalityType

LEMMA CountStep ==
  ASSUME NEW p \in Proc, Elsewhere(p), NEW s \in Slot, CountAt(s), CountKind(p, s)
  PROVE  CountAt(s)'
<1> DEFINE F == Fds(s)
           R == Refs(s)
           G == Fds(s)'
           S == Refs(s)'
<1>1. /\ F \subseteq Proc /\ R \subseteq Proc /\ G \subseteq Proc /\ S \subseteq Proc
      /\ IsFiniteSet(Proc)
  BY FileSystemAssumption DEF Fds, Refs
<1>2. \A q \in Proc : q # p => (q \in G <=> q \in F) /\ (q \in S <=> q \in R)
  BY DEF Fds, Refs, Elsewhere, HasRef
<1>3. /\ p \in F <=> fd[p] = s
      /\ p \in G <=> fd'[p] = s
      /\ p \in R <=> Ref(p, s)
      /\ p \in S <=> Ref(p, s)'
  BY DEF Fds, Refs, Ref
<1>4. Cardinality(F) \in Nat /\ Cardinality(R) \in Nat
  BY SetsFinite
<1>5. inode[s].count = Cardinality(F) + Cardinality(R)
  BY DEF CountAt
<1>6. (CountAt(s)') <=> inode'[s].count = Cardinality(G) + Cardinality(S)
  BY DEF CountAt
<1>7. Cardinality(G) = IF p \in F /\ p \notin G THEN Cardinality(F) - 1
                       ELSE IF p \notin F /\ p \in G THEN Cardinality(F) + 1
                       ELSE Cardinality(F)
  <2>1. CASE p \in F /\ p \notin G
    <3>1. F = G \cup {p}
      BY <1>1, <1>2, <2>1
    <3>2. Cardinality(G) \in Nat /\ Cardinality(F) = Cardinality(G) + 1
      BY <1>1, <2>1, <3>1, OneMore
    <3>3. QED BY <2>1, <3>2
  <2>2. CASE p \notin F /\ p \in G
    <3>1. G = F \cup {p}
      BY <1>1, <1>2, <2>2
    <3>2. QED BY <1>1, <2>2, <3>1, OneMore
  <2>3. CASE p \in F <=> p \in G
    <3>1. F = G
      BY <1>1, <1>2, <2>3
    <3>2. QED BY <2>3, <3>1
  <2>4. QED BY <2>1, <2>2, <2>3
<1>8. Cardinality(S) = IF p \in R /\ p \notin S THEN Cardinality(R) - 1
                       ELSE IF p \notin R /\ p \in S THEN Cardinality(R) + 1
                       ELSE Cardinality(R)
  <2>1. CASE p \in R /\ p \notin S
    <3>1. R = S \cup {p}
      BY <1>1, <1>2, <2>1
    <3>2. Cardinality(S) \in Nat /\ Cardinality(R) = Cardinality(S) + 1
      BY <1>1, <2>1, <3>1, OneMore
    <3>3. QED BY <2>1, <3>2
  <2>2. CASE p \notin R /\ p \in S
    <3>1. S = R \cup {p}
      BY <1>1, <1>2, <2>2
    <3>2. QED BY <1>1, <2>2, <3>1, OneMore
  <2>3. CASE p \in R <=> p \in S
    <3>1. R = S
      BY <1>1, <1>2, <2>3
    <3>2. QED BY <2>3, <3>1
  <2>4. QED BY <2>1, <2>2, <2>3
<1> HIDE DEF F, R, G, S
<1>9. QED BY <1>3, <1>4, <1>5, <1>6, <1>7, <1>8 DEF CountKind

(* Two references are two.                                                 *)
LEMMA TwoRefs ==
  ASSUME CountsOK, NEW p \in Proc, NEW s \in Slot, Ref(p, s), inode[s].count = 1,
         NEW q \in Proc
  PROVE  fd[q] # s /\ (Ref(q, s) => q = p)
<1>1. p \in Refs(s) /\ inode[s].count = Cardinality(Fds(s)) + Cardinality(Refs(s))
  BY DEF CountsOK, Ref, Refs, Fds
<1>2. Cardinality(Fds(s)) \in Nat /\ Cardinality(Refs(s)) \in Nat /\ IsFiniteSet(Refs(s))
      /\ IsFiniteSet(Fds(s))
  BY SetsFinite
<1>3. Cardinality(Refs(s)) # 0 /\ (fd[q] = s => Cardinality(Fds(s)) # 0)
  BY <1>1, <1>2, FS_EmptySet DEF Fds
<1>4. fd[q] # s
  BY <1>1, <1>2, <1>3
<1>5. ASSUME Ref(q, s), q # p PROVE FALSE
  <2>1. {p, q} \subseteq Refs(s)
    BY <1>1, <1>5 DEF Ref, Refs
  <2>2. Cardinality({p, q}) = 2
    <3>1. Cardinality({p}) = 1
      BY FS_Singleton
    <3>2. {p, q} = {p} \cup {q} /\ q \notin {p} /\ {p} \subseteq Proc
      BY <1>5
    <3>3. QED BY <3>1, <3>2, OneMore, FileSystemAssumption
  <2>3. 2 <= Cardinality(Refs(s))
    BY <1>2, <2>1, <2>2, FS_Subset
  <2>4. QED BY <1>1, <1>2, <2>3
<1>6. QED BY <1>4, <1>5

-----------------------------------------------------------------------------
(* A step of p touches only inodes that are unlocked or its own; an inode  *)
(* becomes free only in the hands of its only user.                        *)
Touches(p) ==
  \A s \in Slot :
    /\ inode'[s] = inode[s] \/ inode[s].lock \in {None, p}
    /\ inode[s].i.mode => inode'[s].i.mode \/ (Ref(p, s) /\ inode[s].count = 1)

(* It changes only a directory that it has locked.                         *)
DirsOf(p) ==
  /\ \A f \in Name : /\ dlock'[f] = dlock[f] \/ dlock[f] \in {None, p}
                     /\ dlock'[f] \in {dlock[f], None, p}
                     /\ dir'[f] = dir[f] \/ dlock[f] = p
  /\ u'[p].name # None /\ pc'[p] # "dlock" => dlock'[u'[p].name] = p
  /\ \A f \in Name : dlock'[f] = p =>
       /\ pc'[p] \notin {"idle", "dlock"}
       /\ \/ u'[p].name = f
          \/ /\ pc'[p] \in Freeing \cup {"iput", "ifree", "iupdat"}
             /\ u'[p].name = None /\ u'[p].then = "idle"

LocksOf(p) ==
  /\ pc'[p] \in Locking => u'[p].ip # None /\ inode'[u'[p].ip].lock = p
  /\ \A s \in Slot : \/ inode'[s].lock = inode[s].lock /\ inode[s].lock # p
                     \/ inode'[s].lock = p /\ pc'[p] \in Locking /\ u'[p].ip = s
                     \/ inode'[s].lock = None

(* Who has an inode in hand has its lock; whoever has it locked has it.    *)
LEMMA InHand ==
  ASSUME TypeOK, LocksOK, NEW p \in Proc, pc[p] \in Locking
  PROVE  u[p].ip \in Slot /\ inode[u[p].ip].lock = p
BY DEF TypeOK, LocksOK, Ip, Frame

(* None is none of the things it stands for the absence of.                *)
LEMMA NoneFacts ==
  /\ None \notin Proc /\ None \notin Slot /\ None \notin Blk /\ None \notin Name
  /\ None \notin Nat /\ None \notin Ino
  /\ None # "open" /\ None # "creat" /\ None # "unlink" /\ None # "write"
  /\ None # "close" /\ None # "sync"
  /\ 1 \in Ino /\ NINO \in Ino /\ Ino \subseteq Nat
BY FileSystemAssumption DEF CallNames, Ino

(* What a process knows at its place stays true while others run.          *)
LEMMA OthersPlaces ==
  ASSUME FilesInv, NEW p \in Proc, Elsewhere(p), Touches(p), DirsOf(p),
         NEW q \in Proc, q # p
  PROVE  PlaceOK(q)'
<1>1. pc'[q] = pc[q] /\ u'[q] = u[q] /\ fd'[q] = fd[q] /\ PlaceOK(q) /\ u[q] \in Frame
  BY DEF Elsewhere, FilesInv, CountsOK, TypeOK
<1>2. pc[q] \in Locking => Ip(q)' = Ip(q)
  <2>1. SUFFICES ASSUME pc[q] \in Locking PROVE inode'[u[q].ip] = inode[u[q].ip]
    BY <1>1 DEF Ip
  <2>2. u[q].ip \in Slot /\ inode[u[q].ip].lock = q
    BY <2>1, InHand DEF FilesInv, CountsOK
  <2>3. QED BY <2>2, NoneFacts DEF Touches
<1>3. ASSUME pc[q] = "plock", u[q].call = "close", q \notin Su PROVE Ip(q)'.i.mode
  <2>1. u[q].ip \in Slot /\ Ip(q).i.mode
    BY <1>1, <1>3, NoneFacts DEF PlaceOK, Frame, Allowed
  <2>2. Ref(q, u[q].ip)
    BY <1>3 DEF Ref, HasRef
  <2>3. ~ (Ref(p, u[q].ip) /\ inode[u[q].ip].count = 1)
    BY <2>1, <2>2, TwoRefs DEF FilesInv
  <2>4. inode'[u[q].ip].i.mode
    BY <2>1, <2>3 DEF Touches, Ip
  <2>5. QED BY <1>1, <2>4 DEF Ip
<1>4. u[q].name # None /\ pc[q] # "dlock" => dir'[u[q].name] = dir[u[q].name]
  <2>1. SUFFICES ASSUME u[q].name # None, pc[q] # "dlock"
                 PROVE  dir'[u[q].name] = dir[u[q].name]
    OBVIOUS
  <2>2. dlock[u[q].name] = q /\ u[q].name \in Name
    BY <1>1, <2>1 DEF FilesInv, LocksOK, Frame
  <2>3. QED BY <2>2 DEF DirsOf
<1>5. QED
  BY <1>1, <1>2, <1>3, <1>4 DEF PlaceOK, Making, Writing, Freeing, Locking, Allowed

(* The locks after a step.                                                 *)
LEMMA LocksStep ==
  ASSUME FilesInv, NEW p \in Proc, Elsewhere(p), Touches(p), DirsOf(p), LocksOf(p)
  PROVE  LocksOK'
<1>1. /\ TypeOK /\ LocksOK
      /\ \A q \in Proc \ {p} : pc'[q] = pc[q] /\ u'[q] = u[q] /\ fd'[q] = fd[q]
  BY DEF FilesInv, CountsOK, Elsewhere
<1>2. ASSUME NEW q \in Proc, pc'[q] \in Locking PROVE u'[q].ip # None /\ Ip(q)'.lock = q
  <2>1. CASE q = p
    BY <1>2, <2>1 DEF LocksOf, Ip
  <2>2. CASE q # p
    <3>1. pc[q] \in Locking /\ u'[q] = u[q]
      BY <1>1, <1>2, <2>2
    <3>2. u[q].ip \in Slot /\ inode[u[q].ip].lock = q
      BY <1>1, <3>1, InHand
    <3>3. inode'[u[q].ip] = inode[u[q].ip]
      BY <2>2, <3>2, NoneFacts DEF Touches
    <3>4. QED BY <3>1, <3>2, <3>3, NoneFacts DEF Ip
  <2>3. QED BY <2>1, <2>2
<1>3. ASSUME NEW s \in Slot, NEW q \in Proc, inode'[s].lock = q
      PROVE  pc'[q] \in Locking /\ u'[q].ip = s
  <2>1. CASE q = p
    BY <1>3, <2>1, NoneFacts DEF LocksOf
  <2>2. CASE q # p
    <3>1. inode[s].lock = q
      BY <1>3, <2>2, NoneFacts DEF LocksOf
    <3>2. QED BY <1>1, <2>2, <3>1 DEF LocksOK
  <2>3. QED BY <2>1, <2>2
<1>4. ASSUME NEW q \in Proc, u'[q].name # None, pc'[q] # "dlock"
      PROVE  dlock'[u'[q].name] = q
  <2>1. CASE q = p
    BY <1>4, <2>1 DEF DirsOf
  <2>2. CASE q # p
    <3>1. u'[q] = u[q] /\ dlock[u[q].name] = q /\ u[q].name \in Name
      BY <1>1, <1>4, <2>2 DEF LocksOK, TypeOK, Frame
    <3>2. QED BY <2>2, <3>1, NoneFacts DEF DirsOf
  <2>3. QED BY <2>1, <2>2
<1>5. ASSUME NEW f \in Name, NEW q \in Proc, dlock'[f] = q
      PROVE  /\ pc'[q] \notin {"idle", "dlock"}
             /\ \/ u'[q].name = f
                \/ /\ pc'[q] \in Freeing \cup {"iput", "ifree", "iupdat"}
                   /\ u'[q].name = None /\ u'[q].then = "idle"
  <2>1. CASE q = p
    BY <1>5, <2>1 DEF DirsOf
  <2>2. CASE q # p
    <3>1. dlock[f] = q
      BY <1>5, <2>2, NoneFacts DEF DirsOf
    <3>2. QED BY <1>1, <2>2, <3>1 DEF LocksOK
  <2>3. QED BY <2>1, <2>2
<1>6. QED BY <1>2, <1>3, <1>4, <1>5 DEF LocksOK

(* The files that are open after a step of p.                              *)
FilesOf(p) == fd'[p] = fd[p] \/ fd'[p] = None \/ inode'[fd'[p]].i.mode \/ p \in Su

LEMMA AliveStep ==
  ASSUME FilesInv, NEW p \in Proc, Elsewhere(p), Touches(p), FilesOf(p)
  PROVE  OpenAlive'
<1>1. ASSUME NEW q \in Proc \ Su, fd[q] # None PROVE inode'[fd[q]].i.mode
  <2>1. fd[q] \in Slot /\ inode[fd[q]].i.mode
    BY <1>1 DEF FilesInv, CountsOK, TypeOK, OpenAlive
  <2>2. ~ (Ref(p, fd[q]) /\ inode[fd[q]].count = 1)
    BY <2>1, TwoRefs DEF FilesInv
  <2>3. QED BY <2>1, <2>2 DEF Touches
<1>2. ASSUME NEW q \in Proc \ Su, fd'[q] # None PROVE inode'[fd'[q]].i.mode
  <2>1. CASE fd'[q] = fd[q]
    BY <1>1, <1>2, <2>1
  <2>2. CASE fd'[q] # fd[q]
    BY <1>2, <2>2 DEF Elsewhere, FilesOf
  <2>3. QED BY <2>1, <2>2
<1>3. QED BY <1>2 DEF OpenAlive

(* s_flock and s_ilock: a step of p leaves them, or takes or gives one.    *)
ListsOf(p) ==
  /\ \/ s_flock' = s_flock /\ (pc'[p] \in Copying <=> pc[p] \in Copying)
     \/ ~ s_flock /\ s_flock' /\ pc'[p] \in Copying
     \/ pc[p] \in Copying /\ ~ s_flock' /\ pc'[p] \notin Copying
  /\ \/ s_ilock' = s_ilock /\ (pc'[p] = "iascan" <=> pc[p] = "iascan")
     \/ s_ilock' = s_ilock + 1 /\ pc[p] # "iascan" /\ pc'[p] = "iascan"
     \/ s_ilock' = 0

LEMMA ListsStep ==
  ASSUME FilesInv, NEW p \in Proc, Elsewhere(p), ListsOf(p), s_flock' \in BOOLEAN
  PROVE  ListsOK'
<1>1. /\ ListsOK /\ \A q \in Proc \ {p} : pc'[q] = pc[q]
      /\ s_flock \in BOOLEAN /\ s_ilock \in Nat
  BY DEF FilesInv, Elsewhere, CountsOK, TypeOK
<1>2. (s_flock <=> \E q \in Proc : pc[q] \in Copying)'
  <2>1. CASE s_flock' = s_flock /\ (pc'[p] \in Copying <=> pc[p] \in Copying)
    BY <1>1, <2>1 DEF ListsOK
  <2>2. CASE ~ s_flock /\ s_flock' /\ pc'[p] \in Copying
    BY <2>2
  <2>3. CASE pc[p] \in Copying /\ ~ s_flock' /\ pc'[p] \notin Copying
    BY <1>1, <2>3 DEF ListsOK
  <2>4. QED BY <2>1, <2>2, <2>3 DEF ListsOf
<1>3. (\A q, r \in Proc : pc[q] \in Copying /\ pc[r] \in Copying => q = r)'
  <2>1. CASE s_flock' = s_flock /\ (pc'[p] \in Copying <=> pc[p] \in Copying)
    BY <1>1, <2>1 DEF ListsOK
  <2>2. CASE ~ s_flock /\ s_flock' /\ pc'[p] \in Copying
    BY <1>1, <2>2 DEF ListsOK
  <2>3. CASE pc[p] \in Copying /\ ~ s_flock' /\ pc'[p] \notin Copying
    BY <1>1, <2>3 DEF ListsOK
  <2>4. QED BY <2>1, <2>2, <2>3 DEF ListsOf
<1>4. (s_ilock <= Cardinality(Scanners))'
  <2> DEFINE S == Scanners
             T == Scanners'
  <2>1. /\ S \subseteq Proc /\ T \subseteq Proc /\ IsFiniteSet(Proc)
        /\ \A q \in Proc \ {p} : q \in S <=> q \in T
        /\ p \in S <=> pc[p] = "iascan"
        /\ p \in T <=> pc'[p] = "iascan"
    BY <1>1, FileSystemAssumption DEF Scanners
  <2>2. s_ilock <= Cardinality(S)
    BY <1>1 DEF ListsOK
  <2>3. Cardinality(S) \in Nat /\ Cardinality(T) \in Nat
    BY <2>1, FS_Subset, FS_CardinalityType
  <2> HIDE DEF S, T
  <2>4. CASE s_ilock' = s_ilock /\ (pc'[p] = "iascan" <=> pc[p] = "iascan")
    <3>1. S = T
      BY <2>1, <2>4
    <3>2. s_ilock' <= Cardinality(T)
      BY <2>2, <2>4, <3>1
    <3>3. QED BY <3>2 DEF T
  <2>5. CASE s_ilock' = s_ilock + 1 /\ pc[p] # "iascan" /\ pc'[p] = "iascan"
    <3>1. T = S \cup {p} /\ p \notin S
      BY <2>1, <2>5
    <3>2. Cardinality(T) = Cardinality(S) + 1
      BY <2>1, <3>1, OneMore
    <3>3. s_ilock' <= Cardinality(T)
      BY <1>1, <2>2, <2>3, <2>5, <3>2
    <3>4. QED BY <3>3 DEF T
  <2>6. CASE s_ilock' = 0
    <3>1. s_ilock' <= Cardinality(T)
      BY <2>3, <2>6
    <3>2. QED BY <3>1 DEF T
  <2>7. QED BY <2>4, <2>5, <2>6 DEF ListsOf
<1>5. QED BY <1>2, <1>3, <1>4 DEF ListsOK

(* The entries that are not marked for update after a step.                *)
CleansOf ==
  \A s \in Slot :
    \/ /\ inode'[s].num = inode[s].num /\ inode'[s].i = inode[s].i
       /\ (inode'[s].upd <=> inode[s].upd) /\ (Present(s)' <=> Present(s))
       /\ inode[s].num # None => dinode'[inode[s].num] = dinode[inode[s].num]
    \/ inode'[s].upd
    \/ inode'[s].num = None
    \/ ~ Present(s)'
    \/ inode'[s].i = dinode'[inode'[s].num]

LEMMA CleanStep ==
  ASSUME CleanOK, CleansOf
  PROVE  CleanOK'
BY DEF CleanOK, CleansOf

(* i_number after a step: an entry keeps it, gives it up, or gets one that *)
(* no other entry has.                                                     *)
NumsOf ==
  /\ \A s \in Slot : inode'[s].num = None <=> inode'[s].count = 0
  /\ \A s \in Slot :
       \/ inode'[s].num = inode[s].num
       \/ inode'[s].num = None
       \/ \A t \in Slot \ {s} : inode'[t].num = inode[t].num /\ inode[t].num # inode'[s].num

Unique == \A s, t \in Slot : inode[s].num = inode[t].num /\ inode[s].num # None => s = t

LEMMA UniqueStep ==
  ASSUME FilesInv, NumsOf
  PROVE  Unique /\ Unique'
<1>1. Unique
  BY DEF FilesInv, CountsOK, Unique
<1>2. ASSUME NEW s \in Slot, NEW t \in Slot, inode'[s].num = inode'[t].num,
             inode'[s].num # None, s # t
      PROVE  FALSE
  <2>1. CASE inode'[s].num = inode[s].num /\ inode'[t].num = inode[t].num
    BY <1>1, <1>2, <2>1 DEF Unique
  <2>2. CASE inode'[s].num # inode[s].num
    <3>1. inode'[t].num = inode[t].num /\ inode[t].num # inode'[s].num
      BY <1>2, <2>2 DEF NumsOf
    <3>2. QED BY <1>2, <3>1
  <2>3. CASE inode'[t].num # inode[t].num
    <3>1. inode'[s].num = inode[s].num /\ inode[s].num # inode'[t].num
      BY <1>2, <2>3 DEF NumsOf
    <3>2. QED BY <1>2, <3>1
  <2>4. QED BY <2>1, <2>2, <2>3
<1>3. QED BY <1>1, <1>2 DEF Unique

LEMMA CountsStep ==
  ASSUME FilesInv, NEW p \in Proc, Elsewhere(p), \A s \in Slot : CountKind(p, s),
         NumsOf, TypeOK'
  PROVE  CountsOK'
<1>1. \A s \in Slot : CountAt(s)'
  <2>1. \A s \in Slot : CountAt(s)
    BY DEF FilesInv, CountsOK, CountAt, Fds, Refs
  <2>2. QED BY <2>1, CountStep
<1>2. Unique'
  BY UniqueStep
<1>3. QED BY <1>1, <1>2 DEF CountsOK, CountAt, Fds, Refs, NumsOf, Unique

-----------------------------------------------------------------------------
(* The inode n as it is now.                                               *)
LEMMA CurrentIn ==
  ASSUME Unique, NEW s \in Slot, NEW n, n # None, inode[s].num = n, Present(s)
  PROVE  Current(n) = inode[s].i
<1>1. \A t \in Slot : inode[t].num = n /\ Present(t) => t = s
  BY DEF Unique
<1>2. (CHOOSE t \in Slot : inode[t].num = n /\ Present(t)) = s
  BY <1>1
<1>3. QED BY <1>2 DEF Current

LEMMA CurrentOut ==
  ASSUME NEW n, \A s \in Slot : ~ (inode[s].num = n /\ Present(s))
  PROVE  Current(n) = dinode[n]
BY DEF Current

(* The same after a step.                                                  *)
LEMMA CurrentInNext ==
  ASSUME Unique', NEW s \in Slot, NEW n, n # None, inode'[s].num = n, Present(s)'
  PROVE  Current(n)' = inode'[s].i
<1>1. \A t \in Slot : inode'[t].num = n /\ Present(t)' => t = s
  BY DEF Unique
<1>2. (CHOOSE t \in Slot : inode'[t].num = n /\ Present(t)') = s
  BY <1>1
<1>3. QED BY <1>2 DEF Current

LEMMA CurrentOutNext ==
  ASSUME NEW n, \A s \in Slot : ~ (inode'[s].num = n /\ Present(s)')
  PROVE  Current(n)' = dinode'[n]
BY DEF Current

(* Links and mode of the inode n are the same after a step, or it is free. *)
SameLinks(n) ==
  /\ Current(n)'.nlink = Current(n).nlink
  /\ (Current(n)'.mode <=> Current(n).mode) \/ Current(n).nlink = 0

(* A step that keeps an inode where it is, but for its blocks.             *)
LEMMA TableKept ==
  ASSUME Unique, Unique', NEW n \in Ino, dinode'[n] = dinode[n],
         \A s \in Slot :
           inode[s].num = n \/ inode'[s].num = n =>
             /\ inode'[s].num = inode[s].num /\ (Present(s)' <=> Present(s))
             /\ inode'[s].i.nlink = inode[s].i.nlink
             /\ (inode'[s].i.mode <=> inode[s].i.mode) \/ inode[s].i.nlink = 0
  PROVE  SameLinks(n)
<1>0. n # None
  BY NoneFacts
<1>1. CASE \E s \in Slot : inode[s].num = n /\ Present(s)
  <2>1. PICK s \in Slot : inode[s].num = n /\ Present(s)
    BY <1>1
  <2>2. inode'[s].num = n /\ Present(s)'
    BY <2>1
  <2>3. Current(n) = inode[s].i
    BY <1>0, <2>1, CurrentIn
  <2>4. Current(n)' = inode'[s].i
    BY <1>0, <2>2, CurrentInNext
  <2>5. QED BY <2>1, <2>3, <2>4 DEF SameLinks
<1>2. CASE \A s \in Slot : ~ (inode[s].num = n /\ Present(s))
  <2>1. \A s \in Slot : ~ (inode'[s].num = n /\ Present(s)')
    BY <1>2
  <2>2. Current(n) = dinode[n]
    BY <1>2, CurrentOut
  <2>3. Current(n)' = dinode'[n]
    BY <2>1, CurrentOutNext
  <2>4. QED BY <2>2, <2>3 DEF SameLinks
<1>3. QED BY <1>1, <1>2

(* What links to an inode: entries, and processes about to make one.       *)
Entries(n) == {f \in Name : dir[f] = n}
Makers(n) == {p \in Proc : pc[p] = "wdir" /\ Ip(p).num = n}

LEMMA LinksFinite ==
  ASSUME NEW n
  PROVE  /\ IsFiniteSet(Entries(n)) /\ Cardinality(Entries(n)) \in Nat
         /\ IsFiniteSet(Makers(n)) /\ Cardinality(Makers(n)) \in Nat
<1>1. /\ IsFiniteSet(Name) /\ IsFiniteSet(Proc)
      /\ Entries(n) \subseteq Name /\ Makers(n) \subseteq Proc
  BY FileSystemAssumption DEF Entries, Makers
<1>2. QED BY <1>1, FS_Subset, FS_CardinalityType

(* Others that are about to make an entry keep their inode.                *)
LEMMA OtherMakers ==
  ASSUME FilesInv, NEW p \in Proc, Elsewhere(p), Touches(p), NEW n,
         NEW q \in Proc, q # p
  PROVE  q \in Makers(n)' <=> q \in Makers(n)
<1>1. pc'[q] = pc[q] /\ u'[q] = u[q]
  BY DEF Elsewhere
<1>2. pc[q] = "wdir" => Ip(q)' = Ip(q)
  <2>1. SUFFICES ASSUME pc[q] = "wdir" PROVE Ip(q)' = Ip(q)
    OBVIOUS
  <2>2. u[q].ip \in Slot /\ inode[u[q].ip].lock = q
    BY <2>1, InHand DEF FilesInv, CountsOK, Locking
  <2>3. inode'[u[q].ip] = inode[u[q].ip]
    BY <2>2, NoneFacts DEF Touches
  <2>4. QED BY <1>1, <2>3 DEF Ip
<1>3. QED BY <1>1, <1>2 DEF Makers

LEMMA LinksAre ==
  LinksCounted <=>
    \A n \in Ino : /\ Current(n).nlink = Cardinality(Entries(n)) + Cardinality(Makers(n))
                   /\ Current(n).nlink > 0 => Current(n).mode
BY DEF LinksCounted, Entries, Makers

LEMMA LinksAreNext ==
  LinksCounted' <=>
    \A n \in Ino : /\ Current(n)'.nlink = Cardinality(Entries(n)') + Cardinality(Makers(n)')
                   /\ Current(n)'.nlink > 0 => Current(n)'.mode
BY DEF LinksCounted, Entries, Makers

LinksAt(n) == /\ Current(n).nlink = Cardinality(Entries(n)) + Cardinality(Makers(n))
              /\ Current(n).nlink > 0 => Current(n).mode

(* A step that neither makes nor removes an entry of an inode.             *)
LEMMA LinksSame ==
  ASSUME FilesInv, NEW n \in Ino, SameLinks(n), Entries(n)' = Entries(n),
         Makers(n)' = Makers(n)
  PROVE  LinksAt(n)'
<1>1. LinksAt(n)
  BY LinksAre DEF FilesInv, LinksAt
<1>2. Cardinality(Entries(n)) \in Nat /\ Cardinality(Makers(n)) \in Nat
  BY LinksFinite
<1>3. QED BY <1>1, <1>2 DEF SameLinks, LinksAt

LEMMA MakersKept ==
  ASSUME FilesInv, NEW p \in Proc, Elsewhere(p), Touches(p), NEW n,
         p \in Makers(n)' <=> p \in Makers(n)
  PROVE  Makers(n)' = Makers(n)
<1>1. \A q \in Proc : q \in Makers(n)' <=> q \in Makers(n)
  BY OtherMakers
<1>2. Makers(n) \subseteq Proc /\ Makers(n)' \subseteq Proc
  BY DEF Makers
<1>3. QED BY <1>1, <1>2

LEMMA LinksKept ==
  ASSUME FilesInv, NEW p \in Proc, Elsewhere(p), Touches(p), dir' = dir,
         pc[p] # "wdir", pc'[p] # "wdir", \A n \in Ino : SameLinks(n)
  PROVE  LinksCounted'
<1>1. ASSUME NEW n \in Ino PROVE LinksAt(n)'
  <2>1. Entries(n)' = Entries(n)
    BY DEF Entries
  <2>2. Makers(n)' = Makers(n)
    <3>1. p \in Makers(n)' <=> p \in Makers(n)
      BY DEF Makers
    <3>2. QED BY <3>1, MakersKept
  <2>3. QED BY <2>1, <2>2, LinksSame
<1>2. QED BY <1>1, LinksAreNext DEF LinksAt

(* All of it together.                                                     *)
LEMMA Whole ==
  ASSUME FilesInv, NEW p \in Proc, Elsewhere(p), TypeOK', Touches(p), DirsOf(p),
         LocksOf(p), FilesOf(p), ListsOf(p), CleansOf, NumsOf,
         \A s \in Slot : CountKind(p, s), PlaceOK(p)', LinksCounted'
  PROVE  FilesInv'
<1>1. CountsOK'
  BY CountsStep
<1>2. LocksOK'
  BY LocksStep
<1>3. OpenAlive'
  BY AliveStep
<1>4. ListsOK'
  BY ListsStep DEF TypeOK
<1>5. CleanOK'
  BY CleanStep DEF FilesInv
<1>6. \A q \in Proc : PlaceOK(q)'
  BY OthersPlaces
<1>7. QED BY <1>1, <1>2, <1>3, <1>4, <1>5, <1>6 DEF FilesInv

-----------------------------------------------------------------------------
(* Steps that leave i_number, i_nlink and the directories alone, and read  *)
(* no inode.                                                               *)
Minor(s) ==
  /\ inode'[s].num = inode[s].num
  /\ inode'[s].count = 0 <=> inode[s].count = 0
  /\ inode'[s].i.nlink = inode[s].i.nlink
  /\ (inode'[s].i.mode <=> inode[s].i.mode) \/ inode[s].i.nlink = 0
  /\ inode'[s].upd \/ (inode'[s].i = inode[s].i /\ ~ inode[s].upd)

LEMMA PresentKept ==
  ASSUME NEW p \in Proc, Elsewhere(p), pc[p] # "iread", pc'[p] # "iread", NEW s
  PROVE  Present(s)' <=> Present(s)
BY DEF Elsewhere, Present

LEMMA Ordinary ==
  ASSUME FilesInv, NEW p \in Proc, Elsewhere(p), TypeOK', Touches(p), DirsOf(p),
         LocksOf(p), FilesOf(p), ListsOf(p), \A s \in Slot : CountKind(p, s), PlaceOK(p)',
         dinode' = dinode, dir' = dir,
         pc[p] \notin {"wdir", "iread"}, pc'[p] \notin {"wdir", "iread"},
         \A s \in Slot : inode'[s] = inode[s] \/ Minor(s)
  PROVE  FilesInv'
<1>1. \A s \in Slot : Present(s)' <=> Present(s)
  BY PresentKept
<1>2. CleansOf
  BY <1>1 DEF CleansOf, Minor
<1>3. NumsOf
  BY DEF NumsOf, Minor, FilesInv, CountsOK
<1>4. LinksCounted'
  <2>1. Unique /\ Unique'
    BY <1>3, UniqueStep
  <2>2. ASSUME NEW n \in Ino PROVE SameLinks(n)
    <3>1. \A s \in Slot :
             /\ inode'[s].num = inode[s].num
             /\ inode'[s].i.nlink = inode[s].i.nlink
             /\ (inode'[s].i.mode <=> inode[s].i.mode) \/ inode[s].i.nlink = 0
      BY DEF Minor
    <3>2. QED BY <1>1, <2>1, <3>1, TableKept
  <2>3. QED BY <2>2, LinksKept
<1>5. QED BY <1>2, <1>3, <1>4, Whole

(* Of these, the steps that leave the table and the open files alone.      *)
LEMMA Quiet ==
  ASSUME FilesInv, NEW p \in Proc, Elsewhere(p), TypeOK', DirsOf(p), ListsOf(p), PlaceOK(p)',
         UNCHANGED <<inode, dinode, dir, fd>>,
         pc[p] \notin {"wdir", "iread"}, pc'[p] \notin {"wdir", "iread"},
         HasRef(p)' <=> HasRef(p), pc'[p] \in Locking <=> pc[p] \in Locking,
         HasRef(p) \/ pc[p] \in Locking => u'[p].ip = u[p].ip
  PROVE  FilesInv'
<1>1. LocksOK
  BY DEF FilesInv
<1>2. LocksOf(p)
  <2>1. pc'[p] \in Locking => u'[p].ip # None /\ inode'[u'[p].ip].lock = p
    BY <1>1 DEF LocksOK, Ip
  <2>2. ASSUME NEW s \in Slot, inode[s].lock = p PROVE pc'[p] \in Locking /\ u'[p].ip = s
    BY <1>1, <2>2 DEF LocksOK
  <2>3. QED BY <2>1, <2>2 DEF LocksOf
<1>3. Touches(p) /\ FilesOf(p)
  BY DEF Touches, FilesOf
<1>4. \A s \in Slot : CountKind(p, s)
  <2>1. TAKE s \in Slot
  <2>2. Ref(p, s)' <=> Ref(p, s)
    BY DEF Ref
  <2>3. QED BY <2>2 DEF CountKind
<1>5. QED BY <1>2, <1>3, <1>4, Ordinary

(* The parts of the invariant, and what Goto does.                         *)
LEMMA Parts ==
  ASSUME FilesInv, NEW p \in Proc
  PROVE  /\ TypeOK /\ LocksOK /\ ListsOK /\ PlaceOK(p) /\ u[p] \in Frame
         /\ pc[p] \in Locking => u[p].ip \in Slot /\ inode[u[p].ip].lock = p
BY InHand DEF FilesInv, CountsOK, TypeOK

LEMMA GotoDoes ==
  ASSUME TypeOK, NEW p \in Proc, NEW l \in Labels, Goto(p, l)
  PROVE  /\ pc' \in [Proc -> Labels] /\ cpu' \in Proc \cup {None} /\ pc'[p] = l
         /\ \A q \in Proc \ {p} : pc'[q] = pc[q]
BY DEF Goto, TypeOK

LEMMA NoFrameOK == NoFrame \in Frame
BY FileSystemAssumption DEF NoFrame, Frame, Labels

LEMMA ReturnDoes ==
  ASSUME TypeOK, NEW p \in Proc, Return(p)
  PROVE  /\ pc' \in [Proc -> Labels] /\ cpu' \in Proc \cup {None} /\ pc'[p] = "idle"
         /\ u' \in [Proc -> Frame] /\ u'[p] = NoFrame
         /\ \A q \in Proc \ {p} : pc'[q] = pc[q] /\ u'[q] = u[q]
<1>1. "idle" \in Labels
  BY DEF Labels
<1>2. QED BY <1>1, NoFrameOK, GotoDoes DEF Return, TypeOK

LEMMA PutdirDoes ==
  ASSUME TypeOK, NEW p \in Proc, Putdir(p)
  PROVE  /\ dlock' \in [Name -> Proc \cup {None}]
         /\ \A f \in Name : dlock'[f] = IF dlock[f] = p THEN None ELSE dlock[f]
BY DEF Putdir, TypeOK

-----------------------------------------------------------------------------
(* The system calls up to their first sleep.                               *)
LEMMA StartNameStep ==
  ASSUME FilesInv, NEW p \in Proc, StartName(p)
  PROVE  FilesInv'
<1>1. PICK c \in {"open", "creat", "unlink"}, f \in Name :
        /\ pc[p] = "idle" /\ c \in Calls
        /\ c = "unlink" \/ fd[p] = None
        /\ u' = [u EXCEPT ![p] = [NoFrame EXCEPT !.call = c, !.name = f]]
        /\ \/ dlock[f] = None /\ dlock' = [dlock EXCEPT ![f] = p] /\ Goto(p, "namei")
           \/ UNCHANGED dlock /\ Goto(p, "dlock")
  BY DEF StartName, Enter, At
<1>2. /\ TypeOK /\ LocksOK /\ ListsOK /\ PlaceOK(p) /\ u[p] \in Frame
      /\ UNCHANGED <<super, inode, dinode, dir, fd>>
  BY Parts DEF StartName
<1>3. u[p] = NoFrame
  BY <1>1, <1>2 DEF PlaceOK
<1>4. PICK l \in {"namei", "dlock"} :
        /\ Goto(p, l)
        /\ \/ dlock[f] = None /\ dlock' = [dlock EXCEPT ![f] = p] /\ l = "namei"
           \/ dlock' = dlock /\ l = "dlock"
  BY <1>1
<1>5. /\ pc' \in [Proc -> Labels] /\ cpu' \in Proc \cup {None} /\ pc'[p] = l
      /\ \A q \in Proc \ {p} : pc'[q] = pc[q]
  <2>1. l \in Labels
    BY DEF Labels
  <2>2. QED BY <1>2, <1>4, <2>1, GotoDoes
<1>6. /\ u' \in [Proc -> Frame]
      /\ u'[p] = [NoFrame EXCEPT !.call = c, !.name = f]
      /\ \A q \in Proc \ {p} : u'[q] = u[q]
  <2>1. [NoFrame EXCEPT !.call = c, !.name = f] \in Frame
    BY <1>1, NoFrameOK DEF Frame
  <2>2. QED BY <1>1, <1>2, <2>1 DEF TypeOK
<1>7. TypeOK'
  <2>1. dlock' \in [Name -> Proc \cup {None}]
    BY <1>2, <1>4 DEF TypeOK
  <2>2. QED BY <1>2, <1>5, <1>6, <2>1 DEF TypeOK, super
<1>8. DirsOf(p)
  BY <1>1, <1>2, <1>3, <1>4, <1>5, <1>6, NoneFacts DEF DirsOf, TypeOK, LocksOK, NoFrame
<1>9. PlaceOK(p)'
  BY <1>1, <1>2, <1>4, <1>5, <1>6, NoneFacts
     DEF PlaceOK, NoFrame, Making, Writing, Freeing
<1>10. ListsOf(p)
  BY <1>1, <1>2, <1>5 DEF ListsOf, Copying, super
<1>11. QED
  BY <1>1, <1>2, <1>5, <1>6, <1>7, <1>8, <1>9, <1>10, Quiet
     DEF Elsewhere, HasRef, Locking, Writing, Freeing

(* plock of inode s: for write of the open file, or for close of the file  *)
(* the process had.                                                        *)
Locks(p, c, s, l) ==
  /\ Lock(p, c, s, l) /\ c \in Calls
  /\ \/ pc[p] = "idle" /\ fd[p] = s
     \/ pc[p] = "plock" /\ u[p].ip = s /\ u[p].call = c /\ (c = "write" => fd[p] = s)
  /\ \/ c = "write" /\ l = "bmap" /\ fd' = fd
     \/ c = "close" /\ l = "iput" /\ fd' = [fd EXCEPT ![p] = None]
        /\ (inode[s].i.mode \/ p \in Su)
  /\ UNCHANGED <<super, dinode, dir, dlock>>

LEMMA LockStep ==
  ASSUME FilesInv, NEW p \in Proc, NEW c, NEW s \in Slot, NEW l, Locks(p, c, s, l)
  PROVE  FilesInv'
<1>1. /\ TypeOK /\ LocksOK /\ ListsOK /\ PlaceOK(p) /\ u[p] \in Frame
      /\ UNCHANGED <<super, dinode, dir, dlock>> /\ c \in Calls
      /\ pc[p] \in {"idle", "plock"}
  BY Parts DEF Locks
<1>2. /\ c \in {"write", "close"} /\ l \in {"bmap", "iput"} /\ s # None
      /\ fd' \in [Proc -> Slot \cup {None}]
      /\ \A q \in Proc \ {p} : fd'[q] = fd[q]
      /\ c = "write" => fd'[p] = s /\ fd[p] = s
      /\ c = "close" => fd'[p] = None
  BY <1>1, NoneFacts DEF Locks, TypeOK
<1>3. /\ \A f \in Name : dlock[f] # p
      /\ \A t \in Slot : inode[t].lock # p
  BY <1>1, NoneFacts DEF LocksOK, PlaceOK, Locking, Freeing, Writing, NoFrame
<1>4. ASSUME NEW v \in Frame, NEW k \in Labels, Goto(p, k), u' = [u EXCEPT ![p] = v],
             k \in {l, "plock"}, v.name = None, v.call = c, v.ip = s
      PROVE  /\ pc' \in [Proc -> Labels] /\ cpu' \in Proc \cup {None} /\ pc'[p] = k
             /\ u' \in [Proc -> Frame] /\ u'[p] = v
             /\ Elsewhere(p) /\ DirsOf(p) /\ ListsOf(p) /\ FilesOf(p)
             /\ pc[p] \notin {"wdir", "iread"} /\ pc'[p] \notin {"wdir", "iread"}
  <2>1. /\ pc' \in [Proc -> Labels] /\ cpu' \in Proc \cup {None} /\ pc'[p] = k
        /\ \A q \in Proc \ {p} : pc'[q] = pc[q]
    BY <1>1, <1>4, GotoDoes
  <2>2. /\ u' \in [Proc -> Frame] /\ u'[p] = v
        /\ \A q \in Proc \ {p} : u'[q] = u[q]
    BY <1>1, <1>4 DEF TypeOK
  <2>3. DirsOf(p)
    BY <1>1, <1>3, <1>4, <2>2 DEF DirsOf
  <2>4. ListsOf(p)
    BY <1>1, <1>2, <1>4, <2>1 DEF ListsOf, Copying, super
  <2>5. FilesOf(p)
    BY <1>2 DEF FilesOf, Locks
  <2>6. QED BY <1>1, <1>2, <1>4, <2>1, <2>2, <2>3, <2>4, <2>5 DEF Elsewhere
<1>5. CASE Unlocked(s)
  <2> DEFINE v == [NoFrame EXCEPT !.call = c, !.ip = s]
  <2>1. /\ inode' = [inode EXCEPT ![s].lock = p] /\ u' = [u EXCEPT ![p] = v] /\ Goto(p, l)
    BY <1>5 DEF Locks, Lock
  <2>2. /\ v \in Frame /\ l \in Labels /\ v.name = None /\ v.call = c /\ v.ip = s
        /\ v.then = "idle"
    BY <1>1, <1>2, NoFrameOK DEF Frame, Labels, NoFrame
  <2> HIDE DEF v
  <2>3. /\ pc' \in [Proc -> Labels] /\ cpu' \in Proc \cup {None} /\ pc'[p] = l
        /\ u' \in [Proc -> Frame] /\ u'[p] = v
        /\ Elsewhere(p) /\ DirsOf(p) /\ ListsOf(p) /\ FilesOf(p)
        /\ pc[p] \notin {"wdir", "iread"} /\ pc'[p] \notin {"wdir", "iread"}
    BY <1>4, <2>1, <2>2
  <2>4. /\ inode' \in [Slot -> Entry]
        /\ \A t \in Slot \ {s} : inode'[t] = inode[t]
        /\ inode'[s] = [inode[s] EXCEPT !.lock = p] /\ inode'[s].lock = p
        /\ inode'[s].count = inode[s].count /\ inode'[s].i = inode[s].i
        /\ inode'[s].num = inode[s].num /\ inode'[s].upd = inode[s].upd
    BY <1>1, <2>1 DEF TypeOK, Entry
  <2>5. TypeOK'
    BY <1>1, <1>2, <2>3, <2>4 DEF TypeOK, super
  <2>6. Touches(p) /\ LocksOf(p)
    <3>1. Touches(p)
      BY <1>5, <2>4 DEF Touches, Unlocked
    <3>2. pc'[p] \in Locking
      BY <1>2, <2>3 DEF Locking, Writing
    <3>3. u'[p].ip = s
      BY <2>2, <2>3
    <3>4. \A t \in Slot : (inode'[t].lock = inode[t].lock /\ inode[t].lock # p) \/ t = s
      BY <1>3, <2>4
    <3>5. LocksOf(p)
      BY <1>2, <2>4, <3>2, <3>3, <3>4 DEF LocksOf
    <3>6. QED BY <3>1, <3>5
  <2>7. \A t \in Slot : CountKind(p, t)
    <3>1. ASSUME NEW t \in Slot PROVE inode'[t].count = inode[t].count
      BY <2>4
    <3>2. ASSUME NEW t \in Slot, c = "write"
          PROVE  (fd'[p] = t <=> fd[p] = t) /\ ~ Ref(p, t) /\ ~ Ref(p, t)'
      BY <1>1, <1>2, <2>3, <3>2 DEF Ref, HasRef, Locks
    <3>3. ASSUME NEW t \in Slot, c = "close"
          PROVE  /\ fd'[p] # t /\ (Ref(p, t)' <=> t = s)
                 /\ \/ ~ Ref(p, t) /\ (fd[p] = t <=> t = s)
                    \/ (Ref(p, t) <=> t = s) /\ fd[p] # t
      BY <1>1, <1>2, <2>2, <2>3, <3>3, NoneFacts DEF Ref, HasRef, Locks, PlaceOK
    <3>4. QED BY <1>2, <3>1, <3>2, <3>3 DEF CountKind
  <2>8. PlaceOK(p)'
    BY <1>1, <1>2, <2>2, <2>3, NoneFacts DEF PlaceOK, Making, Writing, Freeing, Locks
  <2>9. \A t \in Slot : inode'[t] = inode[t] \/ Minor(t) \/ t = s
    BY <2>4
  <2>10. CASE inode[s].upd
    <3>1. Minor(s)
      BY <2>4, <2>10 DEF Minor
    <3>2. QED BY <1>1, <2>3, <2>5, <2>6, <2>7, <2>8, <2>9, <3>1, Ordinary
  <2>11. CASE ~ inode[s].upd
    <3>1. Minor(s)
      BY <2>4, <2>11 DEF Minor
    <3>2. QED BY <1>1, <2>3, <2>5, <2>6, <2>7, <2>8, <2>9, <3>1, Ordinary
  <2>12. QED BY <2>10, <2>11
<1>6. CASE ~ Unlocked(s)
  <2> DEFINE v == [NoFrame EXCEPT !.call = c, !.ip = s, !.then = l]
  <2>1. inode' = inode /\ u' = [u EXCEPT ![p] = v] /\ Goto(p, "plock")
    BY <1>6 DEF Locks, Lock
  <2>2. /\ v \in Frame /\ "plock" \in Labels /\ v.name = None /\ v.call = c /\ v.ip = s
        /\ v.then = l
    BY <1>1, <1>2, NoFrameOK DEF Frame, Labels, NoFrame
  <2> HIDE DEF v
  <2>3. /\ pc' \in [Proc -> Labels] /\ cpu' \in Proc \cup {None} /\ pc'[p] = "plock"
        /\ u' \in [Proc -> Frame] /\ u'[p] = v
        /\ Elsewhere(p) /\ DirsOf(p) /\ ListsOf(p) /\ FilesOf(p)
        /\ pc[p] \notin {"wdir", "iread"} /\ pc'[p] \notin {"wdir", "iread"}
    BY <1>4, <2>1, <2>2
  <2>4. TypeOK'
    BY <1>1, <1>2, <2>1, <2>3 DEF TypeOK, super
  <2>5. Touches(p) /\ LocksOf(p)
    BY <1>3, <2>1, <2>3 DEF Touches, LocksOf, Locking, Writing, Freeing
  <2>6. \A t \in Slot : CountKind(p, t)
    BY <1>1, <1>2, <2>1, <2>2, <2>3, NoneFacts
       DEF CountKind, Ref, HasRef, Locks, PlaceOK, NoFrame
  <2>7. PlaceOK(p)'
    BY <1>1, <1>2, <2>1, <2>2, <2>3, NoneFacts
       DEF PlaceOK, Making, Writing, Freeing, Locks, Ip, Allowed
  <2>8. QED BY <1>1, <2>1, <2>3, <2>4, <2>5, <2>6, <2>7, Ordinary
<1>7. QED BY <1>5, <1>6

LEMMA StartWriteStep ==
  ASSUME FilesInv, NEW p \in Proc, StartWrite(p)
  PROVE  FilesInv'
<1>1. fd[p] \in Slot
  BY Parts DEF StartWrite, TypeOK
<1>2. Locks(p, "write", fd[p], "bmap")
  BY DEF StartWrite, Locks, Enter, At
<1>3. QED BY <1>1, <1>2, LockStep

LEMMA StartCloseStep ==
  ASSUME FilesInv, NEW p \in Proc, StartClose(p)
  PROVE  FilesInv'
<1>1. fd[p] \in Slot /\ (inode[fd[p]].i.mode \/ p \in Su)
  BY Parts DEF StartClose, TypeOK, FilesInv, OpenAlive
<1>2. Locks(p, "close", fd[p], "iput")
  BY <1>1 DEF StartClose, Locks, Enter, At
<1>3. QED BY <1>1, <1>2, LockStep

LEMMA PlockStep ==
  ASSUME FilesInv, NEW p \in Proc, Plock(p)
  PROVE  FilesInv'
<1>1. PlaceOK(p) /\ u[p] \in Frame /\ pc[p] = "plock" /\ TypeOK
  BY Parts DEF Plock, At
<1>2. u[p].ip \in Slot /\ u[p].call \in Calls /\ u[p].call \in {"write", "close"}
  BY <1>1, NoneFacts DEF PlaceOK, Frame
<1>3. fd' = fd /\ (u[p].call = "close" => fd' = [fd EXCEPT ![p] = None])
  BY <1>1 DEF Plock, PlaceOK, TypeOK
<1>4. Locks(p, u[p].call, u[p].ip, u[p].then)
  BY <1>1, <1>2, <1>3 DEF Plock, Locks, PlaceOK, Ip, Allowed
<1>5. QED BY <1>2, <1>4, LockStep

-----------------------------------------------------------------------------
(* The directories: a process puts its own, keeps it, or has none.         *)
LEMMA PutDirs ==
  ASSUME FilesInv, NEW p \in Proc, Putdir(p), dir' = dir, u'[p].name = None
  PROVE  DirsOf(p)
<1>1. \A f \in Name : dlock'[f] = IF dlock[f] = p THEN None ELSE dlock[f]
  BY Parts, PutdirDoes
<1>2. QED BY <1>1, NoneFacts DEF DirsOf

LEMMA KeepDirs ==
  ASSUME FilesInv, NEW p \in Proc, UNCHANGED <<dir, dlock>>, u'[p].name = u[p].name,
         pc[p] # "dlock", pc'[p] \notin {"idle", "dlock"},
         \/ u[p].name # None
         \/ /\ pc'[p] \in Freeing \cup {"iput", "ifree", "iupdat"}
            /\ u[p].then = "idle" => u'[p].then = "idle"
         \/ u[p].then # "idle" \/ pc[p] \notin Freeing \cup {"iput", "ifree", "iupdat"}
  PROVE  DirsOf(p)
<1>1. LocksOK
  BY Parts
<1>2. ASSUME NEW f \in Name, dlock[f] = p
      PROVE  \/ u'[p].name = f
             \/ /\ pc'[p] \in Freeing \cup {"iput", "ifree", "iupdat"}
                /\ u'[p].name = None /\ u'[p].then = "idle"
  <2>1. \/ u[p].name = f
        \/ /\ pc[p] \in Freeing \cup {"iput", "ifree", "iupdat"}
           /\ u[p].name = None /\ u[p].then = "idle"
    BY <1>1, <1>2 DEF LocksOK
  <2>2. QED BY <2>1
<1>3. u[p].name # None => dlock[u[p].name] = p
  BY <1>1 DEF LocksOK
<1>4. QED BY <1>2, <1>3 DEF DirsOf

LEMMA NoDirs ==
  ASSUME FilesInv, NEW p \in Proc, UNCHANGED <<dir, dlock>>, u'[p].name = None,
         u[p].name = None,
         u[p].then # "idle" \/ pc[p] \notin Freeing \cup {"iput", "ifree", "iupdat"}
  PROVE  DirsOf(p)
<1>1. \A f \in Name : dlock[f] # p
  BY Parts, NoneFacts DEF LocksOK
<1>2. QED BY <1>1 DEF DirsOf

(* namei.                                                                  *)
LEMMA NameiLockStep ==
  ASSUME FilesInv, NEW p \in Proc, NameiLock(p)
  PROVE  FilesInv'
<1>1. /\ TypeOK /\ LocksOK /\ ListsOK /\ PlaceOK(p) /\ u[p] \in Frame
      /\ pc[p] = "dlock" /\ ~ Blocked(p)
      /\ UNCHANGED <<super, inode, dinode, dir, fd, u>>
  BY Parts DEF NameiLock, At
<1>2. "namei" \in Labels /\ Goto(p, "namei")
  BY DEF NameiLock, Labels
<1>3. /\ pc' \in [Proc -> Labels] /\ cpu' \in Proc \cup {None} /\ pc'[p] = "namei"
      /\ \A q \in Proc \ {p} : pc'[q] = pc[q]
  BY <1>1, <1>2, GotoDoes
<1>4. /\ u[p].name \in Name /\ dlock[u[p].name] = None
      /\ dlock' = [dlock EXCEPT ![u[p].name] = p]
  BY <1>1 DEF PlaceOK, Frame, Blocked, NameiLock
<1>5. TypeOK'
  BY <1>1, <1>3, <1>4 DEF TypeOK, super
<1>6. DirsOf(p)
  BY <1>1, <1>3, <1>4, NoneFacts DEF DirsOf, TypeOK, LocksOK
<1>7. PlaceOK(p)'
  BY <1>1, <1>3, NoneFacts DEF PlaceOK, Making, Writing, Freeing
<1>8. ListsOf(p)
  BY <1>1, <1>3 DEF ListsOf, Copying, super
<1>9. QED
  BY <1>1, <1>3, <1>5, <1>6, <1>7, <1>8, Quiet
     DEF Elsewhere, HasRef, Locking, Writing, Freeing

LEMMA NameiFoundStep ==
  ASSUME FilesInv, NEW p \in Proc, NameiFound(p)
  PROVE  FilesInv'
<1>1. /\ TypeOK /\ LocksOK /\ ListsOK /\ PlaceOK(p) /\ u[p] \in Frame
      /\ pc[p] = "namei"
      /\ UNCHANGED <<super, inode, dinode, dir, fd>>
  BY Parts DEF NameiFound, At
<1>2. "iget" \in Labels /\ Goto(p, "iget")
  BY DEF NameiFound, Labels
<1>3. /\ pc' \in [Proc -> Labels] /\ cpu' \in Proc \cup {None} /\ pc'[p] = "iget"
      /\ \A q \in Proc \ {p} : pc'[q] = pc[q]
  BY <1>1, <1>2, GotoDoes
<1>4. u[p].name \in Name /\ dir[u[p].name] \in Ino /\ u[p].call \in {"open", "creat", "unlink"}
  BY <1>1 DEF PlaceOK, Frame, TypeOK, NameiFound
<1>5. /\ Found(p) \in Frame
      /\ Found(p).ino = dir[u[p].name] /\ Found(p).call = u[p].call
      /\ u[p].call = "unlink" => Found(p).then = "unlink" /\ Found(p).name = u[p].name
      /\ u[p].call # "unlink" => Found(p).then = "open1" /\ Found(p).name = None
  BY <1>1, <1>4 DEF Found, Frame, Labels
<1>6. /\ u' \in [Proc -> Frame] /\ u'[p] = Found(p)
      /\ \A q \in Proc \ {p} : u'[q] = u[q]
  BY <1>1, <1>5 DEF TypeOK, NameiFound
<1>7. dlock' \in [Name -> Proc \cup {None}]
  BY <1>1, PutdirDoes DEF NameiFound, TypeOK
<1>8. TypeOK'
  BY <1>1, <1>3, <1>6, <1>7 DEF TypeOK, super
<1>9. DirsOf(p)
  <2>1. CASE u[p].call = "unlink"
    BY <1>1, <1>3, <1>4, <1>5, <1>6, <2>1, NoneFacts, KeepDirs DEF NameiFound
  <2>2. CASE u[p].call # "unlink"
    BY <1>1, <1>5, <1>6, <2>2, PutDirs DEF NameiFound
  <2>3. QED BY <2>1, <2>2
<1>10. PlaceOK(p)'
  BY <1>1, <1>3, <1>4, <1>5, <1>6, NoneFacts DEF PlaceOK, Making, Writing, Freeing
<1>11. ListsOf(p)
  BY <1>1, <1>3 DEF ListsOf, Copying, super
<1>12. QED
  BY <1>1, <1>3, <1>6, <1>8, <1>9, <1>10, <1>11, Quiet
     DEF Elsewhere, HasRef, Locking, Writing, Freeing

(* A call that fails puts its directory and returns.                       *)
LEMMA GiveUp ==
  ASSUME FilesInv, NEW p \in Proc, pc[p] \in {"namei", "iget", "iascan"},
         Return(p), Putdir(p), UNCHANGED <<s_free, s_flock, link, inode, dinode, dir, fd>>,
         s_inode' \in Seq(Ino), s_ilock' \in Nat,
         s_ilock' = 0 \/ (s_ilock' = s_ilock /\ pc[p] # "iascan")
  PROVE  FilesInv'
<1>1. /\ TypeOK /\ LocksOK /\ ListsOK /\ PlaceOK(p) /\ u[p] \in Frame
      /\ UNCHANGED <<s_free, s_flock, link, inode, dinode, dir, fd>>
  BY Parts
<1>2. /\ pc' \in [Proc -> Labels] /\ cpu' \in Proc \cup {None} /\ pc'[p] = "idle"
      /\ u' \in [Proc -> Frame] /\ u'[p] = NoFrame
      /\ \A q \in Proc \ {p} : pc'[q] = pc[q] /\ u'[q] = u[q]
  BY <1>1, ReturnDoes
<1>3. dlock' \in [Name -> Proc \cup {None}]
  BY <1>1, PutdirDoes
<1>4. TypeOK'
  BY <1>1, <1>2, <1>3 DEF TypeOK
<1>5. DirsOf(p)
  BY <1>1, <1>2, PutDirs DEF NoFrame
<1>6. PlaceOK(p)'
  BY <1>2, NoneFacts DEF PlaceOK, Making, Writing, Freeing, NoFrame
<1>7. ListsOf(p)
  BY <1>1, <1>2 DEF ListsOf, Copying
<1>8. QED
  BY <1>1, <1>2, <1>4, <1>5, <1>6, <1>7, Quiet
     DEF Elsewhere, HasRef, Locking, Writing, Freeing

LEMMA NameiMissingStep ==
  ASSUME FilesInv, NEW p \in Proc, NameiMissing(p)
  PROVE  FilesInv'
<1>1. /\ TypeOK /\ LocksOK /\ ListsOK /\ PlaceOK(p) /\ u[p] \in Frame
      /\ pc[p] = "namei" /\ dir[u[p].name] = None
      /\ UNCHANGED <<super, inode, dinode, dir, fd>>
  BY Parts DEF NameiMissing, At
<1>2. CASE u[p].call = "creat"
  <2>1. "ialloc" \in Labels /\ Goto(p, "ialloc") /\ UNCHANGED <<dlock, u>>
    BY <1>2 DEF NameiMissing, Labels
  <2>2. /\ pc' \in [Proc -> Labels] /\ cpu' \in Proc \cup {None} /\ pc'[p] = "ialloc"
        /\ \A q \in Proc \ {p} : pc'[q] = pc[q]
    BY <1>1, <2>1, GotoDoes
  <2>3. TypeOK'
    BY <1>1, <2>1, <2>2 DEF TypeOK, super
  <2>4. DirsOf(p)
    BY <1>1, <2>1, <2>2, KeepDirs DEF PlaceOK
  <2>5. PlaceOK(p)'
    BY <1>1, <1>2, <2>1, <2>2, NoneFacts DEF PlaceOK, Making, Writing, Freeing
  <2>6. ListsOf(p)
    BY <1>1, <2>2 DEF ListsOf, Copying, super
  <2>7. QED
    BY <1>1, <2>1, <2>2, <2>3, <2>4, <2>5, <2>6, Quiet
       DEF Elsewhere, HasRef, Locking, Writing, Freeing
<1>3. CASE u[p].call # "creat"
  BY <1>1, <1>3, GiveUp DEF NameiMissing, super, TypeOK
<1>4. QED BY <1>2, <1>3

LEMMA IgetFullStep ==
  ASSUME FilesInv, NEW p \in Proc, IgetFull(p)
  PROVE  FilesInv'
BY Parts, GiveUp DEF IgetFull, super, TypeOK, At

-----------------------------------------------------------------------------
(* Steps that keep the inode and the directory in hand, and lead on to     *)
(* another place.                                                          *)
LEMMA Onward ==
  ASSUME FilesInv, NEW p \in Proc, NEW l \in Labels, Goto(p, l),
         UNCHANGED <<inode, dinode, dir, dlock, fd>>,
         s_free' \in Seq(Blk \cup {None}), s_flock' \in BOOLEAN,
         link' \in [Blk -> Seq(Blk \cup {None})], s_inode' \in Seq(Ino), s_ilock' \in Nat,
         u' \in [Proc -> Frame], \A q \in Proc \ {p} : u'[q] = u[q],
         u'[p].ip = u[p].ip, u'[p].name = u[p].name,
         pc[p] \notin {"wdir", "iread", "dlock", "plock"},
         l \notin {"wdir", "iread", "dlock", "plock", "idle"},
         l \in Locking <=> pc[p] \in Locking,
         l \in Writing <=> pc[p] \in Writing,
         \/ u[p].name # None
         \/ /\ l \in Freeing \cup {"iput", "ifree", "iupdat"}
            /\ u[p].then = "idle" => u'[p].then = "idle"
         \/ u[p].then # "idle" \/ pc[p] \notin Freeing \cup {"iput", "ifree", "iupdat"},
         pc'[p] = l => ListsOf(p) /\ PlaceOK(p)'
  PROVE  FilesInv'
<1>1. /\ TypeOK /\ LocksOK /\ ListsOK /\ PlaceOK(p) /\ u[p] \in Frame
      /\ UNCHANGED <<inode, dinode, dir, dlock, fd>>
  BY Parts
<1>2. /\ pc' \in [Proc -> Labels] /\ cpu' \in Proc \cup {None} /\ pc'[p] = l
      /\ \A q \in Proc \ {p} : pc'[q] = pc[q]
  BY <1>1, GotoDoes
<1>3. TypeOK'
  BY <1>1, <1>2 DEF TypeOK
<1>4. DirsOf(p)
  BY <1>1, <1>2, KeepDirs
<1>5. HasRef(p)' <=> HasRef(p)
  <2>1. /\ HasRef(p) <=> pc[p] \in Locking \ Writing
        /\ HasRef(p)' <=> pc'[p] \in Locking \ Writing
    BY <1>2 DEF HasRef, Locking, Writing, Freeing
  <2>2. QED BY <1>2, <2>1
<1>6. QED BY <1>1, <1>2, <1>3, <1>4, <1>5, Quiet DEF Elsewhere

(* free: the next block, or back to the caller of itrunc.                  *)
LEMMA TruncNextDoes ==
  ASSUME FilesInv, NEW p \in Proc, pc[p] \in Freeing, TruncNext(p),
         UNCHANGED <<s_inode, s_ilock, inode, dinode, dir, dlock, fd>>,
         s_free' \in Seq(Blk \cup {None}), link' \in [Blk -> Seq(Blk \cup {None})],
         \/ s_flock' = s_flock /\ pc[p] \notin Copying
         \/ s_flock' = FALSE /\ pc[p] \in Copying
  PROVE  FilesInv'
<1>1. /\ TypeOK /\ LocksOK /\ ListsOK /\ PlaceOK(p) /\ u[p] \in Frame
  BY Parts
<1>2. PICK l \in {"itrunc", "open1", "ifree"} :
        /\ Goto(p, l)
        /\ l = "itrunc" => Ip(p).i.addr # <<>>
        /\ l = "open1" <=> u[p].then = "open1" /\ l # "itrunc"
  <2>1. CASE Ip(p).i.addr # <<>>
    BY <2>1 DEF TruncNext
  <2>2. CASE Ip(p).i.addr = <<>> /\ u[p].then = "open1"
    BY <2>2 DEF TruncNext
  <2>3. CASE Ip(p).i.addr = <<>> /\ u[p].then # "open1"
    BY <2>3 DEF TruncNext
  <2>4. QED BY <2>1, <2>2, <2>3
<1>3. /\ u' \in [Proc -> Frame] /\ u'[p] = [u[p] EXCEPT !.bn = None]
      /\ \A q \in Proc \ {p} : u'[q] = u[q]
  BY <1>1 DEF TypeOK, TruncNext, Frame
<1>4. /\ u'[p].ip = u[p].ip /\ u'[p].name = u[p].name /\ u'[p].then = u[p].then
      /\ u'[p].call = u[p].call /\ u'[p].ino = u[p].ino
  BY <1>1, <1>3 DEF Frame
<1>5. ASSUME pc'[p] = l PROVE PlaceOK(p)'
  BY <1>1, <1>2, <1>4, <1>5, NoneFacts
     DEF PlaceOK, Making, Writing, Freeing, Ip, Labels
<1>6. ASSUME pc'[p] = l PROVE ListsOf(p)
  BY <1>2, <1>6 DEF ListsOf, Copying, Freeing
<1>7. /\ s_flock' \in BOOLEAN /\ s_inode' \in Seq(Ino) /\ s_ilock' \in Nat
      /\ l \in Labels
  BY <1>1 DEF TypeOK, Labels
<1>8. /\ pc[p] \notin {"wdir", "iread", "dlock", "plock"}
      /\ l \notin {"wdir", "iread", "dlock", "plock", "idle"}
      /\ l \in Locking /\ pc[p] \in Locking /\ l \notin Writing /\ pc[p] \notin Writing
  BY DEF Locking, Freeing, Writing
<1>9. \/ u[p].name # None
      \/ l \in Freeing \cup {"iput", "ifree", "iupdat"}
      \/ u[p].then # "idle"
  BY <1>2 DEF Freeing
<1>10. QED BY <1>1, <1>2, <1>3, <1>4, <1>5, <1>6, <1>7, <1>8, <1>9, Onward

LEMMA BegunOK ==
  ASSUME TypeOK
  PROVE  Begun \in Seq(Blk \cup {None})
<1>1. <<None>> \in Seq(Blk \cup {None})
  <2>1. None \in Blk \cup {None}
    OBVIOUS
  <2>2. QED BY <2>1
<1>2. QED BY <1>1 DEF Begun, TypeOK

LEMMA FreeStep ==
  ASSUME FilesInv, NEW p \in Proc, Free(p)
  PROVE  FilesInv'
<1>1. /\ TypeOK /\ PlaceOK(p) /\ u[p] \in Frame /\ pc[p] = "free"
  BY Parts DEF Free, At
<1>2. s_free' \in Seq(Blk \cup {None})
  <2>1. u[p].bn \in Blk \cup {None}
    BY <1>1 DEF Frame
  <2>2. QED BY <1>1, <2>1, BegunOK, AppendProperties DEF Free
<1>3. link' = link /\ link \in [Blk -> Seq(Blk \cup {None})] /\ pc[p] \in Freeing
  BY <1>1 DEF Free, TypeOK, Freeing
<1>4. QED BY <1>1, <1>2, <1>3, TruncNextDoes DEF Free, Copying

LEMMA FreedStep ==
  ASSUME FilesInv, NEW p \in Proc, Freed(p)
  PROVE  FilesInv'
<1>1. /\ TypeOK /\ PlaceOK(p) /\ u[p] \in Frame /\ pc[p] = "freed"
  BY Parts DEF Freed, At
<1>2. s_free' \in Seq(Blk \cup {None})
  BY <1>1 DEF TypeOK, Freed, Frame
<1>3. link' = link /\ link \in [Blk -> Seq(Blk \cup {None})] /\ pc[p] \in Freeing
  BY <1>1 DEF Freed, TypeOK, Freeing
<1>4. QED BY <1>1, <1>2, <1>3, TruncNextDoes DEF Freed, Copying

LEMMA FreeLockStep ==
  ASSUME FilesInv, NEW p \in Proc, FreeLock(p)
  PROVE  FilesInv'
<1>1. /\ TypeOK /\ PlaceOK(p) /\ u[p] \in Frame /\ pc[p] = "free" /\ ~ s_flock
      /\ UNCHANGED <<link, s_inode, s_ilock, inode, dinode, dir, dlock, fd, u>>
  BY Parts DEF FreeLock, At, Blocked
<1>2. s_free' \in Seq(Blk \cup {None}) /\ s_flock'
  BY <1>1, BegunOK DEF FreeLock
<1>3. ASSUME pc'[p] = "freecopy" PROVE PlaceOK(p)' /\ ListsOf(p)
  BY <1>1, <1>2, <1>3, NoneFacts
     DEF PlaceOK, Making, Writing, Freeing, Ip, ListsOf, Copying
<1>4. "freecopy" \in Labels /\ Goto(p, "freecopy")
  BY DEF Labels, FreeLock
<1>5. QED BY <1>1, <1>2, <1>3, <1>4, Onward DEF TypeOK, Locking, Freeing, Writing, FreeLock

LEMMA FreeCopyStep ==
  ASSUME FilesInv, NEW p \in Proc, FreeCopy(p)
  PROVE  FilesInv'
<1>1. /\ TypeOK /\ PlaceOK(p) /\ u[p] \in Frame /\ pc[p] = "freecopy"
      /\ UNCHANGED <<s_flock, s_inode, s_ilock, inode, dinode, dir, dlock, fd, u>>
  BY Parts DEF FreeCopy, At
<1>2. /\ s_free' \in Seq(Blk \cup {None})
      /\ link' \in [Blk -> Seq(Blk \cup {None})]
  <2>1. s_free' = <<>> /\ link' = [link EXCEPT ![u[p].bn] = s_free]
    BY DEF FreeCopy
  <2>2. <<>> \in Seq(Blk \cup {None})
    OBVIOUS
  <2>3. link \in [Blk -> Seq(Blk \cup {None})] /\ s_free \in Seq(Blk \cup {None})
    BY <1>1 DEF TypeOK
  <2> DEFINE L == Seq(Blk \cup {None})
  <2> HIDE DEF L
  <2>4. link \in [Blk -> L] /\ s_free \in L
    BY <2>3 DEF L
  <2>5. link' \in [Blk -> L]
    BY <2>1, <2>4
  <2>6. QED BY <2>1, <2>2, <2>5 DEF L
<1>3. ASSUME pc'[p] = "freed" PROVE PlaceOK(p)' /\ ListsOf(p)
  BY <1>1, <1>2, <1>3, NoneFacts
     DEF PlaceOK, Making, Writing, Freeing, Ip, ListsOf, Copying
<1>4. "freed" \in Labels /\ Goto(p, "freed")
  BY DEF Labels, FreeCopy
<1>5. QED BY <1>1, <1>2, <1>3, <1>4, Onward DEF TypeOK, Locking, Freeing, Writing, FreeCopy

(* open1 of an inode that is free, or of a file to be truncated; iput of   *)
(* the last reference.                                                     *)
LEMMA Open1RefusedStep ==
  ASSUME FilesInv, NEW p \in Proc, Open1Refused(p)
  PROVE  FilesInv'
<1>1. /\ TypeOK /\ PlaceOK(p) /\ u[p] \in Frame /\ pc[p] = "open1"
      /\ UNCHANGED <<super, inode, dinode, dir, dlock, fd>>
  BY Parts DEF Open1Refused, At
<1> DEFINE v == [NoFrame EXCEPT !.ip = u[p].ip]
<1>2. u' = [u EXCEPT ![p] = v] /\ Goto(p, "iput") /\ "iput" \in Labels
  BY DEF Open1Refused, Labels
<1>3. /\ v \in Frame /\ v.ip = u[p].ip /\ v.name = None /\ v.then = "idle" /\ v.call = None
  BY <1>1, NoFrameOK DEF Frame, NoFrame
<1> HIDE DEF v
<1>4. /\ u' \in [Proc -> Frame] /\ u'[p] = v
      /\ \A q \in Proc \ {p} : u'[q] = u[q]
  BY <1>1, <1>2, <1>3 DEF TypeOK
<1>5. u[p].name = None
  BY <1>1 DEF PlaceOK
<1>6. ASSUME pc'[p] = "iput" PROVE PlaceOK(p)' /\ ListsOf(p)
  BY <1>1, <1>3, <1>4, <1>6, NoneFacts
     DEF PlaceOK, Making, Writing, Freeing, ListsOf, Copying, super
<1>7. QED
  BY <1>1, <1>2, <1>3, <1>4, <1>5, <1>6, Onward
     DEF TypeOK, Locking, Freeing, Writing, super

LEMMA Open1TruncStep ==
  ASSUME FilesInv, NEW p \in Proc, Open1Trunc(p)
  PROVE  FilesInv'
<1>1. /\ TypeOK /\ PlaceOK(p) /\ u[p] \in Frame /\ pc[p] = "open1"
      /\ UNCHANGED <<super, inode, dinode, dir, dlock, fd, u>>
      /\ Ip(p).i.addr # <<>> /\ u[p].call = "creat"
  BY Parts DEF Open1Trunc, At
<1>2. Goto(p, "itrunc") /\ "itrunc" \in Labels
  BY DEF Open1Trunc, Labels
<1>3. ASSUME pc'[p] = "itrunc" PROVE PlaceOK(p)' /\ ListsOf(p)
  BY <1>1, <1>3, NoneFacts
     DEF PlaceOK, Making, Writing, Freeing, ListsOf, Copying, super, Ip
<1>4. QED
  BY <1>1, <1>2, <1>3, Onward DEF TypeOK, Locking, Freeing, Writing, super

LEMMA IputLastStep ==
  ASSUME FilesInv, NEW p \in Proc, IputLast(p)
  PROVE  FilesInv'
<1>1. /\ TypeOK /\ PlaceOK(p) /\ u[p] \in Frame /\ pc[p] = "iput"
      /\ UNCHANGED <<super, inode, dinode, dir, dlock, fd, u>>
      /\ Ip(p).count = 1
  BY Parts DEF IputLast, At
<1>2. u[p].ip \in Slot /\ inode[u[p].ip].i.nlink \in Nat
  <2>1. u[p].ip \in Slot
    BY <1>1, Parts DEF Locking
  <2>2. QED BY <1>1, <2>1 DEF TypeOK, Entry, Inode
<1>3. PICK l \in {"iupdat", "itrunc", "ifree"} :
        /\ Goto(p, l)
        /\ l # "iupdat" => Ip(p).i.nlink = 0
        /\ l = "itrunc" => Ip(p).i.addr # <<>>
  <2>1. CASE Ip(p).i.nlink > 0
    BY <2>1 DEF IputLast
  <2>2. CASE ~ (Ip(p).i.nlink > 0) /\ Ip(p).i.mode /\ Ip(p).i.addr # <<>>
    BY <1>2, <2>2 DEF IputLast, Ip
  <2>3. CASE ~ (Ip(p).i.nlink > 0) /\ ~ (Ip(p).i.mode /\ Ip(p).i.addr # <<>>)
    BY <1>2, <2>3 DEF IputLast, Ip
  <2>4. QED BY <2>1, <2>2, <2>3
<1>4. ASSUME pc'[p] = l PROVE PlaceOK(p)' /\ ListsOf(p)
  <2>1. l # "iupdat" => Ip(p)'.i.nlink = 0
    BY <1>1, <1>3 DEF Ip
  <2>2. QED
    BY <1>1, <1>3, <1>4, <2>1, NoneFacts
     DEF PlaceOK, Making, Writing, Freeing, ListsOf, Copying, super, Ip
<1>5. /\ l \in Labels /\ l \in Locking /\ pc[p] \in Locking
      /\ l \notin Writing /\ pc[p] \notin Writing
      /\ l \in Freeing \cup {"iput", "ifree", "iupdat"}
  BY <1>1, <1>3 DEF Labels, Locking, Freeing, Writing
<1>6. QED
  BY <1>1, <1>3, <1>4, <1>5, Onward DEF TypeOK, super

(* writei and alloc.                                                       *)
LEMMA BmapAllocStep ==
  ASSUME FilesInv, NEW p \in Proc, BmapAlloc(p)
  PROVE  FilesInv'
<1>1. /\ TypeOK /\ PlaceOK(p) /\ u[p] \in Frame /\ pc[p] = "bmap"
      /\ UNCHANGED <<super, inode, dinode, dir, dlock, fd, u>>
  BY Parts DEF BmapAlloc, At
<1>2. Goto(p, "alloc") /\ "alloc" \in Labels
  BY DEF BmapAlloc, Labels
<1>3. ASSUME pc'[p] = "alloc" PROVE PlaceOK(p)' /\ ListsOf(p)
  BY <1>1, <1>3, NoneFacts
     DEF PlaceOK, Making, Writing, Freeing, ListsOf, Copying, super, Ip
<1>4. QED
  BY <1>1, <1>2, <1>3, Onward DEF TypeOK, Locking, Freeing, Writing, super

LEMMA AllocPopStep ==
  ASSUME FilesInv, NEW p \in Proc, AllocPop(p)
  PROVE  FilesInv'
<1>1. /\ TypeOK /\ PlaceOK(p) /\ u[p] \in Frame /\ pc[p] = "alloc" /\ ~ s_flock
      /\ UNCHANGED <<link, s_inode, s_ilock, inode, dinode, dir, dlock, fd>>
      /\ Top # None /\ u' = [u EXCEPT ![p].bn = Top]
  BY Parts DEF AllocPop, At, Blocked
<1>2. s_free \in Seq(Blk \cup {None}) /\ s_free # <<>> /\ Top = Last(s_free)
  BY <1>1 DEF Top, TypeOK
<1>3. Top \in Blk /\ s_free' \in Seq(Blk \cup {None})
  <2>1. /\ Last(s_free) \in Blk \cup {None}
        /\ Front(s_free) \in Seq(Blk \cup {None})
    BY <1>2 DEF Last, Front
  <2>2. QED BY <1>1, <1>2, <2>1 DEF AllocPop
<1>4. /\ u' \in [Proc -> Frame] /\ u'[p] = [u[p] EXCEPT !.bn = Top]
      /\ \A q \in Proc \ {p} : u'[q] = u[q]
  BY <1>1, <1>3 DEF TypeOK, Frame
<1>5. /\ u'[p].ip = u[p].ip /\ u'[p].name = u[p].name /\ u'[p].then = u[p].then
      /\ u'[p].call = u[p].call /\ u'[p].ino = u[p].ino /\ u'[p].bn = Top
  BY <1>1, <1>4 DEF Frame
<1>6. PICK l \in {"allocread", "allocbuf"} :
        Goto(p, l) /\ (s_flock' <=> l = "allocread") /\ s_flock' \in BOOLEAN
  <2>1. CASE Len(s_free) = 1
    BY <2>1 DEF AllocPop
  <2>2. CASE Len(s_free) # 1
    BY <2>2 DEF AllocPop
  <2>3. QED BY <2>1, <2>2
<1>7. ASSUME pc'[p] = l PROVE PlaceOK(p)'
  BY <1>1, <1>3, <1>5, <1>6, <1>7, NoneFacts
     DEF PlaceOK, Making, Writing, Freeing, Ip
<1>8. ASSUME pc'[p] = l PROVE ListsOf(p)
  <2>1. CASE l = "allocread"
    BY <1>1, <1>6, <1>8, <2>1 DEF ListsOf, Copying
  <2>2. CASE l = "allocbuf"
    BY <1>1, <1>6, <1>8, <2>2 DEF ListsOf, Copying, TypeOK
  <2>3. QED BY <1>6, <2>1, <2>2
<1>9. /\ l \in Labels /\ l \in Locking /\ pc[p] \in Locking
      /\ l \in Writing /\ pc[p] \in Writing /\ pc[p] \notin Freeing \cup {"iput", "ifree", "iupdat"}
  BY <1>1, <1>6 DEF Labels, Locking, Freeing, Writing
<1>10. QED
  BY <1>1, <1>3, <1>4, <1>5, <1>6, <1>7, <1>8, <1>9, Onward DEF TypeOK

LEMMA AllocReadStep ==
  ASSUME FilesInv, NEW p \in Proc, AllocRead(p)
  PROVE  FilesInv'
<1>1. /\ TypeOK /\ PlaceOK(p) /\ u[p] \in Frame /\ pc[p] = "allocread"
      /\ UNCHANGED <<link, s_inode, s_ilock, inode, dinode, dir, dlock, fd, u>>
      /\ s_flock' = FALSE
  BY Parts DEF AllocRead, At
<1>2. s_free' \in Seq(Blk \cup {None})
  <2>1. u[p].bn \in Blk
    BY <1>1 DEF PlaceOK, Frame
  <2>2. QED BY <1>1, <2>1 DEF AllocRead, TypeOK
<1>3. Goto(p, "allocbuf") /\ "allocbuf" \in Labels
  BY DEF AllocRead, Labels
<1>4. ASSUME pc'[p] = "allocbuf" PROVE PlaceOK(p)' /\ ListsOf(p)
  BY <1>1, <1>4, NoneFacts
     DEF PlaceOK, Making, Writing, Freeing, ListsOf, Copying, Ip
<1>5. QED
  BY <1>1, <1>2, <1>3, <1>4, Onward DEF TypeOK, Locking, Freeing, Writing

(* ialloc.                                                                 *)
LEMMA IallocPopStep ==
  ASSUME FilesInv, NEW p \in Proc, IallocPop(p)
  PROVE  FilesInv'
<1>1. /\ TypeOK /\ PlaceOK(p) /\ u[p] \in Frame /\ pc[p] \in {"ialloc", "ialloop"}
      /\ UNCHANGED <<s_free, s_flock, link, s_ilock, inode, dinode, dir, dlock, fd>>
      /\ s_inode # <<>>
      /\ u' = [u EXCEPT ![p].ino = Last(s_inode), ![p].then = "iagot"]
  BY Parts DEF IallocPop, Iloop, At
<1>2. Last(s_inode) \in Ino /\ s_inode' \in Seq(Ino)
  <2>1. s_inode \in Seq(Ino)
    BY <1>1 DEF TypeOK
  <2>2. Last(s_inode) \in Ino /\ Front(s_inode) \in Seq(Ino)
    BY <1>1, <2>1 DEF Last, Front
  <2>3. QED BY <2>2 DEF IallocPop
<1>3. /\ u' \in [Proc -> Frame] /\ u'[p] = [u[p] EXCEPT !.ino = Last(s_inode), !.then = "iagot"]
      /\ \A q \in Proc \ {p} : u'[q] = u[q]
  BY <1>1, <1>2 DEF TypeOK, Frame, Labels
<1>4. /\ u'[p].ip = u[p].ip /\ u'[p].name = u[p].name /\ u'[p].then = "iagot"
      /\ u'[p].call = u[p].call /\ u'[p].ino = Last(s_inode)
  BY <1>1, <1>3 DEF Frame
<1>5. Goto(p, "iget") /\ "iget" \in Labels
  BY DEF IallocPop, Labels
<1>6. u[p].name # None /\ u[p].call = "creat" /\ dir[u[p].name] = None
  BY <1>1 DEF PlaceOK, Making
<1>7. ASSUME pc'[p] = "iget" PROVE PlaceOK(p)' /\ ListsOf(p)
  BY <1>1, <1>2, <1>4, <1>6, <1>7, NoneFacts
     DEF PlaceOK, Making, Writing, Freeing, ListsOf, Copying
<1>8. QED
  BY <1>1, <1>2, <1>3, <1>4, <1>5, <1>6, <1>7, Onward
     DEF TypeOK, Locking, Freeing, Writing

LEMMA IallocScanStep ==
  ASSUME FilesInv, NEW p \in Proc, IallocScan(p)
  PROVE  FilesInv'
<1>1. /\ TypeOK /\ PlaceOK(p) /\ u[p] \in Frame /\ pc[p] \in {"ialloc", "ialloop"}
      /\ UNCHANGED <<s_free, s_flock, link, s_inode, inode, dinode, dir, dlock, fd>>
      /\ s_ilock' = s_ilock + 1
      /\ u' = [u EXCEPT ![p].at = 1]
  BY Parts DEF IallocScan, Iloop, At
<1>2. /\ u' \in [Proc -> Frame] /\ u'[p] = [u[p] EXCEPT !.at = 1]
      /\ \A q \in Proc \ {p} : u'[q] = u[q]
  <2>1. 1 \in 0 .. NINO + 1
    BY FileSystemAssumption
  <2>2. QED BY <1>1, <2>1 DEF TypeOK, Frame
<1>3. /\ u'[p].ip = u[p].ip /\ u'[p].name = u[p].name /\ u'[p].then = u[p].then
      /\ u'[p].call = u[p].call /\ u'[p].ino = u[p].ino /\ u'[p].at = 1
  BY <1>1, <1>2 DEF Frame
<1>4. Goto(p, "iascan") /\ "iascan" \in Labels
  BY DEF IallocScan, Labels
<1>5. u[p].name # None /\ u[p].call = "creat" /\ dir[u[p].name] = None
  BY <1>1 DEF PlaceOK, Making
<1>6. ASSUME pc'[p] = "iascan" PROVE PlaceOK(p)' /\ ListsOf(p)
  BY <1>1, <1>3, <1>5, <1>6, NoneFacts
     DEF PlaceOK, Making, Writing, Freeing, ListsOf, Copying
<1>7. /\ "iascan" \notin Locking /\ pc[p] \notin Locking
      /\ "iascan" \notin Writing /\ pc[p] \notin Writing
      /\ s_free' \in Seq(Blk \cup {None}) /\ s_flock' \in BOOLEAN
      /\ link' \in [Blk -> Seq(Blk \cup {None})] /\ s_inode' \in Seq(Ino)
      /\ s_ilock' \in Nat
  BY <1>1 DEF TypeOK, Locking, Freeing, Writing
<1>8. QED BY <1>1, <1>2, <1>3, <1>4, <1>5, <1>6, <1>7, Onward

LEMMA IascanStep ==
  ASSUME FilesInv, NEW p \in Proc, Iascan(p)
  PROVE  FilesInv'
<1> DEFINE n     == u[p].at
           found == IF dinode[n].mode \/ InCore(n) THEN s_inode ELSE Append(s_inode, n)
           last  == n = NINO \/ Len(found) >= NICINOD
<1>1. /\ TypeOK /\ PlaceOK(p) /\ u[p] \in Frame /\ pc[p] = "iascan"
      /\ UNCHANGED <<s_free, s_flock, link, inode, dinode, dir, fd>>
      /\ s_inode' = found
      /\ s_ilock' = IF last THEN 0 ELSE s_ilock
      /\ \/ last /\ Putdir(p) /\ Return(p)
         \/ /\ Goto(p, IF last THEN "ialloop" ELSE "iascan")
            /\ u' = [u EXCEPT ![p].at = IF last THEN 0 ELSE n + 1]
            /\ UNCHANGED dlock
  BY Parts DEF Iascan, At
<1>2. n \in Ino /\ u[p].name # None /\ u[p].call = "creat" /\ dir[u[p].name] = None
  BY <1>1 DEF PlaceOK, Making
<1>3. s_inode' \in Seq(Ino) /\ s_ilock' \in Nat
  <2>1. s_inode \in Seq(Ino) /\ s_ilock \in Nat
    BY <1>1 DEF TypeOK
  <2>2. Append(s_inode, n) \in Seq(Ino)
    BY <1>2, <2>1
  <2>3. QED BY <1>1, <2>1, <2>2
<1> HIDE DEF found
<1>4. CASE last /\ Putdir(p) /\ Return(p)
  BY <1>1, <1>3, <1>4, GiveUp
<1>5. CASE /\ Goto(p, IF last THEN "ialloop" ELSE "iascan")
           /\ u' = [u EXCEPT ![p].at = IF last THEN 0 ELSE n + 1]
           /\ UNCHANGED dlock
  <2>1. PICK l \in {"ialloop", "iascan"}, k \in 0 .. NINO + 1 :
          /\ Goto(p, l) /\ u' = [u EXCEPT ![p].at = k]
          /\ l = "iascan" => k \in Ino
          /\ s_ilock' = 0 \/ (s_ilock' = s_ilock /\ l = "iascan")
    <3>1. CASE last
      <4>1. 0 \in 0 .. NINO + 1
        BY FileSystemAssumption
      <4>2. Goto(p, "ialloop") /\ u' = [u EXCEPT ![p].at = 0] /\ s_ilock' = 0
        BY <1>1, <1>5, <3>1
      <4>3. QED BY <4>1, <4>2
    <3>2. CASE ~ last
      <4>1. n + 1 \in 0 .. NINO + 1 /\ n + 1 \in Ino
        BY <1>2, <3>2, FileSystemAssumption DEF Ino
      <4>2. Goto(p, "iascan") /\ u' = [u EXCEPT ![p].at = n + 1] /\ s_ilock' = s_ilock
        BY <1>1, <1>5, <3>2
      <4>3. QED BY <4>1, <4>2
    <3>3. QED BY <3>1, <3>2
  <2>2. /\ u' \in [Proc -> Frame] /\ u'[p] = [u[p] EXCEPT !.at = k]
        /\ \A q \in Proc \ {p} : u'[q] = u[q]
    BY <1>1, <2>1 DEF TypeOK, Frame
  <2>3. /\ u'[p].ip = u[p].ip /\ u'[p].name = u[p].name /\ u'[p].then = u[p].then
        /\ u'[p].call = u[p].call /\ u'[p].ino = u[p].ino /\ u'[p].at = k
    BY <1>1, <2>2 DEF Frame
  <2>4. ASSUME pc'[p] = l PROVE PlaceOK(p)'
    BY <1>1, <1>2, <2>1, <2>3, <2>4, NoneFacts
       DEF PlaceOK, Making, Writing, Freeing
  <2>5. ASSUME pc'[p] = l PROVE ListsOf(p)
    BY <1>1, <2>1, <2>5 DEF ListsOf, Copying
  <2>6. l \in Labels /\ l \notin Locking /\ pc[p] \notin Locking
        /\ l \notin Writing /\ pc[p] \notin Writing
    BY <1>1, <2>1 DEF Labels, Locking, Freeing, Writing
  <2>7. dlock' = dlock
    BY <1>5
  <2>8. QED
    BY <1>1, <1>2, <1>3, <2>1, <2>2, <2>3, <2>4, <2>5, <2>6, <2>7, Onward DEF TypeOK
<1>6. QED BY <1>1, <1>4, <1>5

LEMMA IallocTakenStep ==
  ASSUME FilesInv, NEW p \in Proc, IallocTaken(p)
  PROVE  FilesInv'
<1>1. /\ TypeOK /\ PlaceOK(p) /\ u[p] \in Frame /\ pc[p] = "iagot"
      /\ UNCHANGED <<super, inode, dinode, dir, dlock, fd>>
      /\ u' = [u EXCEPT ![p].then = "ialloop"]
  BY Parts DEF IallocTaken, At
<1>2. /\ u' \in [Proc -> Frame] /\ u'[p] = [u[p] EXCEPT !.then = "ialloop"]
      /\ \A q \in Proc \ {p} : u'[q] = u[q]
  BY <1>1 DEF TypeOK, Frame, Labels
<1>3. /\ u'[p].ip = u[p].ip /\ u'[p].name = u[p].name /\ u'[p].then = "ialloop"
      /\ u'[p].call = u[p].call /\ u'[p].ino = u[p].ino
  BY <1>1, <1>2 DEF Frame
<1>4. Goto(p, "iput") /\ "iput" \in Labels
  BY DEF IallocTaken, Labels
<1>5. u[p].name # None /\ u[p].call = "creat" /\ dir[u[p].name] = None
  BY <1>1 DEF PlaceOK, Making
<1>6. ASSUME pc'[p] = "iput" PROVE PlaceOK(p)' /\ ListsOf(p)
  BY <1>1, <1>3, <1>5, <1>6, NoneFacts
     DEF PlaceOK, Making, Writing, Freeing, ListsOf, Copying, super
<1>7. QED
  BY <1>1, <1>2, <1>3, <1>4, <1>5, <1>6, Onward
     DEF TypeOK, Locking, Freeing, Writing, super

-----------------------------------------------------------------------------
(* Steps that change one entry of the table, unlocked or the process's     *)
(* own: it keeps its number, its links and, unless it is the process's     *)
(* alone, its mode.                                                        *)
Edit(p, s, e) ==
  /\ inode' = [inode EXCEPT ![s] = e] /\ e \in Entry
  /\ inode[s].lock \in {None, p} /\ e.lock \in {None, p}
  /\ e.num = inode[s].num
  /\ e.count = 0 <=> inode[s].count = 0
  /\ e.i.nlink = inode[s].i.nlink
  /\ \/ e.i.mode <=> inode[s].i.mode
     \/ Ref(p, s) /\ inode[s].count = 1 /\ inode[s].i.nlink = 0
  /\ e.upd \/ (e.i = inode[s].i /\ ~ inode[s].upd)

LEMMA EditStep ==
  ASSUME FilesInv, NEW p \in Proc, NEW s \in Slot, NEW e, Edit(p, s, e),
         Elsewhere(p), TypeOK', DirsOf(p), ListsOf(p), FilesOf(p), PlaceOK(p)',
         UNCHANGED <<dinode, dir>>,
         pc[p] \notin {"wdir", "iread"}, pc'[p] \notin {"wdir", "iread"},
         pc[p] \in Locking => u[p].ip = s,
         pc'[p] \in Locking => u'[p].ip = s,
         pc'[p] \in Locking <=> e.lock = p,
         CountKind(p, s),
         \A t \in Slot \ {s} : (fd'[p] = t <=> fd[p] = t) /\ (Ref(p, t)' <=> Ref(p, t))
  PROVE  FilesInv'
<1>1. /\ TypeOK /\ LocksOK /\ s # None
  BY Parts, NoneFacts
<1>2. /\ inode'[s] = e
      /\ \A t \in Slot \ {s} : inode'[t] = inode[t]
  BY <1>1 DEF Edit, TypeOK
<1>3. Minor(s)
  BY <1>2 DEF Edit, Minor
<1>4. Touches(p)
  <2>1. \A t \in Slot \ {s} : inode'[t] = inode[t] /\ (inode[t].i.mode => inode'[t].i.mode)
    BY <1>2
  <2>2. /\ inode[s].lock \in {None, p}
        /\ inode[s].i.mode => inode'[s].i.mode \/ (Ref(p, s) /\ inode[s].count = 1)
    BY <1>2 DEF Edit
  <2>3. QED BY <2>1, <2>2 DEF Touches
<1>5. LocksOf(p)
  <2>1. pc'[p] \in Locking => u'[p].ip # None /\ inode'[u'[p].ip].lock = p
    BY <1>1, <1>2
  <2>2. ASSUME NEW t \in Slot, t # s
        PROVE  inode'[t].lock = inode[t].lock /\ inode[t].lock # p
    BY <1>1, <1>2, <2>2 DEF LocksOK
  <2>3. \/ inode'[s].lock = p /\ pc'[p] \in Locking /\ u'[p].ip = s
        \/ inode'[s].lock = None
    BY <1>2 DEF Edit
  <2>4. QED BY <2>1, <2>2, <2>3 DEF LocksOf
<1>6. \A t \in Slot : CountKind(p, t)
  <2>1. ASSUME NEW t \in Slot, t # s PROVE CountKind(p, t)
    BY <1>2, <2>1 DEF CountKind
  <2>2. QED BY <2>1
<1>7. QED BY <1>2, <1>3, <1>4, <1>5, <1>6, Ordinary

(* prele at the end of open, creat of a file that exists, or write.        *)
LEMMA PreleStep ==
  ASSUME FilesInv, NEW p \in Proc, pc[p] \in Writing \cup {"open1"}, Return(p),
         NEW s \in Slot, u[p].ip = s,
         NEW e, Edit(p, s, e), e.lock = None, e.count = inode[s].count,
         UNCHANGED <<s_inode, s_ilock, dinode, dir, dlock>>,
         s_free' \in Seq(Blk \cup {None}), link' \in [Blk -> Seq(Blk \cup {None})],
         s_flock' = s_flock, pc[p] \notin Copying,
         \/ pc[p] \in Writing /\ fd' = fd
         \/ pc[p] = "open1" /\ fd' = [fd EXCEPT ![p] = s] /\ (e.i.mode \/ p \in Su)
  PROVE  FilesInv'
<1>1. /\ TypeOK /\ LocksOK /\ PlaceOK(p) /\ u[p] \in Frame
      /\ s # None /\ u[p].name = None
  BY Parts, NoneFacts DEF PlaceOK
<1>2. /\ pc' \in [Proc -> Labels] /\ cpu' \in Proc \cup {None} /\ pc'[p] = "idle"
      /\ u' \in [Proc -> Frame] /\ u'[p] = NoFrame
      /\ \A q \in Proc \ {p} : pc'[q] = pc[q] /\ u'[q] = u[q]
  BY <1>1, ReturnDoes
<1>3. /\ inode' \in [Slot -> Entry] /\ inode'[s] = e
  BY <1>1 DEF Edit, TypeOK
<1>4. /\ fd' \in [Proc -> Slot \cup {None}] /\ \A q \in Proc \ {p} : fd'[q] = fd[q]
      /\ fd'[p] = s
  BY <1>1 DEF TypeOK, PlaceOK
<1>5. TypeOK'
  BY <1>1, <1>2, <1>3, <1>4 DEF TypeOK
<1>6. DirsOf(p)
  <2>1. u'[p].name = None
    BY <1>2 DEF NoFrame
  <2>2. pc[p] \notin Freeing \cup {"iput", "ifree", "iupdat"}
    BY DEF Writing, Freeing
  <2>3. QED BY <1>1, <2>1, <2>2, NoDirs
<1>7. FilesOf(p)
  BY <1>3, <1>4 DEF FilesOf
<1>8. PlaceOK(p)'
  BY <1>2, NoneFacts DEF PlaceOK, Making, Writing, Freeing, NoFrame
<1>9. ListsOf(p)
  BY <1>2 DEF ListsOf, Copying, Writing
<1>10. ASSUME NEW t \in Slot PROVE ~ Ref(p, t)' /\ (Ref(p, t) <=> pc[p] = "open1" /\ t = s)
  <2>1. ~ Ref(p, t)'
    BY <1>2 DEF Ref, HasRef
  <2>2. Ref(p, t) <=> pc[p] = "open1" /\ t = s
    BY DEF Ref, HasRef, Writing
  <2>3. QED BY <2>1, <2>2
<1>11. pc[p] = "open1" => fd[p] = None
  BY <1>1 DEF PlaceOK
<1>12. pc[p] \in Writing => fd[p] = s
  BY <1>1 DEF PlaceOK
<1>13. CountKind(p, s)
  <2>1. CASE pc[p] = "open1"
    BY <1>1, <1>3, <1>4, <1>10, <1>11, <2>1 DEF CountKind
  <2>2. CASE pc[p] \in Writing
    <3>1. pc[p] # "open1"
      BY <2>2 DEF Writing
    <3>2. QED BY <1>1, <1>3, <1>4, <1>10, <1>12, <3>1 DEF CountKind
  <2>3. QED BY <2>1, <2>2
<1>14. \A t \in Slot \ {s} : (fd'[p] = t <=> fd[p] = t) /\ (Ref(p, t)' <=> Ref(p, t))
  BY <1>4, <1>10, <1>11, <1>12, NoneFacts
<1>15. /\ Elsewhere(p) /\ pc[p] \notin {"wdir", "iread"} /\ pc'[p] \notin {"wdir", "iread"}
       /\ pc'[p] \notin Locking /\ e.lock # p
  BY <1>2, <1>4, NoneFacts DEF Elsewhere, Writing, Locking, Freeing
<1>16. QED
  BY <1>1, <1>5, <1>6, <1>7, <1>8, <1>9, <1>13, <1>14, <1>15, EditStep

LEMMA Open1Step ==
  ASSUME FilesInv, NEW p \in Proc, Open1(p)
  PROVE  FilesInv'
<1>1. /\ TypeOK /\ PlaceOK(p) /\ u[p] \in Frame /\ pc[p] = "open1" /\ Return(p)
      /\ UNCHANGED <<super, dinode, dir, dlock>>
      /\ inode' = [inode EXCEPT ![u[p].ip].lock = None,
                                ![u[p].ip].upd = @ \/ (u[p].call = "creat" /\ Ip(p).i.mode)]
      /\ fd' = [fd EXCEPT ![p] = u[p].ip]
  BY Parts DEF Open1, At
<1>2. PICK s \in Slot : s = u[p].ip /\ inode[s].lock = p /\ (inode[s].i.mode \/ p \in Su)
  BY <1>1, Parts DEF Locking, Open1, Ip, Allowed
<1> DEFINE m == u[p].call = "creat" /\ Ip(p).i.mode
<1>3. PICK e \in Entry : e = [inode[s] EXCEPT !.lock = None, !.upd = @ \/ m]
  BY <1>1 DEF TypeOK, Entry
<1>4. /\ e.lock = None /\ e.count = inode[s].count /\ e.i = inode[s].i
      /\ e.num = inode[s].num /\ (inode[s].upd => e.upd) /\ inode[s] \in Entry
      /\ e.upd \in BOOLEAN
  BY <1>1, <1>3 DEF TypeOK, Entry
<1>5. inode' = [inode EXCEPT ![s] = e]
  BY <1>1, <1>2, <1>3 DEF TypeOK, Entry
<1>6. Edit(p, s, e)
  BY <1>2, <1>4, <1>5 DEF Edit
<1>7. QED
  BY <1>1, <1>2, <1>4, <1>6, PreleStep DEF super, TypeOK, Copying, Writing

LEMMA BmapHaveStep ==
  ASSUME FilesInv, NEW p \in Proc, BmapHave(p)
  PROVE  FilesInv'
<1>1. /\ TypeOK /\ PlaceOK(p) /\ u[p] \in Frame /\ pc[p] = "bmap" /\ Return(p)
      /\ UNCHANGED <<super, dinode, dir, dlock, fd>>
      /\ inode' = [inode EXCEPT ![u[p].ip].lock = None, ![u[p].ip].upd = TRUE]
  BY Parts DEF BmapHave, At
<1>2. PICK s \in Slot : s = u[p].ip /\ inode[s].lock = p
  BY <1>1, Parts DEF Locking, Writing
<1>3. PICK e \in Entry : e = [inode[s] EXCEPT !.lock = None, !.upd = TRUE]
  BY <1>1 DEF TypeOK, Entry
<1>4. /\ e.lock = None /\ e.count = inode[s].count /\ e.i = inode[s].i
      /\ e.num = inode[s].num /\ e.upd /\ inode[s] \in Entry
  BY <1>1, <1>3 DEF TypeOK, Entry
<1>5. inode' = [inode EXCEPT ![s] = e]
  BY <1>1, <1>2, <1>3 DEF TypeOK, Entry
<1>6. Edit(p, s, e)
  BY <1>2, <1>4, <1>5 DEF Edit
<1>7. QED
  BY <1>1, <1>2, <1>4, <1>6, PreleStep DEF super, TypeOK, Copying, Writing

LEMMA AllocNospaceStep ==
  ASSUME FilesInv, NEW p \in Proc, AllocNospace(p)
  PROVE  FilesInv'
<1>1. /\ TypeOK /\ PlaceOK(p) /\ u[p] \in Frame /\ pc[p] = "alloc" /\ Return(p)
      /\ UNCHANGED <<s_flock, link, s_inode, s_ilock, dinode, dir, dlock, fd>>
      /\ inode' = [inode EXCEPT ![u[p].ip].lock = None]
      /\ s_free' = <<>>
  BY Parts DEF AllocNospace, At, Return
<1>2. PICK s \in Slot : s = u[p].ip /\ inode[s].lock = p
  BY <1>1, Parts DEF Locking, Writing
<1>3. PICK e \in Entry : e = [inode[s] EXCEPT !.lock = None]
  BY <1>1 DEF TypeOK, Entry
<1>4. /\ e.lock = None /\ e.count = inode[s].count /\ e.i = inode[s].i
      /\ e.num = inode[s].num /\ e.upd = inode[s].upd /\ inode[s] \in Entry
      /\ inode[s].upd \in BOOLEAN
  BY <1>1, <1>3 DEF TypeOK, Entry
<1>5. inode' = [inode EXCEPT ![s] = e]
  BY <1>1, <1>2, <1>3 DEF TypeOK, Entry
<1>6. Edit(p, s, e)
  <2>1. CASE inode[s].upd
    BY <1>2, <1>4, <1>5, <2>1 DEF Edit
  <2>2. CASE ~ inode[s].upd
    BY <1>2, <1>4, <1>5, <2>2 DEF Edit
  <2>3. QED BY <2>1, <2>2
<1>7. s_free' \in Seq(Blk \cup {None})
  BY <1>1
<1>8. QED
  BY <1>1, <1>2, <1>4, <1>6, <1>7, PreleStep DEF TypeOK, Copying, Writing

LEMMA AllocDoneStep ==
  ASSUME FilesInv, NEW p \in Proc, AllocDone(p)
  PROVE  FilesInv'
<1>1. /\ TypeOK /\ PlaceOK(p) /\ u[p] \in Frame /\ pc[p] = "allocbuf" /\ Return(p)
      /\ UNCHANGED <<s_free, s_flock, s_inode, s_ilock, dinode, dir, dlock, fd>>
      /\ inode' = [inode EXCEPT ![u[p].ip].i.addr = Append(@, u[p].bn),
                                ![u[p].ip].upd = TRUE, ![u[p].ip].lock = None]
      /\ link' = [link EXCEPT ![u[p].bn] = <<>>]
  BY Parts DEF AllocDone, At
<1>2. PICK s \in Slot : s = u[p].ip /\ inode[s].lock = p
  BY <1>1, Parts DEF Locking, Writing
<1>3. u[p].bn \in Blk /\ inode[s].i \in Inode /\ inode[s] \in Entry
  BY <1>1, NoneFacts DEF PlaceOK, Frame, TypeOK, Entry
<1>4. PICK i \in Inode :
        /\ i = [inode[s].i EXCEPT !.addr = Append(@, u[p].bn)]
        /\ i.nlink = inode[s].i.nlink /\ i.mode = inode[s].i.mode
  <2>1. Append(inode[s].i.addr, u[p].bn) \in Seq(Blk)
    BY <1>3 DEF Inode
  <2>2. PICK a \in Seq(Blk) : a = Append(inode[s].i.addr, u[p].bn)
    BY <2>1
  <2>3. PICK r \in Inode : r = inode[s].i
    BY <1>3
  <2>4. /\ [r EXCEPT !.addr = a] \in Inode
        /\ [r EXCEPT !.addr = a].nlink = r.nlink /\ [r EXCEPT !.addr = a].mode = r.mode
    BY <2>2, <2>3 DEF Inode
  <2>5. [inode[s].i EXCEPT !.addr = Append(@, u[p].bn)] = [r EXCEPT !.addr = a]
    BY <2>2, <2>3
  <2>6. QED BY <2>3, <2>4, <2>5
<1>5. PICK e \in Entry : e = [inode[s] EXCEPT !.i = i, !.upd = TRUE, !.lock = None]
  BY <1>3, <1>4 DEF Entry
<1>6. /\ e.lock = None /\ e.count = inode[s].count /\ e.i = i
      /\ e.num = inode[s].num /\ e.upd
  BY <1>3, <1>5 DEF Entry
<1>7. inode' = [inode EXCEPT ![s] = e]
  BY <1>1, <1>2, <1>3, <1>4, <1>5 DEF TypeOK, Entry, Inode
<1>8. Edit(p, s, e)
  BY <1>2, <1>4, <1>6, <1>7 DEF Edit
<1>9. link' \in [Blk -> Seq(Blk \cup {None})]
  <2> DEFINE L == Seq(Blk \cup {None})
  <2>1. <<>> \in L /\ link \in [Blk -> L]
    BY <1>1 DEF TypeOK
  <2> HIDE DEF L
  <2>2. link' \in [Blk -> L]
    BY <1>1, <2>1
  <2>3. QED BY <2>2 DEF L
<1>10. QED
  BY <1>1, <1>2, <1>6, <1>8, <1>9, PreleStep DEF TypeOK, Copying, Writing

(* sync takes an inode; iget finds one in the table.                       *)
LEMMA OneMoreRef ==
  ASSUME NEW x \in Entry, NEW p \in Proc
  PROVE  /\ [x EXCEPT !.lock = p, !.count = @ + 1] \in Entry
         /\ [x EXCEPT !.lock = p, !.count = @ + 1].count = x.count + 1
<1>1. x.count \in Nat
  BY DEF Entry
<1>2. PICK c \in Nat : c = x.count + 1
  BY <1>1
<1>3. [x EXCEPT !.lock = p, !.count = c] \in Entry
  BY DEF Entry
<1>4. [x EXCEPT !.lock = p, !.count = c].count = c
  BY DEF Entry
<1>5. [x EXCEPT !.lock = p, !.count = @ + 1] = [x EXCEPT !.lock = p, !.count = c]
  BY <1>2
<1>6. QED BY <1>2, <1>3, <1>4, <1>5

LEMMA StartSyncStep ==
  ASSUME FilesInv, NEW p \in Proc, StartSync(p)
  PROVE  FilesInv'
<1>1. /\ TypeOK /\ PlaceOK(p) /\ u[p] \in Frame /\ pc[p] = "idle" /\ "sync" \in Calls
      /\ UNCHANGED <<super, dinode, dir, dlock, fd>>
      /\ Goto(p, "iupdat") /\ "iupdat" \in Labels
  BY Parts DEF StartSync, Enter, At, Labels
<1>2. PICK s \in Slot :
        /\ inode[s].lock = None /\ inode[s].count > 0 /\ inode[s].upd
        /\ inode' = [inode EXCEPT ![s].lock = p, ![s].count = @ + 1]
        /\ u' = [u EXCEPT ![p] = [NoFrame EXCEPT !.call = "sync", !.ip = s, !.then = "iput"]]
  BY DEF StartSync, Unlocked
<1>3. PICK v \in Frame :
        /\ v = [NoFrame EXCEPT !.call = "sync", !.ip = s, !.then = "iput"]
        /\ v.call = "sync" /\ v.ip = s /\ v.then = "iput" /\ v.name = None
  <2> DEFINE v == [NoFrame EXCEPT !.call = "sync", !.ip = s, !.then = "iput"]
  <2>1. "iput" \in Labels
    BY DEF Labels
  <2>2. v \in Frame
    BY <1>1, <2>1, NoFrameOK DEF Frame
  <2>3. v.call = "sync" /\ v.ip = s /\ v.then = "iput" /\ v.name = None
    BY DEF NoFrame
  <2>4. QED BY <2>2, <2>3
<1>4. /\ u' \in [Proc -> Frame] /\ u'[p] = v
      /\ \A q \in Proc \ {p} : u'[q] = u[q]
  BY <1>1, <1>2, <1>3 DEF TypeOK
<1>5. /\ pc' \in [Proc -> Labels] /\ cpu' \in Proc \cup {None} /\ pc'[p] = "iupdat"
      /\ \A q \in Proc \ {p} : pc'[q] = pc[q]
  BY <1>1, GotoDoes
<1>6. inode[s] \in Entry /\ inode[s].count \in Nat
  BY <1>1 DEF TypeOK, Entry
<1>7. PICK e \in Entry : e = [inode[s] EXCEPT !.lock = p, !.count = @ + 1]
  BY <1>6, OneMoreRef
<1>8. /\ e.lock = p /\ e.count = inode[s].count + 1 /\ e.i = inode[s].i
      /\ e.num = inode[s].num /\ e.upd = inode[s].upd
  BY <1>6, <1>7 DEF Entry
<1>9. inode' = [inode EXCEPT ![s] = e]
  BY <1>1, <1>2, <1>6, <1>7 DEF TypeOK, Entry
<1>10. Edit(p, s, e)
  <2>1. e.count # 0 /\ inode[s].count # 0
    BY <1>2, <1>6, <1>8
  <2>2. e.upd
    BY <1>2, <1>8
  <2>3. QED BY <1>2, <1>8, <1>9, <2>1, <2>2 DEF Edit
<1>11. inode' \in [Slot -> Entry] /\ inode'[s] = e
  BY <1>1, <1>9 DEF TypeOK
<1>12. TypeOK'
  BY <1>1, <1>4, <1>5, <1>11 DEF TypeOK, super
<1>13. u[p] = NoFrame /\ u[p].name = None
  BY <1>1 DEF PlaceOK, NoFrame
<1>14. DirsOf(p)
  BY <1>1, <1>3, <1>4, <1>13, NoDirs DEF Freeing
<1>15. PlaceOK(p)'
  BY <1>1, <1>3, <1>4, <1>5, NoneFacts DEF PlaceOK, Making, Writing, Freeing
<1>16. ListsOf(p) /\ FilesOf(p)
  BY <1>1, <1>5 DEF ListsOf, Copying, super, FilesOf
<1>17. /\ \A t \in Slot : ~ Ref(p, t) /\ (Ref(p, t)' <=> t = s)
       /\ fd'[p] = fd[p]
  BY <1>1, <1>3, <1>4, <1>5 DEF Ref, HasRef
<1>18. CountKind(p, s) /\ \A t \in Slot \ {s} : Ref(p, t)' <=> Ref(p, t)
  BY <1>8, <1>11, <1>17 DEF CountKind
<1>19. /\ Elsewhere(p) /\ pc[p] \notin Locking /\ pc'[p] \in Locking
       /\ pc[p] \notin {"wdir", "iread"} /\ pc'[p] \notin {"wdir", "iread"}
       /\ u'[p].ip = s
  BY <1>1, <1>3, <1>4, <1>5 DEF Elsewhere, Locking, Writing, Freeing
<1>20. QED
  BY <1>1, <1>8, <1>10, <1>12, <1>14, <1>15, <1>16, <1>17, <1>18, <1>19, EditStep

LEMMA IgetFoundStep ==
  ASSUME FilesInv, NEW p \in Proc, IgetFound(p)
  PROVE  FilesInv'
<1>1. /\ TypeOK /\ PlaceOK(p) /\ u[p] \in Frame /\ pc[p] = "iget" /\ ~ Blocked(p)
      /\ UNCHANGED <<super, dinode, dir, dlock, fd>>
  BY Parts DEF IgetFound, At
<1>2. PICK s \in Slot :
        /\ inode[s].num = u[p].ino
        /\ inode' = [inode EXCEPT ![s].lock = p, ![s].count = @ + 1]
        /\ u' = [u EXCEPT ![p].ip = s]
  BY DEF IgetFound
<1>3. inode[s] \in Entry /\ inode[s].count \in Nat
  BY <1>1 DEF TypeOK, Entry
<1>4. inode[s].lock = None /\ inode[s].count # 0
  BY <1>1, <1>2 DEF Blocked, Unlocked, PlaceOK, FilesInv, CountsOK
<1>5. PICK l \in {"open1", "unlink", "iagot"} : l = u[p].then /\ Goto(p, l) /\ l \in Labels
  BY <1>1 DEF PlaceOK, IgetFound, Labels
<1>6. /\ u' \in [Proc -> Frame] /\ u'[p] = [u[p] EXCEPT !.ip = s]
      /\ \A q \in Proc \ {p} : u'[q] = u[q]
  BY <1>1, <1>2 DEF TypeOK, Frame
<1>7. /\ u'[p].ip = s /\ u'[p].name = u[p].name /\ u'[p].then = u[p].then
      /\ u'[p].call = u[p].call /\ u'[p].ino = u[p].ino
  BY <1>1, <1>6 DEF Frame
<1>8. /\ pc' \in [Proc -> Labels] /\ cpu' \in Proc \cup {None} /\ pc'[p] = l
      /\ \A q \in Proc \ {p} : pc'[q] = pc[q]
  BY <1>1, <1>5, GotoDoes
<1>9. PICK e \in Entry : e = [inode[s] EXCEPT !.lock = p, !.count = @ + 1]
  BY <1>3, OneMoreRef
<1>10. /\ e.lock = p /\ e.count = inode[s].count + 1 /\ e.i = inode[s].i
       /\ e.num = inode[s].num /\ e.upd = inode[s].upd /\ inode[s].upd \in BOOLEAN
  BY <1>3, <1>9 DEF Entry
<1>11. inode' = [inode EXCEPT ![s] = e]
  BY <1>1, <1>2, <1>3, <1>9 DEF TypeOK, Entry
<1>12. e.count # 0 /\ inode[s].count # 0
  BY <1>3, <1>4, <1>10
<1>13. Edit(p, s, e)
  <2>1. CASE inode[s].upd
    BY <1>4, <1>10, <1>11, <1>12, <2>1 DEF Edit
  <2>2. CASE ~ inode[s].upd
    BY <1>4, <1>10, <1>11, <1>12, <2>2 DEF Edit
  <2>3. QED BY <2>1, <2>2
<1>14. inode' \in [Slot -> Entry] /\ inode'[s] = e
  BY <1>1, <1>11 DEF TypeOK
<1>15. TypeOK'
  BY <1>1, <1>6, <1>8, <1>14 DEF TypeOK, super
<1>16. DirsOf(p)
  BY <1>1, <1>5, <1>7, <1>8, KeepDirs DEF Freeing
<1>17. PlaceOK(p)'
  BY <1>1, <1>2, <1>5, <1>7, <1>8, <1>10, <1>14, NoneFacts
     DEF PlaceOK, Making, Writing, Freeing, Ip
<1>18. ListsOf(p) /\ FilesOf(p)
  BY <1>1, <1>5, <1>8 DEF ListsOf, Copying, super, FilesOf
<1>19. /\ \A t \in Slot : ~ Ref(p, t) /\ (Ref(p, t)' <=> t = s)
       /\ fd'[p] = fd[p]
  BY <1>1, <1>5, <1>7, <1>8 DEF Ref, HasRef
<1>20. CountKind(p, s) /\ \A t \in Slot \ {s} : Ref(p, t)' <=> Ref(p, t)
  BY <1>10, <1>14, <1>19 DEF CountKind
<1>21. /\ Elsewhere(p) /\ pc[p] \notin Locking /\ pc'[p] \in Locking
       /\ pc[p] \notin {"wdir", "iread"} /\ pc'[p] \notin {"wdir", "iread"}
  BY <1>1, <1>5, <1>6, <1>8 DEF Elsewhere, Locking, Writing, Freeing
<1>22. QED
  BY <1>1, <1>7, <1>10, <1>13, <1>15, <1>16, <1>17, <1>18, <1>19, <1>20, <1>21, EditStep

(* The inode in hand loses a block, or its mode.                           *)
LEMMA InodeEdit ==
  ASSUME NEW r \in Inode
  PROVE  /\ \A a \in Seq(Blk) : /\ [r EXCEPT !.addr = a] \in Inode
                               /\ [r EXCEPT !.addr = a].nlink = r.nlink
                               /\ [r EXCEPT !.addr = a].mode = r.mode
         /\ \A b \in BOOLEAN : /\ [r EXCEPT !.mode = b] \in Inode
                               /\ [r EXCEPT !.mode = b].nlink = r.nlink
BY DEF Inode

LEMMA NumCount ==
  ASSUME FilesInv, NEW s \in Slot
  PROVE  inode[s].num = None <=> inode[s].count = 0
<1>1. CountsOK
  BY DEF FilesInv
<1>2. QED BY <1>1 DEF CountsOK

LEMMA ItruncStep ==
  ASSUME FilesInv, NEW p \in Proc, Itrunc(p)
  PROVE  FilesInv'
<1>1. /\ TypeOK /\ PlaceOK(p) /\ u[p] \in Frame /\ pc[p] = "itrunc"
      /\ UNCHANGED <<super, dinode, dir, dlock, fd>>
      /\ Goto(p, "free") /\ "free" \in Labels
      /\ u' = [u EXCEPT ![p].bn = Last(Ip(p).i.addr)]
      /\ inode' = [inode EXCEPT ![u[p].ip].i.addr = Front(@), ![u[p].ip].upd = TRUE]
  BY Parts DEF Itrunc, At, Labels
<1>2. PICK s \in Slot : s = u[p].ip /\ inode[s].lock = p
  BY <1>1, Parts DEF Locking, Freeing
<1>3. inode[s].i \in Inode /\ inode[s] \in Entry
  BY <1>1 DEF TypeOK, Entry
<1>4. PICK b \in Blk, a \in Seq(Blk) : b = Last(Ip(p).i.addr) /\ a = Front(inode[s].i.addr)
  <2>1. inode[s].i.addr \in Seq(Blk) /\ inode[s].i.addr # <<>> /\ Ip(p) = inode[s]
    BY <1>1, <1>2, <1>3 DEF Inode, PlaceOK, Ip
  <2>2. Last(inode[s].i.addr) \in Blk /\ Front(inode[s].i.addr) \in Seq(Blk)
    BY <2>1 DEF Last, Front
  <2>3. QED BY <2>1, <2>2
<1>5. PICK i \in Inode :
        /\ i = [inode[s].i EXCEPT !.addr = a]
        /\ i.nlink = inode[s].i.nlink /\ i.mode = inode[s].i.mode
  BY <1>3, <1>4, InodeEdit
<1>6. PICK e \in Entry : e = [inode[s] EXCEPT !.i = i, !.upd = TRUE]
  BY <1>3, <1>5 DEF Entry
<1>7. /\ e.lock = p /\ e.count = inode[s].count /\ e.i = i
      /\ e.num = inode[s].num /\ e.upd
  BY <1>2, <1>3, <1>6 DEF Entry
<1>8. inode' = [inode EXCEPT ![s] = e]
  BY <1>1, <1>2, <1>3, <1>4, <1>5, <1>6 DEF TypeOK, Entry, Inode
<1>9. Edit(p, s, e)
  BY <1>2, <1>5, <1>7, <1>8 DEF Edit
<1>10. inode' \in [Slot -> Entry] /\ inode'[s] = e
  BY <1>1, <1>8 DEF TypeOK
<1>11. /\ u' \in [Proc -> Frame] /\ u'[p] = [u[p] EXCEPT !.bn = b]
       /\ \A q \in Proc \ {p} : u'[q] = u[q]
  BY <1>1, <1>4 DEF TypeOK, Frame
<1>12. /\ u'[p].ip = u[p].ip /\ u'[p].name = u[p].name /\ u'[p].then = u[p].then
       /\ u'[p].call = u[p].call /\ u'[p].ino = u[p].ino /\ u'[p].bn = b
  BY <1>1, <1>11 DEF Frame
<1>13. /\ pc' \in [Proc -> Labels] /\ cpu' \in Proc \cup {None} /\ pc'[p] = "free"
       /\ \A q \in Proc \ {p} : pc'[q] = pc[q]
  BY <1>1, GotoDoes
<1>14. TypeOK'
  BY <1>1, <1>10, <1>11, <1>13 DEF TypeOK, super
<1>15. DirsOf(p)
  BY <1>1, <1>12, <1>13, KeepDirs DEF Freeing
<1>16. PlaceOK(p)'
  <2>1. Ip(p) = inode[s] /\ Ip(p)' = e
    BY <1>2, <1>10, <1>12 DEF Ip
  <2>2. Ip(p)'.count = Ip(p).count /\ Ip(p)'.i.nlink = Ip(p).i.nlink
    BY <1>5, <1>7, <2>1
  <2>3. b # None /\ fd' = fd /\ dir' = dir
    BY <1>1, NoneFacts
  <2>4. QED BY <1>1, <1>12, <1>13, <2>2, <2>3 DEF PlaceOK, Making, Writing, Freeing
<1>17. ListsOf(p) /\ FilesOf(p)
  BY <1>1, <1>13 DEF ListsOf, Copying, super, FilesOf
<1>18. \A t \in Slot : Ref(p, t)' <=> Ref(p, t)
  BY <1>1, <1>12, <1>13 DEF Ref, HasRef
<1>19. CountKind(p, s)
  BY <1>1, <1>7, <1>10, <1>18 DEF CountKind
<1>20. /\ Elsewhere(p) /\ pc[p] \in Locking /\ pc'[p] \in Locking
       /\ pc[p] \notin {"wdir", "iread"} /\ pc'[p] \notin {"wdir", "iread"}
  BY <1>1, <1>11, <1>13 DEF Elsewhere, Locking, Writing, Freeing
<1>21. QED
  BY <1>1, <1>2, <1>7, <1>9, <1>12, <1>14, <1>15, <1>16, <1>17, <1>18, <1>19, <1>20, EditStep

LEMMA IfreeStep ==
  ASSUME FilesInv, NEW p \in Proc, Ifree(p)
  PROVE  FilesInv'
<1>1. /\ TypeOK /\ PlaceOK(p) /\ u[p] \in Frame /\ pc[p] = "ifree"
      /\ UNCHANGED <<s_free, s_flock, link, s_ilock, dinode, dir, dlock, fd, u>>
      /\ Goto(p, "iupdat") /\ "iupdat" \in Labels
      /\ inode' = [inode EXCEPT ![u[p].ip].i.mode = FALSE, ![u[p].ip].upd = TRUE]
  BY Parts DEF Ifree, At, Labels
<1>2. PICK s \in Slot : s = u[p].ip /\ inode[s].lock = p
  BY <1>1, Parts DEF Locking, Freeing
<1>3. inode[s].i \in Inode /\ inode[s] \in Entry
  BY <1>1 DEF TypeOK, Entry
<1>4. inode[s].count = 1 /\ inode[s].i.nlink = 0 /\ Ref(p, s) /\ inode[s].num \in Ino
  <2>1. inode[s].count = 1 /\ inode[s].i.nlink = 0
    BY <1>1, <1>2 DEF PlaceOK, Ip
  <2>2. inode[s].num # None
    BY <2>1, NumCount
  <2>3. QED BY <1>1, <1>2, <1>3, <2>1, <2>2 DEF Ref, HasRef, Entry
<1>5. PICK i \in Inode :
        i = [inode[s].i EXCEPT !.mode = FALSE] /\ i.nlink = inode[s].i.nlink
  BY <1>3, InodeEdit
<1>6. PICK e \in Entry : e = [inode[s] EXCEPT !.i = i, !.upd = TRUE]
  BY <1>3, <1>5 DEF Entry
<1>7. /\ e.lock = p /\ e.count = inode[s].count /\ e.i = i
      /\ e.num = inode[s].num /\ e.upd
  BY <1>2, <1>3, <1>6 DEF Entry
<1>8. inode' = [inode EXCEPT ![s] = e]
  BY <1>1, <1>2, <1>3, <1>5, <1>6 DEF TypeOK, Entry, Inode
<1>9. Edit(p, s, e)
  BY <1>2, <1>4, <1>5, <1>7, <1>8 DEF Edit
<1>10. inode' \in [Slot -> Entry] /\ inode'[s] = e
  BY <1>1, <1>8 DEF TypeOK
<1>11. s_inode' \in Seq(Ino)
  <2>1. s_inode \in Seq(Ino) /\ Ip(p).num \in Ino
    BY <1>1, <1>2, <1>4 DEF TypeOK, Ip
  <2>2. Append(s_inode, Ip(p).num) \in Seq(Ino)
    BY <2>1
  <2>3. QED BY <2>1, <2>2 DEF Ifree
<1>12. /\ pc' \in [Proc -> Labels] /\ cpu' \in Proc \cup {None} /\ pc'[p] = "iupdat"
       /\ \A q \in Proc \ {p} : pc'[q] = pc[q]
  BY <1>1, GotoDoes
<1>13. TypeOK'
  BY <1>1, <1>10, <1>11, <1>12 DEF TypeOK
<1>14. DirsOf(p)
  BY <1>1, <1>12, KeepDirs
<1>15. PlaceOK(p)'
  BY <1>1, <1>2, <1>4, <1>7, <1>10, <1>12, NoneFacts
     DEF PlaceOK, Making, Writing, Freeing, Ip
<1>16. ListsOf(p) /\ FilesOf(p)
  BY <1>1, <1>12 DEF ListsOf, Copying, FilesOf
<1>17. \A t \in Slot : Ref(p, t)' <=> Ref(p, t)
  BY <1>1, <1>12 DEF Ref, HasRef
<1>18. CountKind(p, s)
  BY <1>1, <1>7, <1>10, <1>17 DEF CountKind
<1>19. /\ Elsewhere(p) /\ pc[p] \in Locking /\ pc'[p] \in Locking
       /\ pc[p] \notin {"wdir", "iread"} /\ pc'[p] \notin {"wdir", "iread"}
  BY <1>1, <1>12 DEF Elsewhere, Locking, Writing, Freeing
<1>20. QED
  BY <1>1, <1>2, <1>7, <1>9, <1>13, <1>14, <1>15, <1>16, <1>17, <1>18, <1>19, EditStep

-----------------------------------------------------------------------------
(* Back from iput to its caller.                                           *)
LEMMA LeaveDoes ==
  ASSUME FilesInv, NEW p \in Proc, pc[p] \in {"iput", "iupdat"}, Leave(p),
         u[p].then \in {"idle", "ialloop"}, UNCHANGED <<dir, fd>>
  PROVE  /\ pc' \in [Proc -> Labels] /\ cpu' \in Proc \cup {None}
         /\ pc'[p] \in {"idle", "ialloop"}
         /\ u' \in [Proc -> Frame] /\ dlock' \in [Name -> Proc \cup {None}]
         /\ Elsewhere(p) /\ DirsOf(p) /\ PlaceOK(p)'
<1>1. TypeOK /\ PlaceOK(p) /\ u[p] \in Frame /\ UNCHANGED <<dir, fd>>
  BY Parts
<1>2. CASE u[p].then = "idle"
  <2>1. Putdir(p) /\ Return(p)
    BY <1>2 DEF Leave
  <2>2. /\ pc' \in [Proc -> Labels] /\ cpu' \in Proc \cup {None} /\ pc'[p] = "idle"
        /\ u' \in [Proc -> Frame] /\ u'[p] = NoFrame
        /\ \A q \in Proc \ {p} : pc'[q] = pc[q] /\ u'[q] = u[q]
    BY <1>1, <2>1, ReturnDoes
  <2>3. dlock' \in [Name -> Proc \cup {None}]
    BY <1>1, <2>1, PutdirDoes
  <2>4. DirsOf(p)
    BY <1>1, <2>1, <2>2, PutDirs DEF NoFrame
  <2>5. PlaceOK(p)'
    BY <2>2, NoneFacts DEF PlaceOK, Making, Writing, Freeing, NoFrame
  <2>6. QED BY <1>1, <2>2, <2>3, <2>4, <2>5 DEF Elsewhere
<1>3. CASE u[p].then = "ialloop"
  <2>1. Goto(p, "ialloop") /\ UNCHANGED <<dlock, u>> /\ "ialloop" \in Labels
    BY <1>3 DEF Leave, Labels
  <2>2. /\ pc' \in [Proc -> Labels] /\ cpu' \in Proc \cup {None} /\ pc'[p] = "ialloop"
        /\ \A q \in Proc \ {p} : pc'[q] = pc[q]
    BY <1>1, <2>1, GotoDoes
  <2>3. u[p].call = "creat" /\ u[p].name # None /\ dir[u[p].name] = None
    BY <1>1, <1>3 DEF PlaceOK
  <2>4. DirsOf(p)
    BY <1>1, <2>1, <2>2, <2>3, KeepDirs
  <2>5. PlaceOK(p)'
    BY <1>1, <1>3, <2>1, <2>2, <2>3, NoneFacts DEF PlaceOK, Making, Writing, Freeing
  <2>6. QED BY <1>1, <2>1, <2>2, <2>4, <2>5 DEF Elsewhere, TypeOK
<1>4. QED BY <1>2, <1>3

LEMMA IputSharedStep ==
  ASSUME FilesInv, NEW p \in Proc, IputShared(p)
  PROVE  FilesInv'
<1>1. /\ TypeOK /\ PlaceOK(p) /\ u[p] \in Frame /\ pc[p] = "iput" /\ Ip(p).count > 1
      /\ UNCHANGED <<super, dinode, dir, fd>> /\ Leave(p)
      /\ inode' = [inode EXCEPT ![u[p].ip].count = @ - 1, ![u[p].ip].lock = None]
  BY Parts DEF IputShared, At
<1>2. PICK s \in Slot : s = u[p].ip /\ inode[s].lock = p
  BY <1>1, Parts DEF Locking
<1>3. inode[s] \in Entry /\ inode[s].count \in Nat /\ inode[s].count > 1
  BY <1>1, <1>2 DEF TypeOK, Entry, Ip
<1>4. PICK c \in Nat : c = inode[s].count - 1 /\ c # 0 /\ inode[s].count # 0
  BY <1>3
<1>5. PICK e \in Entry : e = [inode[s] EXCEPT !.count = c, !.lock = None]
  BY <1>3 DEF Entry
<1>6. /\ e.lock = None /\ e.count = c /\ e.i = inode[s].i /\ inode[s].upd \in BOOLEAN
      /\ e.num = inode[s].num /\ e.upd = inode[s].upd
  BY <1>3, <1>5 DEF Entry
<1>7. inode' = [inode EXCEPT ![s] = e]
  BY <1>1, <1>2, <1>3, <1>4, <1>5 DEF TypeOK, Entry
<1>8. Edit(p, s, e)
  <2>1. CASE inode[s].upd
    BY <1>2, <1>4, <1>6, <1>7, <2>1 DEF Edit
  <2>2. CASE ~ inode[s].upd
    BY <1>2, <1>4, <1>6, <1>7, <2>2 DEF Edit
  <2>3. QED BY <1>6, <2>1, <2>2
<1>9. inode' \in [Slot -> Entry] /\ inode'[s] = e
  BY <1>1, <1>7 DEF TypeOK
<1>10. u[p].then \in {"idle", "ialloop"}
  BY <1>1 DEF PlaceOK
<1>11. /\ pc' \in [Proc -> Labels] /\ cpu' \in Proc \cup {None}
       /\ pc'[p] \in {"idle", "ialloop"}
       /\ u' \in [Proc -> Frame] /\ dlock' \in [Name -> Proc \cup {None}]
       /\ Elsewhere(p) /\ DirsOf(p) /\ PlaceOK(p)'
  BY <1>1, <1>10, LeaveDoes
<1>12. TypeOK'
  BY <1>1, <1>9, <1>11 DEF TypeOK, super
<1>13. ListsOf(p) /\ FilesOf(p)
  BY <1>1, <1>11 DEF ListsOf, Copying, FilesOf, super
<1>14. \A t \in Slot : ~ Ref(p, t)' /\ (Ref(p, t) <=> t = s)
  BY <1>1, <1>2, <1>11 DEF Ref, HasRef
<1>15. CountKind(p, s)
  BY <1>1, <1>4, <1>6, <1>9, <1>14 DEF CountKind
<1>16. /\ pc'[p] \notin Locking /\ e.lock # p
       /\ pc[p] \notin {"wdir", "iread"} /\ pc'[p] \notin {"wdir", "iread"}
  BY <1>1, <1>6, <1>11, NoneFacts DEF Locking, Writing, Freeing
<1>17. \A t \in Slot \ {s} : (fd'[p] = t <=> fd[p] = t) /\ (Ref(p, t)' <=> Ref(p, t))
  BY <1>1, <1>14
<1>18. QED
  BY <1>1, <1>2, <1>8, <1>11, <1>12, <1>13, <1>15, <1>16, <1>17, EditStep

-----------------------------------------------------------------------------
(* An entry in hand has been read, unless it is about to be.               *)
LEMMA MineHere ==
  ASSUME FilesInv, NEW p \in Proc, pc[p] # "iread", NEW s \in Slot, inode[s].lock = p
  PROVE  Present(s)
<1>1. ASSUME NEW q \in Proc, pc[q] = "iread", u[q].ip = s PROVE FALSE
  <2>1. inode[s].lock = q
    BY <1>1, InHand DEF FilesInv, CountsOK, Locking
  <2>2. QED BY <1>1, <2>1
<1>2. QED BY <1>1 DEF Present

(* An entry that nobody refers to is not locked.                           *)
LEMMA NoRefs ==
  ASSUME FilesInv, NEW s \in Slot, inode[s].count = 0, NEW q \in Proc
  PROVE  fd[q] # s /\ ~ Ref(q, s) /\ inode[s].lock # q
<1>1. inode[s].count = Cardinality(Fds(s)) + Cardinality(Refs(s))
  BY DEF FilesInv, CountsOK, Refs, Fds
<1>2. /\ Cardinality(Fds(s)) \in Nat /\ Cardinality(Refs(s)) \in Nat
      /\ IsFiniteSet(Refs(s)) /\ IsFiniteSet(Fds(s))
  BY SetsFinite
<1>3. Cardinality(Fds(s)) = 0 /\ Cardinality(Refs(s)) = 0
  BY <1>1, <1>2
<1>4. Fds(s) = {} /\ Refs(s) = {}
  BY <1>2, <1>3, FS_EmptySet
<1>5. fd[q] # s /\ ~ Ref(q, s)
  BY <1>4 DEF Fds, Refs, Ref
<1>6. ASSUME inode[s].lock = q PROVE FALSE
  <2>1. pc[q] \in Locking /\ u[q].ip = s /\ PlaceOK(q)
    BY <1>6 DEF FilesInv, LocksOK
  <2>2. CASE pc[q] \in Writing
    BY <1>5, <2>1, <2>2 DEF PlaceOK
  <2>3. CASE pc[q] \notin Writing
    BY <1>5, <2>1, <2>3 DEF Ref, HasRef, Locking, Freeing
  <2>4. QED BY <2>2, <2>3
<1>7. QED BY <1>5, <1>6

(* iput gives up an entry whose inode is on the disk.                      *)
LEMMA ReleaseStep ==
  ASSUME FilesInv, NEW p \in Proc, pc[p] \in {"iput", "iupdat"}, NEW s \in Slot,
         u[p].ip = s, inode[s].count = 1, u[p].then \in {"idle", "ialloop"},
         inode' = [inode EXCEPT ![s] = NoEntry],
         dinode' = [dinode EXCEPT ![inode[s].num] = inode[s].i],
         Leave(p), UNCHANGED <<super, dir, fd>>
  PROVE  FilesInv'
<1>1. /\ TypeOK /\ LocksOK /\ inode[s].lock = p /\ inode[s] \in Entry /\ inode[s].num \in Ino
      /\ inode[s].num # None /\ inode[s].i \in Inode /\ Present(s) /\ Ref(p, s)
  <2>1. TypeOK /\ LocksOK /\ inode[s].lock = p
    BY Parts DEF Locking
  <2>2. inode[s] \in Entry /\ inode[s].num # None
    BY <2>1, NumCount DEF TypeOK
  <2>3. Present(s)
    BY <2>1, MineHere
  <2>4. QED BY <2>1, <2>2, <2>3 DEF Entry, Ref, HasRef
<1>2. /\ pc' \in [Proc -> Labels] /\ cpu' \in Proc \cup {None}
      /\ pc'[p] \in {"idle", "ialloop"}
      /\ u' \in [Proc -> Frame] /\ dlock' \in [Name -> Proc \cup {None}]
      /\ Elsewhere(p) /\ DirsOf(p) /\ PlaceOK(p)'
  BY LeaveDoes
<1>3. /\ inode' \in [Slot -> Entry] /\ dinode' \in [Ino \cup {0} -> Inode]
      /\ inode'[s] = NoEntry /\ \A t \in Slot \ {s} : inode'[t] = inode[t]
      /\ dinode'[inode[s].num] = inode[s].i
      /\ \A n \in Ino : n # inode[s].num => dinode'[n] = dinode[n]
  <2>1. NoEntry \in Entry
    BY DEF NoEntry, Entry, Free0, Inode
  <2>2. QED BY <1>1, <2>1 DEF TypeOK
<1>4. /\ inode'[s].num = None /\ inode'[s].lock = None /\ inode'[s].count = 0
  BY <1>3 DEF NoEntry
<1>5. TypeOK'
  BY <1>1, <1>2, <1>3 DEF TypeOK, super
<1>6. Touches(p)
  BY <1>1, <1>3 DEF Touches
<1>7. LocksOf(p)
  BY <1>1, <1>2, <1>3, <1>4 DEF LocksOf, Locking, Writing, Freeing, LocksOK
<1>8. FilesOf(p) /\ ListsOf(p)
  BY <1>2 DEF FilesOf, ListsOf, super, Copying
<1>9. NumsOf
  BY <1>3, <1>4, NumCount DEF NumsOf
<1>10. Unique /\ Unique'
  BY <1>9, UniqueStep
<1>11. \A t \in Slot : Present(t)' <=> Present(t)
  BY <1>2, PresentKept
<1>12. CleansOf
  <2>1. ASSUME NEW t \in Slot, t # s, inode[t].num # None
        PROVE  dinode'[inode[t].num] = dinode[inode[t].num]
    <3>1. inode[t].num # inode[s].num
      BY <1>1, <1>10, <2>1 DEF Unique
    <3>2. inode[t].num \in Ino
      BY <1>1, <2>1 DEF TypeOK, Entry
    <3>3. QED BY <1>3, <3>1, <3>2
  <2>2. QED BY <1>3, <1>4, <1>11, <2>1 DEF CleansOf
<1>13. \A t \in Slot : CountKind(p, t)
  <2>1. \A t \in Slot : ~ Ref(p, t)' /\ (Ref(p, t) <=> t = s)
    BY <1>1, <1>2 DEF Ref, HasRef
  <2>2. QED BY <1>3, <1>4, <2>1 DEF CountKind
<1>14. LinksCounted'
  <2>1. ASSUME NEW n \in Ino PROVE SameLinks(n)
    <3>1. CASE n = inode[s].num
      <4>1. Current(n) = inode[s].i
        BY <1>1, <1>10, <3>1, CurrentIn
      <4>2. \A t \in Slot : inode'[t].num # n
        BY <1>1, <1>3, <1>4, <1>10, <3>1 DEF Unique
      <4>3. Current(n)' = dinode'[n]
        BY <4>2, CurrentOutNext
      <4>4. QED BY <1>3, <3>1, <4>1, <4>3 DEF SameLinks
    <3>2. CASE n # inode[s].num
      <4>1. ASSUME NEW t \in Slot, inode[t].num = n \/ inode'[t].num = n
            PROVE  inode'[t] = inode[t]
        BY <1>1, <1>3, <1>4, <3>2, <4>1, NoneFacts
      <4>2. QED BY <1>3, <1>10, <1>11, <3>2, <4>1, TableKept
    <3>3. QED BY <3>1, <3>2
  <2>2. QED BY <1>2, <1>6, <2>1, LinksKept
<1>15. QED
  BY <1>2, <1>5, <1>6, <1>7, <1>8, <1>9, <1>12, <1>13, <1>14, Whole

LEMMA IputCleanStep ==
  ASSUME FilesInv, NEW p \in Proc, IputClean(p)
  PROVE  FilesInv'
<1>1. /\ TypeOK /\ PlaceOK(p) /\ u[p] \in Frame /\ pc[p] = "iput" /\ Ip(p).count = 1
      /\ UNCHANGED <<super, dinode, dir, fd>> /\ Leave(p) /\ ~ Ip(p).upd
      /\ inode' = [inode EXCEPT ![u[p].ip] = NoEntry]
  BY Parts DEF IputClean, Release, At
<1>2. PICK s \in Slot : s = u[p].ip /\ inode[s].lock = p
  BY <1>1, Parts DEF Locking
<1>3. inode[s].count = 1 /\ ~ inode[s].upd /\ inode[s].num # None
  BY <1>1, <1>2, NumCount DEF Ip
<1>4. inode[s].i = dinode[inode[s].num]
  BY <1>1, <1>2, <1>3, MineHere DEF FilesInv, CleanOK
<1>5. dinode' = [dinode EXCEPT ![inode[s].num] = inode[s].i]
  BY <1>1, <1>4 DEF TypeOK
<1>6. u[p].then \in {"idle", "ialloop"}
  BY <1>1 DEF PlaceOK
<1>7. QED BY <1>1, <1>2, <1>3, <1>5, <1>6, ReleaseStep

LEMMA IupdatStep ==
  ASSUME FilesInv, NEW p \in Proc, Iupdat(p)
  PROVE  FilesInv'
<1>1. /\ TypeOK /\ LocksOK /\ PlaceOK(p) /\ u[p] \in Frame /\ pc[p] = "iupdat"
      /\ UNCHANGED <<super, dir, fd>>
      /\ dinode' = [dinode EXCEPT ![Ip(p).num] = Ip(p).i]
  BY Parts DEF Iupdat, At
<1>2. PICK s \in Slot : s = u[p].ip /\ inode[s].lock = p
  BY <1>1, Parts DEF Locking
<1>3. dinode' = [dinode EXCEPT ![inode[s].num] = inode[s].i]
  BY <1>1, <1>2 DEF Ip
<1>4. CASE u[p].then # "iput"
  <2>1. Leave(p) /\ inode' = [inode EXCEPT ![s] = NoEntry]
    BY <1>2, <1>4 DEF Iupdat, Release
  <2>2. u[p].then \in {"idle", "ialloop"} /\ inode[s].count = 1
    BY <1>1, <1>2, <1>4 DEF PlaceOK, Ip
  <2>3. QED BY <1>1, <1>2, <1>3, <2>1, <2>2, ReleaseStep
<1>5. CASE u[p].then = "iput"
  <2>1. /\ inode' = [inode EXCEPT ![s].upd = FALSE]
        /\ u' = [u EXCEPT ![p].then = "idle"] /\ Goto(p, "iput") /\ dlock' = dlock
        /\ "iput" \in Labels /\ "idle" \in Labels
    BY <1>2, <1>5 DEF Iupdat, Labels
  <2>2. /\ pc' \in [Proc -> Labels] /\ cpu' \in Proc \cup {None} /\ pc'[p] = "iput"
        /\ \A q \in Proc \ {p} : pc'[q] = pc[q]
    BY <1>1, <2>1, GotoDoes
  <2>3. /\ u' \in [Proc -> Frame] /\ u'[p] = [u[p] EXCEPT !.then = "idle"]
        /\ \A q \in Proc \ {p} : u'[q] = u[q]
    BY <1>1, <2>1 DEF TypeOK, Frame
  <2>4. /\ u'[p].ip = s /\ u'[p].name = u[p].name /\ u'[p].then = "idle"
        /\ u'[p].call = u[p].call /\ u'[p].ino = u[p].ino
    BY <1>1, <1>2, <2>3 DEF Frame
  <2>5. Ref(p, s) /\ inode[s].num # None /\ Present(s)
    <3>1. Ref(p, s)
      BY <1>1, <1>2 DEF Ref, HasRef
    <3>2. inode[s].count # 0
      BY <3>1, NoRefs
    <3>3. QED BY <1>1, <1>2, <3>1, <3>2, NumCount, MineHere
  <2>6. inode[s] \in Entry /\ inode[s].num \in Ino /\ inode[s].i \in Inode
    BY <1>1, <2>5 DEF TypeOK, Entry
  <2>7. /\ inode' \in [Slot -> Entry] /\ \A t \in Slot \ {s} : inode'[t] = inode[t]
        /\ inode'[s].num = inode[s].num /\ inode'[s].i = inode[s].i
        /\ inode'[s].lock = p /\ inode'[s].count = inode[s].count
    BY <1>1, <1>2, <2>1, <2>6 DEF TypeOK, Entry
  <2>8. /\ dinode' \in [Ino \cup {0} -> Inode]
        /\ dinode'[inode[s].num] = inode[s].i
        /\ \A n \in Ino : n # inode[s].num => dinode'[n] = dinode[n]
    BY <1>1, <1>3, <2>6 DEF TypeOK
  <2>9. TypeOK'
    BY <1>1, <2>1, <2>2, <2>3, <2>7, <2>8 DEF TypeOK, super
  <2>10. Elsewhere(p) /\ Touches(p)
    BY <1>1, <1>2, <2>2, <2>3, <2>7 DEF Elsewhere, Touches
  <2>11. LocksOf(p)
    BY <1>1, <1>2, <2>2, <2>4, <2>7, NoneFacts DEF LocksOf, Locking, LocksOK
  <2>12. DirsOf(p)
    BY <1>1, <2>1, <2>2, <2>4, KeepDirs
  <2>13. PlaceOK(p)'
    <3>1. fd' = fd /\ dir' = dir
      BY <1>1
    <3>2. QED BY <1>1, <1>5, <2>2, <2>4, <3>1, NoneFacts
              DEF PlaceOK, Making, Writing, Freeing
  <2>14. FilesOf(p) /\ ListsOf(p)
    BY <1>1, <2>2 DEF FilesOf, ListsOf, super, Copying
  <2>15. NumsOf
    BY <2>7, NumCount DEF NumsOf
  <2>16. Unique /\ Unique'
    BY <2>15, UniqueStep
  <2>17. \A t \in Slot : Present(t)' <=> Present(t)
    BY <1>1, <2>2, <2>10, PresentKept
  <2>18. CleansOf
    <3>1. ASSUME NEW t \in Slot, t # s, inode[t].num # None
          PROVE  dinode'[inode[t].num] = dinode[inode[t].num]
      <4>1. inode[t].num # inode[s].num
        BY <2>5, <2>16, <3>1 DEF Unique
      <4>2. inode[t].num \in Ino
        BY <1>1, <3>1 DEF TypeOK, Entry
      <4>3. QED BY <2>8, <4>1, <4>2
    <3>2. inode'[s].i = dinode'[inode'[s].num]
      BY <2>7, <2>8
    <3>3. QED BY <2>7, <2>17, <3>1, <3>2 DEF CleansOf
  <2>19. \A t \in Slot : CountKind(p, t)
    <3>1. \A t \in Slot : Ref(p, t)' <=> Ref(p, t)
      BY <1>1, <1>2, <2>2, <2>4 DEF Ref, HasRef
    <3>2. QED BY <1>1, <2>7, <3>1 DEF CountKind
  <2>20. ASSUME NEW n \in Ino PROVE SameLinks(n)
    <3>1. CASE n = inode[s].num
      <4>1. Current(n) = inode[s].i
        BY <2>5, <2>16, <3>1, CurrentIn
      <4>2. Current(n)' = inode'[s].i
        BY <2>5, <2>7, <2>16, <2>17, <3>1, CurrentInNext
      <4>3. QED BY <2>7, <4>1, <4>2 DEF SameLinks
    <3>2. CASE n # inode[s].num
      <4>1. ASSUME NEW t \in Slot, inode[t].num = n \/ inode'[t].num = n
            PROVE  inode'[t] = inode[t]
        BY <2>7, <3>2, <4>1
      <4>2. QED BY <2>8, <2>16, <2>17, <3>2, <4>1, TableKept
    <3>3. QED BY <3>1, <3>2
  <2>21. LinksCounted'
    BY <1>1, <2>2, <2>10, <2>20, LinksKept
  <2>22. QED
    BY <2>9, <2>10, <2>11, <2>12, <2>13, <2>14, <2>15, <2>18, <2>19, <2>21, Whole
<1>6. QED BY <1>4, <1>5

(* iget makes a new entry, and reads the inode into it.                    *)
LEMMA IgetNewStep ==
  ASSUME FilesInv, NEW p \in Proc, IgetNew(p)
  PROVE  FilesInv'
<1>1. /\ TypeOK /\ LocksOK /\ PlaceOK(p) /\ u[p] \in Frame /\ pc[p] = "iget"
      /\ UNCHANGED <<super, dinode, dir, dlock, fd>>
      /\ Goto(p, "iread") /\ "iread" \in Labels
      /\ ~ InCore(u[p].ino)
  BY Parts DEF IgetNew, At, Labels
<1>2. PICK s \in Slot :
        /\ inode[s].count = 0
        /\ inode' = [inode EXCEPT ![s].num = u[p].ino, ![s].lock = p,
                                  ![s].count = 1, ![s].upd = FALSE]
        /\ u' = [u EXCEPT ![p].ip = s]
  BY DEF IgetNew
<1>3. u[p].ino \in Ino /\ u[p].then \in {"open1", "unlink", "iagot"}
  BY <1>1 DEF PlaceOK, Frame
<1>4. /\ pc' \in [Proc -> Labels] /\ cpu' \in Proc \cup {None} /\ pc'[p] = "iread"
      /\ \A q \in Proc \ {p} : pc'[q] = pc[q]
  BY <1>1, GotoDoes
<1>5. /\ u' \in [Proc -> Frame] /\ u'[p] = [u[p] EXCEPT !.ip = s]
      /\ \A q \in Proc \ {p} : u'[q] = u[q]
  BY <1>1, <1>2 DEF TypeOK, Frame
<1>6. /\ u'[p].ip = s /\ u'[p].name = u[p].name /\ u'[p].then = u[p].then
      /\ u'[p].call = u[p].call /\ u'[p].ino = u[p].ino
  BY <1>1, <1>5 DEF Frame
<1>7. /\ inode[s].lock = None /\ inode[s].num = None /\ inode[s] \in Entry
      /\ \A q \in Proc : fd[q] # s /\ ~ Ref(q, s)
  <2>1. \A q \in Proc : fd[q] # s /\ ~ Ref(q, s) /\ inode[s].lock # q
    BY <1>2, NoRefs
  <2>2. QED BY <1>1, <1>2, <2>1, NumCount DEF TypeOK, Entry
<1>8. /\ inode' \in [Slot -> Entry] /\ \A t \in Slot \ {s} : inode'[t] = inode[t]
      /\ inode'[s].num = u[p].ino /\ inode'[s].lock = p /\ inode'[s].count = 1
      /\ inode'[s].i = inode[s].i
  BY <1>1, <1>2, <1>3, <1>7 DEF TypeOK, Entry
<1>9. TypeOK'
  BY <1>1, <1>4, <1>5, <1>8 DEF TypeOK, super
<1>10. Elsewhere(p) /\ Touches(p)
  BY <1>1, <1>4, <1>5, <1>7, <1>8 DEF Elsewhere, Touches
<1>11. LocksOf(p)
  BY <1>1, <1>4, <1>6, <1>8, NoneFacts DEF LocksOf, Locking, Writing, Freeing, LocksOK
<1>12. DirsOf(p)
  BY <1>1, <1>3, <1>4, <1>6, KeepDirs
<1>13. PlaceOK(p)'
  <2>1. Ip(p)'.num = u[p].ino /\ Ip(p)'.count = 1 /\ fd' = fd /\ dir' = dir
    BY <1>1, <1>6, <1>8 DEF Ip
  <2>2. QED BY <1>1, <1>3, <1>4, <1>6, <2>1, NoneFacts
            DEF PlaceOK, Making, Writing, Freeing
<1>14. FilesOf(p) /\ ListsOf(p)
  BY <1>1, <1>4 DEF FilesOf, ListsOf, super, Copying
<1>15. \A t \in Slot : inode[t].num # u[p].ino
  BY <1>1 DEF InCore
<1>16. NumsOf
  BY <1>3, <1>8, <1>15, NoneFacts, NumCount DEF NumsOf
<1>17. Unique /\ Unique'
  BY <1>16, UniqueStep
<1>18. ~ Present(s)' /\ \A t \in Slot \ {s} : Present(t)' <=> Present(t)
  BY <1>1, <1>4, <1>5, <1>6 DEF Present
<1>19. CleansOf
  BY <1>1, <1>8, <1>18 DEF CleansOf
<1>20. \A t \in Slot : CountKind(p, t)
  <2>1. \A t \in Slot : ~ Ref(p, t) /\ (Ref(p, t)' <=> t = s)
    BY <1>1, <1>4, <1>6 DEF Ref, HasRef
  <2>2. QED BY <1>1, <1>2, <1>8, <2>1 DEF CountKind
<1>21. ASSUME NEW n \in Ino PROVE SameLinks(n)
  <2>1. CASE n = u[p].ino
    <3>1. Current(n) = dinode[n]
      BY <1>15, <2>1, CurrentOut
    <3>2. \A t \in Slot : ~ (inode'[t].num = n /\ Present(t)')
      BY <1>8, <1>15, <1>18, <2>1
    <3>3. Current(n)' = dinode'[n]
      BY <3>2, CurrentOutNext
    <3>4. QED BY <1>1, <3>1, <3>3 DEF SameLinks
  <2>2. CASE n # u[p].ino
    <3>1. ASSUME NEW t \in Slot, inode[t].num = n \/ inode'[t].num = n
          PROVE  t # s /\ inode'[t] = inode[t] /\ (Present(t)' <=> Present(t))
      BY <1>7, <1>8, <1>18, <2>2, <3>1, NoneFacts
    <3>2. QED BY <1>1, <1>17, <3>1, TableKept
  <2>3. QED BY <2>1, <2>2
<1>22. LinksCounted'
  BY <1>1, <1>4, <1>10, <1>21, LinksKept
<1>23. QED
  BY <1>9, <1>10, <1>11, <1>12, <1>13, <1>14, <1>16, <1>19, <1>20, <1>22, Whole

LEMMA LocksHeld ==
  ASSUME FilesInv, NEW p \in Proc, NEW s \in Slot, u[p].ip = s, u'[p].ip = s,
         pc[p] \in Locking, pc'[p] \in Locking, inode'[s].lock = p,
         \A t \in Slot \ {s} : inode'[t] = inode[t]
  PROVE  LocksOf(p)
<1>1. \A t \in Slot \ {s} : inode'[t].lock = inode[t].lock /\ inode[t].lock # p
  BY Parts DEF LocksOK
<1>2. QED BY <1>1, NoneFacts DEF LocksOf

LEMMA IreadStep ==
  ASSUME FilesInv, NEW p \in Proc, Iread(p)
  PROVE  FilesInv'
<1>1. /\ TypeOK /\ LocksOK /\ PlaceOK(p) /\ u[p] \in Frame /\ pc[p] = "iread"
      /\ UNCHANGED <<super, dinode, dir, dlock, fd, u>>
      /\ inode' = [inode EXCEPT ![u[p].ip].num = u[p].ino,
                                ![u[p].ip].i = dinode[u[p].ino]]
  BY Parts DEF Iread, At
<1>2. PICK s \in Slot : s = u[p].ip /\ inode[s].lock = p
  BY <1>1, Parts DEF Locking
<1>3. PICK l \in {"open1", "unlink", "iagot"} : l = u[p].then /\ Goto(p, l) /\ l \in Labels
  BY <1>1 DEF PlaceOK, Iread, Labels
<1>4. /\ pc' \in [Proc -> Labels] /\ cpu' \in Proc \cup {None} /\ pc'[p] = l
      /\ \A q \in Proc \ {p} : pc'[q] = pc[q]
  BY <1>1, <1>3, GotoDoes
<1>5. /\ u[p].ino \in Ino /\ inode[s].num = u[p].ino /\ inode[s].count = 1
      /\ dinode[u[p].ino] \in Inode /\ inode[s] \in Entry /\ u[p].ino # None
  BY <1>1, <1>2 DEF PlaceOK, Ip, Frame, TypeOK
<1>6. /\ inode' \in [Slot -> Entry] /\ \A t \in Slot \ {s} : inode'[t] = inode[t]
      /\ inode'[s].num = u[p].ino /\ inode'[s].lock = p /\ inode'[s].count = 1
      /\ inode'[s].i = dinode[u[p].ino]
  BY <1>1, <1>2, <1>5 DEF TypeOK, Entry
<1>7. TypeOK'
  BY <1>1, <1>4, <1>6 DEF TypeOK, super
<1>8. Ref(p, s)
  BY <1>1, <1>2 DEF Ref, HasRef
<1>9. Elsewhere(p) /\ Touches(p)
  BY <1>1, <1>2, <1>4, <1>5, <1>6, <1>8 DEF Elsewhere, Touches
<1>10. LocksOf(p)
  BY <1>1, <1>2, <1>3, <1>4, <1>6, LocksHeld DEF Locking
<1>11. DirsOf(p)
  BY <1>1, <1>3, <1>4, KeepDirs
<1>12. PlaceOK(p)'
  <2>1. Ip(p)'.num = u[p].ino /\ fd' = fd /\ dir' = dir /\ u' = u
    BY <1>1, <1>2, <1>6 DEF Ip
  <2>2. QED BY <1>1, <1>3, <1>4, <2>1, NoneFacts
            DEF PlaceOK, Making, Writing, Freeing
<1>13. FilesOf(p) /\ ListsOf(p)
  BY <1>1, <1>3, <1>4 DEF FilesOf, ListsOf, super, Copying
<1>14. NumsOf
  BY <1>5, <1>6, NumCount, NoneFacts DEF NumsOf
<1>15. Unique /\ Unique'
  BY <1>14, UniqueStep
<1>16. ~ Present(s)
  BY <1>1, <1>2 DEF Present
<1>17. \A t \in Slot \ {s} : Present(t)' <=> Present(t)
  BY <1>1, <1>2, <1>3, <1>4 DEF Present
<1>18. CleansOf
  BY <1>1, <1>6, <1>17 DEF CleansOf
<1>19. \A t \in Slot : CountKind(p, t)
  <2>1. \A t \in Slot : Ref(p, t)' <=> Ref(p, t)
    BY <1>1, <1>3, <1>4 DEF Ref, HasRef
  <2>2. QED BY <1>1, <1>5, <1>6, <2>1 DEF CountKind
<1>20. Present(s)'
  <2>1. ASSUME NEW q \in Proc, pc'[q] = "iread", u'[q].ip = s PROVE FALSE
    <3>1. q # p /\ pc[q] = "iread" /\ u[q].ip = s
      BY <1>1, <1>3, <1>4, <2>1
    <3>2. inode[s].lock = q
      BY <3>1, InHand DEF FilesInv, CountsOK, Locking
    <3>3. QED BY <1>2, <3>1, <3>2
  <2>2. QED BY <2>1 DEF Present
<1>21. ASSUME NEW n \in Ino PROVE SameLinks(n)
  <2>1. CASE n = u[p].ino
    <3>1. \A t \in Slot : ~ (inode[t].num = n /\ Present(t))
      BY <1>5, <1>15, <1>16, <2>1 DEF Unique
    <3>2. Current(n) = dinode[n]
      BY <3>1, CurrentOut
    <3>3. Current(n)' = inode'[s].i
      BY <1>5, <1>6, <1>15, <1>20, <2>1, CurrentInNext
    <3>4. QED BY <1>6, <2>1, <3>2, <3>3 DEF SameLinks
  <2>2. CASE n # u[p].ino
    <3>1. ASSUME NEW t \in Slot, inode[t].num = n \/ inode'[t].num = n
          PROVE  inode'[t] = inode[t] /\ (Present(t)' <=> Present(t))
      BY <1>5, <1>6, <1>17, <2>2, <3>1
    <3>2. QED BY <1>1, <1>15, <3>1, TableKept
  <2>3. QED BY <2>1, <2>2
<1>22. LinksCounted'
  BY <1>1, <1>3, <1>4, <1>9, <1>21, LinksKept
<1>23. QED
  BY <1>7, <1>9, <1>10, <1>11, <1>12, <1>13, <1>14, <1>18, <1>19, <1>22, Whole

-----------------------------------------------------------------------------
(* ialloc has the only reference to an inode without a mode, if everyone's *)
(* open looks at the mode: an open file has one then, and so has a file    *)
(* that is being closed.                                                   *)
LEMMA OnlyRef ==
  ASSUME FilesInv, Su = {}, NEW p \in Proc, pc[p] = "iagot", NEW s \in Slot, u[p].ip = s,
         ~ inode[s].i.mode
  PROVE  inode[s].count = 1
<1>1. inode[s].lock = p /\ p \in Refs(s)
  BY Parts DEF Locking, Refs, HasRef
<1>2. ASSUME NEW q \in Proc, fd[q] = s PROVE FALSE
  BY <1>2, NoneFacts DEF FilesInv, OpenAlive
<1>3. ASSUME NEW q \in Proc, q \in Refs(s) PROVE q = p
  <2>1. HasRef(q) /\ u[q].ip = s /\ PlaceOK(q)
    BY <1>3, Parts DEF Refs
  <2>2. CASE pc[q] = "plock"
    BY <2>1, <2>2 DEF HasRef, PlaceOK, Ip, Allowed
  <2>3. CASE pc[q] # "plock"
    <3>1. pc[q] \in Locking
      BY <2>1, <2>3 DEF HasRef, Locking, Freeing
    <3>2. QED BY <1>1, <2>1, <3>1, Parts
  <2>4. QED BY <2>2, <2>3
<1>4. Fds(s) = {} /\ Refs(s) = {p}
  BY <1>1, <1>2, <1>3 DEF Fds, Refs
<1>5. Cardinality(Fds(s)) = 0 /\ Cardinality(Refs(s)) = 1
  BY <1>4, FS_EmptySet, FS_Singleton
<1>6. inode[s].count = Cardinality(Fds(s)) + Cardinality(Refs(s))
  BY DEF FilesInv, CountsOK, Refs, Fds
<1>7. QED BY <1>5, <1>6

LEMMA IallocGotStep ==
  ASSUME FilesInv, NEW p \in Proc, IallocGot(p)
  PROVE  FilesInv'
<1>1. /\ TypeOK /\ LocksOK /\ PlaceOK(p) /\ u[p] \in Frame /\ pc[p] = "iagot"
      /\ UNCHANGED <<super, dinode, dir, dlock, fd, u>>
      /\ Goto(p, "wdir") /\ "wdir" \in Labels /\ ~ Ip(p).i.mode
      /\ inode' = [inode EXCEPT ![u[p].ip].i = NewFile, ![u[p].ip].upd = TRUE]
  BY Parts DEF IallocGot, At, Labels
<1>2. PICK s \in Slot : s = u[p].ip /\ inode[s].lock = p
  BY <1>1, Parts DEF Locking
<1>3. /\ pc' \in [Proc -> Labels] /\ cpu' \in Proc \cup {None} /\ pc'[p] = "wdir"
      /\ \A q \in Proc \ {p} : pc'[q] = pc[q]
  BY <1>1, GotoDoes
<1>4. /\ inode[s] \in Entry /\ (Su = {} => inode[s].count = 1) /\ inode[s].num # None
      /\ ~ inode[s].i.mode /\ inode[s].num \in Ino /\ inode[s].i \in Inode
  <2>1. ~ inode[s].i.mode /\ inode[s] \in Entry
    BY <1>1, <1>2 DEF Ip, TypeOK
  <2>2. Su = {} => inode[s].count = 1
    BY <1>1, <1>2, <2>1, OnlyRef
  <2>3. inode[s].num # None
    BY <1>2, NumCount, NoRefs
  <2>4. QED BY <2>1, <2>2, <2>3 DEF Entry
<1>5. NewFile \in Inode /\ NewFile.nlink = 1 /\ NewFile.mode
  BY DEF NewFile, Inode
<1>6. /\ inode' \in [Slot -> Entry] /\ \A t \in Slot \ {s} : inode'[t] = inode[t]
      /\ inode'[s].num = inode[s].num /\ inode'[s].lock = p
      /\ inode'[s].count = inode[s].count /\ inode'[s].i = NewFile /\ inode'[s].upd
  BY <1>1, <1>2, <1>4, <1>5 DEF TypeOK, Entry
<1>7. TypeOK'
  BY <1>1, <1>3, <1>6 DEF TypeOK, super
<1>8. Elsewhere(p) /\ Touches(p)
  BY <1>1, <1>2, <1>3, <1>4, <1>6 DEF Elsewhere, Touches
<1>9. LocksOf(p)
  BY <1>1, <1>2, <1>3, <1>6, LocksHeld DEF Locking
<1>10. u[p].name # None /\ u[p].call = "creat" /\ dir[u[p].name] = None
  BY <1>1 DEF PlaceOK, Making
<1>11. DirsOf(p)
  BY <1>1, <1>3, <1>10, KeepDirs
<1>12. PlaceOK(p)'
  <2>1. /\ Su = {} => Ip(p)'.count = 1
        /\ Ip(p)'.i = NewFile /\ fd' = fd /\ dir' = dir /\ u' = u
    BY <1>1, <1>2, <1>4, <1>6 DEF Ip
  <2>2. QED BY <1>1, <1>3, <1>10, <2>1, NoneFacts
            DEF PlaceOK, Making, Writing, Freeing
<1>13. FilesOf(p) /\ ListsOf(p)
  BY <1>1, <1>3 DEF FilesOf, ListsOf, super, Copying
<1>14. NumsOf
  BY <1>4, <1>6, NumCount DEF NumsOf
<1>15. Unique /\ Unique'
  BY <1>14, UniqueStep
<1>16. \A t \in Slot : Present(t)' <=> Present(t)
  BY <1>1, <1>3, <1>8, PresentKept
<1>17. CleansOf
  BY <1>1, <1>6, <1>16 DEF CleansOf
<1>18. \A t \in Slot : CountKind(p, t)
  <2>1. \A t \in Slot : Ref(p, t)' <=> Ref(p, t)
    BY <1>1, <1>3 DEF Ref, HasRef
  <2>2. QED BY <1>1, <1>4, <1>6, <2>1 DEF CountKind
<1>19. Present(s)
  BY <1>1, <1>2, MineHere
<1>20. ASSUME NEW n \in Ino PROVE LinksAt(n)'
  <2>1. Entries(n)' = Entries(n)
    BY <1>1 DEF Entries
  <2>2. p \notin Makers(n) /\ (p \in Makers(n)' <=> n = inode[s].num)
    BY <1>1, <1>2, <1>3, <1>6 DEF Makers, Ip
  <2>3. CASE n # inode[s].num
    <3>1. Makers(n)' = Makers(n)
      BY <1>8, <2>2, <2>3, MakersKept
    <3>2. ASSUME NEW t \in Slot, inode[t].num = n \/ inode'[t].num = n
          PROVE  inode'[t] = inode[t] /\ (Present(t)' <=> Present(t))
      BY <1>6, <1>16, <2>3, <3>2
    <3>3. SameLinks(n)
      BY <1>1, <1>15, <3>2, TableKept
    <3>4. QED BY <2>1, <3>1, <3>3, LinksSame
  <2>4. CASE n = inode[s].num
    <3>1. Current(n) = inode[s].i
      BY <1>4, <1>15, <1>19, <2>4, CurrentIn
    <3>2. Current(n)' = NewFile
      BY <1>4, <1>6, <1>15, <1>16, <1>19, <2>4, CurrentInNext
    <3>3. LinksAt(n)
      BY LinksAre DEF FilesInv, LinksAt
    <3>4. /\ Cardinality(Entries(n)) \in Nat /\ Cardinality(Makers(n)) \in Nat
          /\ IsFiniteSet(Entries(n)) /\ IsFiniteSet(Makers(n))
      BY LinksFinite
    <3>5. inode[s].i.nlink \in Nat
      BY <1>4 DEF Inode
    <3>6. Cardinality(Entries(n)) = 0 /\ Cardinality(Makers(n)) = 0
      BY <1>4, <3>1, <3>3, <3>4, <3>5 DEF LinksAt
    <3>7. Makers(n) = {}
      BY <3>4, <3>6, FS_EmptySet
    <3>8. Makers(n)' = {p}
      <4>1. \A q \in Proc : q # p => q \notin Makers(n)'
        BY <1>8, <3>7, OtherMakers
      <4>2. Makers(n)' \subseteq Proc
        BY DEF Makers
      <4>3. QED BY <2>2, <2>4, <4>1, <4>2
    <3>9. Cardinality(Makers(n)') = 1
      BY <3>8, FS_Singleton
    <3>10. Cardinality(Entries(n)') = 0
      BY <2>1, <3>6
    <3>11. QED BY <1>5, <3>2, <3>9, <3>10 DEF LinksAt
  <2>5. QED BY <2>3, <2>4
<1>21. LinksCounted'
  BY <1>20, LinksAreNext DEF LinksAt
<1>22. QED
  BY <1>7, <1>8, <1>9, <1>11, <1>12, <1>13, <1>14, <1>17, <1>18, <1>21, Whole

(* The name of a new file, and the end of a name.                          *)
LEMMA WdirStep ==
  ASSUME FilesInv, NEW p \in Proc, Wdir(p)
  PROVE  FilesInv'
<1>1. /\ TypeOK /\ LocksOK /\ PlaceOK(p) /\ u[p] \in Frame /\ pc[p] = "wdir"
      /\ UNCHANGED <<super, dinode>> /\ Putdir(p) /\ Return(p)
      /\ dir' = [dir EXCEPT ![u[p].name] = Ip(p).num]
      /\ inode' = [inode EXCEPT ![u[p].ip].lock = None]
      /\ fd' = [fd EXCEPT ![p] = u[p].ip]
  BY Parts DEF Wdir, At
<1>2. PICK s \in Slot : s = u[p].ip /\ inode[s].lock = p
  BY <1>1, Parts DEF Locking
<1>3. /\ pc' \in [Proc -> Labels] /\ cpu' \in Proc \cup {None} /\ pc'[p] = "idle"
      /\ u' \in [Proc -> Frame] /\ u'[p] = NoFrame
      /\ \A q \in Proc \ {p} : pc'[q] = pc[q] /\ u'[q] = u[q]
  BY <1>1, ReturnDoes
<1>4. /\ dlock' \in [Name -> Proc \cup {None}]
      /\ \A f \in Name : dlock'[f] = IF dlock[f] = p THEN None ELSE dlock[f]
  BY <1>1, PutdirDoes
<1>5. /\ inode[s] \in Entry /\ inode[s].i = NewFile
      /\ inode[s].num # None /\ inode[s].num \in Ino
  <2>1. inode[s] \in Entry /\ inode[s].i = NewFile
    BY <1>1, <1>2 DEF PlaceOK, Ip, TypeOK
  <2>2. inode[s].num # None
    BY <1>2, NumCount, NoRefs
  <2>3. QED BY <2>1, <2>2 DEF Entry
<1>6. PICK f \in Name : f = u[p].name /\ dir[f] = None /\ dlock[f] = p /\ fd[p] = None
  BY <1>1, NoneFacts DEF PlaceOK, Making, Frame, LocksOK
<1>7. /\ dir' \in [Name -> Ino \cup {None}] /\ dir'[f] = inode[s].num
      /\ \A g \in Name \ {f} : dir'[g] = dir[g]
  BY <1>1, <1>2, <1>5, <1>6 DEF TypeOK, Ip
<1>8. /\ inode' \in [Slot -> Entry] /\ \A t \in Slot \ {s} : inode'[t] = inode[t]
      /\ inode'[s].num = inode[s].num /\ inode'[s].lock = None
      /\ inode'[s].count = inode[s].count /\ inode'[s].i = NewFile
      /\ inode'[s].upd = inode[s].upd
  BY <1>1, <1>2, <1>5 DEF TypeOK, Entry
<1>9. /\ fd' \in [Proc -> Slot \cup {None}] /\ fd'[p] = s
      /\ \A q \in Proc \ {p} : fd'[q] = fd[q]
  BY <1>1, <1>2 DEF TypeOK
<1>10. TypeOK'
  BY <1>1, <1>3, <1>4, <1>7, <1>8, <1>9 DEF TypeOK, super
<1>11. Elsewhere(p) /\ Touches(p)
  BY <1>2, <1>3, <1>5, <1>8, <1>9 DEF Elsewhere, Touches
<1>12. LocksOf(p)
  <2>1. \A t \in Slot \ {s} : inode'[t].lock = inode[t].lock /\ inode[t].lock # p
    BY <1>1, <1>2, <1>8 DEF LocksOK
  <2>2. pc'[p] \notin Locking
    BY <1>3 DEF Locking, Writing, Freeing
  <2>3. QED BY <1>8, <2>1, <2>2, NoneFacts DEF LocksOf
<1>13. DirsOf(p)
  BY <1>3, <1>4, <1>6, <1>7, NoneFacts DEF DirsOf, NoFrame
<1>14. PlaceOK(p)'
  BY <1>3, NoneFacts DEF PlaceOK, Making, Writing, Freeing, NoFrame
<1>15. FilesOf(p) /\ ListsOf(p)
  BY <1>1, <1>3, <1>8, <1>9 DEF FilesOf, ListsOf, super, Copying, NewFile
<1>16. NumsOf
  BY <1>5, <1>8, NumCount DEF NumsOf
<1>17. Unique /\ Unique'
  BY <1>16, UniqueStep
<1>18. \A t \in Slot : Present(t)' <=> Present(t)
  BY <1>1, <1>3, <1>11, PresentKept
<1>19. CleansOf
  BY <1>1, <1>5, <1>8, <1>18 DEF CleansOf
<1>20. \A t \in Slot : CountKind(p, t)
  <2>1. \A t \in Slot : ~ Ref(p, t)' /\ (Ref(p, t) <=> t = s)
    BY <1>1, <1>2, <1>3 DEF Ref, HasRef
  <2>2. QED BY <1>5, <1>6, <1>8, <1>9, <2>1, NoneFacts DEF CountKind
<1>21. ASSUME NEW n \in Ino PROVE LinksAt(n)'
  <2>1. ASSUME NEW t \in Slot, inode[t].num = n \/ inode'[t].num = n
        PROVE  /\ inode'[t].num = inode[t].num /\ (Present(t)' <=> Present(t))
               /\ inode'[t].i = inode[t].i
    BY <1>5, <1>8, <1>18
  <2>2. SameLinks(n)
    BY <1>1, <1>17, <2>1, TableKept
  <2>3. p \notin Makers(n)' /\ (p \in Makers(n) <=> n = inode[s].num)
    BY <1>1, <1>2, <1>3 DEF Makers, Ip
  <2>4. /\ \A g \in Name \ {f} : g \in Entries(n)' <=> g \in Entries(n)
        /\ f \notin Entries(n) /\ (f \in Entries(n)' <=> n = inode[s].num)
        /\ Entries(n) \subseteq Name /\ Entries(n)' \subseteq Name
    BY <1>6, <1>7, NoneFacts DEF Entries
  <2>5. CASE n # inode[s].num
    <3>1. Makers(n)' = Makers(n)
      BY <1>11, <2>3, <2>5, MakersKept
    <3>2. Entries(n)' = Entries(n)
      BY <2>4, <2>5
    <3>3. QED BY <2>2, <3>1, <3>2, LinksSame
  <2>6. CASE n = inode[s].num
    <3> DEFINE M == Makers(n)'
               E == Entries(n)'
    <3>1. Makers(n) = M \cup {p} /\ p \notin M /\ M \subseteq Proc
      <4>1. \A q \in Proc \ {p} : q \in M <=> q \in Makers(n)
        BY <1>11, OtherMakers
      <4>2. M \subseteq Proc /\ Makers(n) \subseteq Proc
        BY DEF Makers
      <4>3. QED BY <2>3, <2>6, <4>1, <4>2
    <3>2. E = Entries(n) \cup {f} /\ f \notin Entries(n)
      BY <2>4, <2>6
    <3> HIDE DEF M, E
    <3>3. Cardinality(Makers(n)) = Cardinality(M) + 1 /\ Cardinality(M) \in Nat
      BY <3>1, OneMore, FileSystemAssumption
    <3>4. Cardinality(E) = Cardinality(Entries(n)) + 1 /\ Cardinality(Entries(n)) \in Nat
      BY <2>4, <3>2, OneMore, FileSystemAssumption
    <3>5. LinksAt(n)
      BY LinksAre DEF FilesInv, LinksAt
    <3>6. Current(n) = NewFile
      BY <1>1, <1>2, <1>5, <1>17, <2>6, CurrentIn, MineHere
    <3>7. Current(n)'.nlink = Cardinality(E) + Cardinality(M)
      BY <2>2, <3>3, <3>4, <3>5 DEF SameLinks, LinksAt
    <3>8. Current(n)'.mode
      BY <2>2, <3>6 DEF SameLinks, NewFile
    <3>9. QED BY <3>7, <3>8 DEF LinksAt, E, M
  <2>7. QED BY <2>5, <2>6
<1>22. LinksCounted'
  BY <1>21, LinksAreNext DEF LinksAt
<1>23. QED
  BY <1>10, <1>11, <1>12, <1>13, <1>14, <1>15, <1>16, <1>19, <1>20, <1>22, Whole

LEMMA UnlinkStep ==
  ASSUME FilesInv, NEW p \in Proc, Unlink(p)
  PROVE  FilesInv'
<1>1. /\ TypeOK /\ LocksOK /\ PlaceOK(p) /\ u[p] \in Frame /\ pc[p] = "unlink"
      /\ UNCHANGED <<super, dinode, dlock, fd>>
      /\ Goto(p, "iput") /\ "iput" \in Labels
      /\ dir' = [dir EXCEPT ![u[p].name] = None]
      /\ inode' = [inode EXCEPT ![u[p].ip].i.nlink = @ - 1, ![u[p].ip].upd = TRUE]
      /\ u' = [u EXCEPT ![p] = [NoFrame EXCEPT !.ip = u[p].ip]]
  BY Parts DEF Unlink, At, Labels
<1>2. PICK s \in Slot : s = u[p].ip /\ inode[s].lock = p
  BY <1>1, Parts DEF Locking
<1>3. /\ pc' \in [Proc -> Labels] /\ cpu' \in Proc \cup {None} /\ pc'[p] = "iput"
      /\ \A q \in Proc \ {p} : pc'[q] = pc[q]
  BY <1>1, GotoDoes
<1>4. /\ u' \in [Proc -> Frame] /\ \A q \in Proc \ {p} : u'[q] = u[q]
      /\ u'[p].ip = s /\ u'[p].name = None /\ u'[p].then = "idle" /\ u'[p].call = None
  <2> DEFINE v == [NoFrame EXCEPT !.ip = s]
  <2>1. v \in Frame
    BY NoFrameOK DEF Frame
  <2>2. v.ip = s /\ v.name = None /\ v.then = "idle" /\ v.call = None
    BY DEF NoFrame
  <2> HIDE DEF v
  <2>3. u' = [u EXCEPT ![p] = v]
    BY <1>1, <1>2 DEF v
  <2>4. QED BY <1>1, <2>1, <2>2, <2>3 DEF TypeOK
<1>5. PICK f \in Name : f = u[p].name /\ dir[f] = inode[s].num /\ dlock[f] = p
  BY <1>1, <1>2, NoneFacts DEF PlaceOK, Frame, LocksOK, Ip
<1>6. /\ inode[s] \in Entry /\ inode[s].num \in Ino /\ inode[s].num # None
      /\ inode[s].i \in Inode
  <2>1. inode[s] \in Entry /\ Ref(p, s)
    BY <1>1, <1>2 DEF TypeOK, Ref, HasRef
  <2>2. inode[s].num # None
    BY <2>1, NoRefs, NumCount
  <2>3. QED BY <2>1, <2>2 DEF Entry
<1> PICK n \in Ino : n = inode[s].num
  BY <1>6
<1>7. Present(s) /\ Unique
  BY <1>1, <1>2, MineHere DEF FilesInv, CountsOK, Unique
<1>8. /\ dir' \in [Name -> Ino \cup {None}] /\ dir'[f] = None
      /\ \A g \in Name \ {f} : dir'[g] = dir[g]
  BY <1>1, <1>5 DEF TypeOK
<1>9. PICK k \in Nat :
        /\ inode[s].i.nlink = k + 1 /\ inode[s].i.mode
        /\ k = Cardinality(Entries(n)') + Cardinality(Makers(n))
  <2> DEFINE E == {g \in Name : dir'[g] = n}
             M == Cardinality(Makers(n))
  <2>1. Entries(n) = E \cup {f} /\ f \notin E /\ E \subseteq Name /\ E = Entries(n)'
    BY <1>5, <1>8, NoneFacts DEF Entries
  <2>2. M \in Nat
    BY LinksFinite
  <2>3. Current(n) = inode[s].i
    BY <1>6, <1>7, CurrentIn
  <2>4. LinksAt(n)
    BY <1>6, LinksAre DEF FilesInv, LinksAt
  <2> HIDE DEF E
  <2>5. Cardinality(E) \in Nat /\ Cardinality(Entries(n)) = Cardinality(E) + 1
    BY <2>1, OneMore, FileSystemAssumption
  <2>6. inode[s].i.nlink = Cardinality(Entries(n)) + M /\ (inode[s].i.nlink > 0 => inode[s].i.mode)
    BY <2>3, <2>4 DEF LinksAt
  <2> HIDE DEF M
  <2>7. PICK k \in Nat : k = Cardinality(E) + M
    BY <2>2, <2>5
  <2>8. inode[s].i.nlink = k + 1
    BY <2>2, <2>5, <2>6, <2>7
  <2>9. k + 1 > 0
    BY <2>7
  <2>10. QED BY <2>1, <2>6, <2>7, <2>8, <2>9 DEF M
<1>10. PICK i \in Inode :
         /\ i = [inode[s].i EXCEPT !.nlink = @ - 1]
         /\ i.nlink = k /\ i.mode
  <2>1. inode[s].i.nlink - 1 = k
    BY <1>9
  <2>2. PICK r \in Inode : r = inode[s].i
    BY <1>6
  <2>3. /\ [r EXCEPT !.nlink = k] \in Inode
        /\ [r EXCEPT !.nlink = k].nlink = k /\ [r EXCEPT !.nlink = k].mode = r.mode
    BY <1>9, <2>2 DEF Inode
  <2>4. [inode[s].i EXCEPT !.nlink = @ - 1] = [r EXCEPT !.nlink = k]
    BY <2>1, <2>2
  <2>5. QED BY <1>9, <2>2, <2>3, <2>4
<1>11. /\ inode' \in [Slot -> Entry] /\ \A t \in Slot \ {s} : inode'[t] = inode[t]
       /\ inode'[s].num = n /\ inode'[s].lock = p
       /\ inode'[s].count = inode[s].count
       /\ inode'[s].i = i /\ inode'[s].upd
  BY <1>1, <1>2, <1>6, <1>10 DEF TypeOK, Entry, Inode
<1>12. TypeOK'
  BY <1>1, <1>3, <1>4, <1>8, <1>11 DEF TypeOK, super
<1>13. Elsewhere(p) /\ Touches(p)
  <2>1. Elsewhere(p)
    BY <1>1, <1>3, <1>4 DEF Elsewhere
  <2>2. inode'[s].i.mode
    BY <1>10, <1>11
  <2>3. QED BY <1>2, <1>11, <2>1, <2>2 DEF Touches
<1>14. LocksOf(p)
  BY <1>1, <1>2, <1>3, <1>4, <1>11, LocksHeld DEF Locking
<1>15. DirsOf(p)
  BY <1>1, <1>3, <1>4, <1>5, <1>8, NoneFacts DEF DirsOf
<1>16. PlaceOK(p)'
  BY <1>3, <1>4, NoneFacts DEF PlaceOK, Making, Writing, Freeing
<1>17. FilesOf(p) /\ ListsOf(p)
  BY <1>1, <1>3 DEF FilesOf, ListsOf, super, Copying
<1>18. NumsOf
  BY <1>11, NumCount DEF NumsOf
<1>19. Unique /\ Unique'
  BY <1>18, UniqueStep
<1>20. \A t \in Slot : Present(t)' <=> Present(t)
  BY <1>1, <1>3, <1>13, PresentKept
<1>21. CleansOf
  BY <1>1, <1>11, <1>20 DEF CleansOf
<1>22. \A t \in Slot : CountKind(p, t)
  <2>1. \A t \in Slot : Ref(p, t)' <=> Ref(p, t)
    BY <1>1, <1>2, <1>3, <1>4 DEF Ref, HasRef
  <2>2. QED BY <1>1, <1>11, <2>1 DEF CountKind
<1>23. \A m \in Ino : Makers(m)' = Makers(m)
  <2>1. ASSUME NEW m \in Ino PROVE Makers(m)' = Makers(m)
    <3>1. p \in Makers(m)' <=> p \in Makers(m)
      BY <1>1, <1>3 DEF Makers
    <3>2. QED BY <1>13, <3>1, MakersKept
  <2>2. QED BY <2>1
<1>24. ASSUME NEW m \in Ino, m # n PROVE LinksAt(m)'
  <2>1. Entries(m)' = Entries(m)
    BY <1>5, <1>8, <1>24, NoneFacts DEF Entries
  <2>2. ASSUME NEW t \in Slot, inode[t].num = m \/ inode'[t].num = m
        PROVE  inode'[t] = inode[t] /\ (Present(t)' <=> Present(t))
    BY <1>11, <1>20, <1>24, <2>2
  <2>3. SameLinks(m)
    BY <1>1, <1>19, <2>2, TableKept
  <2>4. QED BY <1>23, <2>1, <2>3, LinksSame
<1>25. LinksAt(n)'
  <2>1. Current(n)' = i
    BY <1>7, <1>11, <1>19, <1>20, CurrentInNext, NoneFacts
  <2>2. Makers(n)' = Makers(n)
    BY <1>23
  <2>3. QED BY <1>9, <1>10, <2>1, <2>2 DEF LinksAt
<1>26. LinksCounted'
  BY <1>24, <1>25, LinksAreNext DEF LinksAt
<1>27. QED
  BY <1>12, <1>13, <1>14, <1>15, <1>16, <1>17, <1>18, <1>21, <1>22, <1>26, Whole

-----------------------------------------------------------------------------
(* All steps.                                                              *)
LEMMA SameStep ==
  ASSUME FilesInv, UNCHANGED <<super, inode, dinode, dir, dlock, fd, pc, u>>,
         cpu' \in Proc \cup {None}
  PROVE  FilesInv'
<1>1. /\ s_free' = s_free /\ s_flock' = s_flock /\ link' = link /\ s_inode' = s_inode
      /\ s_ilock' = s_ilock /\ inode' = inode /\ dinode' = dinode /\ dir' = dir
      /\ dlock' = dlock /\ fd' = fd /\ pc' = pc /\ u' = u
  BY DEF super
<1>2. CountsOK'
  <2>1. TypeOK'
    BY <1>1 DEF FilesInv, CountsOK, TypeOK
  <2>2. QED BY <1>1, <2>1 DEF FilesInv, CountsOK, HasRef
<1>3. Unique /\ Unique'
  BY <1>1, <1>2 DEF FilesInv, CountsOK, Unique
<1>4. ASSUME NEW n \in Ino PROVE LinksAt(n)'
  <2>1. SameLinks(n)
    BY <1>1, <1>3, TableKept DEF Present
  <2>2. Entries(n)' = Entries(n) /\ Makers(n)' = Makers(n)
    BY <1>1 DEF Entries, Makers, Ip
  <2>3. QED BY <2>1, <2>2, LinksSame
<1>5. LinksCounted'
  BY <1>4, LinksAreNext DEF LinksAt
<1>6. OpenAlive' /\ LocksOK'
  BY <1>1 DEF FilesInv, OpenAlive, LocksOK, Ip
<1>7. ListsOK' /\ CleanOK'
  BY <1>1 DEF FilesInv, ListsOK, CleanOK, Scanners, Present
<1>8. \A p \in Proc : PlaceOK(p)'
  BY <1>1 DEF FilesInv, PlaceOK, Ip, Allowed
<1>9. QED BY <1>2, <1>5, <1>6, <1>7, <1>8 DEF FilesInv

LEMMA NextInv ==
  ASSUME FilesInv, [Next]_vars
  PROVE  FilesInv'
<1>1. ASSUME NEW p \in Proc, Start(p) PROVE FilesInv'
  BY <1>1, StartNameStep, StartWriteStep, StartCloseStep, StartSyncStep DEF Start
<1>2. ASSUME NEW p \in Proc, Step(p) PROVE FilesInv'
  BY <1>2, PlockStep, NameiLockStep, NameiFoundStep, NameiMissingStep,
     IgetFoundStep, IgetNewStep, IgetFullStep, IreadStep, Open1RefusedStep, Open1TruncStep,
     Open1Step, ItruncStep, FreeStep, FreeLockStep, FreeCopyStep, FreedStep,
     IputSharedStep, IputLastStep, IputCleanStep, IfreeStep, IupdatStep, BmapHaveStep,
     BmapAllocStep, AllocNospaceStep, AllocPopStep, AllocReadStep, AllocDoneStep,
     IallocPopStep, IallocScanStep, IascanStep, IallocTakenStep, IallocGotStep,
     WdirStep, UnlinkStep DEF Step
<1>3. ASSUME NEW p \in Proc, Sleep(p) PROVE FilesInv'
  BY <1>3, SameStep DEF Sleep
<1>4. CASE UNCHANGED vars
  <2>1. cpu' \in Proc \cup {None}
    BY <1>4 DEF vars, FilesInv, CountsOK, TypeOK
  <2>2. QED BY <1>4, <2>1, SameStep DEF vars
<1>5. QED BY <1>1, <1>2, <1>3, <1>4 DEF Next

-----------------------------------------------------------------------------
(* The free list of a new volume.  What each place of a range inherits     *)
(* from the one before it, every place has.                                *)
Closed(N, G) == N \in Nat /\ 0 \in G /\ \A k \in 1 .. N : k - 1 \in G => k \in G

LEMMA Least ==
  ASSUME NEW T, T \subseteq Nat, T # {}
  PROVE  \E x \in T : \A y \in T : x <= y
<1>1. PICK x \in T : \A y \in T : ~ (<<y, x>> \in OpToRel(<, Nat))
  BY NatLessThanWellFounded, WFMin
<1>2. \A y \in T : ~ (y < x)
  BY <1>1 DEF OpToRel
<1>3. QED BY <1>2

LEMMA AllReached ==
  \A N, G : Closed(N, G) => 0 .. N \subseteq G
<1> SUFFICES ASSUME NEW N, NEW G, Closed(N, G) PROVE 0 .. N \subseteq G
  OBVIOUS
<1>0. N \in Nat
  BY DEF Closed
<1> SUFFICES ASSUME (0 .. N) \ G # {} PROVE FALSE
  BY <1>0
<1>1. (0 .. N) \ G \subseteq Nat
  BY <1>0
<1>2. PICK x \in (0 .. N) \ G : \A y \in (0 .. N) \ G : x <= y
  BY <1>1, Least
<1>3. x \in 1 .. N
  BY <1>0 DEF Closed
<1>4. x - 1 \in 0 .. N /\ ~ (x <= x - 1)
  BY <1>0, <1>3
<1>5. x - 1 \in G
  BY <1>2, <1>4
<1>6. QED BY <1>2, <1>3, <1>5 DEF Closed

List == [free : Seq(Blk \cup {None}), link : [Blk -> Seq(Blk \cup {None})]]

LEMMA WithFreeOK ==
  ASSUME NEW l \in List, NEW b \in Blk
  PROVE  WithFree(l, b) \in List
<1> DEFINE L == Seq(Blk \cup {None})
<1>1. l.free \in L /\ l.link \in [Blk -> L] /\ l = [free |-> l.free, link |-> l.link]
  BY DEF List
<1>2. Append(l.free, b) \in L
  BY <1>1
<1>3. <<b>> \in L
  <2>1. b \in Blk \cup {None}
    OBVIOUS
  <2>2. QED BY <2>1
<1>4. List = [free : L, link : [Blk -> L]]
  BY DEF List
<1> HIDE DEF L
<1>5. [l.link EXCEPT ![b] = l.free] \in [Blk -> L]
  BY <1>1
<1>6. [l EXCEPT !.free = Append(@, b)] \in List
  BY <1>1, <1>2, <1>4
<1>7. QED BY <1>3, <1>4, <1>5, <1>6 DEF WithFree

Empty == [free |-> <<None>>, link |-> [b \in Blk |-> <<>>]]

(* mkfs, block by block.                                                   *)
LEMMA MadeSteps ==
  ASSUME NEW bs \in Seq(Blk)
  PROVE  \E h : /\ h[0] = Empty /\ Made(bs) = h[Len(bs)]
                /\ \A k \in 0 .. Len(bs) : h[k] \in List
                /\ \A k \in 1 .. Len(bs) : h[k] = WithFree(h[k - 1], bs[k])
<1> DEFINE N == Len(bs)
           start == Empty
           Upto(n, f) == /\ f \in [0 .. N -> List] /\ f[0] = start
                         /\ \A k \in 1 .. N : k <= n => f[k] = WithFree(f[k - 1], bs[k])
           G == {n \in 0 .. N : \E f : Upto(n, f)}
           Rec(h) == h = [k \in 0 .. N |-> IF k = 0 THEN start
                                           ELSE WithFree(h[k - 1], bs[k])]
<1>1. N \in Nat /\ \A k \in 1 .. N : bs[k] \in Blk /\ k - 1 \in 0 .. N /\ k \in 0 .. N
  OBVIOUS
<1>2. start \in List
  <2>1. <<None>> \in Seq(Blk \cup {None}) /\ <<>> \in Seq(Blk \cup {None})
    <3>1. None \in Blk \cup {None}
      OBVIOUS
    <3>2. QED BY <3>1
  <2>2. [b \in Blk |-> <<>>] \in [Blk -> Seq(Blk \cup {None})]
    BY <2>1
  <2>3. QED BY <2>1, <2>2 DEF List, Empty
<1> HIDE DEF start
<1>3. 0 \in G
  <2>1. Upto(0, [k \in 0 .. N |-> start])
    BY <1>1, <1>2
  <2>2. QED BY <1>1, <2>1
<1>4. ASSUME NEW n \in 1 .. N, n - 1 \in G PROVE n \in G
  <2>1. PICK f : Upto(n - 1, f)
    BY <1>4
  <2>2. f \in [0 .. N -> List] /\ WithFree(f[n - 1], bs[n]) \in List
    BY <1>1, <2>1, WithFreeOK
  <2>3. Upto(n, [f EXCEPT ![n] = WithFree(f[n - 1], bs[n])])
    <3> DEFINE g == [f EXCEPT ![n] = WithFree(f[n - 1], bs[n])]
    <3>1. g \in [0 .. N -> List] /\ g[n] = WithFree(f[n - 1], bs[n])
          /\ \A k \in 0 .. N : k # n => g[k] = f[k]
      BY <1>1, <2>2
    <3>2. g[0] = start
      BY <1>1, <2>1, <3>1
    <3>3. ASSUME NEW k \in 1 .. N, k <= n PROVE g[k] = WithFree(g[k - 1], bs[k])
      <4>1. k - 1 # n /\ g[k - 1] = f[k - 1]
        BY <1>1, <3>1, <3>3
      <4>2. CASE k = n
        BY <3>1, <4>1, <4>2
      <4>3. CASE k # n
        <5>1. k <= n - 1 /\ k \in 0 .. N
          BY <1>1, <3>3, <4>3
        <5>2. QED BY <2>1, <3>1, <4>1, <4>3, <5>1
      <4>4. QED BY <4>2, <4>3
    <3> HIDE DEF g
    <3>4. Upto(n, g)
      BY <3>1, <3>2, <3>3
    <3>5. QED BY <3>4 DEF g
  <2>4. QED BY <1>1, <2>3
<1>5. N \in G
  <2> HIDE DEF G
  <2>1. Closed(N, G)
    BY <1>1, <1>3, <1>4 DEF Closed
  <2>0. N \in Nat
    BY <1>1
  <2> HIDE DEF N
  <2>2. 0 .. N \subseteq G
    BY <2>0, <2>1, AllReached
  <2>3. QED BY <1>1, <2>2
<1>6. PICK f : Upto(N, f)
  BY <1>5
<1>7. Rec(f)
  BY <1>1, <1>6
<1>8. Made(bs) = (CHOOSE h : Rec(h))[N]
  BY DEF Made, start, Empty
<1>9. PICK h : Rec(h) /\ Made(bs) = h[N]
  <2> HIDE DEF Rec
  <2>1. QED BY <1>7, <1>8
<1>10. 0 .. N \subseteq {k \in 0 .. N : h[k] \in List}
  <2> DEFINE H == {k \in 0 .. N : h[k] \in List}
  <2>1. 0 \in H
    BY <1>1, <1>2, <1>9
  <2>2. \A k \in 1 .. N : k - 1 \in H => k \in H
    BY <1>1, <1>9, WithFreeOK
  <2>0. N \in Nat
    BY <1>1
  <2> HIDE DEF H, N
  <2>3. Closed(N, H)
    BY <2>0, <2>1, <2>2 DEF Closed
  <2>4. 0 .. N \subseteq H
    BY <2>0, <2>3, AllReached
  <2>5. QED BY <2>4 DEF H
<1>11. h[0] = Empty /\ \A k \in 1 .. N : h[k] = WithFree(h[k - 1], bs[k])
  <2>1. h[0] = start
    BY <1>1, <1>9
  <2>2. ASSUME NEW k \in 1 .. N PROVE h[k] = WithFree(h[k - 1], bs[k])
    <3>1. k \in 0 .. N /\ k # 0
      BY <1>1
    <3>2. QED BY <1>9, <3>1
  <2>3. QED BY <2>1, <2>2 DEF start
<1>12. QED BY <1>9, <1>10, <1>11

LEMMA MadeOK ==
  ASSUME NEW bs \in Seq(Blk)
  PROVE  Made(bs) \in List
<1>1. Len(bs) \in 0 .. Len(bs)
  OBVIOUS
<1>2. QED BY <1>1, MadeSteps

LEMMA VolumeOK ==
  ASSUME NEW bs \in [1 .. Cardinality(Blk) -> Blk], NEW k \in FreeAtStart
  PROVE  /\ SubSeq(bs, 1, k) \in Seq(Blk)
         /\ SubSeq(bs, k + 1, Len(bs)) \in Seq(Blk)
<1>1. Cardinality(Blk) \in Nat /\ k \in 0 .. Cardinality(Blk)
  BY FS_CardinalityType, FileSystemAssumption
<1> DEFINE N == Cardinality(Blk)
<1>2. N \in Nat /\ k \in 0 .. N /\ bs \in [1 .. N -> Blk]
  BY <1>1
<1> HIDE DEF N
<1>3. bs \in Seq(Blk) /\ Len(bs) = N
  BY <1>2
<1>4. /\ \A i \in 1 .. k : bs[i] \in Blk
      /\ \A i \in k + 1 .. N : bs[i] \in Blk
  <2>1. /\ \A i \in 1 .. k : i \in 1 .. N
        /\ \A i \in k + 1 .. N : i \in 1 .. N
    BY <1>2
  <2>2. \A i \in 1 .. N : bs[i] \in Blk
    BY <1>2
  <2>3. QED BY <2>1, <2>2
<1>5. SubSeq(bs, 1, k) \in Seq(Blk)
  BY <1>2, <1>4, SubSeqProperties
<1>6. SubSeq(bs, k + 1, N) \in Seq(Blk)
  BY <1>2, <1>4, SubSeqProperties
<1>7. QED BY <1>3, <1>5, <1>6

(* At the start no file is followed and nobody is in the kernel.           *)
LEMMA InitInv ==
  ASSUME Init
  PROVE  FilesInv
<1>1. PICK bs \in [1 .. Cardinality(Blk) -> Blk], k \in FreeAtStart :
        /\ s_free = Made(SubSeq(bs, 1, k)).free
        /\ link = Made(SubSeq(bs, 1, k)).link
        /\ dinode = [n \in Ino \cup {0} |->
                       IF n = 0 THEN [mode |-> TRUE, nlink |-> 1,
                                      addr |-> SubSeq(bs, k + 1, Len(bs))]
                                ELSE Free0]
  BY DEF Init
<1>2. /\ s_flock = FALSE /\ s_inode = <<>> /\ s_ilock = 0 /\ cpu = None
      /\ inode = [s \in Slot |-> NoEntry] /\ dir = [f \in Name |-> None]
      /\ dlock = [f \in Name |-> None] /\ fd = [p \in Proc |-> None]
      /\ pc = [p \in Proc |-> "idle"] /\ u = [p \in Proc |-> NoFrame]
  BY DEF Init
<1>3. SubSeq(bs, 1, k) \in Seq(Blk) /\ SubSeq(bs, k + 1, Len(bs)) \in Seq(Blk)
  BY VolumeOK
<1>4. Free0 \in Inode /\ NoEntry \in Entry
  <2>1. <<>> \in Seq(Blk)
    OBVIOUS
  <2>2. Free0 \in Inode
    BY <2>1 DEF Free0, Inode
  <2>3. QED BY <2>2 DEF NoEntry, Entry
<1>5. TypeOK
  <2>1. s_free \in Seq(Blk \cup {None}) /\ link \in [Blk -> Seq(Blk \cup {None})]
    BY <1>1, <1>3, MadeOK DEF List
  <2>2. dinode \in [Ino \cup {0} -> Inode]
    <3> DEFINE d == [mode |-> TRUE, nlink |-> 1, addr |-> SubSeq(bs, k + 1, Len(bs))]
    <3>1. d \in Inode
      BY <1>3 DEF Inode
    <3>2. dinode = [n \in Ino \cup {0} |-> IF n = 0 THEN d ELSE Free0]
      BY <1>1
    <3> HIDE DEF d
    <3>3. QED BY <1>4, <3>1, <3>2
  <2>3. "idle" \in Labels
    BY DEF Labels
  <2>4. s_flock \in BOOLEAN /\ s_inode \in Seq(Ino) /\ s_ilock \in Nat
        /\ cpu \in Proc \cup {None}
    <3>1. <<>> \in Seq(Ino)
      OBVIOUS
    <3>2. QED BY <1>2, <3>1
  <2>5. /\ inode \in [Slot -> Entry] /\ dir \in [Name -> Ino \cup {None}]
        /\ dlock \in [Name -> Proc \cup {None}] /\ fd \in [Proc -> Slot \cup {None}]
    BY <1>2, <1>4
  <2>6. pc \in [Proc -> Labels] /\ u \in [Proc -> Frame]
    BY <1>2, <2>3, NoFrameOK
  <2>7. QED BY <2>1, <2>2, <2>4, <2>5, <2>6 DEF TypeOK
<1>6. \A s \in Slot : inode[s].num = None /\ inode[s].count = 0 /\ inode[s].lock = None
  BY <1>2 DEF NoEntry
<1>7. \A p \in Proc : /\ pc[p] = "idle" /\ u[p] = NoFrame /\ fd[p] = None
                      /\ u[p].call = None /\ u[p].name = None /\ u[p].ip = None
                      /\ u[p].then = "idle"
  BY <1>2 DEF NoFrame
<1>8. CountsOK
  <2>1. ASSUME NEW s \in Slot
        PROVE  inode[s].count = Cardinality(Fds(s)) + Cardinality(Refs(s))
    <3>1. Fds(s) = {} /\ Refs(s) = {}
      BY <1>7, NoneFacts DEF Fds, Refs
    <3>2. Cardinality(Fds(s)) = 0 /\ Cardinality(Refs(s)) = 0
      BY <3>1, FS_EmptySet
    <3>3. QED BY <1>6, <3>2
  <2>2. QED BY <1>5, <1>6, <2>1 DEF CountsOK, Fds, Refs
<1>9. LinksCounted
  <2>1. SUFFICES ASSUME NEW n \in Ino
                 PROVE  /\ Current(n).nlink = Cardinality(Entries(n)) + Cardinality(Makers(n))
                        /\ Current(n).nlink > 0 => Current(n).mode
    BY LinksAre
  <2>2. Current(n) = dinode[n]
    BY <1>6, <2>1, NoneFacts, CurrentOut
  <2>3. dinode[n] = Free0
    <3>1. n # 0
      BY FileSystemAssumption DEF Ino
    <3>2. QED BY <1>1, <3>1
  <2>4. Entries(n) = {} /\ Makers(n) = {}
    BY <1>2, <1>7, NoneFacts DEF Entries, Makers
  <2>5. QED BY <2>2, <2>3, <2>4, FS_EmptySet DEF Free0
<1>10. OpenAlive /\ CleanOK
  BY <1>6, <1>7 DEF OpenAlive, CleanOK
<1>11. LocksOK
  BY <1>2, <1>6, <1>7, NoneFacts DEF LocksOK, Locking, Writing, Freeing
<1>12. ListsOK
  <2>1. Scanners = {}
    BY <1>7 DEF Scanners
  <2>2. Cardinality(Scanners) = 0
    BY <2>1, FS_EmptySet
  <2>3. QED BY <1>2, <1>7, <2>2 DEF ListsOK, Copying
<1>13. ASSUME NEW p \in Proc PROVE PlaceOK(p)
  BY <1>7, NoneFacts DEF PlaceOK, Writing, Freeing, Making
<1>14. QED BY <1>8, <1>9, <1>10, <1>11, <1>12, <1>13 DEF FilesInv

-----------------------------------------------------------------------------
(* iget, iput, plock, prele, alloc, free, ialloc, ifree, unlink: the       *)
(* inductive invariant.  The references, the links and the locks say where *)
(* the processes stand, and the place of a process says what its inode is. *)
THEOREM Invariance == Spec => []FilesInv
<1>1. Init => FilesInv
  BY InitInv
<1>2. FilesInv /\ [Next]_vars => FilesInv'
  BY NextInv
<1>3. QED BY <1>1, <1>2, PTL DEF Spec

(* iget, iput: i_count is the number of open files and of processes that   *)
(* have the inode in hand, an entry of the table is free exactly when that *)
(* is 0, and no inode is in the table twice.                               *)
THEOREM Counts == Spec => []CountsOK
<1>1. FilesInv => CountsOK
  BY DEF FilesInv
<1>2. QED BY <1>1, Invariance, PTL

(* wdir, unlink, maknode, iput: i_nlink is the number of entries with the  *)
(* i-number, and an inode that has one is allocated.                       *)
THEOREM Links == Spec => []LinksCounted
<1>1. FilesInv => LinksCounted
  BY DEF FilesInv
<1>2. QED BY <1>1, Invariance, PTL

(* access, open1, iput: the inode of a file that is open to a process      *)
(* outside Su, one whose open looks at the mode, was allocated when it was *)
(* opened and is not freed while it is open, whatever those in Su do.  Of  *)
(* their own open files it says nothing: they may open a free inode.       *)
THEOREM OpenFiles == Spec => []OpenAlive
<1>1. FilesInv => OpenAlive
  BY DEF FilesInv
<1>2. QED BY <1>1, Invariance, PTL

LEMMA FreshNow ==
  ASSUME FilesInv, Su = {}
  PROVE  FreshInode
<1>1. SUFFICES ASSUME NEW p \in Proc, pc[p] = "wdir"
               PROVE  /\ Ip(p).count = 1
                      /\ Ip(p).i.addr = <<>>
                      /\ \A f \in Name : dir[f] # Ip(p).num
  BY DEF FreshInode
<1>2. PICK s \in Slot : s = u[p].ip /\ inode[s].lock = p
  BY <1>1, Parts DEF Locking
<1>3. inode[s].count = 1 /\ inode[s].i = NewFile
  BY <1>1, <1>2, Parts DEF PlaceOK, Ip
<1>4. PICK n \in Ino : n = inode[s].num
  <2>1. inode[s] \in Entry
    BY DEF FilesInv, CountsOK, TypeOK
  <2>2. inode[s].num = None <=> inode[s].count = 0
    BY DEF FilesInv, CountsOK
  <2>3. inode[s].num # None
    BY <1>3, <2>2
  <2>4. QED BY <2>1, <2>3 DEF Entry
<1>5. Current(n).nlink = 1
  <2>1. Present(s)
    BY <1>1, <1>2, MineHere
  <2>2. Current(n) = inode[s].i
    BY <1>4, <2>1, NoneFacts, CurrentIn DEF FilesInv, CountsOK, Unique
  <2>3. QED BY <1>3, <2>2 DEF NewFile
<1>6. Cardinality(Entries(n)) + Cardinality(Makers(n)) = 1
  BY <1>5, LinksAre DEF FilesInv
<1>7. Makers(n) # {}
  BY <1>1, <1>2, <1>4 DEF Makers, Ip
<1>8. Entries(n) = {}
  BY <1>6, <1>7, LinksFinite, FS_EmptySet
<1>9. QED BY <1>2, <1>3, <1>4, <1>8 DEF Ip, NewFile, Entries

(* access, ialloc, maknode: if everyone's open looks at the mode, the      *)
(* inode that creat makes a file of is in the hands of nobody else, has no *)
(* blocks and no name.                                                     *)
THEOREM Fresh ==
  ASSUME Su = {}
  PROVE  Spec => []FreshInode
<1>1. FilesInv => FreshInode
  BY FreshNow
<1>2. QED BY <1>1, Invariance, PTL

LEMMA SomeoneGoesOn ==
  ASSUME FilesInv
  PROVE  NoDeadlyEmbrace
<1> SUFFICES ASSUME NEW p \in Proc, pc[p] # "idle",
                    \A q \in Proc : pc[q] # "idle" => Blocked(q)
             PROVE  FALSE
  BY DEF NoDeadlyEmbrace
<1>1. \A q \in Proc : pc[q] \in {"idle", "dlock", "plock", "iget", "free", "alloc", "ialloc"}
  BY DEF Blocked
<1>2. ~ s_flock
  BY <1>1 DEF FilesInv, ListsOK, Copying
<1>3. s_ilock = 0
  <2>1. Scanners = {}
    BY <1>1 DEF Scanners
  <2>2. s_ilock \in Nat /\ s_ilock <= 0
    BY <2>1, FS_EmptySet DEF FilesInv, ListsOK, CountsOK, TypeOK
  <2>3. QED BY <2>2
<1>4. \A q \in Proc : pc[q] \in {"idle", "dlock", "plock", "iget"}
  BY <1>1, <1>2, <1>3 DEF Blocked
<1>5. \A s \in Slot : Unlocked(s)
  <2>1. SUFFICES ASSUME NEW s \in Slot, inode[s].lock # None PROVE FALSE
    BY DEF Unlocked
  <2>2. inode[s].lock \in Proc
    BY <2>1 DEF FilesInv, CountsOK, TypeOK, Entry
  <2>3. pc[inode[s].lock] \in Locking
    BY <2>2 DEF FilesInv, LocksOK
  <2>4. QED BY <1>4, <2>2, <2>3 DEF Locking, Writing, Freeing
<1>6. \A q \in Proc : pc[q] \in {"idle", "dlock"}
  <2>1. ASSUME NEW q \in Proc, pc[q] = "plock" PROVE FALSE
    <3>1. u[q].ip \in Slot
      BY <2>1, Parts DEF PlaceOK, Frame
    <3>2. QED BY <1>5, <2>1, <3>1 DEF Blocked
  <2>2. ASSUME NEW q \in Proc, pc[q] = "iget" PROVE FALSE
    BY <1>5, <2>2 DEF Blocked
  <2>3. QED BY <1>4, <2>1, <2>2
<1>7. pc[p] = "dlock" /\ dlock[u[p].name] # None
  BY <1>6 DEF Blocked
<1>8. u[p].name \in Name
  BY <1>7, Parts DEF PlaceOK, Frame
<1>9. dlock[u[p].name] \in Proc
  BY <1>7, <1>8 DEF FilesInv, CountsOK, TypeOK
<1>10. pc[dlock[u[p].name]] \notin {"idle", "dlock"}
  BY <1>8, <1>9 DEF FilesInv, LocksOK
<1>11. QED BY <1>6, <1>9, <1>10

(* plock, iget, alloc, free, ialloc, namei: however many processes wait    *)
(* for the lists, the inodes and the directories, one that is in the       *)
(* kernel does not wait.                                                   *)
THEOREM NoEmbrace == Spec => []NoDeadlyEmbrace
<1>1. QED BY SomeoneGoesOn, Invariance, PTL

-----------------------------------------------------------------------------
(* The free list as a chain of arrays: the first, and each next where the  *)
(* head of the one before it leads.                                        *)
Cells == Seq(Blk \cup {None})
NBLK == Cardinality(Blk)
After(l, lk) == IF l = <<>> \/ Head(l) = None THEN <<>> ELSE lk[Head(l)]

IsChain(a, first, lk) ==
  a = [k \in 0 .. NBLK |-> IF k = 0 THEN first ELSE After(a[k - 1], lk)]
Chain(first, lk) == CHOOSE a : IsChain(a, first, lk)

(* The same, link by link.                                                 *)
Linked(a, first, lk) ==
  /\ a \in [0 .. NBLK -> Cells] /\ a[0] = first
  /\ \A k \in 1 .. NBLK : a[k] = After(a[k - 1], lk)

LEMMA NblkFacts ==
  /\ NBLK \in Nat /\ 0 \in 0 .. NBLK
  /\ \A k \in 1 .. NBLK : k \in 0 .. NBLK /\ k # 0 /\ k - 1 \in 0 .. NBLK
BY FileSystemAssumption, FS_CardinalityType DEF NBLK

LEMMA CellsFacts ==
  /\ <<>> \in Cells /\ <<None>> \in Cells
  /\ \A b \in Blk : <<b>> \in Cells
  /\ \A l \in Cells : /\ Len(l) \in Nat /\ DOMAIN l = 1 .. Len(l)
                      /\ \A i \in DOMAIN l : l[i] \in Blk \cup {None}
                      /\ l # <<>> => 1 \in DOMAIN l /\ Head(l) = l[1]
<1>1. /\ None \in Blk \cup {None}
      /\ \A b \in Blk : b \in Blk \cup {None}
  OBVIOUS
<1> DEFINE C == Blk \cup {None}
<1> HIDE DEF C
<1>2. \A b \in C : <<b>> \in Seq(C)
  OBVIOUS
<1>3. /\ <<>> \in Seq(C)
      /\ \A l \in Seq(C) : /\ Len(l) \in Nat /\ DOMAIN l = 1 .. Len(l)
                      /\ \A i \in DOMAIN l : l[i] \in C
                      /\ l # <<>> => 1 \in DOMAIN l /\ Head(l) = l[1]
  OBVIOUS
<1>4. QED BY <1>1, <1>2, <1>3 DEF Cells, C

LEMMA AfterOK ==
  ASSUME NEW l \in Cells, NEW lk \in [Blk -> Cells]
  PROVE  After(l, lk) \in Cells
<1>1. CASE l = <<>> \/ Head(l) = None
  BY <1>1, CellsFacts DEF After
<1>2. CASE l # <<>> /\ Head(l) # None
  <2>1. Head(l) \in Blk
    BY <1>2, CellsFacts
  <2>2. QED BY <1>2, <2>1 DEF After
<1>3. QED BY <1>1, <1>2

LEMMA ChainUnique ==
  ASSUME NEW first, NEW lk, NEW a, NEW b, Linked(a, first, lk), Linked(b, first, lk)
  PROVE  a = b
<1> DEFINE G == {k \in 0 .. NBLK : a[k] = b[k]}
<1>1. 0 \in G
  BY NblkFacts DEF Linked
<1>2. \A k \in 1 .. NBLK : k - 1 \in G => k \in G
  BY NblkFacts DEF Linked
<1> HIDE DEF G
<1>3. 0 .. NBLK \subseteq G
  BY <1>1, <1>2, NblkFacts, AllReached DEF Closed
<1>4. \A k \in 0 .. NBLK : a[k] = b[k]
  BY <1>3 DEF G
<1>5. /\ a = [k \in 0 .. NBLK |-> a[k]] /\ b = [k \in 0 .. NBLK |-> b[k]]
      /\ [k \in 0 .. NBLK |-> a[k]] = [k \in 0 .. NBLK |-> b[k]]
  BY <1>4 DEF Linked
<1>6. QED BY <1>5

LEMMA ChainExists ==
  ASSUME NEW first \in Cells, NEW lk \in [Blk -> Cells]
  PROVE  \E a : Linked(a, first, lk)
<1> DEFINE Upto(n, f) == /\ f \in [0 .. NBLK -> Cells] /\ f[0] = first
                         /\ \A k \in 1 .. NBLK : k <= n => f[k] = After(f[k - 1], lk)
           G == {n \in 0 .. NBLK : \E f : Upto(n, f)}
<1>1. 0 \in G
  <2>1. Upto(0, [k \in 0 .. NBLK |-> first])
    BY NblkFacts
  <2>2. QED BY NblkFacts, <2>1
<1>2. ASSUME NEW n \in 1 .. NBLK, n - 1 \in G PROVE n \in G
  <2>1. PICK f : Upto(n - 1, f)
    BY <1>2
  <2> DEFINE g == [f EXCEPT ![n] = After(f[n - 1], lk)]
  <2>2. n \in 0 .. NBLK /\ n - 1 \in 0 .. NBLK /\ After(f[n - 1], lk) \in Cells
    BY NblkFacts, <2>1, AfterOK
  <2>3. g \in [0 .. NBLK -> Cells] /\ g[n] = After(f[n - 1], lk)
        /\ \A k \in 0 .. NBLK : k # n => g[k] = f[k]
    BY <2>1, <2>2
  <2>4. g[0] = first
    BY NblkFacts, <2>1, <2>3
  <2>5. ASSUME NEW k \in 1 .. NBLK, k <= n PROVE g[k] = After(g[k - 1], lk)
    <3>1. k - 1 # n /\ k - 1 \in 0 .. NBLK /\ k \in 0 .. NBLK
      BY NblkFacts, <2>5
    <3>2. g[k - 1] = f[k - 1]
      BY <2>3, <3>1
    <3>3. CASE k = n
      BY <2>3, <3>2, <3>3
    <3>4. CASE k # n
      <4>1. k <= n - 1
        BY NblkFacts, <2>5, <3>4
      <4>2. QED BY <2>1, <2>3, <3>1, <3>2, <3>4, <4>1
    <3>5. QED BY <3>3, <3>4
  <2> HIDE DEF g
  <2>6. Upto(n, g)
    BY <2>3, <2>4, <2>5
  <2>7. QED BY <2>2, <2>6
<1>3. NBLK \in G
  <2> HIDE DEF G
  <2>1. Closed(NBLK, G)
    BY NblkFacts, <1>1, <1>2 DEF Closed
  <2>2. QED BY NblkFacts, <2>1, AllReached
<1>4. PICK f : Upto(NBLK, f)
  BY <1>3
<1>5. Linked(f, first, lk)
  BY NblkFacts, <1>4 DEF Linked
<1>6. QED BY <1>5

LEMMA ChainIs ==
  ASSUME NEW first \in Cells, NEW lk \in [Blk -> Cells]
  PROVE  Linked(Chain(first, lk), first, lk)
<1>1. PICK a : Linked(a, first, lk)
  BY ChainExists
<1>2. IsChain(a, first, lk)
  <2>1. a = [k \in 0 .. NBLK |-> a[k]]
    BY <1>1 DEF Linked
  <2>2. \A k \in 0 .. NBLK : a[k] = IF k = 0 THEN first ELSE After(a[k - 1], lk)
    BY NblkFacts, <1>1 DEF Linked
  <2>3. [k \in 0 .. NBLK |-> a[k]] = [k \in 0 .. NBLK |-> IF k = 0 THEN first ELSE After(a[k - 1], lk)]
    BY <2>2
  <2>4. QED BY <2>1, <2>3 DEF IsChain
<1>3. PICK c : c = Chain(first, lk) /\ IsChain(c, first, lk)
  BY <1>2 DEF Chain
<1>4. c[0] = first /\ \A k \in 1 .. NBLK : c[k] = After(c[k - 1], lk)
  BY <1>3, NblkFacts DEF IsChain
<1> DEFINE G == {k \in 0 .. NBLK : c[k] \in Cells}
<1>5. 0 \in G /\ \A k \in 1 .. NBLK : k - 1 \in G => k \in G
  BY <1>4, NblkFacts, AfterOK
<1>6. 0 .. NBLK \subseteq G
  <2> HIDE DEF G
  <2>1. Closed(NBLK, G)
    BY NblkFacts, <1>5 DEF Closed
  <2>2. QED BY NblkFacts, <2>1, AllReached
<1>7. DOMAIN c = 0 .. NBLK /\ c = [k \in DOMAIN c |-> c[k]]
  BY <1>3 DEF IsChain
<1>8. c \in [0 .. NBLK -> Cells]
  BY <1>6, <1>7
<1>9. QED BY <1>3, <1>4, <1>8 DEF Linked

LEMMA ChainEq ==
  ASSUME NEW first \in Cells, NEW lk \in [Blk -> Cells], NEW a, Linked(a, first, lk)
  PROVE  Chain(first, lk) = a
BY ChainIs, ChainUnique

(* f holds the blocks S, each once.                                        *)
Has(f, S) ==
  /\ \A k \in DOMAIN f : \A i \in DOMAIN f[k] : f[k][i] # None => f[k][i] \in S
  /\ \A b \in S : \E k \in DOMAIN f : \E i \in DOMAIN f[k] : f[k][i] = b
  /\ \A k, l \in DOMAIN f : \A i \in DOMAIN f[k], j \in DOMAIN f[l] :
       f[k][i] = f[l][j] /\ f[k][i] # None => k = l /\ i = j

(* Only the head of an array may be the mark of the end.                   *)
Heads(a) == \A k \in 0 .. NBLK : \A i \in DOMAIN a[k] : i # 1 => a[k][i] # None

(* The list that begins with first holds the blocks F.                     *)
ListInv(first, lk, F) ==
  /\ first \in Cells /\ lk \in [Blk -> Cells] /\ F \subseteq Blk
  /\ Has(Chain(first, lk), F) /\ Heads(Chain(first, lk))

(* What a list of the blocks F is, and how another is shown to be one.     *)
LEMMA ListIs ==
  ASSUME NEW first, NEW lk, NEW F, ListInv(first, lk, F)
  PROVE  \E a : Linked(a, first, lk) /\ Has(a, F) /\ Heads(a)
BY ChainIs DEF ListInv

LEMMA ListFrom ==
  ASSUME NEW first \in Cells, NEW lk \in [Blk -> Cells], NEW F, F \subseteq Blk,
         NEW a, Linked(a, first, lk), Has(a, F), Heads(a)
  PROVE  ListInv(first, lk, F)
BY ChainEq DEF ListInv

(* The last array is empty, but for the mark of the end: every other array *)
(* is headed by a block of its own.                                        *)
LEMMA LastEmpty ==
  ASSUME NEW first, NEW lk, NEW a, Linked(a, first, lk), NEW F, F \subseteq Blk, Has(a, F)
  PROVE  \A i \in DOMAIN a[NBLK] : a[NBLK][i] = None
<1> SUFFICES ASSUME NEW i \in DOMAIN a[NBLK], a[NBLK][i] # None PROVE FALSE
  OBVIOUS
<1>1. /\ \A k \in 0 .. NBLK : a[k] \in Cells
      /\ NBLK \in 0 .. NBLK
  BY NblkFacts DEF Linked
<1>2. \A j \in 0 .. NBLK - 1 : a[j] # <<>> /\ Head(a[j]) # None
  <2> SUFFICES ASSUME NEW j \in 0 .. NBLK - 1, a[j] = <<>> \/ Head(a[j]) = None
               PROVE  FALSE
    OBVIOUS
  <2> DEFINE G == {k \in 0 .. NBLK : k <= j \/ a[k] = <<>>}
  <2>1. 0 \in G
    BY NblkFacts
  <2>2. ASSUME NEW k \in 1 .. NBLK, k - 1 \in G PROVE k \in G
    <3>1. a[k] = After(a[k - 1], lk) /\ k \in 0 .. NBLK /\ k - 1 \in 0 .. NBLK
      BY NblkFacts DEF Linked
    <3>2. CASE k <= j
      BY <3>1, <3>2
    <3>3. CASE k - 1 = j
      BY <3>1, <3>3 DEF After
    <3>4. CASE ~ (k <= j) /\ k - 1 # j
      <4>1. a[k - 1] = <<>>
        BY <2>2, <3>1, <3>4, NblkFacts
      <4>2. QED BY <3>1, <4>1 DEF After
    <3>5. QED BY <3>2, <3>3, <3>4
  <2>3. NBLK \in G
    <3> HIDE DEF G
    <3>1. Closed(NBLK, G)
      BY NblkFacts, <2>1, <2>2 DEF Closed
    <3>2. QED BY NblkFacts, <3>1, AllReached
  <2>4. a[NBLK] = <<>>
    BY <2>3, NblkFacts
  <2>5. QED BY <2>4
<1> DEFINE S == 0 .. NBLK - 1
           h == [k \in S |-> Head(a[k])]
<1>3. \A k \in S : /\ k \in 0 .. NBLK /\ k # NBLK /\ 1 \in DOMAIN a[k]
                    /\ h[k] = a[k][1] /\ h[k] \in Blk /\ h[k] # None
  <2>1. \A k \in S : k \in 0 .. NBLK /\ k # NBLK
    BY NblkFacts
  <2>2. \A k \in S : a[k] \in Cells /\ a[k] # <<>> /\ Head(a[k]) # None
    BY <1>1, <1>2, <2>1
  <2>3. \A k \in S : 1 \in DOMAIN a[k] /\ Head(a[k]) = a[k][1] /\ a[k][1] \in Blk
    BY <2>2, CellsFacts
  <2>4. QED BY <2>1, <2>2, <2>3
<1>4. DOMAIN a = 0 .. NBLK
  BY DEF Linked
<1>5. h \in Injection(S, Blk)
  <2>1. h \in [S -> Blk]
    BY <1>3
  <2>2. \A k, l \in S : h[k] = h[l] => k = l
    BY <1>3, <1>4 DEF Has
  <2>3. QED BY <2>1, <2>2 DEF Injection, IsInjective
<1>6. Cardinality(S) = NBLK
  <2>1. 0 \in Int /\ NBLK - 1 \in Int
    BY NblkFacts
  <2>2. Cardinality(S) = IF 0 > NBLK - 1 THEN 0 ELSE NBLK - 1 - 0 + 1
    BY <2>1, FS_Interval
  <2>3. QED BY <2>2, NblkFacts
<1>7. h \in Surjection(S, Blk)
  BY <1>5, <1>6, FS_Injection, FileSystemAssumption DEF NBLK
<1>8. a[NBLK][i] \in Blk
  BY <1>1, CellsFacts
<1>9. PICK k \in S : h[k] = a[NBLK][i]
  BY <1>7, <1>8 DEF Surjection
<1>10. QED BY <1>1, <1>3, <1>4, <1>9 DEF Has

LEMMA FrontFacts ==
  ASSUME NEW l \in Cells, l # <<>>
  PROVE  /\ Front(l) \in Cells /\ Len(Front(l)) = Len(l) - 1
         /\ DOMAIN Front(l) = 1 .. Len(l) - 1
         /\ \A i \in 1 .. Len(l) - 1 : Front(l)[i] = l[i]
         /\ Last(l) = l[Len(l)] /\ Len(l) \in DOMAIN l /\ Len(l) \in Nat \ {0}
         /\ DOMAIN l = 1 .. Len(l)
<1> DEFINE C == Blk \cup {None}
<1>1. l \in Seq(C) /\ Cells = Seq(C)
  BY DEF Cells
<1> HIDE DEF C
<1>2. Len(l) \in Nat \ {0} /\ DOMAIN l = 1 .. Len(l) /\ \A i \in 1 .. Len(l) : l[i] \in C
  BY <1>1
<1>3. PICK n \in Nat : n = Len(l) - 1
  <2>1. Len(l) - 1 \in Nat
    BY <1>2
  <2>2. QED BY <2>1
<1>4. \A i \in 1 .. n : i \in 1 .. Len(l)
  BY <1>2, <1>3
<1>5. Front(l) = SubSeq(l, 1, n)
  BY <1>3 DEF Front
<1>6. /\ SubSeq(l, 1, n) \in Seq(C)
      /\ Len(SubSeq(l, 1, n)) = IF 1 <= n THEN n - 1 + 1 ELSE 0
      /\ \A i \in 1 .. n - 1 + 1 : SubSeq(l, 1, n)[i] = l[1 + i - 1]
  <2>1. \A i \in 1 .. n : l[i] \in C
    BY <1>2, <1>4
  <2>2. 1 \in Int /\ n \in Int
    OBVIOUS
  <2>3. QED BY <2>1, <2>2, SubSeqProperties
<1>7. PICK f : f = Front(l) /\ f \in Seq(C)
  BY <1>5, <1>6
<1>8. Len(f) = n /\ DOMAIN f = 1 .. n
  BY <1>5, <1>6, <1>7
<1>9. \A i \in 1 .. n : f[i] = l[i]
  BY <1>5, <1>6, <1>7
<1>10. Len(l) \in DOMAIN l /\ Last(l) = l[Len(l)]
  BY <1>2 DEF Last
<1>11. QED BY <1>1, <1>2, <1>3, <1>7, <1>8, <1>9, <1>10

LEMMA AppendFacts ==
  ASSUME NEW l \in Cells, NEW b \in Blk
  PROVE  /\ Append(l, b) \in Cells /\ DOMAIN Append(l, b) = 1 .. Len(l) + 1
         /\ \A i \in 1 .. Len(l) : Append(l, b)[i] = l[i]
         /\ Append(l, b)[Len(l) + 1] = b /\ Append(l, b) # <<>>
         /\ DOMAIN l = 1 .. Len(l) /\ Len(l) \in Nat
<1> DEFINE C == Blk \cup {None}
<1>1. l \in Seq(C) /\ Cells = Seq(C) /\ b \in C
  BY DEF Cells
<1> HIDE DEF C
<1>2. QED BY <1>1

(* Another block leads where the list does not go.                         *)
LEMMA ListRelink ==
  ASSUME NEW first, NEW lk, NEW F, ListInv(first, lk, F),
         NEW b \in Blk, b \notin F, NEW l \in Cells
  PROVE  ListInv(first, [lk EXCEPT ![b] = l], F)
<1> DEFINE m == [lk EXCEPT ![b] = l]
<1>1. PICK a : Linked(a, first, lk) /\ Has(a, F) /\ Heads(a)
  BY ListIs
<1>2. first \in Cells /\ lk \in [Blk -> Cells] /\ F \subseteq Blk
  BY DEF ListInv
<1>3. m \in [Blk -> Cells] /\ \A c \in Blk : c # b => m[c] = lk[c]
  BY <1>2
<1> HIDE DEF m
<1>4. ASSUME NEW k \in 1 .. NBLK PROVE a[k] = After(a[k - 1], m)
  <2>1. a[k] = After(a[k - 1], lk) /\ k - 1 \in 0 .. NBLK /\ a[k - 1] \in Cells
        /\ DOMAIN a = 0 .. NBLK
    BY <1>1, NblkFacts DEF Linked
  <2>2. CASE a[k - 1] = <<>> \/ Head(a[k - 1]) = None
    BY <2>1, <2>2 DEF After
  <2>3. CASE a[k - 1] # <<>> /\ Head(a[k - 1]) # None
    <3>1. Head(a[k - 1]) = a[k - 1][1] /\ 1 \in DOMAIN a[k - 1]
      BY <2>1, <2>3, CellsFacts
    <3>2. Head(a[k - 1]) \in F
      BY <1>1, <2>1, <2>3, <3>1 DEF Has
    <3>3. QED BY <1>2, <1>3, <2>1, <2>3, <3>2 DEF After
  <2>4. QED BY <2>2, <2>3
<1>5. Linked(a, first, m)
  BY <1>1, <1>4 DEF Linked
<1>6. ListInv(first, m, F)
  BY <1>1, <1>2, <1>3, <1>5, ListFrom
<1>7. QED BY <1>6 DEF m

(* The list with another first array of the same head.                     *)
LEMMA ListFirst ==
  ASSUME NEW first, NEW lk \in [Blk -> Cells], NEW a, Linked(a, first, lk),
         NEW l \in Cells, After(l, lk) = After(first, lk)
  PROVE  Linked([a EXCEPT ![0] = l], l, lk)
<1> DEFINE c == [a EXCEPT ![0] = l]
<1>1. c \in [0 .. NBLK -> Cells] /\ c[0] = l /\ \A k \in 0 .. NBLK : k # 0 => c[k] = a[k]
  BY NblkFacts DEF Linked
<1>2. ASSUME NEW k \in 1 .. NBLK PROVE c[k] = After(c[k - 1], lk)
  <2>1. k \in 0 .. NBLK /\ k # 0 /\ k - 1 \in 0 .. NBLK /\ a[k] = After(a[k - 1], lk)
        /\ a[0] = first
    BY NblkFacts DEF Linked
  <2>2. CASE k - 1 = 0
    BY <1>1, <2>1, <2>2
  <2>3. CASE k - 1 # 0
    BY <1>1, <2>1, <2>3
  <2>4. QED BY <2>2, <2>3
<1> HIDE DEF c
<1>3. Linked(c, l, lk)
  BY <1>1, <1>2 DEF Linked
<1>4. QED BY <1>3 DEF c

LEMMA ListPush ==
  ASSUME NEW first, NEW lk, NEW F, ListInv(first, lk, F), first # <<>>,
         NEW b \in Blk, b \notin F
  PROVE  ListInv(Append(first, b), lk, F \cup {b})
<1> DEFINE l == Append(first, b)
<1>1. PICK a : Linked(a, first, lk) /\ Has(a, F) /\ Heads(a)
  BY ListIs
<1>2. first \in Cells /\ lk \in [Blk -> Cells] /\ F \subseteq Blk
  BY DEF ListInv
<1>3. /\ l \in Cells /\ DOMAIN l = 1 .. Len(first) + 1
      /\ \A i \in 1 .. Len(first) : l[i] = first[i]
      /\ l[Len(first) + 1] = b /\ l # <<>>
      /\ DOMAIN first = 1 .. Len(first) /\ Len(first) \in Nat
  BY <1>2, AppendFacts
<1>4. 1 \in DOMAIN first /\ Head(l) = Head(first)
  BY <1>2, <1>3, CellsFacts
<1> HIDE DEF l
<1>5. After(l, lk) = After(first, lk)
  BY <1>3, <1>4 DEF After
<1>6. PICK c : c = [a EXCEPT ![0] = l] /\ Linked(c, l, lk)
  BY <1>1, <1>2, <1>3, <1>5, ListFirst
<1>7. /\ DOMAIN c = 0 .. NBLK /\ DOMAIN a = 0 .. NBLK /\ 0 \in 0 .. NBLK
      /\ a[0] = first /\ c[0] = l
      /\ \A k \in 0 .. NBLK : k # 0 => c[k] = a[k]
  BY <1>1, <1>6, NblkFacts DEF Linked
<1>8. ASSUME NEW i \in DOMAIN l
      PROVE  \/ i \in DOMAIN first /\ l[i] = first[i]
             \/ i = Len(first) + 1 /\ l[i] = b
  <2>1. PICK n \in Nat : n = Len(first)
    BY <1>3
  <2>2. i \in 1 .. n \/ i = n + 1
    BY <1>3, <2>1
  <2>3. QED BY <1>3, <2>1, <2>2
<1>9. \A k \in 0 .. NBLK : \A i \in DOMAIN c[k] :
        \/ i \in DOMAIN a[k] /\ c[k][i] = a[k][i]
        \/ k = 0 /\ i = Len(first) + 1 /\ c[k][i] = b
  BY <1>7, <1>8
<1>10. \A k \in 0 .. NBLK : \A i \in DOMAIN a[k] : i \in DOMAIN c[k] /\ c[k][i] = a[k][i]
  BY <1>3, <1>7
<1>11. \A k \in 0 .. NBLK : \A i \in DOMAIN a[k] : a[k][i] # b
  BY <1>1, <1>7, NoneFacts DEF Has
<1>12. Has(c, F \cup {b})
  <2>1. ASSUME NEW k \in 0 .. NBLK, NEW i \in DOMAIN c[k], c[k][i] # None
        PROVE  c[k][i] \in F \cup {b}
    BY <1>1, <1>7, <1>9, <2>1 DEF Has
  <2>2. ASSUME NEW x \in F \cup {b}
        PROVE  \E k \in 0 .. NBLK : \E i \in DOMAIN c[k] : c[k][i] = x
    <3>1. CASE x = b
      <4>1. Len(first) + 1 \in DOMAIN c[0] /\ c[0][Len(first) + 1] = b
        BY <1>3, <1>7
      <4>2. QED BY <1>7, <3>1, <4>1
    <3>2. CASE x \in F
      <4>1. PICK k \in 0 .. NBLK : \E i \in DOMAIN a[k] : a[k][i] = x
        BY <1>1, <1>7, <3>2 DEF Has
      <4>2. QED BY <1>10, <4>1
    <3>3. QED BY <3>1, <3>2
  <2>3. ASSUME NEW k \in 0 .. NBLK, NEW m \in 0 .. NBLK, NEW i \in DOMAIN c[k], NEW j \in DOMAIN c[m],
               c[k][i] = c[m][j], c[k][i] # None
        PROVE  k = m /\ i = j
    BY <1>1, <1>7, <1>9, <1>11, <2>3 DEF Has
  <2>4. QED BY <1>7, <2>1, <2>2, <2>3 DEF Has
<1>13. Heads(c)
  BY <1>1, <1>9, NoneFacts DEF Heads
<1>14. ListInv(l, lk, F \cup {b})
  BY <1>2, <1>3, <1>6, <1>12, <1>13, ListFrom
<1>15. QED BY <1>14 DEF l

(* The mark of the end comes and goes.                                     *)
LEMMA ListBegin ==
  ASSUME NEW lk, NEW F, ListInv(<<>>, lk, F)
  PROVE  ListInv(<<None>>, lk, F)
<1>1. PICK a : Linked(a, <<>>, lk) /\ Has(a, F) /\ Heads(a)
  BY ListIs
<1>2. lk \in [Blk -> Cells] /\ F \subseteq Blk
  BY DEF ListInv
<1>3. After(<<None>>, lk) = After(<<>>, lk)
  BY DEF After
<1>4. PICK c : c = [a EXCEPT ![0] = <<None>>] /\ Linked(c, <<None>>, lk)
  BY <1>1, <1>2, <1>3, CellsFacts, ListFirst
<1>5. /\ DOMAIN c = 0 .. NBLK /\ DOMAIN a = 0 .. NBLK /\ 0 \in 0 .. NBLK
      /\ a[0] = <<>> /\ c[0] = <<None>>
      /\ \A k \in 0 .. NBLK : k # 0 => c[k] = a[k]
  BY <1>1, <1>4, NblkFacts DEF Linked
<1>6. \A k \in 0 .. NBLK : \A i \in DOMAIN a[k] : i \in DOMAIN c[k] /\ c[k][i] = a[k][i]
  BY <1>5
<1>7. \A k \in 0 .. NBLK : \A i \in DOMAIN c[k] :
        \/ i \in DOMAIN a[k] /\ c[k][i] = a[k][i]
        \/ i = 1 /\ c[k][i] = None
  BY <1>5
<1>8. Has(c, F)
  BY <1>1, <1>5, <1>6, <1>7 DEF Has
<1>9. Heads(c)
  BY <1>1, <1>7 DEF Heads
<1>10. QED BY <1>2, <1>4, <1>8, <1>9, CellsFacts, ListFrom

LEMMA ListEnd ==
  ASSUME NEW first, NEW lk, NEW F, ListInv(first, lk, F),
         first = <<>> \/ Last(first) = None
  PROVE  ListInv(<<>>, lk, F)
<1>0. CASE first = <<>>
  BY <1>0
<1> SUFFICES ASSUME first # <<>>, Last(first) = None PROVE ListInv(<<>>, lk, F)
  BY <1>0
<1>1. PICK a : Linked(a, first, lk) /\ Has(a, F) /\ Heads(a)
  BY ListIs
<1>2. first \in Cells /\ lk \in [Blk -> Cells] /\ F \subseteq Blk
  BY DEF ListInv
<1>3. Len(first) = 1 /\ first[1] = None /\ DOMAIN first = 1 .. 1
  <2>1. /\ Last(first) = first[Len(first)] /\ Len(first) \in DOMAIN first
        /\ DOMAIN first = 1 .. Len(first)
    BY <1>2, FrontFacts
  <2>2. Len(first) = 1
    BY <1>1, <2>1, NblkFacts DEF Heads, Linked
  <2>3. QED BY <2>1, <2>2
<1>4. After(first, lk) = After(<<>>, lk)
  BY <1>2, <1>3, CellsFacts DEF After
<1>5. PICK c : c = [a EXCEPT ![0] = <<>>] /\ Linked(c, <<>>, lk)
  BY <1>1, <1>2, <1>4, CellsFacts, ListFirst
<1>6. /\ DOMAIN c = 0 .. NBLK /\ DOMAIN a = 0 .. NBLK /\ 0 \in 0 .. NBLK
      /\ a[0] = first /\ c[0] = <<>>
      /\ \A k \in 0 .. NBLK : k # 0 => c[k] = a[k]
  BY <1>1, <1>5, NblkFacts DEF Linked
<1>7. \A k \in 0 .. NBLK : \A i \in DOMAIN c[k] : i \in DOMAIN a[k] /\ c[k][i] = a[k][i]
  BY <1>6
<1>8. \A k \in 0 .. NBLK : \A i \in DOMAIN a[k] :
        \/ i \in DOMAIN c[k] /\ c[k][i] = a[k][i]
        \/ a[k][i] = None
  BY <1>3, <1>6
<1>9. Has(c, F)
  BY <1>1, <1>2, <1>6, <1>7, <1>8, NoneFacts DEF Has
<1>10. Heads(c)
  BY <1>1, <1>7 DEF Heads
<1>11. QED BY <1>2, <1>5, <1>9, <1>10, CellsFacts, ListFrom

(* The array before the first: a block that links what was the list.       *)
LEMMA ListNew ==
  ASSUME NEW lk, NEW F, NEW b \in Blk, b \notin F, ListInv(lk[b], lk, F)
  PROVE  ListInv(<<b>>, lk, F \cup {b})
<1>1. PICK a : Linked(a, lk[b], lk) /\ Has(a, F) /\ Heads(a)
  BY ListIs
<1>2. lk[b] \in Cells /\ lk \in [Blk -> Cells] /\ F \subseteq Blk
  BY DEF ListInv
<1>3. b # None /\ <<b>> \in Cells
  BY CellsFacts, NoneFacts
<1> DEFINE c == [k \in 0 .. NBLK |-> IF k = 0 THEN <<b>> ELSE a[k - 1]]
<1>4. /\ c \in [0 .. NBLK -> Cells] /\ c[0] = <<b>>
      /\ \A k \in 1 .. NBLK : c[k] = a[k - 1]
  BY <1>1, <1>3, NblkFacts DEF Linked
<1> HIDE DEF c
<1>5. Linked(c, <<b>>, lk)
  <2>1. ASSUME NEW k \in 1 .. NBLK PROVE c[k] = After(c[k - 1], lk)
    <3>1. CASE k - 1 = 0
      <4>1. c[k - 1] = <<b>> /\ c[k] = lk[b]
        BY <1>1, <1>4, <3>1 DEF Linked
      <4>2. After(<<b>>, lk) = lk[b]
        BY <1>3 DEF After
      <4>3. QED BY <4>1, <4>2
    <3>2. CASE k - 1 # 0
      <4>1. k - 1 \in 1 .. NBLK
        BY <3>2, NblkFacts
      <4>2. QED BY <1>1, <1>4, <4>1 DEF Linked
    <3>3. QED BY <3>1, <3>2
  <2>2. QED BY <1>4, <2>1 DEF Linked
<1>6. /\ DOMAIN c = 0 .. NBLK /\ DOMAIN a = 0 .. NBLK /\ 0 \in 0 .. NBLK
      /\ \A k \in 0 .. NBLK : k = 0 \/ k \in 1 .. NBLK
      /\ \A k \in 1 .. NBLK : k \in 0 .. NBLK /\ k - 1 \in 0 .. NBLK /\ k # 0
  BY <1>1, <1>4, NblkFacts DEF Linked
<1>7. \A i \in DOMAIN c[0] : i = 1 /\ c[0][i] = b
  BY <1>4
<1>8. \A k \in 0 .. NBLK : \A i \in DOMAIN a[k] : a[k][i] # b
  BY <1>1, <1>3, <1>6 DEF Has
<1>9. Has(c, F \cup {b})
  <2>1. ASSUME NEW k \in 0 .. NBLK, NEW i \in DOMAIN c[k], c[k][i] # None
        PROVE  c[k][i] \in F \cup {b}
    <3>1. CASE k = 0
      BY <1>7, <3>1
    <3>2. CASE k \in 1 .. NBLK
      BY <1>1, <1>4, <1>6, <2>1, <3>2 DEF Has
    <3>3. QED BY <1>6, <3>1, <3>2
  <2>2. ASSUME NEW x \in F \cup {b}
        PROVE  \E k \in 0 .. NBLK : \E i \in DOMAIN c[k] : c[k][i] = x
    <3>1. CASE x = b
      <4>1. 1 \in DOMAIN c[0] /\ c[0][1] = b
        BY <1>4
      <4>2. QED BY <1>6, <3>1, <4>1
    <3>2. CASE x \in F
      <4>1. PICK k \in 0 .. NBLK : \E i \in DOMAIN a[k] : a[k][i] = x
        BY <1>1, <1>6, <3>2 DEF Has
      <4>2. PICK i \in DOMAIN a[k] : a[k][i] = x
        BY <4>1
      <4>3. k # NBLK
        <5>1. x # None
          BY <1>2, <3>2, NoneFacts
        <5>2. QED BY <1>1, <1>2, <4>2, <5>1, LastEmpty
      <4>4. k + 1 \in 1 .. NBLK /\ (k + 1) - 1 = k
        BY <4>3, NblkFacts
      <4>5. c[k + 1] = a[k]
        BY <1>4, <4>4
      <4>6. QED BY <1>6, <4>2, <4>4, <4>5
    <3>3. QED BY <3>1, <3>2
  <2>3. ASSUME NEW k \in 0 .. NBLK, NEW m \in 0 .. NBLK, NEW i \in DOMAIN c[k], NEW j \in DOMAIN c[m],
               c[k][i] = c[m][j], c[k][i] # None
        PROVE  k = m /\ i = j
    <3>1. CASE k = 0 /\ m = 0
      BY <1>7, <3>1
    <3>2. CASE k = 0 /\ m \in 1 .. NBLK
      BY <1>4, <1>6, <1>7, <1>8, <2>3, <3>2
    <3>3. CASE k \in 1 .. NBLK /\ m = 0
      BY <1>4, <1>6, <1>7, <1>8, <2>3, <3>3
    <3>4. CASE k \in 1 .. NBLK /\ m \in 1 .. NBLK
      <4>1. k - 1 = m - 1 /\ i = j
        BY <1>1, <1>4, <1>6, <2>3, <3>4 DEF Has
      <4>2. QED BY <3>4, <4>1, NblkFacts
    <3>5. QED BY <1>6, <3>1, <3>2, <3>3, <3>4
  <2>4. QED BY <1>6, <2>1, <2>2, <2>3 DEF Has
<1>10. Heads(c)
  <2>1. ASSUME NEW k \in 0 .. NBLK, NEW i \in DOMAIN c[k], i # 1 PROVE c[k][i] # None
    <3>1. CASE k = 0
      BY <1>7, <2>1, <3>1
    <3>2. CASE k \in 1 .. NBLK
      BY <1>1, <1>4, <1>6, <2>1, <3>2 DEF Heads
    <3>3. QED BY <1>6, <3>1, <3>2
  <2>2. QED BY <2>1 DEF Heads
<1>11. F \cup {b} \subseteq Blk
  BY <1>2
<1>12. QED BY <1>2, <1>3, <1>5, <1>9, <1>10, <1>11, ListFrom

(* alloc takes the last of an array.                                       *)
LEMMA ListPop ==
  ASSUME NEW first, NEW lk, NEW F, ListInv(first, lk, F), Len(first) # 1,
         first # <<>>
  PROVE  Last(first) \in F /\ ListInv(Front(first), lk, F \ {Last(first)})
<1>1. PICK a : Linked(a, first, lk) /\ Has(a, F) /\ Heads(a)
  BY ListIs
<1>2. first \in Cells /\ lk \in [Blk -> Cells] /\ F \subseteq Blk
  BY DEF ListInv
<1>3. PICK n \in Nat, l \in Cells, b \in {Last(first)} :
        /\ l = Front(first) /\ b = Last(first) /\ n = Len(first) - 1 /\ n # 0
        /\ l \in Cells /\ DOMAIN l = 1 .. n /\ DOMAIN first = 1 .. n + 1
        /\ \A i \in 1 .. n : l[i] = first[i]
        /\ b = first[n + 1]
  <2>1. /\ Front(first) \in Cells
        /\ DOMAIN Front(first) = 1 .. Len(first) - 1
        /\ \A i \in 1 .. Len(first) - 1 : Front(first)[i] = first[i]
        /\ Last(first) = first[Len(first)] /\ Len(first) \in Nat \ {0}
        /\ DOMAIN first = 1 .. Len(first)
    BY <1>2, FrontFacts
  <2>2. Len(first) - 1 \in Nat /\ Len(first) - 1 # 0 /\ (Len(first) - 1) + 1 = Len(first)
    BY <2>1
  <2>3. QED BY <2>1, <2>2
<1>4. After(l, lk) = After(first, lk)
  <2>1. 1 \in DOMAIN l /\ 1 \in DOMAIN first /\ l[1] = first[1]
    BY <1>3
  <2>2. l # <<>>
    BY <2>1
  <2>3. Head(l) = Head(first)
    BY <1>2, <1>3, <2>1, <2>2, CellsFacts
  <2>4. QED BY <2>2, <2>3 DEF After
<1>5. PICK c : c = [a EXCEPT ![0] = l] /\ Linked(c, l, lk)
  <2>1. l \in Cells /\ lk \in [Blk -> Cells] /\ Linked(a, first, lk)
    BY <1>1, <1>2, <1>3
  <2>2. Linked([a EXCEPT ![0] = l], l, lk)
    BY <1>4, <2>1, ListFirst
  <2>3. QED BY <2>2
<1>6. /\ DOMAIN c = 0 .. NBLK /\ DOMAIN a = 0 .. NBLK /\ 0 \in 0 .. NBLK
      /\ a[0] = first /\ c[0] = l
      /\ \A k \in 0 .. NBLK : k # 0 => c[k] = a[k]
  BY <1>1, <1>5, NblkFacts DEF Linked
<1>7. \A i \in 1 .. n + 1 : i \in 1 .. n \/ i = n + 1
  OBVIOUS
<1>8. n + 1 \in DOMAIN a[0] /\ a[0][n + 1] = b /\ n + 1 # 1 /\ \A i \in 1 .. n : i # n + 1 /\ i \in 1 .. n + 1
  BY <1>3, <1>6
<1>9. b # None /\ b \in F
  BY <1>1, <1>6, <1>8 DEF Heads, Has
<1>10. \A k \in 0 .. NBLK : \A i \in DOMAIN c[k] :
         /\ i \in DOMAIN a[k] /\ c[k][i] = a[k][i]
         /\ ~ (k = 0 /\ i = n + 1)
  BY <1>3, <1>6, <1>8
<1>11. \A k \in 0 .. NBLK : \A i \in DOMAIN a[k] :
         \/ i \in DOMAIN c[k] /\ c[k][i] = a[k][i]
         \/ a[k][i] = b
  BY <1>3, <1>6, <1>7
<1>12. \A k \in 0 .. NBLK : \A i \in DOMAIN c[k] : c[k][i] # b
  BY <1>1, <1>6, <1>8, <1>9, <1>10 DEF Has
<1>13. Has(c, F \ {b})
  BY <1>1, <1>6, <1>10, <1>11, <1>12 DEF Has
<1>14. Heads(c)
  BY <1>1, <1>10 DEF Heads
<1>15. F \ {b} \subseteq Blk
  BY <1>2
<1>16. ListInv(l, lk, F \ {b})
  BY <1>2, <1>3, <1>5, <1>13, <1>14, <1>15, ListFrom
<1>17. QED BY <1>3, <1>9, <1>16

(* alloc takes the block that links the next array.                        *)
LEMMA ListNext ==
  ASSUME NEW first, NEW lk, NEW F, ListInv(first, lk, F), Len(first) = 1,
         Last(first) # None
  PROVE  Last(first) \in F /\ ListInv(lk[Last(first)], lk, F \ {Last(first)})
<1>1. PICK a : Linked(a, first, lk) /\ Has(a, F) /\ Heads(a)
  BY ListIs
<1>2. first \in Cells /\ lk \in [Blk -> Cells] /\ F \subseteq Blk
  BY DEF ListInv
<1>3. first # <<>>
  OBVIOUS
<1>4. PICK b : b = Last(first) /\ first[1] = b /\ DOMAIN first = 1 .. 1 /\ Head(first) = b
               /\ b \in Blk
  <2>1. Last(first) = first[1] /\ DOMAIN first = 1 .. 1
    BY <1>2, <1>3, FrontFacts
  <2>2. Head(first) = first[1] /\ first[1] \in Blk \cup {None}
    BY <1>2, <1>3, CellsFacts
  <2>3. QED BY <2>1, <2>2
<1>5. lk[b] \in Cells /\ After(first, lk) = lk[b]
  BY <1>2, <1>3, <1>4, NoneFacts DEF After
<1>6. NBLK # 0 /\ 0 \in 0 .. NBLK - 1 /\ 1 \in 1 .. NBLK
  <2>1. Blk # {} /\ IsFiniteSet(Blk)
    BY <1>4, FileSystemAssumption
  <2>2. NBLK # 0
    BY <2>1, FS_EmptySet DEF NBLK
  <2>3. QED BY <2>2, NblkFacts
<1>7. After(a[NBLK], lk) = <<>>
  <2>1. NBLK \in 0 .. NBLK
    BY NblkFacts
  <2>2. a[NBLK] \in Cells
    BY <1>1, <2>1 DEF Linked
  <2>3. CASE a[NBLK] = <<>>
    BY <2>3 DEF After
  <2>4. CASE a[NBLK] # <<>>
    <3>1. 1 \in DOMAIN a[NBLK] /\ Head(a[NBLK]) = a[NBLK][1]
      BY <2>2, <2>4, CellsFacts
    <3>2. a[NBLK][1] = None
      BY <1>1, <1>2, <3>1, LastEmpty
    <3>3. QED BY <3>1, <3>2 DEF After
  <2>5. QED BY <2>3, <2>4
<1> DEFINE c == [k \in 0 .. NBLK |-> IF k = NBLK THEN <<>> ELSE a[k + 1]]
<1>8. /\ \A k \in 0 .. NBLK : k # NBLK => k + 1 \in 0 .. NBLK /\ k + 1 \in 1 .. NBLK
      /\ NBLK \in 0 .. NBLK /\ 0 \in 0 .. NBLK
  BY NblkFacts
<1>9. /\ c \in [0 .. NBLK -> Cells] /\ c[NBLK] = <<>>
      /\ \A k \in 0 .. NBLK : k # NBLK => c[k] = a[k + 1]
  BY <1>1, <1>8, CellsFacts DEF Linked
<1> HIDE DEF c
<1>10. \A k \in 0 .. NBLK : k # NBLK => a[k + 1] = After(a[k], lk)
  <2>1. \A k \in 0 .. NBLK : (k + 1) - 1 = k
    BY NblkFacts
  <2>2. QED BY <1>1, <1>8, <2>1 DEF Linked
<1>11. Linked(c, lk[b], lk)
  <2>1. c[0] = lk[b]
    <3>1. c[0] = a[0 + 1] /\ a[0 + 1] = After(a[0], lk)
      BY <1>6, <1>8, <1>9, <1>10
    <3>2. QED BY <1>1, <1>5, <3>1 DEF Linked
  <2>2. ASSUME NEW k \in 1 .. NBLK PROVE c[k] = After(c[k - 1], lk)
    <3>1. k \in 0 .. NBLK /\ k - 1 \in 0 .. NBLK /\ k - 1 # NBLK /\ (k - 1) + 1 = k
      BY NblkFacts
    <3>2. c[k - 1] = a[k]
      BY <1>9, <3>1
    <3>3. CASE k = NBLK
      BY <1>7, <1>9, <3>2, <3>3
    <3>4. CASE k # NBLK
      BY <1>9, <1>10, <3>1, <3>2, <3>4
    <3>5. QED BY <3>3, <3>4
  <2>3. QED BY <1>9, <2>1, <2>2 DEF Linked
<1>12. /\ DOMAIN c = 0 .. NBLK /\ DOMAIN a = 0 .. NBLK
       /\ a[0] = first
  BY <1>1, <1>9 DEF Linked
<1>13. 1 \in DOMAIN a[0] /\ a[0][1] = b /\ b # None /\ b \in F
  BY <1>1, <1>4, <1>8, <1>12, NoneFacts DEF Has
<1>14. ASSUME NEW k \in 0 .. NBLK, NEW i \in DOMAIN c[k]
       PROVE  /\ k # NBLK /\ k + 1 \in 0 .. NBLK /\ k + 1 # 0
              /\ i \in DOMAIN a[k + 1] /\ c[k][i] = a[k + 1][i]
  <2>1. k # NBLK
    BY <1>9, <1>14
  <2>2. QED BY <1>8, <1>9, <2>1, NblkFacts
<1>15. Has(c, F \ {b})
  <2>1. ASSUME NEW k \in 0 .. NBLK, NEW i \in DOMAIN c[k], c[k][i] # None
        PROVE  c[k][i] \in F \ {b}
    <3>1. /\ k + 1 \in 0 .. NBLK /\ k + 1 # 0
          /\ i \in DOMAIN a[k + 1] /\ c[k][i] = a[k + 1][i]
      BY <1>14
    <3>2. QED BY <1>1, <1>8, <1>12, <1>13, <2>1, <3>1 DEF Has
  <2>2. ASSUME NEW x \in F \ {b}
        PROVE  \E k \in 0 .. NBLK : \E i \in DOMAIN c[k] : c[k][i] = x
    <3>1. PICK k \in 0 .. NBLK : \E i \in DOMAIN a[k] : a[k][i] = x
      BY <1>1, <1>12 DEF Has
    <3>2. PICK i \in DOMAIN a[k] : a[k][i] = x
      BY <3>1
    <3>3. k # 0
      BY <1>4, <1>12, <3>2
    <3>4. PICK m \in 0 .. NBLK : m # NBLK /\ k = m + 1
      BY <3>3, NblkFacts
    <3>5. i \in DOMAIN c[m] /\ c[m][i] = x
      BY <1>9, <3>2, <3>4
    <3>6. QED BY <3>5
  <2>3. ASSUME NEW k \in 0 .. NBLK, NEW m \in 0 .. NBLK, NEW i \in DOMAIN c[k], NEW j \in DOMAIN c[m],
               c[k][i] = c[m][j], c[k][i] # None
        PROVE  k = m /\ i = j
    <3>1. /\ k + 1 \in 0 .. NBLK /\ m + 1 \in 0 .. NBLK
          /\ i \in DOMAIN a[k + 1] /\ c[k][i] = a[k + 1][i]
          /\ j \in DOMAIN a[m + 1] /\ c[m][j] = a[m + 1][j]
      BY <1>14
    <3>2. a[k + 1][i] = a[m + 1][j] /\ a[k + 1][i] # None
      BY <2>3, <3>1
    <3>3. \A x, y \in 0 .. NBLK : \A p \in DOMAIN a[x], q \in DOMAIN a[y] :
            a[x][p] = a[y][q] /\ a[x][p] # None => x = y /\ p = q
      BY <1>1, <1>12 DEF Has
    <3>4. k + 1 = m + 1 /\ i = j
      BY <3>1, <3>2, <3>3
    <3>5. QED BY <3>4, NblkFacts
  <2>4. QED BY <1>12, <2>1, <2>2, <2>3 DEF Has
<1>16. Heads(c)
  BY <1>1, <1>14 DEF Heads
<1>17. F \ {b} \subseteq Blk
  BY <1>2
<1>18. ListInv(lk[b], lk, F \ {b})
  BY <1>2, <1>5, <1>11, <1>15, <1>16, <1>17, ListFrom
<1>19. QED BY <1>4, <1>13, <1>18

-----------------------------------------------------------------------------
(* Where the blocks are: in the free list, in the files and in the hands   *)
(* of the processes.                                                       *)
HandPlaces == {"free", "freecopy", "freed", "allocread", "allocbuf"}
Held(p, b) == pc[p] \in HandPlaces /\ u[p].bn = b

HandsOK(H) ==
  \A b \in Blk : /\ b \in H <=> \E p \in Proc : Held(p, b)
                 /\ \A p, q \in Proc : Held(p, b) /\ Held(q, b) => p = q

Files == [n \in Ino \cup {0} |-> Current(n).addr]

(* An inode that is free, or about to be, has no blocks.                   *)
FreeEmpty ==
  /\ \A s \in Slot : inode[s].i.mode \/ inode[s].i.addr = <<>>
  /\ \A n \in Ino : dinode[n].mode \/ dinode[n].addr = <<>>
  /\ \A p \in Proc : pc[p] = "ifree" => Ip(p).i.addr = <<>>

(* While an array is on its way there is none in core.                     *)
OneFirst == Passing # {} => s_free = <<>>

Parted(F, G, H) ==
  /\ F \cup G \cup H = Blk /\ F \cap G = {} /\ F \cap H = {} /\ G \cap H = {}
  /\ ListInv(FirstArray, link, F) /\ Has(Files, G) /\ HandsOK(H)

BlocksInv ==
  FilesInv /\ FreeEmpty /\ OneFirst /\ \E F, G, H \in SUBSET Blk : Parted(F, G, H)

LEMMA FirstPassing ==
  ASSUME ListsOK, NEW p \in Proc, pc[p] \in {"freed", "allocread"}
  PROVE  Passing = {p} /\ FirstArray = link[u[p].bn]
<1>1. Passing = {p}
  BY DEF Passing, ListsOK, Copying
<1>2. (CHOOSE q \in Passing : TRUE) = p
  BY <1>1
<1>3. QED BY <1>1, <1>2 DEF FirstArray

LEMMA FirstPassingNext ==
  ASSUME ListsOK', NEW p \in Proc, pc'[p] \in {"freed", "allocread"}
  PROVE  Passing' = {p} /\ FirstArray' = link'[u'[p].bn]
<1>1. Passing' = {p}
  BY DEF Passing, ListsOK, Copying
<1>2. (CHOOSE q \in Passing' : TRUE) = p
  BY <1>1
<1>3. QED BY <1>1, <1>2 DEF FirstArray

LEMMA FirstIdle ==
  ASSUME \A p \in Proc : pc[p] \notin {"freed", "allocread"}
  PROVE  Passing = {} /\ FirstArray = s_free
BY DEF Passing, FirstArray

LEMMA FirstIdleNext ==
  ASSUME \A p \in Proc : pc'[p] \notin {"freed", "allocread"}
  PROVE  Passing' = {} /\ FirstArray' = s_free'
BY DEF Passing, FirstArray

(* A step of a process that has no array on its way.                       *)
LEMMA FirstKept ==
  ASSUME FilesInv, FilesInv', NEW p \in Proc, Elsewhere(p), s_free' = s_free, OneFirst,
         pc[p] \notin {"freed", "allocread"}, pc'[p] \notin {"freed", "allocread"},
         \A q \in Proc \ {p} : pc[q] \in {"freed", "allocread"} =>
           link'[u[q].bn] = link[u[q].bn]
  PROVE  FirstArray' = FirstArray /\ OneFirst'
<1>1. ListsOK /\ ListsOK'
  BY DEF FilesInv
<1>2. CASE \E q \in Proc : pc[q] \in {"freed", "allocread"}
  <2>1. PICK q \in Proc : pc[q] \in {"freed", "allocread"}
    BY <1>2
  <2>2. pc'[q] = pc[q] /\ u'[q] = u[q] /\ link'[u[q].bn] = link[u[q].bn]
    BY <2>1 DEF Elsewhere
  <2>3. Passing = {q} /\ FirstArray = link[u[q].bn]
    BY <1>1, <2>1, FirstPassing
  <2>4. Passing' = {q} /\ FirstArray' = link'[u'[q].bn]
    BY <1>1, <2>1, <2>2, FirstPassingNext
  <2>5. QED BY <2>2, <2>3, <2>4 DEF OneFirst
<1>3. CASE \A q \in Proc : pc[q] \notin {"freed", "allocread"}
  <2>1. \A q \in Proc : pc'[q] \notin {"freed", "allocread"}
    BY <1>3 DEF Elsewhere
  <2>2. Passing' = {} /\ FirstArray' = s_free'
    BY <2>1, FirstIdleNext
  <2>3. QED BY <1>3, <2>2, FirstIdle DEF OneFirst
<1>4. QED BY <1>2, <1>3

LEMMA HandsKept ==
  ASSUME NEW p \in Proc, Elsewhere(p), NEW H, HandsOK(H),
         \A b \in Blk : Held(p, b)' <=> Held(p, b)
  PROVE  HandsOK(H)'
<1>1. \A q \in Proc : \A b \in Blk : Held(q, b)' <=> Held(q, b)
  BY DEF Elsewhere, Held
<1>2. QED BY <1>1 DEF HandsOK

LEMMA HandsGain ==
  ASSUME NEW p \in Proc, Elsewhere(p), NEW H, HandsOK(H), NEW b \in Blk, b \notin H,
         pc[p] \notin HandPlaces, Held(p, b)'
  PROVE  HandsOK(H \cup {b})'
<1>1. \A q \in Proc \ {p} : \A c \in Blk : Held(q, c)' <=> Held(q, c)
  BY DEF Elsewhere, Held
<1>2. \A c \in Blk : ~ Held(p, c) /\ (Held(p, c)' <=> c = b)
  BY DEF Held
<1>3. QED BY <1>1, <1>2 DEF HandsOK

LEMMA HandsLose ==
  ASSUME NEW p \in Proc, Elsewhere(p), NEW H, HandsOK(H), NEW b \in Blk,
         pc'[p] \notin HandPlaces, Held(p, b)
  PROVE  b \in H /\ HandsOK(H \ {b})'
<1>1. \A q \in Proc \ {p} : \A c \in Blk : Held(q, c)' <=> Held(q, c)
  BY DEF Elsewhere, Held
<1>2. \A c \in Blk : ~ (Held(p, c)') /\ (Held(p, c) <=> c = b)
  BY DEF Held
<1>3. QED BY <1>1, <1>2 DEF HandsOK

(* The blocks of an inode that stays where it is.                          *)
LEMMA BlocksOfKept ==
  ASSUME Unique, Unique', NEW n \in Ino \cup {0}, dinode'[n] = dinode[n],
         \A s \in Slot :
           inode[s].num = n \/ inode'[s].num = n =>
             /\ inode'[s].num = inode[s].num /\ (Present(s)' <=> Present(s))
             /\ inode'[s].i.addr = inode[s].i.addr
  PROVE  Current(n)'.addr = Current(n).addr
<1>0. n # None
  BY NoneFacts, FileSystemAssumption
<1>1. CASE \E s \in Slot : inode[s].num = n /\ Present(s)
  <2>1. PICK s \in Slot : inode[s].num = n /\ Present(s)
    BY <1>1
  <2>2. inode'[s].num = n /\ Present(s)'
    BY <2>1
  <2>3. Current(n) = inode[s].i
    BY <1>0, <2>1, CurrentIn
  <2>4. Current(n)' = inode'[s].i
    BY <1>0, <2>2, CurrentInNext
  <2>5. QED BY <2>1, <2>3, <2>4
<1>2. CASE \A s \in Slot : ~ (inode[s].num = n /\ Present(s))
  <2>1. \A s \in Slot : ~ (inode'[s].num = n /\ Present(s)')
    BY <1>2
  <2>2. QED BY <1>2, <2>1, CurrentOut, CurrentOutNext
<1>3. QED BY <1>1, <1>2

LEMMA FilesSame ==
  ASSUME \A n \in Ino \cup {0} : Current(n)'.addr = Current(n).addr
  PROVE  Files' = Files
BY DEF Files

LEMMA FilesKept ==
  ASSUME FilesInv, FilesInv', NEW p \in Proc, Elsewhere(p),
         pc[p] # "iread", pc'[p] # "iread", dinode' = dinode,
         \A s \in Slot : inode'[s].num = inode[s].num /\ inode'[s].i.addr = inode[s].i.addr
  PROVE  Files' = Files
<1>1. \A s \in Slot : Present(s)' <=> Present(s)
  BY DEF Present, Elsewhere
<1>2. Unique /\ Unique'
  BY DEF FilesInv, CountsOK, Unique
<1>3. ASSUME NEW n \in Ino \cup {0} PROVE Current(n)'.addr = Current(n).addr
  BY <1>1, <1>2, BlocksOfKept
<1>4. QED BY <1>3, FilesSame

(* Who has an inode in hand after a step.                                  *)
LEMMA InHandNext ==
  ASSUME TypeOK', LocksOK', NEW p \in Proc, pc'[p] \in Locking
  PROVE  u'[p].ip \in Slot /\ inode'[u'[p].ip].lock = p
BY DEF TypeOK, LocksOK, Ip, Frame

(* A step that moves no block.                                             *)
LEMMA BlocksKept ==
  ASSUME BlocksInv, FilesInv', NEW p \in Proc, Elsewhere(p), UNCHANGED <<s_free, link, dinode>>,
         pc[p] \notin HandPlaces, pc'[p] \notin HandPlaces,
         pc[p] # "iread", pc'[p] # "iread",
         \A s \in Slot :
           /\ inode'[s].num = inode[s].num /\ inode'[s].i.addr = inode[s].i.addr
           /\ inode[s].i.mode => inode'[s].i.mode \/ inode[s].i.addr = <<>>,
         pc'[p] = "ifree" => inode[u'[p].ip].i.addr = <<>>
  PROVE  BlocksInv'
<1>1. FilesInv /\ FreeEmpty /\ OneFirst
  BY DEF BlocksInv
<1>2. PICK F, G, H \in SUBSET Blk : Parted(F, G, H)
  BY DEF BlocksInv
<1>3. FirstArray' = FirstArray /\ OneFirst'
  <2>1. /\ pc[p] \notin {"freed", "allocread"} /\ pc'[p] \notin {"freed", "allocread"}
        /\ s_free' = s_free
    BY DEF HandPlaces
  <2>2. QED BY <1>1, <2>1, FirstKept
<1>4. Files' = Files
  BY <1>1, FilesKept
<1>5. HandsOK(H)'
  BY <1>2, HandsKept DEF Parted, Held
<1>6. FreeEmpty'
  <2>1. ASSUME NEW q \in Proc, pc'[q] = "ifree" PROVE inode'[u'[q].ip].i.addr = <<>>
    <3>1. inode[u'[q].ip].i.addr = <<>>
      BY <1>1, <2>1 DEF FreeEmpty, Elsewhere, Ip
    <3>2. u'[q].ip \in Slot
      BY <2>1, InHandNext DEF FilesInv, CountsOK, Locking
    <3>3. QED BY <3>1, <3>2
  <2>2. QED BY <1>1, <2>1 DEF FreeEmpty, Ip
<1>7. Parted(F, G, H)'
  BY <1>2, <1>3, <1>4, <1>5 DEF Parted
<1>8. QED BY <1>3, <1>6, <1>7 DEF BlocksInv

(* Where a process goes, whatever the place.                               *)
LEMMA Goes ==
  ASSUME TypeOK, NEW p \in Proc, NEW l, Goto(p, l)
  PROVE  pc'[p] = l /\ \A q \in Proc \ {p} : pc'[q] = pc[q]
BY DEF Goto, TypeOK

LEMMA GoesOnce ==
  ASSUME TypeOK, NEW p \in Proc, NEW l, NEW m, Goto(p, l), Goto(p, m)
  PROVE  l = m
BY Goes

LEMMA Returns ==
  ASSUME TypeOK, NEW p \in Proc, Return(p)
  PROVE  pc'[p] = "idle" /\ \A q \in Proc \ {p} : pc'[q] = pc[q] /\ u'[q] = u[q]
BY Goes DEF Return, TypeOK

(* Steps that leave the table alone, and move no block.                    *)
LEMMA BlocksQuiet ==
  ASSUME BlocksInv, FilesInv', NEW p \in Proc, Elsewhere(p),
         UNCHANGED <<s_free, link, dinode, inode>>,
         pc[p] \notin HandPlaces, pc'[p] \notin HandPlaces,
         pc[p] # "iread", pc'[p] # "iread",
         pc'[p] = "ifree" => inode[u'[p].ip].i.addr = <<>>
  PROVE  BlocksInv'
BY BlocksKept

LEMMA StartNameBlocks ==
  ASSUME BlocksInv, FilesInv', NEW p \in Proc, StartName(p)
  PROVE  BlocksInv'
<1>1. TypeOK /\ UNCHANGED <<s_free, link, dinode, inode, fd>>
  BY Parts DEF StartName, BlocksInv, super
<1>2. PICK c, f : /\ pc[p] = "idle"
                  /\ u' = [u EXCEPT ![p] = [NoFrame EXCEPT !.call = c, !.name = f]]
                  /\ Goto(p, "namei") \/ Goto(p, "dlock")
  BY DEF StartName, Enter, At
<1>3. Elsewhere(p) /\ pc'[p] \in {"namei", "dlock"}
  BY <1>1, <1>2, Goes DEF Elsewhere, TypeOK
<1>4. QED BY <1>1, <1>2, <1>3, BlocksQuiet DEF HandPlaces

LEMMA NameiBlocks ==
  ASSUME BlocksInv, FilesInv', NEW p \in Proc,
         NameiLock(p) \/ NameiFound(p) \/ NameiMissing(p) \/ IgetFull(p)
  PROVE  BlocksInv'
<1>1. TypeOK /\ UNCHANGED <<s_free, link, dinode, inode, fd>>
  BY Parts DEF NameiLock, NameiFound, NameiMissing, IgetFull, BlocksInv, super
<1>2. /\ pc[p] \in {"dlock", "namei", "iget"}
      /\ Elsewhere(p) /\ pc'[p] \in {"namei", "iget", "ialloc", "idle"}
  <2>1. CASE NameiLock(p)
    BY <1>1, <2>1, Goes DEF Elsewhere, TypeOK, NameiLock, At
  <2>2. CASE NameiFound(p)
    BY <1>1, <2>2, Goes DEF Elsewhere, TypeOK, NameiFound, At
  <2>3. CASE NameiMissing(p)
    <3>1. (Goto(p, "ialloc") /\ u' = u) \/ Return(p)
      BY <2>3 DEF NameiMissing
    <3>2. QED BY <1>1, <2>3, <3>1, Goes, Returns DEF Elsewhere, NameiMissing, At
  <2>4. CASE IgetFull(p)
    BY <1>1, <2>4, Returns DEF Elsewhere, IgetFull, At
  <2>5. QED BY <2>1, <2>2, <2>3, <2>4
<1>3. QED BY <1>1, <1>2, BlocksQuiet DEF HandPlaces

LEMMA PlacesBlocks ==
  ASSUME BlocksInv, FilesInv', NEW p \in Proc,
         Open1Refused(p) \/ Open1Trunc(p) \/ IputLast(p) \/ BmapAlloc(p)
  PROVE  BlocksInv'
<1>1. TypeOK /\ UNCHANGED <<s_free, link, dinode, inode, fd>>
  BY Parts DEF Open1Refused, Open1Trunc, IputLast, BmapAlloc, BlocksInv, super
<1>2. /\ pc[p] \in {"open1", "iput", "bmap"}
      /\ Elsewhere(p) /\ pc'[p] \in {"iput", "itrunc", "ifree", "iupdat", "alloc"}
      /\ pc'[p] = "ifree" => inode[u'[p].ip].i.addr = <<>>
  <2>1. CASE Open1Refused(p)
    BY <1>1, <2>1, Goes DEF Elsewhere, TypeOK, Open1Refused, At
  <2>2. CASE Open1Trunc(p)
    BY <1>1, <2>2, Goes DEF Elsewhere, TypeOK, Open1Trunc, At
  <2>3. CASE IputLast(p)
    <3>1. PICK l \in {"itrunc", "ifree", "iupdat"} : Goto(p, l)
      BY <2>3 DEF IputLast
    <3>2. pc[p] = "iput" /\ u' = u
      BY <2>3 DEF IputLast, At
    <3>3. l = "ifree" => inode[u'[p].ip].i.addr = <<>>
      <4>1. u[p].ip \in Slot
        BY <3>2, Parts DEF Locking, BlocksInv
      <4>2. l = "ifree" => ~ Ip(p).i.mode \/ Ip(p).i.addr = <<>>
        <5>1. l = IF Ip(p).i.nlink > 0 THEN "iupdat"
                  ELSE IF Ip(p).i.mode /\ Ip(p).i.addr # <<>> THEN "itrunc" ELSE "ifree"
          BY <1>1, <2>3, <3>1, GoesOnce DEF IputLast
        <5>2. QED BY <5>1
      <4>3. QED BY <3>2, <4>1, <4>2 DEF BlocksInv, FreeEmpty, Ip
    <3>4. QED BY <1>1, <3>1, <3>2, <3>3, Goes DEF Elsewhere
  <2>4. CASE BmapAlloc(p)
    BY <1>1, <2>4, Goes DEF Elsewhere, TypeOK, BmapAlloc, At
  <2>5. QED BY <2>1, <2>2, <2>3, <2>4
<1>3. QED BY <1>1, <1>2, BlocksQuiet DEF HandPlaces

LEMMA IallocBlocks ==
  ASSUME BlocksInv, FilesInv', NEW p \in Proc,
         IallocPop(p) \/ IallocScan(p) \/ Iascan(p) \/ IallocTaken(p)
  PROVE  BlocksInv'
<1>1. TypeOK /\ UNCHANGED <<s_free, link, dinode, inode, fd>>
  BY Parts DEF IallocPop, IallocScan, Iascan, IallocTaken, BlocksInv, super
<1>2. /\ pc[p] \in {"ialloc", "ialloop", "iascan", "iagot"}
      /\ Elsewhere(p) /\ pc'[p] \in {"iget", "iascan", "ialloop", "iput", "idle"}
  <2>1. CASE IallocPop(p)
    BY <1>1, <2>1, Goes DEF Elsewhere, TypeOK, IallocPop, Iloop, At
  <2>2. CASE IallocScan(p)
    BY <1>1, <2>2, Goes DEF Elsewhere, TypeOK, IallocScan, Iloop, At
  <2>3. CASE Iascan(p)
    <3>1. \/ Return(p)
          \/ \E l \in {"iascan", "ialloop"} : \E v :
               Goto(p, l) /\ u' = [u EXCEPT ![p].at = v]
      BY <2>3 DEF Iascan
    <3>2. pc[p] = "iascan"
      BY <2>3 DEF Iascan, At
    <3>3. CASE Return(p)
      BY <1>1, <3>2, <3>3, Returns DEF Elsewhere
    <3>4. CASE \E l \in {"iascan", "ialloop"} : \E v : Goto(p, l) /\ u' = [u EXCEPT ![p].at = v]
      BY <1>1, <3>2, <3>4, Goes DEF Elsewhere, TypeOK
    <3>5. QED BY <3>1, <3>3, <3>4
  <2>4. CASE IallocTaken(p)
    BY <1>1, <2>4, Goes DEF Elsewhere, TypeOK, IallocTaken, At
  <2>5. QED BY <2>1, <2>2, <2>3, <2>4
<1>3. QED BY <1>1, <1>2, BlocksQuiet DEF HandPlaces

(* Steps that edit an entry of the table, but not where its blocks are.    *)
LEMMA BlocksEdit ==
  ASSUME BlocksInv, FilesInv', NEW p \in Proc, Elsewhere(p),
         UNCHANGED <<s_free, link, dinode>>,
         pc[p] \notin HandPlaces, pc'[p] \notin HandPlaces,
         pc[p] # "iread", pc'[p] # "iread",
         NEW s \in Slot, NEW e, inode' = [inode EXCEPT ![s] = e],
         e.num = inode[s].num, e.i.addr = inode[s].i.addr,
         inode[s].i.mode => e.i.mode \/ inode[s].i.addr = <<>>,
         pc'[p] = "ifree" => inode[u'[p].ip].i.addr = <<>>
  PROVE  BlocksInv'
<1>1. TypeOK
  BY Parts DEF BlocksInv
<1>2. inode'[s] = e /\ \A t \in Slot \ {s} : inode'[t] = inode[t]
  BY <1>1 DEF TypeOK
<1>3. QED BY <1>2, BlocksKept

LEMMA LockBlocks ==
  ASSUME BlocksInv, FilesInv', NEW p \in Proc, NEW c, NEW s \in Slot, NEW l, Lock(p, c, s, l),
         UNCHANGED <<super, dinode>>, \A q \in Proc \ {p} : fd'[q] = fd[q],
         pc[p] \notin HandPlaces \cup {"iread"}, l \in {"bmap", "iput"}
  PROVE  BlocksInv'
<1>1. TypeOK /\ UNCHANGED <<s_free, link, dinode>>
  BY Parts DEF BlocksInv, super
<1>2. PICK v : u' = [u EXCEPT ![p] = v]
  BY DEF Lock
<1>3. Goto(p, l) \/ Goto(p, "plock")
  BY DEF Lock
<1>4. Elsewhere(p) /\ pc'[p] \in {"bmap", "iput", "plock"}
  BY <1>1, <1>2, <1>3, Goes DEF Elsewhere, TypeOK
<1>5. inode[s] \in Entry
  BY <1>1 DEF TypeOK
<1>6. CASE inode' = inode
  BY <1>1, <1>4, <1>6, BlocksQuiet DEF HandPlaces
<1>7. CASE inode' = [inode EXCEPT ![s].lock = p]
  <2>1. PICK e : e = [inode[s] EXCEPT !.lock = p] /\ inode' = [inode EXCEPT ![s] = e]
    BY <1>7
  <2>2. e.num = inode[s].num /\ e.i = inode[s].i
    BY <1>5, <2>1 DEF Entry
  <2>3. QED BY <1>1, <1>4, <2>1, <2>2, BlocksEdit DEF HandPlaces
<1>8. QED BY <1>6, <1>7 DEF Lock

LEMMA LocksBlocks ==
  ASSUME BlocksInv, FilesInv', NEW p \in Proc, StartWrite(p) \/ StartClose(p) \/ Plock(p)
  PROVE  BlocksInv'
<1>1. /\ TypeOK /\ PlaceOK(p) /\ u[p] \in Frame /\ UNCHANGED <<super, dinode>>
  BY Parts DEF BlocksInv, StartWrite, StartClose, Plock
<1>2. CASE StartWrite(p) \/ StartClose(p)
  <2>1. /\ pc[p] = "idle" /\ fd[p] # None /\ \A q \in Proc \ {p} : fd'[q] = fd[q]
        /\ Lock(p, "write", fd[p], "bmap") \/ Lock(p, "close", fd[p], "iput")
    BY <1>1, <1>2 DEF StartWrite, StartClose, Enter, At, TypeOK
  <2>2. fd[p] \in Slot
    BY <1>1, <2>1 DEF TypeOK
  <2>3. QED BY <1>1, <2>1, <2>2, LockBlocks DEF HandPlaces
<1>3. CASE Plock(p)
  <2>1. pc[p] = "plock" /\ fd' = fd /\ Lock(p, u[p].call, u[p].ip, u[p].then)
    BY <1>3 DEF Plock, At
  <2>2. u[p].ip \in Slot /\ u[p].then \in {"bmap", "iput"}
    BY <1>1, <2>1 DEF PlaceOK, Frame
  <2>3. QED BY <1>1, <2>1, <2>2, LockBlocks DEF HandPlaces
<1>4. QED BY <1>2, <1>3

LEMMA TakeBlocks ==
  ASSUME BlocksInv, FilesInv', NEW p \in Proc, StartSync(p) \/ IgetFound(p)
  PROVE  BlocksInv'
<1>1. /\ TypeOK /\ PlaceOK(p) /\ UNCHANGED <<s_free, link, dinode, fd>>
      /\ pc[p] \in {"idle", "iget"}
  BY Parts DEF BlocksInv, StartSync, IgetFound, super, Enter, At
<1>2. PICK s, v, e :
        /\ s \in Slot
        /\ u' = [u EXCEPT ![p] = v]
        /\ e = [inode[s] EXCEPT !.lock = p, !.count = @ + 1]
        /\ inode' = [inode EXCEPT ![s] = e]
  <2>1. PICK s, v :
        /\ s \in Slot
        /\ u' = [u EXCEPT ![p] = v]
        /\ inode' = [inode EXCEPT ![s].lock = p, ![s].count = @ + 1]
    <3>1. CASE StartSync(p)
      BY <3>1 DEF StartSync
    <3>2. CASE IgetFound(p)
      BY <3>2 DEF IgetFound
    <3>3. QED BY <3>1, <3>2
  <2>2. inode' = [inode EXCEPT ![s] = [inode[s] EXCEPT !.lock = p, !.count = @ + 1]]
    BY <1>1, <2>1 DEF TypeOK, Entry
  <2>3. QED BY <2>1, <2>2
<1>3. e.num = inode[s].num /\ e.i = inode[s].i
  <2>1. inode[s] \in Entry
    BY <1>1, <1>2 DEF TypeOK
  <2>2. QED BY <1>2, <2>1 DEF Entry
<1>4. PICK l \in {"iupdat", "open1", "unlink", "iagot"} : Goto(p, l)
  <2>1. CASE StartSync(p)
    BY <2>1 DEF StartSync
  <2>2. CASE IgetFound(p)
    BY <1>1, <2>2 DEF IgetFound, At, PlaceOK
  <2>3. QED BY <2>1, <2>2
<1>5. Elsewhere(p) /\ pc'[p] = l
  BY <1>1, <1>2, <1>4, Goes DEF Elsewhere, TypeOK
<1>6. QED BY <1>1, <1>2, <1>3, <1>5, BlocksEdit DEF HandPlaces

(* Open, write without a new block, and the new file of creat.             *)
LEMMA PreleBlocks ==
  ASSUME BlocksInv, FilesInv', NEW p \in Proc,
         Open1(p) \/ BmapHave(p) \/ Wdir(p)
  PROVE  BlocksInv'
<1>1. /\ TypeOK /\ u[p].ip \in Slot /\ UNCHANGED <<s_free, link, dinode>>
      /\ pc[p] \in {"open1", "bmap", "wdir"} /\ Return(p)
      /\ \A q \in Proc \ {p} : fd'[q] = fd[q]
  <2>1. TypeOK /\ UNCHANGED <<s_free, link, dinode>> /\ Return(p)
        /\ pc[p] \in {"open1", "bmap", "wdir"}
    BY Parts DEF BlocksInv, Open1, BmapHave, Wdir, super, At
  <2>2. fd' = fd \/ \E x : fd' = [fd EXCEPT ![p] = x]
    BY DEF Open1, BmapHave, Wdir
  <2>3. u[p].ip \in Slot
    BY <2>1, Parts DEF Locking, Writing, BlocksInv
  <2>4. QED BY <2>1, <2>2, <2>3 DEF TypeOK
<1>2. Elsewhere(p) /\ pc'[p] = "idle"
  BY <1>1, Returns DEF Elsewhere
<1>3. PICK s \in Slot : s = u[p].ip /\ inode[s] \in Entry
  BY <1>1 DEF TypeOK
<1>4. PICK e : /\ inode' = [inode EXCEPT ![s] = e]
               /\ e.num = inode[s].num /\ e.i = inode[s].i
  <2>1. CASE Open1(p)
    <3> DEFINE m == u[p].call = "creat" /\ Ip(p).i.mode
    <3>1. PICK e \in Entry : e = [inode[s] EXCEPT !.lock = None, !.upd = @ \/ m]
      BY <1>3 DEF Entry
    <3>2. e.num = inode[s].num /\ e.i = inode[s].i
      BY <1>3, <3>1 DEF Entry
    <3>3. inode' = [inode EXCEPT ![s] = e]
      BY <1>1, <1>3, <2>1, <3>1 DEF Open1, TypeOK, Entry
    <3>4. QED BY <3>2, <3>3
  <2>2. CASE BmapHave(p)
    <3>1. PICK e \in Entry : e = [inode[s] EXCEPT !.lock = None, !.upd = TRUE]
      BY <1>3 DEF Entry
    <3>2. e.num = inode[s].num /\ e.i = inode[s].i
      BY <1>3, <3>1 DEF Entry
    <3>3. inode' = [inode EXCEPT ![s] = e]
      BY <1>1, <1>3, <2>2, <3>1 DEF BmapHave, TypeOK, Entry
    <3>4. QED BY <3>2, <3>3
  <2>3. CASE Wdir(p)
    <3>1. PICK e \in Entry : e = [inode[s] EXCEPT !.lock = None]
      BY <1>3 DEF Entry
    <3>2. e.num = inode[s].num /\ e.i = inode[s].i
      BY <1>3, <3>1 DEF Entry
    <3>3. inode' = [inode EXCEPT ![s] = e]
      BY <1>1, <1>3, <2>3, <3>1 DEF Wdir, TypeOK, Entry
    <3>4. QED BY <3>2, <3>3
  <2>4. QED BY <2>1, <2>2, <2>3
<1>5. QED BY <1>1, <1>2, <1>4, BlocksEdit DEF HandPlaces

(* iput of an inode that others have too.                                  *)
LEMMA Leaves ==
  ASSUME TypeOK, NEW p \in Proc, Leave(p), fd' = fd
  PROVE  Elsewhere(p) /\ pc'[p] \in {"idle", u[p].then}
<1>1. CASE u[p].then = "idle"
  BY <1>1, Returns DEF Elsewhere, Leave
<1>2. CASE u[p].then # "idle"
  BY <1>2, Goes DEF Elsewhere, Leave
<1>3. QED BY <1>1, <1>2

LEMMA IputSharedBlocks ==
  ASSUME BlocksInv, FilesInv', NEW p \in Proc, IputShared(p)
  PROVE  BlocksInv'
<1>1. /\ TypeOK /\ PlaceOK(p) /\ pc[p] = "iput" /\ fd' = fd
      /\ UNCHANGED <<s_free, link, dinode>> /\ Leave(p)
      /\ inode' = [inode EXCEPT ![u[p].ip].count = @ - 1, ![u[p].ip].lock = None]
  BY Parts DEF BlocksInv, IputShared, super, At
<1>2. PICK s \in Slot : s = u[p].ip /\ inode[s] \in Entry
  BY <1>1, Parts DEF Locking, BlocksInv, TypeOK
<1>3. PICK e : /\ inode' = [inode EXCEPT ![s] = e]
               /\ e.num = inode[s].num /\ e.i = inode[s].i
  <2>1. PICK e : e = [inode[s] EXCEPT !.count = @ - 1, !.lock = None]
    OBVIOUS
  <2>2. e.num = inode[s].num /\ e.i = inode[s].i
    BY <1>2, <2>1 DEF Entry
  <2>3. inode' = [inode EXCEPT ![s] = e]
    BY <1>1, <1>2, <2>1 DEF TypeOK, Entry
  <2>4. QED BY <2>2, <2>3
<1>4. Elsewhere(p) /\ pc'[p] \in {"idle", "ialloop"}
  BY <1>1, Leaves DEF PlaceOK
<1>5. QED BY <1>1, <1>3, <1>4, BlocksEdit DEF HandPlaces

(* ifree, the new inode of creat, and unlink: the blocks stay.             *)
LEMMA InodeBlocks ==
  ASSUME BlocksInv, FilesInv', NEW p \in Proc, Ifree(p) \/ IallocGot(p) \/ Unlink(p)
  PROVE  BlocksInv'
<1>1. /\ TypeOK /\ PlaceOK(p) /\ fd' = fd /\ UNCHANGED <<s_free, link, dinode>>
      /\ FreeEmpty
  BY Parts DEF BlocksInv, Ifree, IallocGot, Unlink, super
<1>2. Elsewhere(p) /\ pc[p] \in {"ifree", "iagot", "unlink"} /\ pc'[p] \in {"iupdat", "wdir", "iput"}
  <2>1. PICK l \in {"iupdat", "wdir", "iput"} : Goto(p, l)
    BY DEF Ifree, IallocGot, Unlink
  <2>2. u' = u \/ \E v : u' = [u EXCEPT ![p] = v]
    BY DEF Ifree, IallocGot, Unlink
  <2>3. pc[p] \in {"ifree", "iagot", "unlink"}
    BY DEF Ifree, IallocGot, Unlink, At
  <2>4. QED BY <1>1, <2>1, <2>2, <2>3, Goes DEF Elsewhere, TypeOK
<1>3. PICK s \in Slot : s = u[p].ip /\ inode[s] \in Entry
  BY <1>1, <1>2, Parts DEF Locking, BlocksInv, TypeOK
<1>4. inode[s].i \in Inode
  BY <1>3 DEF Entry
<1>5. PICK e, i : /\ e = [inode[s] EXCEPT !.i = i, !.upd = TRUE]
                  /\ inode' = [inode EXCEPT ![s] = e]
                  /\ i.addr = inode[s].i.addr
                  /\ inode[s].i.mode => i.mode \/ inode[s].i.addr = <<>>
  <2>1. CASE Ifree(p)
    <3>1. PICK i : i = [inode[s].i EXCEPT !.mode = FALSE]
      OBVIOUS
    <3>2. inode' = [inode EXCEPT ![s] = [inode[s] EXCEPT !.i = i, !.upd = TRUE]]
      BY <1>1, <1>3, <1>4, <2>1, <3>1 DEF Ifree, TypeOK, Entry, Inode
    <3>3. i.addr = inode[s].i.addr
      BY <1>4, <3>1 DEF Inode
    <3>4. inode[s].i.addr = <<>>
      BY <1>1, <1>3, <2>1 DEF Ifree, At, FreeEmpty, Ip
    <3>5. QED BY <3>2, <3>3, <3>4
  <2>2. CASE IallocGot(p)
    <3>1. inode' = [inode EXCEPT ![s] = [inode[s] EXCEPT !.i = NewFile, !.upd = TRUE]]
      BY <1>1, <1>3, <2>2 DEF IallocGot, TypeOK, Entry
    <3>2. inode[s].i.addr = <<>>
      BY <1>1, <1>3, <2>2 DEF IallocGot, FreeEmpty, Ip
    <3>3. NewFile.addr = inode[s].i.addr /\ NewFile.mode
      BY <3>2 DEF NewFile
    <3> HIDE DEF NewFile
    <3>4. QED BY <3>1, <3>3
  <2>3. CASE Unlink(p)
    <3>1. PICK i : i = [inode[s].i EXCEPT !.nlink = @ - 1]
      OBVIOUS
    <3>2. inode' = [inode EXCEPT ![s] = [inode[s] EXCEPT !.i = i, !.upd = TRUE]]
      BY <1>1, <1>3, <1>4, <2>3, <3>1 DEF Unlink, TypeOK, Entry, Inode
    <3>3. i.addr = inode[s].i.addr /\ i.mode = inode[s].i.mode
      BY <1>4, <3>1 DEF Inode
    <3>4. QED BY <3>2, <3>3
  <2>4. QED BY <2>1, <2>2, <2>3
<1>6. e.num = inode[s].num /\ e.i = i
  BY <1>3, <1>5 DEF Entry
<1>7. QED BY <1>1, <1>2, <1>5, <1>6, BlocksEdit DEF HandPlaces

(* Steps that take an inode into the table or write it back: its blocks    *)
(* are the same in another place.                                          *)
LEMMA BlocksMoved ==
  ASSUME BlocksInv, FilesInv', NEW p \in Proc, Elsewhere(p), UNCHANGED <<s_free, link>>,
         pc[p] \notin HandPlaces, pc'[p] \notin HandPlaces,
         \A n \in Ino \cup {0} : Current(n)'.addr = Current(n).addr,
         FreeEmpty'
  PROVE  BlocksInv'
<1>1. FilesInv /\ OneFirst
  BY DEF BlocksInv
<1>2. PICK F, G, H \in SUBSET Blk : Parted(F, G, H)
  BY DEF BlocksInv
<1>3. FirstArray' = FirstArray /\ OneFirst'
  <2>1. /\ pc[p] \notin {"freed", "allocread"} /\ pc'[p] \notin {"freed", "allocread"}
        /\ s_free' = s_free
    BY DEF HandPlaces
  <2>2. QED BY <1>1, <2>1, FirstKept
<1>4. Files' = Files
  BY FilesSame
<1>5. HandsOK(H)'
  BY <1>2, HandsKept DEF Parted, Held
<1>6. Parted(F, G, H)'
  BY <1>2, <1>3, <1>4, <1>5 DEF Parted
<1>7. QED BY <1>3, <1>6 DEF BlocksInv

LEMMA ReleaseBlocks ==
  ASSUME BlocksInv, FilesInv', NEW p \in Proc, pc[p] \in {"iput", "iupdat"}, NEW s \in Slot,
         u[p].ip = s, inode[s].count = 1, u[p].then \in {"idle", "ialloop"},
         inode' = [inode EXCEPT ![s] = NoEntry],
         dinode' = [dinode EXCEPT ![inode[s].num] = inode[s].i],
         Leave(p), UNCHANGED <<super, fd>>
  PROVE  BlocksInv'
<1>1. /\ FilesInv /\ FreeEmpty /\ TypeOK /\ inode[s].lock = p /\ inode[s].num \in Ino
      /\ inode[s].num # None /\ Present(s) /\ UNCHANGED <<s_free, link>>
  <2>1. FilesInv /\ FreeEmpty /\ TypeOK /\ inode[s].lock = p
    BY Parts DEF Locking, BlocksInv
  <2>2. inode[s] \in Entry /\ inode[s].num # None
    BY <2>1, NumCount DEF TypeOK
  <2>3. Present(s)
    BY <2>1, MineHere
  <2>4. QED BY <2>1, <2>2, <2>3 DEF Entry, super
<1>2. Elsewhere(p) /\ pc'[p] \in {"idle", "ialloop"}
  BY <1>1, Leaves
<1>3. /\ inode'[s] = NoEntry /\ \A t \in Slot \ {s} : inode'[t] = inode[t]
      /\ dinode'[inode[s].num] = inode[s].i
      /\ \A n \in Ino \cup {0} : n # inode[s].num => dinode'[n] = dinode[n]
  BY <1>1 DEF TypeOK
<1>4. inode'[s].num = None /\ inode'[s].i.addr = <<>>
  BY <1>3 DEF NoEntry, Free0
<1>5. \A t \in Slot : Present(t)' <=> Present(t)
  BY <1>2, PresentKept
<1>6. Unique /\ Unique'
  BY <1>1 DEF FilesInv, CountsOK, Unique
<1>7. ASSUME NEW n \in Ino \cup {0} PROVE Current(n)'.addr = Current(n).addr
  <2>0. n # None
    BY NoneFacts, FileSystemAssumption
  <2>1. CASE n = inode[s].num
    <3>1. Current(n) = inode[s].i
      BY <1>1, <1>6, <2>1, CurrentIn
    <3>2. \A t \in Slot : inode'[t].num # n
      BY <1>1, <1>3, <1>4, <1>6, <2>1 DEF Unique
    <3>3. Current(n)' = dinode'[n]
      BY <3>2, CurrentOutNext
    <3>4. QED BY <1>3, <2>1, <3>1, <3>3
  <2>2. CASE n # inode[s].num
    <3>1. ASSUME NEW t \in Slot, inode[t].num = n \/ inode'[t].num = n
          PROVE  inode'[t] = inode[t]
      BY <1>3, <1>4, <2>0, <2>2, <3>1
    <3>2. QED BY <1>3, <1>5, <1>6, <2>2, <3>1, BlocksOfKept
  <2>3. QED BY <2>1, <2>2
<1>8. FreeEmpty'
  <2>1. ASSUME NEW t \in Slot PROVE inode'[t].i.mode \/ inode'[t].i.addr = <<>>
    BY <1>1, <1>3, <1>4 DEF FreeEmpty
  <2>2. ASSUME NEW n \in Ino PROVE dinode'[n].mode \/ dinode'[n].addr = <<>>
    BY <1>1, <1>3 DEF FreeEmpty
  <2>3. ASSUME NEW q \in Proc, pc'[q] = "ifree" PROVE inode'[u'[q].ip].i.addr = <<>>
    <3>1. q # p /\ pc[q] = "ifree" /\ u'[q] = u[q]
      BY <1>2, <2>3 DEF Elsewhere
    <3>2. u[q].ip \in Slot /\ inode[u[q].ip].lock = q
      BY <1>1, <3>1, Parts DEF Locking
    <3>3. inode[u[q].ip].i.addr = <<>> /\ u[q].ip # s
      BY <1>1, <3>1, <3>2 DEF FreeEmpty, Ip
    <3>4. QED BY <1>3, <3>1, <3>2, <3>3
  <2>4. QED BY <2>1, <2>2, <2>3 DEF FreeEmpty, Ip
<1>9. QED BY <1>1, <1>2, <1>7, <1>8, BlocksMoved DEF HandPlaces

LEMMA IputCleanBlocks ==
  ASSUME BlocksInv, FilesInv', NEW p \in Proc, IputClean(p)
  PROVE  BlocksInv'
<1>1. /\ FilesInv /\ TypeOK /\ PlaceOK(p) /\ u[p] \in Frame /\ pc[p] = "iput"
      /\ Ip(p).count = 1 /\ UNCHANGED <<super, dinode, fd>> /\ Leave(p) /\ ~ Ip(p).upd
      /\ inode' = [inode EXCEPT ![u[p].ip] = NoEntry]
  BY Parts DEF IputClean, Release, At, BlocksInv
<1>2. PICK s \in Slot : s = u[p].ip /\ inode[s].lock = p
  BY <1>1, Parts DEF Locking
<1>3. inode[s].count = 1 /\ ~ inode[s].upd /\ inode[s].num # None
  BY <1>1, <1>2, NumCount DEF Ip
<1>4. inode[s].i = dinode[inode[s].num]
  BY <1>1, <1>2, <1>3, MineHere DEF FilesInv, CleanOK
<1>5. dinode' = [dinode EXCEPT ![inode[s].num] = inode[s].i]
  BY <1>1, <1>4 DEF TypeOK
<1>6. u[p].then \in {"idle", "ialloop"}
  BY <1>1 DEF PlaceOK
<1>7. QED BY <1>1, <1>2, <1>3, <1>5, <1>6, ReleaseBlocks

LEMMA IupdatBlocks ==
  ASSUME BlocksInv, FilesInv', NEW p \in Proc, Iupdat(p)
  PROVE  BlocksInv'
<1>1. /\ FilesInv /\ FreeEmpty /\ TypeOK /\ PlaceOK(p) /\ pc[p] = "iupdat"
      /\ UNCHANGED <<super, fd>> /\ UNCHANGED <<s_free, link>>
      /\ dinode' = [dinode EXCEPT ![Ip(p).num] = Ip(p).i]
  BY Parts DEF Iupdat, At, BlocksInv, super
<1>2. PICK s \in Slot : s = u[p].ip /\ inode[s].lock = p
  BY <1>1, Parts DEF Locking
<1>3. dinode' = [dinode EXCEPT ![inode[s].num] = inode[s].i]
  BY <1>1, <1>2 DEF Ip
<1>4. CASE u[p].then # "iput"
  <2>1. Leave(p) /\ inode' = [inode EXCEPT ![s] = NoEntry]
    BY <1>2, <1>4 DEF Iupdat, Release
  <2>2. u[p].then \in {"idle", "ialloop"} /\ inode[s].count = 1
    BY <1>1, <1>2, <1>4 DEF PlaceOK, Ip
  <2>3. QED BY <1>1, <1>2, <1>3, <2>1, <2>2, ReleaseBlocks
<1>5. CASE u[p].then = "iput"
  <2>1. /\ inode' = [inode EXCEPT ![s].upd = FALSE]
        /\ u' = [u EXCEPT ![p].then = "idle"] /\ Goto(p, "iput")
    BY <1>2, <1>5 DEF Iupdat
  <2>2. Elsewhere(p) /\ pc'[p] = "iput"
    BY <1>1, <2>1, Goes DEF Elsewhere, TypeOK
  <2>3. Ref(p, s) /\ inode[s].num # None /\ Present(s)
    <3>1. Ref(p, s)
      BY <1>1, <1>2 DEF Ref, HasRef
    <3>2. inode[s].count # 0
      BY <1>1, <3>1, NoRefs
    <3>3. QED BY <1>1, <1>2, <3>1, <3>2, NumCount, MineHere
  <2>4. inode[s] \in Entry /\ inode[s].num \in Ino
    BY <1>1, <2>3 DEF TypeOK, Entry
  <2>5. /\ \A t \in Slot : inode'[t].num = inode[t].num /\ inode'[t].i = inode[t].i
    BY <1>1, <2>1, <2>4 DEF TypeOK, Entry
  <2>6. /\ dinode'[inode[s].num] = inode[s].i
        /\ \A n \in Ino \cup {0} : n # inode[s].num => dinode'[n] = dinode[n]
    BY <1>1, <1>3, <2>4 DEF TypeOK
  <2>7. \A t \in Slot : Present(t)' <=> Present(t)
    BY <1>1, <2>2, PresentKept
  <2>8. Unique /\ Unique'
    BY <1>1 DEF FilesInv, CountsOK, Unique
  <2>9. ASSUME NEW n \in Ino \cup {0} PROVE Current(n)'.addr = Current(n).addr
    <3>1. CASE n = inode[s].num
      <4>1. Current(n) = inode[s].i
        BY <2>3, <2>8, <3>1, CurrentIn
      <4>2. Current(n)' = inode'[s].i
        BY <2>3, <2>5, <2>7, <2>8, <3>1, CurrentInNext
      <4>3. QED BY <2>5, <4>1, <4>2
    <3>2. CASE n # inode[s].num
      BY <2>5, <2>6, <2>7, <2>8, <3>2, BlocksOfKept
    <3>3. QED BY <3>1, <3>2
  <2>10. FreeEmpty'
    <3>1. \A t \in Slot : inode'[t].i.mode \/ inode'[t].i.addr = <<>>
      BY <1>1, <2>5 DEF FreeEmpty
    <3>2. \A n \in Ino : dinode'[n].mode \/ dinode'[n].addr = <<>>
      BY <1>1, <2>6 DEF FreeEmpty
    <3>3. ASSUME NEW q \in Proc, pc'[q] = "ifree" PROVE inode'[u'[q].ip].i.addr = <<>>
      <4>1. q # p /\ pc[q] = "ifree" /\ u'[q] = u[q]
        BY <2>2, <3>3 DEF Elsewhere
      <4>2. u[q].ip \in Slot
        BY <1>1, <4>1, Parts DEF Locking
      <4>3. QED BY <1>1, <2>5, <4>1, <4>2 DEF FreeEmpty, Ip
    <3>4. QED BY <3>1, <3>2, <3>3 DEF FreeEmpty, Ip
  <2>11. QED BY <1>1, <2>2, <2>9, <2>10, BlocksMoved DEF HandPlaces
<1>6. QED BY <1>4, <1>5

LEMMA IgetNewBlocks ==
  ASSUME BlocksInv, FilesInv', NEW p \in Proc, IgetNew(p)
  PROVE  BlocksInv'
<1>1. /\ FilesInv /\ FreeEmpty /\ TypeOK /\ pc[p] = "iget"
      /\ UNCHANGED <<s_free, link, dinode, fd>> /\ Goto(p, "iread") /\ ~ InCore(u[p].ino)
  BY Parts DEF IgetNew, At, BlocksInv, super
<1>2. PICK s \in Slot :
        /\ inode[s].count = 0
        /\ inode' = [inode EXCEPT ![s].num = u[p].ino, ![s].lock = p,
                                  ![s].count = 1, ![s].upd = FALSE]
        /\ u' = [u EXCEPT ![p].ip = s]
  BY DEF IgetNew
<1>3. Elsewhere(p) /\ pc'[p] = "iread" /\ u'[p].ip = s
  <2>1. u'[p].ip = s
    BY <1>1, <1>2 DEF TypeOK, Frame
  <2>2. QED BY <1>1, <1>2, <2>1, Goes DEF Elsewhere, TypeOK
<1>4. inode[s].num = None /\ inode[s] \in Entry
  BY <1>1, <1>2, NumCount DEF TypeOK
<1>5. /\ \A t \in Slot \ {s} : inode'[t] = inode[t]
      /\ inode'[s].num = u[p].ino /\ inode'[s].i = inode[s].i
  BY <1>1, <1>2, <1>4 DEF TypeOK, Entry
<1>6. ~ Present(s)' /\ \A t \in Slot \ {s} : Present(t)' <=> Present(t)
  BY <1>1, <1>3 DEF Present, Elsewhere
<1>7. \A t \in Slot : inode[t].num # u[p].ino
  BY <1>1 DEF InCore
<1>8. Unique /\ Unique'
  BY <1>1 DEF FilesInv, CountsOK, Unique
<1>9. ASSUME NEW n \in Ino \cup {0} PROVE Current(n)'.addr = Current(n).addr
  <2>0. n # None
    BY NoneFacts, FileSystemAssumption
  <2>1. CASE n = u[p].ino
    <3>1. Current(n) = dinode[n]
      BY <1>7, <2>1, CurrentOut
    <3>2. \A t \in Slot : ~ (inode'[t].num = n /\ Present(t)')
      BY <1>5, <1>6, <1>7, <2>1
    <3>3. Current(n)' = dinode'[n]
      BY <3>2, CurrentOutNext
    <3>4. QED BY <1>1, <3>1, <3>3
  <2>2. CASE n # u[p].ino
    <3>1. ASSUME NEW t \in Slot, inode[t].num = n \/ inode'[t].num = n
          PROVE  inode'[t] = inode[t] /\ (Present(t)' <=> Present(t))
      BY <1>4, <1>5, <1>6, <2>0, <2>2, <3>1
    <3>2. QED BY <1>1, <1>8, <3>1, BlocksOfKept
  <2>3. QED BY <2>1, <2>2
<1>10. FreeEmpty'
  <2>1. \A t \in Slot : inode'[t].i = inode[t].i
    BY <1>5
  <2>2. ASSUME NEW q \in Proc, pc'[q] = "ifree" PROVE inode'[u'[q].ip].i.addr = <<>>
    <3>1. q # p /\ pc[q] = "ifree" /\ u'[q] = u[q]
      BY <1>3, <2>2 DEF Elsewhere
    <3>2. u[q].ip \in Slot
      BY <1>1, <3>1, Parts DEF Locking
    <3>3. QED BY <1>1, <2>1, <3>1, <3>2 DEF FreeEmpty, Ip
  <2>3. QED BY <1>1, <2>1, <2>2 DEF FreeEmpty, Ip
<1>11. QED BY <1>1, <1>3, <1>9, <1>10, BlocksMoved DEF HandPlaces

LEMMA IreadBlocks ==
  ASSUME BlocksInv, FilesInv', NEW p \in Proc, Iread(p)
  PROVE  BlocksInv'
<1>1. /\ FilesInv /\ FreeEmpty /\ TypeOK /\ PlaceOK(p) /\ u[p] \in Frame /\ pc[p] = "iread"
      /\ UNCHANGED <<s_free, link, dinode, fd, u>> /\ Goto(p, u[p].then)
      /\ inode' = [inode EXCEPT ![u[p].ip].num = u[p].ino,
                                ![u[p].ip].i = dinode[u[p].ino]]
  BY Parts DEF Iread, At, BlocksInv, super
<1>2. PICK s \in Slot : s = u[p].ip /\ inode[s].lock = p /\ inode[s] \in Entry
  BY <1>1, Parts DEF Locking, TypeOK
<1>3. PICK m \in Ino : m = u[p].ino /\ inode[s].num = m /\ m # None
  BY <1>1, <1>2, NoneFacts DEF PlaceOK, Frame, Ip
<1>4. /\ \A t \in Slot \ {s} : inode'[t] = inode[t]
      /\ inode'[s].num = m /\ inode'[s].i = dinode[m]
  BY <1>1, <1>2, <1>3 DEF TypeOK, Entry
<1>5. Elsewhere(p) /\ pc'[p] \in {"open1", "unlink", "iagot"}
  BY <1>1, Goes DEF Elsewhere, PlaceOK
<1>6. ASSUME NEW q \in Proc \ {p}, pc[q] = "iread" PROVE u[q].ip # s
  <2>1. inode[u[q].ip].lock = q
    BY <1>1, <1>6, Parts DEF Locking
  <2>2. QED BY <1>2, <2>1
<1>7. ~ Present(s) /\ Present(s)' /\ \A t \in Slot \ {s} : Present(t)' <=> Present(t)
  BY <1>1, <1>2, <1>5, <1>6 DEF Present, Elsewhere
<1>8. Unique /\ Unique'
  BY <1>1 DEF FilesInv, CountsOK, Unique
<1>9. ASSUME NEW n \in Ino \cup {0} PROVE Current(n)'.addr = Current(n).addr
  <2>1. CASE n = m
    <3>1. \A t \in Slot : ~ (inode[t].num = n /\ Present(t))
      BY <1>3, <1>7, <1>8, <2>1 DEF Unique
    <3>2. Current(n) = dinode[n]
      BY <3>1, CurrentOut
    <3>3. Current(n)' = inode'[s].i
      BY <1>3, <1>4, <1>7, <1>8, <2>1, CurrentInNext
    <3>4. QED BY <1>4, <2>1, <3>2, <3>3
  <2>2. CASE n # m
    <3>1. ASSUME NEW t \in Slot, inode[t].num = n \/ inode'[t].num = n
          PROVE  inode'[t] = inode[t] /\ (Present(t)' <=> Present(t))
      BY <1>3, <1>4, <1>7, <2>2, <3>1
    <3>2. QED BY <1>1, <1>8, <3>1, BlocksOfKept
  <2>3. QED BY <2>1, <2>2
<1>10. FreeEmpty'
  <2>1. ASSUME NEW t \in Slot PROVE inode'[t].i.mode \/ inode'[t].i.addr = <<>>
    <3>1. CASE t = s
      <4>1. dinode[m].mode \/ dinode[m].addr = <<>>
        BY <1>1 DEF FreeEmpty
      <4>2. QED BY <1>4, <3>1, <4>1
    <3>2. CASE t # s
      <4>1. inode[t].i.mode \/ inode[t].i.addr = <<>>
        BY <1>1 DEF FreeEmpty
      <4>2. QED BY <1>4, <3>2, <4>1
    <3>3. QED BY <3>1, <3>2
  <2>2. ASSUME NEW q \in Proc, pc'[q] = "ifree" PROVE inode'[u'[q].ip].i.addr = <<>>
    <3>1. q # p /\ pc[q] = "ifree" /\ u'[q] = u[q]
      BY <1>5, <2>2 DEF Elsewhere
    <3>2. u[q].ip \in Slot /\ inode[u[q].ip].lock = q
      BY <1>1, <3>1, Parts DEF Locking
    <3>3. u[q].ip # s
      BY <1>2, <3>1, <3>2
    <3>4. inode[u[q].ip].i.addr = <<>> /\ inode'[u[q].ip] = inode[u[q].ip]
      BY <1>1, <1>4, <3>1, <3>2, <3>3 DEF FreeEmpty, Ip
    <3>5. QED BY <3>1, <3>4
  <2>3. QED BY <1>1, <2>1, <2>2 DEF FreeEmpty, Ip
<1>11. QED BY <1>1, <1>5, <1>9, <1>10, BlocksMoved DEF HandPlaces

-----------------------------------------------------------------------------
(* A block leaves the end of one of the sequences, or joins it.            *)
LEMMA HasFront ==
  ASSUME NEW f, NEW G, Has(f, G), NEW n \in DOMAIN f, f[n] \in Seq(Blk), f[n] # <<>>,
         NEW g, DOMAIN g = DOMAIN f, g[n] = Front(f[n]),
         \A k \in DOMAIN f : k # n => g[k] = f[k]
  PROVE  Last(f[n]) \in G /\ Has(g, G \ {Last(f[n])})
<1>1. PICK m, b :
        /\ m \in Nat
        /\ b = Last(f[n]) /\ b = f[n][m + 1] /\ b # None
        /\ DOMAIN f[n] = 1 .. m + 1 /\ DOMAIN g[n] = 1 .. m
        /\ \A i \in 1 .. m : g[n][i] = f[n][i]
  <2>1. f[n] \in Cells /\ Len(f[n]) \in Nat /\ \A i \in DOMAIN f[n] : f[n][i] \in Blk
    BY DEF Cells
  <2>2. /\ DOMAIN Front(f[n]) = 1 .. Len(f[n]) - 1
        /\ \A i \in 1 .. Len(f[n]) - 1 : Front(f[n])[i] = f[n][i]
        /\ Last(f[n]) = f[n][Len(f[n])] /\ Len(f[n]) \in DOMAIN f[n] /\ Len(f[n]) \in Nat \ {0}
        /\ DOMAIN f[n] = 1 .. Len(f[n])
    BY <2>1, FrontFacts
  <2>3. Len(f[n]) - 1 \in Nat /\ (Len(f[n]) - 1) + 1 = Len(f[n])
    BY <2>2
  <2>4. Last(f[n]) # None
    BY <2>1, <2>2, NoneFacts
  <2>5. QED BY <2>2, <2>3, <2>4
<1>2. m + 1 \in DOMAIN f[n] /\ \A i \in 1 .. m : i # m + 1 /\ i \in 1 .. m + 1
  BY <1>1
<1>3. \A i \in 1 .. m + 1 : i \in 1 .. m \/ i = m + 1
  BY <1>1
<1>4. b \in G
  BY <1>1, <1>2 DEF Has
<1>5. \A k \in DOMAIN f : \A i \in DOMAIN g[k] :
        i \in DOMAIN f[k] /\ g[k][i] = f[k][i] /\ ~ (k = n /\ i = m + 1)
  BY <1>1, <1>2
<1>6. \A k \in DOMAIN f : \A i \in DOMAIN f[k] :
        \/ i \in DOMAIN g[k] /\ g[k][i] = f[k][i]
        \/ f[k][i] = b
  BY <1>1, <1>3
<1>7. \A k \in DOMAIN f : \A i \in DOMAIN g[k] : g[k][i] # b
  BY <1>1, <1>2, <1>5 DEF Has
<1>8. Has(g, G \ {b})
  BY <1>5, <1>6, <1>7 DEF Has
<1>9. QED BY <1>1, <1>4, <1>8

LEMMA HasAppend ==
  ASSUME NEW f, NEW G, Has(f, G), NEW n \in DOMAIN f, f[n] \in Seq(Blk),
         NEW b \in Blk, b \notin G,
         NEW g, DOMAIN g = DOMAIN f, g[n] = Append(f[n], b),
         \A k \in DOMAIN f : k # n => g[k] = f[k]
  PROVE  Has(g, G \cup {b})
<1>1. PICK m \in Nat :
        /\ DOMAIN f[n] = 1 .. m /\ DOMAIN g[n] = 1 .. m + 1
        /\ \A i \in 1 .. m : g[n][i] = f[n][i]
        /\ g[n][m + 1] = b
  <2>1. f[n] \in Cells
    BY DEF Cells
  <2>2. /\ DOMAIN Append(f[n], b) = 1 .. Len(f[n]) + 1
        /\ \A i \in 1 .. Len(f[n]) : Append(f[n], b)[i] = f[n][i]
        /\ Append(f[n], b)[Len(f[n]) + 1] = b
        /\ DOMAIN f[n] = 1 .. Len(f[n]) /\ Len(f[n]) \in Nat
    BY <2>1, AppendFacts
  <2>3. QED BY <2>2
<1>2. m + 1 \in DOMAIN g[n] /\ \A i \in 1 .. m : i # m + 1 /\ i \in 1 .. m + 1
  BY <1>1
<1>3. \A i \in 1 .. m + 1 : i \in 1 .. m \/ i = m + 1
  OBVIOUS
<1>4. \A k \in DOMAIN f : \A i \in DOMAIN f[k] : i \in DOMAIN g[k] /\ g[k][i] = f[k][i]
  BY <1>1, <1>2
<1>5. \A k \in DOMAIN f : \A i \in DOMAIN g[k] :
        \/ i \in DOMAIN f[k] /\ g[k][i] = f[k][i]
        \/ k = n /\ i = m + 1 /\ g[k][i] = b
  BY <1>1, <1>3
<1>6. \A k \in DOMAIN f : \A i \in DOMAIN f[k] : f[k][i] # b
  BY NoneFacts DEF Has
<1>7. \A k \in DOMAIN g : \A i \in DOMAIN g[k] : g[k][i] # None => g[k][i] \in G \cup {b}
  BY <1>5 DEF Has
<1>8. \A c \in G \cup {b} : \E k \in DOMAIN g : \E i \in DOMAIN g[k] : g[k][i] = c
  BY <1>1, <1>2, <1>4 DEF Has
<1>9. ASSUME NEW k \in DOMAIN f, NEW l \in DOMAIN f, NEW i \in DOMAIN g[k], NEW j \in DOMAIN g[l],
             g[k][i] = g[l][j], g[k][i] # None
      PROVE  k = l /\ i = j
  BY <1>5, <1>6, <1>9 DEF Has
<1>10. QED BY <1>7, <1>8, <1>9 DEF Has

(* No array is on its way while the list is not locked, or while another   *)
(* part of it is.                                                          *)
LEMMA NobodyCopies ==
  ASSUME ListsOK, ~ s_flock
  PROVE  Passing = {} /\ FirstArray = s_free /\ \A q \in Proc : pc[q] \notin Copying
<1>1. \A q \in Proc : pc[q] \notin Copying
  BY DEF ListsOK
<1>2. QED BY <1>1, FirstIdle DEF Copying

LEMMA NobodyElse ==
  ASSUME ListsOK, NEW p \in Proc, ~ s_flock \/ pc[p] \in Copying, Elsewhere(p),
         pc'[p] \notin {"freed", "allocread"}
  PROVE  Passing' = {} /\ FirstArray' = s_free'
<1>1. \A q \in Proc \ {p} : pc[q] \notin Copying
  BY DEF ListsOK
<1>2. \A q \in Proc : pc'[q] \notin {"freed", "allocread"}
  BY <1>1 DEF Elsewhere, Copying
<1>3. QED BY <1>2, FirstIdleNext

LEMMA EmptyKept ==
  ASSUME FreeEmpty, FilesInv', NEW p \in Proc, Elsewhere(p), dinode' = dinode,
         \A s \in Slot : inode'[s].i = inode[s].i,
         pc'[p] = "ifree" => inode[u'[p].ip].i.addr = <<>>
  PROVE  FreeEmpty'
<1>1. ASSUME NEW q \in Proc, pc'[q] = "ifree" PROVE inode'[u'[q].ip].i.addr = <<>>
  <2>1. inode[u'[q].ip].i.addr = <<>>
    BY <1>1 DEF FreeEmpty, Elsewhere, Ip
  <2>2. u'[q].ip \in Slot
    BY <1>1, InHandNext DEF FilesInv, CountsOK, Locking
  <2>3. QED BY <2>1, <2>2
<1>2. QED BY <1>1 DEF FreeEmpty, Ip

(* The block that a process has in hand.                                   *)
LEMMA InHandBlock ==
  ASSUME FilesInv, NEW p \in Proc, pc[p] \in HandPlaces,
         NEW F, NEW G, NEW H, Parted(F, G, H)
  PROVE  /\ u[p].bn \in Blk /\ Held(p, u[p].bn) /\ u[p].bn \in H
         /\ u[p].bn \notin F /\ u[p].bn \notin G
<1>1. u[p].bn \in Blk
  <2>1. PlaceOK(p) /\ u[p] \in Frame
    BY Parts
  <2>2. u[p].bn # None
    BY <2>1 DEF PlaceOK, HandPlaces
  <2>3. QED BY <2>1, <2>2 DEF Frame
<1>2. Held(p, u[p].bn)
  BY DEF Held
<1>3. u[p].bn \in H
  BY <1>1, <1>2 DEF Parted, HandsOK
<1>4. QED BY <1>1, <1>2, <1>3 DEF Parted

LEMMA BegunList ==
  ASSUME NEW F, ListInv(s_free, link, F)
  PROVE  ListInv(Begun, link, F) /\ Begun # <<>>
BY ListBegin DEF Begun

LEMMA TruncNexts ==
  ASSUME TypeOK, NEW p \in Proc, TruncNext(p), fd' = fd
  PROVE  /\ Elsewhere(p) /\ pc'[p] \in {"itrunc", "open1", "ifree"}
         /\ pc'[p] = "ifree" => inode[u'[p].ip].i.addr = <<>>
<1>1. PICK l \in {"itrunc", "open1", "ifree"} : Goto(p, l) /\ (l = "ifree" => Ip(p).i.addr = <<>>)
  <2>1. CASE Ip(p).i.addr # <<>>
    BY <2>1 DEF TruncNext
  <2>2. CASE Ip(p).i.addr = <<>> /\ u[p].then = "open1"
    BY <2>2 DEF TruncNext
  <2>3. CASE Ip(p).i.addr = <<>> /\ u[p].then # "open1"
    BY <2>3 DEF TruncNext
  <2>4. QED BY <2>1, <2>2, <2>3
<1>2. u'[p].ip = u[p].ip /\ \A q \in Proc \ {p} : u'[q] = u[q]
  BY DEF TruncNext, TypeOK, Frame
<1>3. QED BY <1>1, <1>2, Goes DEF Elsewhere, Ip

-----------------------------------------------------------------------------
(* free: the block in hand joins the list.                                 *)
LEMMA FreeBlocks ==
  ASSUME BlocksInv, FilesInv', NEW p \in Proc, Free(p)
  PROVE  BlocksInv'
<1>1. /\ FilesInv /\ FreeEmpty /\ TypeOK /\ ListsOK /\ pc[p] = "free" /\ ~ s_flock
      /\ TruncNext(p) /\ UNCHANGED <<s_flock, link, inode, dinode, fd>>
      /\ s_free' = Append(Begun, u[p].bn)
  BY Parts DEF Free, At, Blocked, BlocksInv
<1>2. PICK F, G, H \in SUBSET Blk : Parted(F, G, H)
  BY DEF BlocksInv
<1>3. PICK b \in Blk : b = u[p].bn /\ Held(p, b) /\ b \in H /\ b \notin F
  BY <1>1, <1>2, InHandBlock DEF HandPlaces
<1>4. /\ Elsewhere(p) /\ pc'[p] \in {"itrunc", "open1", "ifree"}
      /\ pc'[p] = "ifree" => inode[u'[p].ip].i.addr = <<>>
  BY <1>1, TruncNexts
<1>5. FreeEmpty' /\ Files' = Files
  BY <1>1, <1>4, EmptyKept, FilesKept
<1>6. Passing' = {} /\ FirstArray' = s_free'
  BY <1>1, <1>4, NobodyElse
<1>7. ListInv(FirstArray', link', F \cup {b})
  <2>1. ListInv(s_free, link, F)
    BY <1>1, <1>2, NobodyCopies DEF Parted
  <2>2. ListInv(Append(Begun, b), link, F \cup {b})
    BY <1>3, <2>1, BegunList, ListPush
  <2>3. QED BY <1>1, <1>3, <1>6, <2>2
<1>8. HandsOK(H \ {b})'
  BY <1>2, <1>3, <1>4, HandsLose DEF Parted, HandPlaces
<1>9. Parted(F \cup {b}, G, H \ {b})'
  BY <1>2, <1>3, <1>5, <1>7, <1>8 DEF Parted
<1>10. QED BY <1>5, <1>6, <1>9 DEF BlocksInv, OneFirst

LEMMA FreeLockBlocks ==
  ASSUME BlocksInv, FilesInv', NEW p \in Proc, FreeLock(p)
  PROVE  BlocksInv'
<1>1. /\ FilesInv /\ FreeEmpty /\ TypeOK /\ ListsOK /\ pc[p] = "free" /\ ~ s_flock
      /\ Goto(p, "freecopy") /\ UNCHANGED <<link, inode, dinode, fd, u>>
      /\ s_free' = Begun
  BY Parts DEF FreeLock, At, Blocked, BlocksInv
<1>2. PICK F, G, H \in SUBSET Blk : Parted(F, G, H)
  BY DEF BlocksInv
<1>3. Elsewhere(p) /\ pc'[p] = "freecopy"
  BY <1>1, Goes DEF Elsewhere
<1>4. FreeEmpty' /\ Files' = Files
  BY <1>1, <1>3, EmptyKept, FilesKept
<1>5. Passing' = {} /\ FirstArray' = s_free'
  BY <1>1, <1>3, NobodyElse
<1>6. ListInv(FirstArray', link', F)
  <2>1. ListInv(s_free, link, F)
    BY <1>1, <1>2, NobodyCopies DEF Parted
  <2>2. QED BY <1>1, <1>5, <2>1, BegunList
<1>7. HandsOK(H)'
  BY <1>1, <1>2, <1>3, HandsKept DEF Parted, Held, HandPlaces
<1>8. Parted(F, G, H)'
  BY <1>2, <1>4, <1>6, <1>7 DEF Parted
<1>9. QED BY <1>4, <1>5, <1>8 DEF BlocksInv, OneFirst

(* The array goes to the block, which is not in the list yet.              *)
LEMMA FreeCopyBlocks ==
  ASSUME BlocksInv, FilesInv', NEW p \in Proc, FreeCopy(p)
  PROVE  BlocksInv'
<1>1. /\ FilesInv /\ FreeEmpty /\ TypeOK /\ ListsOK /\ pc[p] = "freecopy"
      /\ Goto(p, "freed") /\ UNCHANGED <<inode, dinode, fd, u>>
      /\ link' = [link EXCEPT ![u[p].bn] = s_free] /\ s_free' = <<>>
      /\ ListsOK'
  BY Parts DEF FreeCopy, At, BlocksInv, FilesInv
<1>2. PICK F, G, H \in SUBSET Blk : Parted(F, G, H)
  BY DEF BlocksInv
<1>3. PICK b \in Blk : b = u[p].bn /\ b \notin F
  BY <1>1, <1>2, InHandBlock DEF HandPlaces
<1>4. Elsewhere(p) /\ pc'[p] = "freed"
  BY <1>1, Goes DEF Elsewhere
<1>5. FreeEmpty' /\ Files' = Files
  BY <1>1, <1>4, EmptyKept, FilesKept
<1>6. FirstArray' = link'[b]
  BY <1>1, <1>3, <1>4, FirstPassingNext
<1>7. FirstArray = s_free
  BY <1>1, FirstIdle DEF ListsOK, Copying
<1>8. ListInv(FirstArray', link', F)
  <2>1. ListInv(s_free, link, F) /\ link \in [Blk -> Cells] /\ s_free \in Cells
    BY <1>2, <1>7 DEF Parted, ListInv
  <2>2. ListInv(s_free, [link EXCEPT ![b] = s_free], F)
    BY <1>3, <2>1, ListRelink
  <2>3. link'[b] = s_free
    BY <1>1, <1>3, <2>1
  <2>4. QED BY <1>1, <1>3, <1>6, <2>2, <2>3
<1>9. HandsOK(H)'
  BY <1>1, <1>2, <1>4, HandsKept DEF Parted, Held, HandPlaces
<1>10. Parted(F, G, H)'
  BY <1>2, <1>5, <1>8, <1>9 DEF Parted
<1>11. QED BY <1>1, <1>5, <1>10 DEF BlocksInv, OneFirst

(* The block that links the list is its new array.                         *)
LEMMA FreedBlocks ==
  ASSUME BlocksInv, FilesInv', NEW p \in Proc, Freed(p)
  PROVE  BlocksInv'
<1>1. /\ FilesInv /\ FreeEmpty /\ TypeOK /\ ListsOK /\ pc[p] = "freed"
      /\ TruncNext(p) /\ UNCHANGED <<link, inode, dinode, fd>>
      /\ s_free' = Append(s_free, u[p].bn)
  BY Parts DEF Freed, At, BlocksInv
<1>2. PICK F, G, H \in SUBSET Blk : Parted(F, G, H)
  BY DEF BlocksInv
<1>3. PICK b \in Blk : b = u[p].bn /\ Held(p, b) /\ b \in H /\ b \notin F
  BY <1>1, <1>2, InHandBlock DEF HandPlaces
<1>4. /\ Elsewhere(p) /\ pc'[p] \in {"itrunc", "open1", "ifree"}
      /\ pc'[p] = "ifree" => inode[u'[p].ip].i.addr = <<>>
  BY <1>1, TruncNexts
<1>5. FreeEmpty' /\ Files' = Files
  BY <1>1, <1>4, EmptyKept, FilesKept
<1>6. Passing' = {} /\ FirstArray' = s_free'
  BY <1>1, <1>4, NobodyElse DEF Copying
<1>7. Passing = {p} /\ FirstArray = link[b]
  BY <1>1, <1>3, FirstPassing
<1>8. s_free' = <<b>>
  BY <1>1, <1>3, <1>7 DEF BlocksInv, OneFirst
<1>9. ListInv(FirstArray', link', F \cup {b})
  <2>1. ListInv(link[b], link, F)
    BY <1>2, <1>7 DEF Parted
  <2>2. ListInv(<<b>>, link, F \cup {b})
    BY <1>3, <2>1, ListNew
  <2>3. QED BY <1>1, <1>6, <1>8, <2>2
<1>10. HandsOK(H \ {b})'
  BY <1>2, <1>3, <1>4, HandsLose DEF Parted, HandPlaces
<1>11. Parted(F \cup {b}, G, H \ {b})'
  BY <1>2, <1>3, <1>5, <1>9, <1>10 DEF Parted
<1>12. QED BY <1>5, <1>6, <1>11 DEF BlocksInv, OneFirst

(* alloc: no space, a block of the array, the next array.                  *)
LEMMA AllocNospaceBlocks ==
  ASSUME BlocksInv, FilesInv', NEW p \in Proc, AllocNospace(p)
  PROVE  BlocksInv'
<1>1. /\ FilesInv /\ FreeEmpty /\ TypeOK /\ ListsOK /\ pc[p] = "alloc" /\ ~ s_flock
      /\ Return(p) /\ UNCHANGED <<link, dinode, fd>> /\ Top = None
      /\ inode' = [inode EXCEPT ![u[p].ip].lock = None]
      /\ s_free' = <<>>
  BY Parts DEF AllocNospace, At, Blocked, BlocksInv
<1>2. PICK F, G, H \in SUBSET Blk : Parted(F, G, H)
  BY DEF BlocksInv
<1>3. Elsewhere(p) /\ pc'[p] = "idle"
  BY <1>1, Returns DEF Elsewhere
<1>4. \A s \in Slot : inode'[s].num = inode[s].num /\ inode'[s].i = inode[s].i
  BY <1>1 DEF TypeOK, Entry
<1>5. FreeEmpty' /\ Files' = Files
  BY <1>1, <1>3, <1>4, EmptyKept, FilesKept
<1>6. Passing' = {} /\ FirstArray' = s_free'
  BY <1>1, <1>3, NobodyElse
<1>7. ListInv(FirstArray', link', F)
  <2>1. ListInv(s_free, link, F)
    BY <1>1, <1>2, NobodyCopies DEF Parted
  <2>2. s_free = <<>> \/ Last(s_free) = None
    BY <1>1 DEF Top
  <2>3. QED BY <1>1, <1>6, <2>1, <2>2, ListEnd
<1>8. HandsOK(H)'
  BY <1>1, <1>2, <1>3, HandsKept DEF Parted, Held, HandPlaces
<1>9. Parted(F, G, H)'
  BY <1>2, <1>5, <1>7, <1>8 DEF Parted
<1>10. QED BY <1>5, <1>6, <1>9 DEF BlocksInv, OneFirst

LEMMA AllocPopBlocks ==
  ASSUME BlocksInv, FilesInv', NEW p \in Proc, AllocPop(p)
  PROVE  BlocksInv'
<1>1. /\ FilesInv /\ FreeEmpty /\ TypeOK /\ ListsOK /\ ListsOK' /\ pc[p] = "alloc" /\ ~ s_flock
      /\ UNCHANGED <<link, inode, dinode, fd>> /\ Top # None
      /\ u' = [u EXCEPT ![p].bn = Top] /\ s_free' = Front(s_free)
      /\ s_free \in Cells
  BY Parts DEF AllocPop, At, Blocked, BlocksInv, FilesInv, TypeOK, Cells
<1>2. PICK F, G, H \in SUBSET Blk : Parted(F, G, H)
  BY DEF BlocksInv
<1>3. ListInv(s_free, link, F) /\ s_free # <<>> /\ Top = Last(s_free)
  BY <1>1, <1>2, NobodyCopies DEF Parted, Top
<1>4. Last(s_free) \in F
  BY <1>1, <1>3, ListPop, ListNext
<1>5. PICK b \in Blk : b = Last(s_free) /\ b \in F /\ b \notin G /\ b \notin H
  BY <1>2, <1>4 DEF Parted
<1>6. u'[p].bn = b /\ \A q \in Proc \ {p} : u'[q] = u[q]
  BY <1>1, <1>3, <1>5 DEF TypeOK, Frame
<1>7. PICK l \in {"allocread", "allocbuf"} :
        Goto(p, l) /\ (l = "allocread" <=> Len(s_free) = 1)
  <2>1. CASE Len(s_free) = 1
    BY <2>1 DEF AllocPop
  <2>2. CASE Len(s_free) # 1
    BY <2>2 DEF AllocPop
  <2>3. QED BY <2>1, <2>2
<1>8. Elsewhere(p) /\ pc'[p] = l
  BY <1>1, <1>6, <1>7, Goes DEF Elsewhere
<1>9. FreeEmpty' /\ Files' = Files
  BY <1>1, <1>8, EmptyKept, FilesKept
<1>10. HandsOK(H \cup {b})'
  <2>1. Held(p, b)'
    BY <1>6, <1>8 DEF Held, HandPlaces
  <2>2. QED BY <1>1, <1>2, <1>5, <1>8, <2>1, HandsGain DEF Parted, HandPlaces
<1>11. ListInv(FirstArray', link', F \ {b}) /\ OneFirst'
  <2>1. CASE l = "allocbuf"
    <3>1. Passing' = {} /\ FirstArray' = s_free'
      BY <1>1, <1>8, <2>1, NobodyElse
    <3>2. ListInv(Front(s_free), link, F \ {b})
      BY <1>3, <1>5, <1>7, <2>1, ListPop
    <3>3. QED BY <1>1, <3>1, <3>2 DEF OneFirst
  <2>2. CASE l = "allocread"
    <3>1. FirstArray' = link'[b]
      BY <1>1, <1>6, <1>8, <2>2, FirstPassingNext
    <3>2. ListInv(link[b], link, F \ {b})
      BY <1>1, <1>3, <1>5, <1>7, <2>2, ListNext
    <3>3. s_free' = <<>>
      <4>1. Front(s_free) \in Cells /\ Len(Front(s_free)) = Len(s_free) - 1
        BY <1>1, <1>3, FrontFacts
      <4>2. Len(Front(s_free)) = 0
        BY <1>7, <2>2, <4>1
      <4>3. QED BY <1>1, <4>1, <4>2, EmptySeq DEF Cells
    <3>4. QED BY <1>1, <3>1, <3>2, <3>3 DEF OneFirst
  <2>3. QED BY <2>1, <2>2
<1>12. Parted(F \ {b}, G, H \cup {b})'
  BY <1>2, <1>5, <1>9, <1>10, <1>11 DEF Parted
<1>13. QED BY <1>9, <1>11, <1>12 DEF BlocksInv

LEMMA AllocReadBlocks ==
  ASSUME BlocksInv, FilesInv', NEW p \in Proc, AllocRead(p)
  PROVE  BlocksInv'
<1>1. /\ FilesInv /\ FreeEmpty /\ TypeOK /\ ListsOK /\ pc[p] = "allocread"
      /\ Goto(p, "allocbuf") /\ UNCHANGED <<link, inode, dinode, fd, u>>
      /\ s_free' = link[u[p].bn]
  BY Parts DEF AllocRead, At, BlocksInv
<1>2. PICK F, G, H \in SUBSET Blk : Parted(F, G, H)
  BY DEF BlocksInv
<1>3. Elsewhere(p) /\ pc'[p] = "allocbuf"
  BY <1>1, Goes DEF Elsewhere
<1>4. FreeEmpty' /\ Files' = Files
  BY <1>1, <1>3, EmptyKept, FilesKept
<1>5. Passing' = {} /\ FirstArray' = s_free'
  BY <1>1, <1>3, NobodyElse DEF Copying
<1>6. FirstArray = link[u[p].bn]
  BY <1>1, FirstPassing
<1>7. HandsOK(H)'
  BY <1>1, <1>2, <1>3, HandsKept DEF Parted, Held, HandPlaces
<1>8. Parted(F, G, H)'
  BY <1>1, <1>2, <1>4, <1>5, <1>6, <1>7 DEF Parted
<1>9. QED BY <1>4, <1>5, <1>8 DEF BlocksInv, OneFirst

-----------------------------------------------------------------------------
(* An inode that p has locked gets other blocks.                           *)
LEMMA FilesStep ==
  ASSUME FilesInv, FilesInv', NEW p \in Proc, Elsewhere(p), pc[p] # "iread", pc'[p] # "iread",
         NEW s \in Slot, inode[s].lock = p, inode[s].count # 0, dinode' = dinode,
         \A t \in Slot : inode'[t].num = inode[t].num,
         \A t \in Slot \ {s} : inode'[t] = inode[t]
  PROVE  /\ DOMAIN Files' = DOMAIN Files
         /\ \E n \in DOMAIN Files :
              /\ Files[n] = inode[s].i.addr /\ Files[n] \in Seq(Blk)
              /\ Files'[n] = inode'[s].i.addr
              /\ \A k \in DOMAIN Files : k # n => Files'[k] = Files[k]
<1>0. TypeOK /\ inode[s].num \in Ino /\ inode[s].num # None /\ Present(s)
      /\ inode[s].i \in Inode
  <2>1. TypeOK /\ inode[s].num # None
    BY Parts, NumCount
  <2>2. inode[s] \in Entry
    BY <2>1 DEF TypeOK
  <2>3. QED BY <2>1, <2>2, MineHere DEF Entry
<1>1. PICK n \in Ino : n = inode[s].num /\ n # None
  BY <1>0
<1>2. \A t \in Slot : Present(t)' <=> Present(t)
  BY PresentKept
<1>3. Unique /\ Unique'
  BY DEF FilesInv, CountsOK, Unique
<1>4. Current(n) = inode[s].i
  BY <1>0, <1>1, <1>3, CurrentIn
<1>5. Current(n)' = inode'[s].i
  BY <1>0, <1>1, <1>2, <1>3, CurrentInNext
<1>6. ASSUME NEW k \in Ino \cup {0}, k # n PROVE Current(k)'.addr = Current(k).addr
  <2>1. ASSUME NEW t \in Slot, inode[t].num = k \/ inode'[t].num = k
        PROVE  t # s
    BY <1>1, <1>6, <2>1
  <2>2. QED BY <1>2, <1>3, <2>1, BlocksOfKept
<1>7. /\ n \in DOMAIN Files /\ DOMAIN Files' = DOMAIN Files
      /\ Files[n] = Current(n).addr /\ Files'[n] = Current(n)'.addr
      /\ \A k \in DOMAIN Files : k # n => Files'[k] = Files[k]
  <2>1. DOMAIN Files = Ino \cup {0} /\ DOMAIN Files' = Ino \cup {0}
    BY DEF Files
  <2>2. \A k \in Ino \cup {0} : Files[k] = Current(k).addr
    BY DEF Files
  <2>3. \A k \in Ino \cup {0} : Files'[k] = Current(k)'.addr
    BY DEF Files
  <2>4. \A k \in Ino \cup {0} : k # n => Files'[k] = Files[k]
    BY <1>6, <2>2, <2>3
  <2>5. n \in Ino \cup {0}
    BY <1>1
  <2>6. QED BY <2>1, <2>2, <2>3, <2>4, <2>5
<1>8. inode[s].i.addr \in Seq(Blk)
  BY <1>0 DEF Inode
<1>9. QED BY <1>4, <1>5, <1>7, <1>8

(* itrunc takes the last block of the file in hand.                        *)
LEMMA ItruncBlocks ==
  ASSUME BlocksInv, FilesInv', NEW p \in Proc, Itrunc(p)
  PROVE  BlocksInv'
<1>1. /\ FilesInv /\ FreeEmpty /\ OneFirst /\ TypeOK /\ PlaceOK(p) /\ pc[p] = "itrunc"
      /\ UNCHANGED <<s_free, link, dinode, fd>> /\ Goto(p, "free")
      /\ u' = [u EXCEPT ![p].bn = Last(Ip(p).i.addr)]
      /\ inode' = [inode EXCEPT ![u[p].ip].i.addr = Front(@), ![u[p].ip].upd = TRUE]
  BY Parts DEF Itrunc, At, BlocksInv, super
<1>2. PICK F, G, H \in SUBSET Blk : Parted(F, G, H)
  BY DEF BlocksInv
<1>3. PICK s \in Slot : s = u[p].ip /\ inode[s].lock = p /\ inode[s] \in Entry
  BY <1>1, Parts DEF Locking, Freeing, TypeOK
<1>4. /\ inode[s].i \in Inode /\ inode[s].i.addr \in Seq(Blk) /\ inode[s].i.addr # <<>>
      /\ inode[s].i.mode /\ Ip(p) = inode[s]
  BY <1>1, <1>3 DEF Entry, Inode, PlaceOK, Ip, FreeEmpty
<1>5. /\ \A t \in Slot : inode'[t].num = inode[t].num
      /\ \A t \in Slot \ {s} : inode'[t] = inode[t]
      /\ inode'[s].i = [inode[s].i EXCEPT !.addr = Front(@)]
  BY <1>1, <1>3 DEF TypeOK, Entry
<1>6. inode'[s].i.mode /\ inode'[s].i.addr = Front(inode[s].i.addr)
  BY <1>4, <1>5 DEF Inode
<1>7. Elsewhere(p) /\ pc'[p] = "free"
  BY <1>1, Goes DEF Elsewhere, TypeOK
<1>8. inode[s].count # 0
  <2>1. Ref(p, s)
    BY <1>1, <1>3 DEF Ref, HasRef
  <2>2. QED BY <1>1, <2>1, NoRefs
<1>9. PICK n : /\ n \in DOMAIN Files /\ DOMAIN Files' = DOMAIN Files
               /\ Files[n] = inode[s].i.addr /\ Files[n] \in Seq(Blk)
               /\ Files'[n] = Front(Files[n])
               /\ \A k \in DOMAIN Files : k # n => Files'[k] = Files[k]
  <2>1. /\ DOMAIN Files' = DOMAIN Files
        /\ \E n \in DOMAIN Files :
             /\ Files[n] = inode[s].i.addr /\ Files[n] \in Seq(Blk)
             /\ Files'[n] = inode'[s].i.addr
             /\ \A k \in DOMAIN Files : k # n => Files'[k] = Files[k]
    BY <1>1, <1>3, <1>5, <1>6, <1>7, <1>8, FilesStep
  <2>2. QED BY <1>6, <2>1
<1>10. Last(Files[n]) \in G /\ Has(Files', G \ {Last(Files[n])})
  BY <1>2, <1>4, <1>9, HasFront DEF Parted
<1>11. PICK b \in Blk : b = Last(Files[n]) /\ b \in G /\ b \notin F /\ b \notin H
  BY <1>2, <1>10 DEF Parted
<1>12. Held(p, b)'
  <2>1. u'[p].bn = Last(Ip(p).i.addr)
    BY <1>1 DEF TypeOK, Frame
  <2>2. QED BY <1>4, <1>7, <1>9, <1>11, <2>1 DEF Held, HandPlaces
<1>13. HandsOK(H \cup {b})'
  BY <1>1, <1>2, <1>7, <1>11, <1>12, HandsGain DEF Parted, HandPlaces
<1>14. FirstArray' = FirstArray /\ OneFirst'
  BY <1>1, <1>7, FirstKept
<1>15. FreeEmpty'
  <2>1. \A t \in Slot : inode'[t].i.mode \/ inode'[t].i.addr = <<>>
    BY <1>1, <1>5, <1>6 DEF FreeEmpty
  <2>2. ASSUME NEW q \in Proc, pc'[q] = "ifree" PROVE inode'[u'[q].ip].i.addr = <<>>
    <3>1. q # p /\ pc[q] = "ifree" /\ u'[q] = u[q]
      BY <1>7, <2>2 DEF Elsewhere
    <3>2. u[q].ip \in Slot /\ inode[u[q].ip].lock = q
      BY <1>1, <3>1, Parts DEF Locking
    <3>3. u[q].ip # s
      BY <1>3, <3>1, <3>2
    <3>4. inode[u[q].ip].i.addr = <<>> /\ inode'[u[q].ip] = inode[u[q].ip]
      BY <1>1, <1>5, <3>1, <3>2, <3>3 DEF FreeEmpty, Ip
    <3>5. QED BY <3>1, <3>4
  <2>3. QED BY <1>1, <2>1, <2>2 DEF FreeEmpty, Ip
<1>16. Parted(F, G \ {b}, H \cup {b})'
  BY <1>1, <1>2, <1>10, <1>11, <1>13, <1>14 DEF Parted
<1>17. QED BY <1>14, <1>15, <1>16 DEF BlocksInv

(* The block in hand becomes the file's, which is not a free inode if      *)
(* everyone's open looks at the mode.                                      *)
LEMMA AllocDoneBlocks ==
  ASSUME BlocksInv, FilesInv', Su = {}, NEW p \in Proc, AllocDone(p)
  PROVE  BlocksInv'
<1>1. /\ FilesInv /\ FreeEmpty /\ OneFirst /\ TypeOK /\ PlaceOK(p) /\ pc[p] = "allocbuf"
      /\ UNCHANGED <<s_free, dinode, fd>> /\ Return(p)
      /\ inode' = [inode EXCEPT ![u[p].ip].i.addr = Append(@, u[p].bn),
                                ![u[p].ip].upd = TRUE, ![u[p].ip].lock = None]
      /\ link' = [link EXCEPT ![u[p].bn] = <<>>]
  BY Parts DEF AllocDone, At, BlocksInv
<1>2. PICK F, G, H \in SUBSET Blk : Parted(F, G, H)
  BY DEF BlocksInv
<1>3. PICK s \in Slot : s = u[p].ip /\ inode[s].lock = p /\ inode[s] \in Entry
  BY <1>1, Parts DEF Locking, Writing, TypeOK
<1>4. /\ inode[s].i \in Inode /\ inode[s].i.mode /\ fd[p] = s
  <2>1. fd[p] = s
    BY <1>1, <1>3 DEF PlaceOK, Writing
  <2>2. inode[s].i.mode
    BY <1>1, <2>1, NoneFacts DEF FilesInv, OpenAlive
  <2>3. QED BY <1>3, <2>1, <2>2 DEF Entry
<1>5. PICK b \in Blk : b = u[p].bn /\ Held(p, b) /\ b \in H /\ b \notin F /\ b \notin G
  BY <1>1, <1>2, InHandBlock DEF HandPlaces
<1>6. /\ \A t \in Slot : inode'[t].num = inode[t].num
      /\ \A t \in Slot \ {s} : inode'[t] = inode[t]
      /\ inode'[s].i = [inode[s].i EXCEPT !.addr = Append(@, b)]
  BY <1>1, <1>3, <1>5 DEF TypeOK, Entry
<1>7. inode'[s].i.mode /\ inode'[s].i.addr = Append(inode[s].i.addr, b)
  BY <1>4, <1>6 DEF Inode
<1>8. Elsewhere(p) /\ pc'[p] = "idle"
  BY <1>1, Returns DEF Elsewhere
<1>9. inode[s].count # 0
  BY <1>1, <1>4, NoRefs
<1>10. PICK n : /\ n \in DOMAIN Files /\ DOMAIN Files' = DOMAIN Files
                /\ Files[n] = inode[s].i.addr /\ Files[n] \in Seq(Blk)
                /\ Files'[n] = Append(Files[n], b)
                /\ \A k \in DOMAIN Files : k # n => Files'[k] = Files[k]
  <2>1. /\ DOMAIN Files' = DOMAIN Files
        /\ \E n \in DOMAIN Files :
             /\ Files[n] = inode[s].i.addr /\ Files[n] \in Seq(Blk)
             /\ Files'[n] = inode'[s].i.addr
             /\ \A k \in DOMAIN Files : k # n => Files'[k] = Files[k]
    <3>1. FilesInv /\ dinode' = dinode /\ inode[s].lock = p
      BY <1>1, <1>3
    <3>2. pc[p] # "iread" /\ pc'[p] # "iread" /\ Elsewhere(p)
      BY <1>1, <1>8
    <3>3. QED BY <1>6, <1>9, <3>1, <3>2, FilesStep
  <2>2. QED BY <1>7, <2>1
<1>11. Has(Files', G \cup {b})
  BY <1>2, <1>5, <1>10, HasAppend DEF Parted
<1>12. HandsOK(H \ {b})'
  BY <1>2, <1>5, <1>8, HandsLose DEF Parted, HandPlaces
<1>13. FirstArray' = FirstArray /\ OneFirst'
  <2>1. ASSUME NEW q \in Proc \ {p}, pc[q] \in {"freed", "allocread"}
        PROVE  link'[u[q].bn] = link[u[q].bn]
    <3>1. u[q].bn \in Blk /\ Held(q, u[q].bn)
      BY <1>1, <1>2, <2>1, InHandBlock DEF HandPlaces
    <3>2. u[q].bn # b
      BY <1>2, <1>5, <2>1, <3>1 DEF Parted, HandsOK
    <3>3. QED BY <1>1, <1>5, <3>1, <3>2 DEF TypeOK
  <2>2. QED BY <1>1, <1>8, <2>1, FirstKept
<1>14. ListInv(FirstArray', link', F)
  BY <1>1, <1>2, <1>5, <1>13, CellsFacts, ListRelink DEF Parted
<1>15. FreeEmpty'
  <2>1. \A t \in Slot : inode'[t].i.mode \/ inode'[t].i.addr = <<>>
    BY <1>1, <1>6, <1>7 DEF FreeEmpty
  <2>2. ASSUME NEW q \in Proc, pc'[q] = "ifree" PROVE inode'[u'[q].ip].i.addr = <<>>
    <3>1. q # p /\ pc[q] = "ifree" /\ u'[q] = u[q]
      BY <1>8, <2>2 DEF Elsewhere
    <3>2. u[q].ip \in Slot /\ inode[u[q].ip].lock = q
      BY <1>1, <3>1, Parts DEF Locking
    <3>3. u[q].ip # s
      BY <1>3, <3>1, <3>2
    <3>4. inode[u[q].ip].i.addr = <<>> /\ inode'[u[q].ip] = inode[u[q].ip]
      BY <1>1, <1>6, <3>1, <3>2, <3>3 DEF FreeEmpty, Ip
    <3>5. QED BY <3>1, <3>4
  <2>3. QED BY <1>1, <2>1, <2>2 DEF FreeEmpty, Ip
<1>16. Parted(F, G \cup {b}, H \ {b})'
  BY <1>2, <1>5, <1>11, <1>12, <1>14 DEF Parted
<1>17. QED BY <1>13, <1>15, <1>16 DEF BlocksInv

(* Nobody moves.                                                           *)
LEMMA SameBlocks ==
  ASSUME BlocksInv, FilesInv', UNCHANGED <<super, inode, dinode, dir, dlock, fd, pc, u>>
  PROVE  BlocksInv'
<1>1. UNCHANGED <<s_free, link, inode, dinode, pc, u>>
  BY DEF super
<1>2. PICK F, G, H \in SUBSET Blk : Parted(F, G, H)
  BY DEF BlocksInv
<1>3. FreeEmpty' /\ Passing' = Passing
  BY <1>1 DEF BlocksInv, FreeEmpty, Ip, Passing
<1>4. FirstArray' = FirstArray /\ OneFirst'
  BY <1>1, <1>3 DEF BlocksInv, FirstArray, OneFirst
<1>5. Files' = Files
  <2>1. Unique /\ Unique'
    BY DEF BlocksInv, FilesInv, CountsOK, Unique
  <2>2. \A s \in Slot : Present(s)' <=> Present(s)
    BY <1>1 DEF Present
  <2>3. QED BY <1>1, <2>1, <2>2, BlocksOfKept, FilesSame
<1>6. HandsOK(H)'
  BY <1>1, <1>2 DEF Parted, HandsOK, Held
<1>7. Parted(F, G, H)'
  BY <1>1, <1>2, <1>4, <1>5, <1>6 DEF Parted
<1>8. QED BY <1>3, <1>4, <1>7 DEF BlocksInv

LEMMA NextBlocks ==
  ASSUME BlocksInv, Su = {}, [Next]_vars
  PROVE  BlocksInv'
<1>0. FilesInv'
  BY NextInv DEF BlocksInv
<1>1. ASSUME NEW p \in Proc, Start(p) PROVE BlocksInv'
  BY <1>0, <1>1, StartNameBlocks, LocksBlocks, TakeBlocks DEF Start
<1>2. ASSUME NEW p \in Proc, Step(p) PROVE BlocksInv'
  BY <1>0, <1>2, LocksBlocks, NameiBlocks, TakeBlocks, IgetNewBlocks, IreadBlocks,
     PlacesBlocks, PreleBlocks, ItruncBlocks, FreeBlocks, FreeLockBlocks, FreeCopyBlocks,
     FreedBlocks, IputSharedBlocks, IputCleanBlocks, InodeBlocks, IupdatBlocks,
     AllocNospaceBlocks, AllocPopBlocks, AllocReadBlocks, AllocDoneBlocks,
     IallocBlocks DEF Step
<1>3. ASSUME NEW p \in Proc, Sleep(p) PROVE BlocksInv'
  BY <1>0, <1>3, SameBlocks DEF Sleep
<1>4. CASE UNCHANGED vars
  BY <1>0, <1>4, SameBlocks DEF vars
<1>5. QED BY <1>1, <1>2, <1>3, <1>4 DEF Next

-----------------------------------------------------------------------------
(* The volume as mkfs leaves it: each block is in the list or in a file.   *)
LEMMA ListStart == ListInv(Empty.free, Empty.link, {})
<1> DEFINE lk == [b \in Blk |-> <<>>]
           a == [k \in 0 .. NBLK |-> IF k = 0 THEN <<None>> ELSE <<>>]
<1>1. Empty.free = <<None>> /\ Empty.link = lk
  BY DEF Empty
<1>2. lk \in [Blk -> Cells] /\ \A b \in Blk : lk[b] = <<>>
  BY CellsFacts
<1>3. /\ a \in [0 .. NBLK -> Cells] /\ DOMAIN a = 0 .. NBLK /\ a[0] = <<None>>
      /\ \A k \in 0 .. NBLK : k # 0 => a[k] = <<>>
  BY NblkFacts, CellsFacts
<1> HIDE DEF lk, a
<1>4. Linked(a, <<None>>, lk)
  <2>1. ASSUME NEW k \in 1 .. NBLK PROVE a[k] = After(a[k - 1], lk)
    <3>1. k \in 0 .. NBLK /\ k # 0 /\ k - 1 \in 0 .. NBLK
      BY NblkFacts
    <3>2. a[k - 1] = <<>> \/ (a[k - 1] # <<>> /\ Head(a[k - 1]) = None)
      BY <1>3, <3>1
    <3>3. QED BY <1>3, <3>1, <3>2 DEF After
  <2>2. QED BY <1>3, <2>1 DEF Linked
<1>5. \A k \in 0 .. NBLK : \A i \in DOMAIN a[k] : i = 1 /\ a[k][i] = None
  BY <1>3
<1>6. Has(a, {}) /\ Heads(a)
  BY <1>3, <1>5 DEF Has, Heads
<1>7. QED BY <1>1, <1>2, <1>4, <1>6, CellsFacts, ListFrom

LEMMA WithFreeList ==
  ASSUME NEW l \in List, NEW F, ListInv(l.free, l.link, F), l.free # <<>>,
         NEW b \in Blk, b \notin F
  PROVE  ListInv(WithFree(l, b).free, WithFree(l, b).link, F \cup {b})
         /\ WithFree(l, b).free # <<>>
<1>1. l.free \in Cells /\ l.link \in [Blk -> Cells]
  BY DEF ListInv
<1>2. CASE Len(l.free) < NICFREE
  <2>1. WithFree(l, b) = [l EXCEPT !.free = Append(@, b)]
    BY <1>2 DEF WithFree
  <2>2. WithFree(l, b).free = Append(l.free, b) /\ WithFree(l, b).link = l.link
    BY <2>1 DEF List
  <2>3. Append(l.free, b) # <<>>
    BY <1>1, AppendFacts
  <2>4. QED BY <2>2, <2>3, ListPush
<1>3. CASE ~ (Len(l.free) < NICFREE)
  <2>1. PICK m : m = [l.link EXCEPT ![b] = l.free]
    OBVIOUS
  <2>2. WithFree(l, b).free = <<b>> /\ WithFree(l, b).link = m
    BY <1>3, <2>1 DEF WithFree
  <2>3. ListInv(l.free, m, F) /\ m[b] = l.free
    BY <1>1, <2>1, ListRelink
  <2>4. ListInv(<<b>>, m, F \cup {b})
    BY <2>3, ListNew
  <2>5. QED BY <2>2, <2>4
<1>4. QED BY <1>2, <1>3

LEMMA MadeList ==
  ASSUME NEW bs \in Seq(Blk), \A i, j \in 1 .. Len(bs) : bs[i] = bs[j] => i = j
  PROVE  ListInv(Made(bs).free, Made(bs).link, {bs[i] : i \in 1 .. Len(bs)})
<1> DEFINE N == Len(bs)
           F(k) == {bs[i] : i \in 1 .. k}
<1>1. PICK h : /\ h[0] = Empty /\ Made(bs) = h[N]
               /\ \A k \in 0 .. N : h[k] \in List
               /\ \A k \in 1 .. N : h[k] = WithFree(h[k - 1], bs[k])
  BY MadeSteps
<1>2. N \in Nat /\ \A k \in 1 .. N : bs[k] \in Blk /\ k - 1 \in 0 .. N /\ k \in 0 .. N
  OBVIOUS
<1> DEFINE G == {k \in 0 .. N : ListInv(h[k].free, h[k].link, F(k)) /\ h[k].free # <<>>}
<1>3. 0 \in G
  <2>1. F(0) = {} /\ 0 \in 0 .. N
    BY <1>2
  <2>2. Empty.free # <<>>
    BY DEF Empty
  <2>3. QED BY <1>1, <2>1, <2>2, ListStart
<1>4. ASSUME NEW k \in 1 .. N, k - 1 \in G PROVE k \in G
  <2>1. /\ bs[k] \in Blk /\ k \in 0 .. N /\ h[k - 1] \in List
        /\ h[k] = WithFree(h[k - 1], bs[k])
    BY <1>1, <1>2
  <2>2. bs[k] \notin F(k - 1)
    <3>1. ASSUME NEW i \in 1 .. k - 1, bs[i] = bs[k] PROVE FALSE
      <4>1. i \in 1 .. N /\ i # k
        BY <1>2
      <4>2. QED BY <3>1, <4>1
    <3>2. QED BY <3>1
  <2>3. F(k) = F(k - 1) \cup {bs[k]}
    <3>1. \A i : i \in 1 .. k <=> i \in 1 .. k - 1 \/ i = k
      BY <1>2
    <3>2. QED BY <3>1
  <2>4. ListInv(h[k - 1].free, h[k - 1].link, F(k - 1)) /\ h[k - 1].free # <<>>
    BY <1>4
  <2> HIDE DEF F
  <2>5. ListInv(h[k].free, h[k].link, F(k - 1) \cup {bs[k]}) /\ h[k].free # <<>>
    BY <2>1, <2>2, <2>4, WithFreeList
  <2>6. QED BY <2>1, <2>3, <2>5
<1>5. N \in G
  <2>1. N \in 0 .. N
    BY <1>2
  <2> HIDE DEF G, N
  <2>2. Closed(N, G)
    BY <1>2, <1>3, <1>4 DEF Closed
  <2>3. QED BY <1>2, <2>1, <2>2, AllReached
<1>6. QED BY <1>1, <1>5

(* A new volume: the first k blocks of bs are in the list, the others in   *)
(* the file 0.                                                             *)
LEMMA VolumeHalves ==
  ASSUME NEW bs \in [1 .. Cardinality(Blk) -> Blk], NEW k \in FreeAtStart, IsInjective(bs)
  PROVE  \E F, G \in SUBSET Blk :
           /\ F \cup G = Blk /\ F \cap G = {}
           /\ ListInv(Made(SubSeq(bs, 1, k)).free, Made(SubSeq(bs, 1, k)).link, F)
           /\ G = {bs[i] : i \in k + 1 .. NBLK}
<1>1. NBLK \in Nat /\ k \in 0 .. NBLK /\ bs \in [1 .. NBLK -> Blk]
  BY NblkFacts, FileSystemAssumption DEF NBLK
<1>2. \A i, j \in 1 .. NBLK : bs[i] = bs[j] => i = j
  BY <1>1 DEF IsInjective
<1>3. \A b \in Blk : \E i \in 1 .. NBLK : bs[i] = b
  <2>1. bs \in Injection(1 .. NBLK, Blk)
    BY <1>1, <1>2 DEF Injection, IsInjective
  <2>2. Cardinality(1 .. NBLK) = NBLK
    <3>1. 1 \in Int /\ NBLK \in Int
      BY <1>1
    <3>2. Cardinality(1 .. NBLK) = IF 1 > NBLK THEN 0 ELSE NBLK - 1 + 1
      BY <3>1, FS_Interval
    <3>3. QED BY <1>1, <3>2
  <2>3. bs \in Surjection(1 .. NBLK, Blk)
    BY <2>1, <2>2, FS_Injection, FileSystemAssumption DEF NBLK
  <2>4. QED BY <2>3 DEF Surjection
<1> DEFINE F == {bs[i] : i \in 1 .. k}
           G == {bs[i] : i \in k + 1 .. NBLK}
           l == SubSeq(bs, 1, k)
<1>4. F \subseteq Blk /\ G \subseteq Blk /\ F \cup G = Blk
  <2>1. \A i : i \in 1 .. NBLK <=> i \in 1 .. k \/ i \in k + 1 .. NBLK
    BY <1>1
  <2>2. QED BY <1>1, <1>3, <2>1
<1>5. F \cap G = {}
  <2>1. \A i \in 1 .. k : \A j \in k + 1 .. NBLK : i \in 1 .. NBLK /\ j \in 1 .. NBLK /\ i # j
    BY <1>1
  <2>2. QED BY <1>2, <2>1
<1>6. l \in Seq(Blk) /\ Len(l) = k /\ \A i \in 1 .. k : l[i] = bs[i]
  <2>0. \A i \in 1 .. k : i \in 1 .. NBLK
    BY <1>1
  <2>1. \A i \in 1 .. k : bs[i] \in Blk
    BY <1>1, <2>0
  <2>2. QED BY <1>1, <2>1, SubSeqProperties
<1>7. \A i, j \in 1 .. Len(l) : l[i] = l[j] => i = j
  BY <1>1, <1>2, <1>6
<1>8. {l[i] : i \in 1 .. Len(l)} = F
  BY <1>6
<1>9. ListInv(Made(l).free, Made(l).link, F)
  BY <1>6, <1>7, <1>8, MadeList
<1>10. QED BY <1>4, <1>5, <1>9

LEMMA InitBlocks ==
  ASSUME Init
  PROVE  BlocksInv
<1>1. PICK bs \in [1 .. Cardinality(Blk) -> Blk], k \in FreeAtStart :
        /\ IsInjective(bs)
        /\ s_free = Made(SubSeq(bs, 1, k)).free
        /\ link = Made(SubSeq(bs, 1, k)).link
        /\ dinode = [n \in Ino \cup {0} |->
                       IF n = 0 THEN [mode |-> TRUE, nlink |-> 1,
                                      addr |-> SubSeq(bs, k + 1, Len(bs))]
                                ELSE Free0]
  BY DEF Init
<1>2. PICK F, G \in SUBSET Blk :
        /\ F \cup G = Blk /\ F \cap G = {}
        /\ ListInv(s_free, link, F)
        /\ G = {bs[i] : i \in k + 1 .. NBLK}
  BY <1>1, VolumeHalves
<1>3. /\ inode = [s \in Slot |-> NoEntry]
      /\ pc = [p \in Proc |-> "idle"]
  BY DEF Init
<1>4. FilesInv
  BY InitInv
<1>5. \A p \in Proc : pc[p] = "idle"
  BY <1>3
<1>6. Passing = {} /\ FirstArray = s_free
  BY <1>5, FirstIdle
<1>7. \A n \in Ino : n # 0 /\ n \in Ino \cup {0} /\ n # None
  BY NoneFacts, FileSystemAssumption DEF Ino
<1>8. FreeEmpty
  BY <1>1, <1>3, <1>5, <1>7 DEF FreeEmpty, NoEntry, Free0
<1>9. HandsOK({})
  BY <1>5 DEF HandsOK, Held, HandPlaces
<1>10. \A n \in Ino \cup {0} : Current(n) = dinode[n]
  <2>1. \A s \in Slot : inode[s].num = None
    BY <1>3 DEF NoEntry
  <2>2. \A n \in Ino \cup {0} : n # None
    BY NoneFacts, FileSystemAssumption
  <2>3. QED BY <2>1, <2>2, CurrentOut
<1> DEFINE r == SubSeq(bs, k + 1, Len(bs))
<1>11. /\ DOMAIN Files = Ino \cup {0} /\ Files[0] = r
       /\ \A n \in Ino : Files[n] = <<>>
  <2>1. DOMAIN Files = Ino \cup {0} /\ \A n \in Ino \cup {0} : Files[n] = dinode[n].addr
    BY <1>10 DEF Files
  <2>2. dinode[0].addr = r
    BY <1>1
  <2>3. \A n \in Ino : dinode[n] = Free0
    BY <1>1, <1>7
  <2> HIDE DEF r
  <2>4. QED BY <2>1, <2>2, <2>3 DEF Free0
<1>12. NBLK \in Nat /\ k \in 0 .. NBLK /\ bs \in [1 .. NBLK -> Blk] /\ Len(bs) = NBLK
  <2>1. NBLK \in Nat /\ k \in 0 .. NBLK /\ bs \in [1 .. NBLK -> Blk]
    BY NblkFacts, FileSystemAssumption DEF NBLK
  <2>2. QED BY <2>1
<1>13. \A i, j \in 1 .. NBLK : bs[i] = bs[j] => i = j
  BY <1>1, <1>12 DEF IsInjective
<1>14. /\ DOMAIN r = 1 .. NBLK - k
       /\ \A i \in 1 .. NBLK - k : r[i] = bs[k + i]
  <2>0. \A i \in k + 1 .. NBLK : i \in 1 .. NBLK
    BY <1>12
  <2>1. \A i \in k + 1 .. NBLK : bs[i] \in Blk
    BY <1>12, <2>0
  <2>2. r = SubSeq(bs, k + 1, NBLK)
    BY <1>12
  <2>3. /\ r \in Seq(Blk)
        /\ Len(r) = IF k + 1 <= NBLK THEN NBLK - (k + 1) + 1 ELSE 0
        /\ \A i \in 1 .. NBLK - (k + 1) + 1 : r[i] = bs[(k + 1) + i - 1]
    BY <1>12, <2>1, <2>2, SubSeqProperties
  <2> HIDE DEF r
  <2>4. Len(r) = NBLK - k /\ DOMAIN r = 1 .. Len(r)
    BY <1>12, <2>3
  <2>5. QED BY <1>12, <2>3, <2>4
<1> HIDE DEF r
<1>15. Has(Files, G)
  <2>1. ASSUME NEW m \in DOMAIN Files, NEW i \in DOMAIN Files[m]
        PROVE  m = 0 /\ i \in 1 .. NBLK - k /\ Files[m][i] = bs[k + i]
    <3>1. m = 0
      BY <1>11
    <3>2. QED BY <1>11, <1>14, <3>1
  <2>2. \A i \in 1 .. NBLK - k : k + i \in k + 1 .. NBLK /\ k + i \in 1 .. NBLK
    BY <1>12
  <2>3. ASSUME NEW b \in G PROVE \E m \in DOMAIN Files : \E i \in DOMAIN Files[m] : Files[m][i] = b
    <3>1. PICK j \in k + 1 .. NBLK : b = bs[j]
      BY <1>2
    <3>2. j - k \in 1 .. NBLK - k /\ k + (j - k) = j
      BY <1>12
    <3>3. 0 \in DOMAIN Files /\ j - k \in DOMAIN Files[0] /\ Files[0][j - k] = b
      BY <1>11, <1>14, <3>1, <3>2
    <3>4. QED BY <3>3
  <2>4. ASSUME NEW m \in DOMAIN Files, NEW n \in DOMAIN Files,
               NEW i \in DOMAIN Files[m], NEW j \in DOMAIN Files[n], Files[m][i] = Files[n][j]
        PROVE  m = n /\ i = j
    <3>1. /\ m = 0 /\ i \in 1 .. NBLK - k /\ Files[m][i] = bs[k + i]
          /\ n = 0 /\ j \in 1 .. NBLK - k /\ Files[n][j] = bs[k + j]
      BY <2>1
    <3>2. k + i = k + j
      BY <1>13, <2>2, <2>4, <3>1
    <3>3. QED BY <1>12, <3>1, <3>2
  <2>5. \A m \in DOMAIN Files : \A i \in DOMAIN Files[m] : Files[m][i] \in G
    BY <1>2, <2>1, <2>2
  <2>6. QED BY <2>3, <2>4, <2>5 DEF Has
<1>16. Parted(F, G, {})
  BY <1>2, <1>6, <1>9, <1>15 DEF Parted
<1>17. QED BY <1>4, <1>6, <1>8, <1>16 DEF BlocksInv, OneFirst

-----------------------------------------------------------------------------
(* What the run counts.                                                    *)
LEMMA ArraysAre == Arrays = Chain(FirstArray, link)
BY DEF Arrays, Chain, IsChain, After, NBLK

LEMMA HasCount ==
  ASSUME NEW f, NEW S, Has(f, S), NEW b \in Blk
  PROVE  Cardinality(In(f, b)) = IF b \in S THEN 1 ELSE 0
<1>1. b # None
  BY NoneFacts
<1>2. \A x : x \in In(f, b) <=> \E k \in DOMAIN f : \E i \in DOMAIN f[k] :
                                 x = <<k, i>> /\ f[k][i] = b
  BY DEF In
<1>3. CASE b \in S
  <2>1. PICK k \in DOMAIN f : \E i \in DOMAIN f[k] : f[k][i] = b
    BY <1>3 DEF Has
  <2>2. PICK i \in DOMAIN f[k] : f[k][i] = b
    BY <2>1
  <2>3. \A l \in DOMAIN f : \A j \in DOMAIN f[l] : f[l][j] = b => l = k /\ j = i
    BY <1>1, <2>2 DEF Has
  <2>4. In(f, b) = {<<k, i>>}
    <3>1. <<k, i>> \in In(f, b)
      BY <1>2, <2>2
    <3>2. \A x \in In(f, b) : x = <<k, i>>
      BY <1>2, <2>3
    <3>3. QED BY <3>1, <3>2
  <2>5. QED BY <1>3, <2>4, FS_Singleton
<1>4. CASE b \notin S
  <2>1. In(f, b) = {}
    BY <1>1, <1>2, <1>4 DEF Has
  <2>2. QED BY <1>4, <2>1, FS_EmptySet
<1>5. QED BY <1>3, <1>4

LEMMA HandsCount ==
  ASSUME NEW H, HandsOK(H), NEW b \in Blk
  PROVE  Cardinality(InHands(b)) = IF b \in H THEN 1 ELSE 0
<1>1. InHands(b) = {p \in Proc : Held(p, b)}
  BY DEF InHands, Held, HandPlaces
<1>2. CASE b \in H
  <2>1. PICK p \in Proc : Held(p, b)
    BY <1>2 DEF HandsOK
  <2>2. InHands(b) = {p}
    BY <1>1, <2>1 DEF HandsOK
  <2>3. QED BY <1>2, <2>2, FS_Singleton
<1>3. CASE b \notin H
  <2>1. InHands(b) = {}
    BY <1>1, <1>3 DEF HandsOK
  <2>2. QED BY <1>3, <2>1, FS_EmptySet
<1>4. QED BY <1>2, <1>3

LEMMA OnceNow ==
  ASSUME BlocksInv
  PROVE  BlocksOnce
<1>1. PICK F, G, H \in SUBSET Blk : Parted(F, G, H)
  BY DEF BlocksInv
<1>2. Has(Arrays, F) /\ Has(Files, G) /\ HandsOK(H)
  BY <1>1, ArraysAre DEF Parted, ListInv
<1>3. ASSUME NEW b \in Blk
      PROVE  Cardinality(In(Arrays, b)) + Cardinality(In(Files, b))
               + Cardinality(InHands(b)) = 1
  <2>1. /\ Cardinality(In(Arrays, b)) = IF b \in F THEN 1 ELSE 0
        /\ Cardinality(In(Files, b)) = IF b \in G THEN 1 ELSE 0
        /\ Cardinality(InHands(b)) = IF b \in H THEN 1 ELSE 0
    BY <1>2, HasCount, HandsCount
  <2>2. \/ b \in F /\ b \notin G /\ b \notin H
        \/ b \notin F /\ b \in G /\ b \notin H
        \/ b \notin F /\ b \notin G /\ b \in H
    BY <1>1 DEF Parted
  <2>3. QED BY <2>1, <2>2
<1>4. QED BY <1>3 DEF BlocksOnce, Files

(* alloc, free, itrunc, bmap: each block is in the free list, in one file  *)
(* or in the hands of one process, and there once, although alloc and free *)
(* sleep while an array of the list is on its way between a block and the  *)
(* super block: none is lost, given to two files or freed twice, if        *)
(* everyone's open looks at the mode.                                      *)
THEOREM BlocksAccounted ==
  ASSUME Su = {}
  PROVE  Spec => []BlocksOnce
<1>1. Init => BlocksInv
  BY InitBlocks
<1>2. BlocksInv /\ [Next]_vars => BlocksInv'
  BY NextBlocks
<1>3. BlocksInv => BlocksOnce
  BY OnceNow
<1>4. QED BY <1>1, <1>2, <1>3, PTL DEF Spec
=============================================================================
