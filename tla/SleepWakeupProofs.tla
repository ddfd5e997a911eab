------------------------- MODULE SleepWakeupProofs -------------------------
(***************************************************************************)
(* The queues of the scheduler: the one link of each process threads the   *)
(* queue its state asks for, a wakeup wakes all that sleep on its channel, *)
(* sched is told of work, and no signal is lost, for any number of         *)
(* processes and channels and any hash function, PROVIDED that no other    *)
(* channel is on the chain of &runout (RunOutAlone).                       *)
(***************************************************************************)
EXTENDS SleepWakeup, FiniteSetTheorems, WellFoundedInduction, TLAPS

(* No channel has the hash value of &runout, on which sched sleeps: the    *)
(* wakeup of sched inside another wakeup does not touch the chain that one *)
(* walks along.                                                            *)
RunOutAlone == \A c \in AllChan : Hash[c] = Hash[RunOut] => c = RunOut

-----------------------------------------------------------------------------
(* What each place of a range inherits from the one before it, every place *)
(* has.                                                                    *)
Closed(N, G) == N \in Nat /\ 0 \in G /\ \A k \in 1 .. N : k - 1 \in G => k \in G

LEMMA Least ==
  ASSUME NEW T, T \subseteq Nat, T # {}
  PROVE  \E x \in T : \A y \in T : x <= y
<1>1. PICK x \in T : \A y \in T : ~ (<<y, x>> \in OpToRel(<, Nat))
  BY NatLessThanWellFounded, WFMin
<1>2. \A y \in T : ~ (y < x)
  BY <1>1 DEF OpToRel
<1>3. QED BY <1>2

LEMMA AllReached ==
  \A N, G : Closed(N, G) => 0 .. N \subseteq G
<1> SUFFICES ASSUME NEW N, NEW G, Closed(N, G) PROVE 0 .. N \subseteq G
  OBVIOUS
<1>0. N \in Nat
  BY DEF Closed
<1> SUFFICES ASSUME (0 .. N) \ G # {} PROVE FALSE
  BY <1>0
<1>1. (0 .. N) \ G \subseteq Nat
  BY <1>0
<1>2. PICK x \in (0 .. N) \ G : \A y \in (0 .. N) \ G : x <= y
  BY <1>1, Least
<1>3. x \in 1 .. N
  BY <1>0 DEF Closed
<1>4. x - 1 \in 0 .. N /\ ~ (x <= x - 1)
  BY <1>0, <1>3
<1>5. x - 1 \in G
  BY <1>2, <1>4
<1>6. QED BY <1>2, <1>3, <1>5 DEF Closed

(* The processes and the channels.                                         *)
LEMMA ProcFacts ==
  /\ IsFiniteSet(AllProc) /\ NPROC \in Nat /\ NPROC # 0
  /\ NULL \notin AllProc /\ NULL \notin AllChan
  /\ Sched \in AllProc /\ Sched \notin Proc /\ Proc \subseteq AllProc
  /\ {RunOut, RunIn, SwapBuf} \subseteq AllChan /\ Chan \subseteq AllChan
  /\ \A c \in Chan : c # RunOut /\ c # RunIn /\ c # SwapBuf
  /\ RunOut # RunIn /\ RunIn # SwapBuf /\ SwapBuf # RunOut
  /\ \A c \in AllChan : Hash[c] \in Bucket
<1>1. IsFiniteSet(AllProc)
  BY SizeAssumption, FS_AddElement DEF AllProc
<1>2. NPROC \in Nat /\ NPROC # 0
  BY <1>1, FS_CardinalityType, FS_EmptySet DEF NPROC, AllProc
<1>3. QED BY <1>1, <1>2, SizeAssumption, ChanAssumption DEF AllProc, AllChan, Bucket

-----------------------------------------------------------------------------
(* Lists.  The processes of all the lists have ranks, no two the same, and *)
(* a list is in the order of the ranks: to take a process from a list      *)
(* changes no rank, and one that is put at the head gets a rank below all. *)
Ranks(f) ==
  /\ f \in [AllProc -> Int]
  /\ \A x, y \in AllProc : f[x] = f[y] => x = y
  /\ \E lo \in Int : \A x \in AllProc : lo < f[x]

(* The list that begins with head holds the processes S.                   *)
Thread(f, lnk, head, S) ==
  /\ head = NULL => S = {}
  /\ head # NULL => head \in S /\ \A z \in S : f[head] <= f[z]
  /\ \A x \in S : lnk[x] = NULL => \A z \in S : f[z] <= f[x]
  /\ \A x \in S : lnk[x] # NULL =>
        /\ lnk[x] \in S /\ f[x] < f[lnk[x]]
        /\ \A z \in S : f[z] <= f[x] \/ f[lnk[x]] <= f[z]

(* p gets a rank below all.                                                *)
LEMMA NewRank ==
  ASSUME NEW f, Ranks(f), NEW p \in AllProc
  PROVE  \E g : /\ Ranks(g) /\ \A x \in AllProc : x # p => g[x] = f[x] /\ g[p] < g[x]
<1>1. PICK lo \in Int : \A x \in AllProc : lo < f[x]
  BY DEF Ranks
<1> DEFINE g == [f EXCEPT ![p] = lo]
<1>2. g \in [AllProc -> Int] /\ g[p] = lo /\ \A x \in AllProc : x # p => g[x] = f[x]
  BY DEF Ranks
<1> HIDE DEF g
<1>3. \A x \in AllProc : f[x] \in Int
  BY DEF Ranks
<1>4. \A x \in AllProc : lo - 1 < g[x]
  BY <1>1, <1>2, <1>3
<1>5. \A x, y \in AllProc : g[x] = g[y] => x = y
  BY <1>1, <1>2, <1>3 DEF Ranks
<1>6. lo - 1 \in Int
  OBVIOUS
<1>7. Ranks(g)
  BY <1>2, <1>4, <1>5, <1>6 DEF Ranks
<1>8. QED BY <1>1, <1>2, <1>7

(* p is put at the head.                                                   *)
LEMMA ThreadPush ==
  ASSUME NEW f, NEW g, Ranks(f), Ranks(g), NEW p \in AllProc,
         \A x \in AllProc : x # p => g[x] = f[x] /\ g[p] < g[x],
         NEW lnk \in [AllProc -> AllProc \cup {NULL}], NEW h, NEW S,
         S \subseteq AllProc, p \notin S, Thread(f, lnk, h, S)
  PROVE  Thread(g, [lnk EXCEPT ![p] = h], p, S \cup {p})
<1> DEFINE l == [lnk EXCEPT ![p] = h]
<1>1. l[p] = h /\ \A x \in AllProc : x # p => l[x] = lnk[x]
  OBVIOUS
<1>2. p # NULL
  BY ProcFacts
<1>3. \A x \in AllProc : f[x] \in Int /\ g[x] \in Int
  BY DEF Ranks
<1> HIDE DEF l
<1>4. \A z \in S : z \in AllProc /\ z # p /\ g[z] = f[z] /\ l[z] = lnk[z] /\ g[p] < g[z]
  BY <1>1
<1>5. h # NULL => h \in S
  BY DEF Thread
<1>6. /\ \A z \in S \cup {p} : g[p] <= g[z]
      /\ p \in S \cup {p}
  BY <1>3, <1>4
<1>7. ASSUME NEW x \in S \cup {p}, l[x] = NULL, NEW z \in S \cup {p}
      PROVE  g[z] <= g[x]
  <2>1. CASE x = p
    BY <1>1, <1>3, <1>7, <2>1 DEF Thread
  <2>2. CASE x # p /\ z # p
    BY <1>4, <1>7, <2>2 DEF Thread
  <2>3. CASE x # p /\ z = p
    BY <1>3, <1>4, <2>3
  <2>4. QED BY <2>1, <2>2, <2>3
<1>8. ASSUME NEW x \in S \cup {p}, l[x] # NULL
      PROVE  /\ l[x] \in S /\ g[x] < g[l[x]]
             /\ \A z \in S \cup {p} : g[z] <= g[x] \/ g[l[x]] <= g[z]
  <2>1. CASE x = p
    <3>1. l[x] = h /\ h \in S
      BY <1>1, <1>5, <1>8, <2>1
    <3>2. \A z \in S : g[h] <= g[z]
      BY <1>4, <3>1 DEF Thread
    <3>3. QED BY <1>3, <1>4, <2>1, <3>1, <3>2
  <2>2. CASE x # p
    <3>1. /\ x \in S /\ lnk[x] \in S /\ l[x] = lnk[x] /\ f[x] < f[lnk[x]]
          /\ \A z \in S : f[z] <= f[x] \/ f[lnk[x]] <= f[z]
      BY <1>4, <1>8, <2>2 DEF Thread
    <3>2. \A z \in S : g[z] <= g[x] \/ g[l[x]] <= g[z]
      BY <1>4, <3>1
    <3>3. g[p] <= g[x]
      BY <1>3, <1>4, <3>1
    <3>4. g[x] < g[l[x]]
      BY <1>4, <3>1
    <3>5. QED BY <3>1, <3>2, <3>3, <3>4
  <2>3. QED BY <2>1, <2>2
<1>9. QED BY <1>2, <1>6, <1>7, <1>8 DEF Thread, l

(* A list does not depend on the others.                                   *)
LEMMA ThreadSame ==
  ASSUME NEW f, NEW g, NEW lnk, NEW l, NEW h, NEW S, Thread(f, lnk, h, S),
         \A x \in S : g[x] = f[x] /\ l[x] = lnk[x]
  PROVE  Thread(g, l, h, S)
BY DEF Thread

(* The first leaves the list.                                              *)
LEMMA ThreadTail ==
  ASSUME NEW f, Ranks(f), NEW lnk, NEW h, NEW S, S \subseteq AllProc,
         h # NULL, Thread(f, lnk, h, S)
  PROVE  Thread(f, lnk, lnk[h], S \ {h})
<1>1. \A x, y \in AllProc : f[x] \in Int /\ (f[x] = f[y] => x = y)
  BY DEF Ranks
<1>2. h \in S /\ \A z \in S : f[h] <= f[z]
  BY DEF Thread
<1>3. lnk[h] = NULL => S \ {h} = {}
  BY <1>1, <1>2 DEF Thread
<1>4. lnk[h] # NULL => lnk[h] \in S \ {h} /\ \A z \in S \ {h} : f[lnk[h]] <= f[z]
  BY <1>1, <1>2 DEF Thread
<1>5. \A x \in S \ {h} : lnk[x] # NULL => lnk[x] # h
  BY <1>1, <1>2 DEF Thread
<1>6. QED BY <1>3, <1>4, <1>5 DEF Thread

(* The one after q leaves the list.                                        *)
LEMMA ThreadCut ==
  ASSUME NEW f, Ranks(f), NEW lnk \in [AllProc -> AllProc \cup {NULL}], NEW h, NEW S,
         S \subseteq AllProc, Thread(f, lnk, h, S), NEW q \in S, lnk[q] # NULL
  PROVE  /\ lnk[q] \in S
         /\ Thread(f, [lnk EXCEPT ![q] = lnk[lnk[q]]], h, S \ {lnk[q]})
<1> DEFINE p == lnk[q]
           l == [lnk EXCEPT ![q] = lnk[p]]
<1>1. \A x, y \in AllProc : f[x] \in Int /\ (f[x] = f[y] => x = y)
  BY DEF Ranks
<1>2. p \in S /\ f[q] < f[p] /\ \A z \in S : f[z] <= f[q] \/ f[p] <= f[z]
  BY DEF Thread
<1>3. l[q] = lnk[p] /\ \A x \in AllProc : x # q => l[x] = lnk[x]
  OBVIOUS
<1> HIDE DEF p, l
<1>4. h # NULL /\ h \in S /\ \A z \in S : f[h] <= f[z]
  BY DEF Thread
<1>5. h # p /\ q # p
  BY <1>1, <1>2, <1>4
<1>6. ASSUME NEW x \in S \ {p}, x # q, lnk[x] # NULL PROVE lnk[x] # p
  <2>1. f[x] < f[lnk[x]] /\ (f[q] <= f[x] \/ f[lnk[x]] <= f[q])
    BY <1>6 DEF Thread
  <2>2. f[x] <= f[q] \/ f[p] <= f[x]
    BY <1>2
  <2>3. QED BY <1>1, <1>2, <1>6, <2>1, <2>2
<1>7. ASSUME NEW x \in S \ {p}, l[x] = NULL PROVE \A z \in S \ {p} : f[z] <= f[x]
  <2>1. CASE x # q
    BY <1>3, <1>7, <2>1 DEF Thread
  <2>2. CASE x = q
    <3>1. \A z \in S : f[z] <= f[p]
      BY <1>2, <1>3, <1>7, <2>2 DEF Thread
    <3>2. QED BY <1>1, <1>2, <2>2, <3>1
  <2>3. QED BY <2>1, <2>2
<1>8. ASSUME NEW x \in S \ {p}, l[x] # NULL
      PROVE  /\ l[x] \in S \ {p} /\ f[x] < f[l[x]]
             /\ \A z \in S \ {p} : f[z] <= f[x] \/ f[l[x]] <= f[z]
  <2>1. CASE x # q
    <3>1. l[x] = lnk[x] /\ lnk[x] # NULL
      BY <1>3, <1>8, <2>1
    <3>2. /\ lnk[x] \in S /\ f[x] < f[lnk[x]]
          /\ \A z \in S : f[z] <= f[x] \/ f[lnk[x]] <= f[z]
      BY <3>1 DEF Thread
    <3>3. lnk[x] # p
      BY <1>6, <2>1, <3>1
    <3>4. QED BY <3>1, <3>2, <3>3
  <2>2. CASE x = q
    <3>1. l[x] = lnk[p] /\ lnk[p] # NULL
      BY <1>3, <1>8, <2>2
    <3>2. /\ lnk[p] \in S /\ f[p] < f[lnk[p]]
          /\ \A z \in S : f[z] <= f[p] \/ f[lnk[p]] <= f[z]
      BY <1>2, <3>1 DEF Thread
    <3>3. \A z \in S : f[z] \in Int
      BY <1>1
    <3>4. lnk[p] # p /\ f[q] < f[lnk[p]]
      BY <1>2, <3>2, <3>3
    <3>5. \A z \in S \ {p} : f[z] <= f[q] \/ f[lnk[p]] <= f[z]
      BY <1>1, <1>2, <3>2, <3>3
    <3>6. QED BY <2>2, <3>1, <3>2, <3>4, <3>5
  <2>3. QED BY <2>1, <2>2
<1>9. Thread(f, l, h, S \ {p})
  BY <1>4, <1>5, <1>7, <1>8 DEF Thread
<1>10. QED BY <1>2, <1>9 DEF p, l

-----------------------------------------------------------------------------
(* What the loops along the links meet.                                    *)
Follow(lnk, x) == IF x = NULL THEN NULL ELSE lnk[x]

LEMMA Places ==
  /\ 1 \in 1 .. NPROC + 1 /\ NPROC + 1 \in 1 .. NPROC + 1
  /\ \A k \in 2 .. NPROC + 1 : /\ k \in 1 .. NPROC + 1 /\ k - 1 \in 1 .. NPROC + 1
                               /\ k # 1 /\ k - 1 # k /\ k - 1 \in 1 .. NPROC
  /\ \A k \in 1 .. NPROC : /\ k + 1 \in 2 .. NPROC + 1 /\ k + 1 - 1 = k
                           /\ k \in 1 .. NPROC + 1
  /\ \A k \in 1 .. NPROC + 1 : k # 1 => k \in 2 .. NPROC + 1
BY ProcFacts

LEMMA MetSteps ==
  ASSUME NEW lnk, NEW h
  PROVE  /\ Met(lnk, h)[1] = h
         /\ \A k \in 2 .. NPROC + 1 : Met(lnk, h)[k] = Follow(lnk, Met(lnk, h)[k - 1])
<1> DEFINE Upto(n, f) == /\ f = [i \in 1 .. NPROC + 1 |-> f[i]] /\ f[1] = h
                         /\ \A k \in 2 .. NPROC + 1 :
                              k <= n + 1 => f[k] = Follow(lnk, f[k - 1])
           G == {n \in 0 .. NPROC : \E f : Upto(n, f)}
           Rec(m) == m = [i \in 1 .. NPROC + 1 |->
                            IF i = 1 THEN h
                            ELSE IF m[i - 1] = NULL THEN NULL ELSE lnk[m[i - 1]]]
<1>1. 0 \in G
  <2>1. Upto(0, [i \in 1 .. NPROC + 1 |-> h])
    BY Places, ProcFacts
  <2>2. QED BY <2>1, ProcFacts
<1>2. ASSUME NEW n \in 1 .. NPROC, n - 1 \in G PROVE n \in G
  <2>1. PICK f : Upto(n - 1, f)
    BY <1>2
  <2> DEFINE g == [f EXCEPT ![n + 1] = Follow(lnk, f[n])]
  <2>2. g = [i \in 1 .. NPROC + 1 |-> IF i = n + 1 THEN Follow(lnk, f[n]) ELSE f[i]]
    BY <2>1
  <2> HIDE DEF g
  <2>3. g = [i \in 1 .. NPROC + 1 |-> g[i]] /\ g[n + 1] = Follow(lnk, f[n])
        /\ \A k \in 1 .. NPROC + 1 : k # n + 1 => g[k] = f[k]
    BY <2>2, Places
  <2>4. g[1] = h
    BY <2>1, <2>3, Places
  <2>5. ASSUME NEW k \in 2 .. NPROC + 1, k <= n + 1 PROVE g[k] = Follow(lnk, g[k - 1])
    <3>1. k - 1 # n + 1 /\ g[k - 1] = f[k - 1]
      BY <2>3, <2>5, Places, ProcFacts
    <3>2. CASE k = n + 1
      <4>1. k - 1 = n
        BY <3>2
      <4>2. QED BY <2>3, <3>1, <3>2, <4>1
    <3>3. CASE k # n + 1
      <4>1. k <= (n - 1) + 1 /\ k \in 1 .. NPROC + 1
        BY <2>5, <3>3, Places, ProcFacts
      <4>2. QED BY <2>1, <2>3, <3>1, <3>3, <4>1
    <3>4. QED BY <3>2, <3>3
  <2>6. Upto(n, g)
    BY <2>3, <2>4, <2>5
  <2> HIDE DEF Upto
  <2>7. \E y : Upto(n, y)
    BY <2>6
  <2>8. QED BY <2>7, ProcFacts
<1>3. NPROC \in G
  <2> HIDE DEF G
  <2>1. Closed(NPROC, G)
    BY <1>1, <1>2, ProcFacts DEF Closed
  <2>2. 0 .. NPROC \subseteq G /\ NPROC \in 0 .. NPROC
    BY <2>1, AllReached, ProcFacts
  <2>3. QED BY <2>2
<1>4. PICK f : Upto(NPROC, f)
  BY <1>3
<1>5. Rec(f)
  <2>0. \A i \in 2 .. NPROC + 1 : i <= NPROC + 1
    BY ProcFacts
  <2>1. ASSUME NEW i \in 1 .. NPROC + 1
        PROVE  f[i] = IF i = 1 THEN h ELSE Follow(lnk, f[i - 1])
    BY <1>4, <2>0, Places
  <2>2. f = [i \in 1 .. NPROC + 1 |-> IF i = 1 THEN h ELSE Follow(lnk, f[i - 1])]
    BY <1>4, <2>1
  <2>3. QED BY <2>2 DEF Follow
<1>6. Met(lnk, h) = CHOOSE m : Rec(m)
  BY DEF Met
<1>7. Rec(Met(lnk, h))
  <2> HIDE DEF Rec
  <2>1. QED BY <1>5, <1>6
<1> DEFINE w == Met(lnk, h)
<1>8. w = [i \in 1 .. NPROC + 1 |-> IF i = 1 THEN h ELSE Follow(lnk, w[i - 1])]
  BY <1>7 DEF Follow
<1> HIDE DEF w
<1>9. w[1] = h /\ \A k \in 2 .. NPROC + 1 : w[k] = Follow(lnk, w[k - 1])
  BY <1>8, Places
<1>10. QED BY <1>9 DEF w

(* The processes of the list before z.                                     *)
Before(f, S, z) == {y \in S : f[y] < f[z]}

LEMMA BeforeFacts ==
  ASSUME NEW f, Ranks(f), NEW S, S \subseteq AllProc
  PROVE  /\ IsFiniteSet(S) /\ Cardinality(S) \in Nat /\ Cardinality(S) <= NPROC
         /\ \A z \in S : /\ Cardinality(Before(f, S, z)) \in Nat
                         /\ Cardinality(Before(f, S, z)) < Cardinality(S)
         /\ \A y, z \in S : Cardinality(Before(f, S, y)) = Cardinality(Before(f, S, z))
                               => y = z
<1>1. IsFiniteSet(S) /\ Cardinality(S) \in Nat /\ Cardinality(S) <= NPROC
  BY ProcFacts, FS_Subset, FS_CardinalityType DEF NPROC
<1>2. \A x, y \in S : f[x] \in Int /\ (f[x] = f[y] => x = y)
  BY DEF Ranks
<1>3. ASSUME NEW A, A \subseteq S, NEW B, B \subseteq S, A \subseteq B, NEW z \in B \ A
      PROVE  /\ Cardinality(A) \in Nat /\ Cardinality(B) \in Nat
             /\ Cardinality(A) < Cardinality(B)
  <2>1. IsFiniteSet(A) /\ IsFiniteSet(B) /\ IsFiniteSet(A \cup {z}) /\ A \cup {z} \subseteq B
    BY <1>1, <1>3, FS_Subset
  <2>2. Cardinality(A \cup {z}) = Cardinality(A) + 1
    BY <1>3, <2>1, FS_AddElement
  <2>3. Cardinality(A) \in Nat /\ Cardinality(B) \in Nat
        /\ Cardinality(A \cup {z}) <= Cardinality(B)
    BY <2>1, FS_Subset, FS_CardinalityType
  <2>4. QED BY <2>2, <2>3
<1>4. ASSUME NEW z \in S
      PROVE  /\ Cardinality(Before(f, S, z)) \in Nat
             /\ Cardinality(Before(f, S, z)) < Cardinality(S)
  <2>1. Before(f, S, z) \subseteq S /\ z \notin Before(f, S, z)
    BY <1>2 DEF Before
  <2>2. QED BY <1>3, <2>1
<1>5. ASSUME NEW y \in S, NEW z \in S, f[y] < f[z]
      PROVE  Cardinality(Before(f, S, y)) # Cardinality(Before(f, S, z))
  <2>1. /\ Before(f, S, y) \subseteq S /\ Before(f, S, z) \subseteq S
        /\ y \in Before(f, S, z) \ Before(f, S, y)
    BY <1>2, <1>5 DEF Before
  <2>2. Before(f, S, y) \subseteq Before(f, S, z)
    BY <1>2, <1>5 DEF Before
  <2>3. Cardinality(Before(f, S, y)) < Cardinality(Before(f, S, z))
        /\ Cardinality(Before(f, S, y)) \in Nat /\ Cardinality(Before(f, S, z)) \in Nat
    BY <1>3, <2>1, <2>2
  <2>4. QED BY <2>3
<1>6. ASSUME NEW y \in S, NEW z \in S,
             Cardinality(Before(f, S, y)) = Cardinality(Before(f, S, z))
      PROVE  y = z
  BY <1>2, <1>5, <1>6
<1>7. QED BY <1>1, <1>4, <1>6

(* The loops meet the processes of the list, in its order, and end.        *)
LEMMA MetIs ==
  ASSUME NEW f, Ranks(f), NEW lnk, NEW h, NEW S, S \subseteq AllProc, Thread(f, lnk, h, S)
  PROVE  /\ \A i \in 1 .. NPROC + 1 :
              IF Met(lnk, h)[i] = NULL THEN Cardinality(S) < i
              ELSE /\ Met(lnk, h)[i] \in S
                   /\ i = Cardinality(Before(f, S, Met(lnk, h)[i])) + 1
         /\ On(lnk, h) = S /\ Met(lnk, h)[NPROC + 1] = NULL
<1> DEFINE m == Met(lnk, h)
           At(i) == IF m[i] = NULL THEN Cardinality(S) < i
                    ELSE m[i] \in S /\ i = Cardinality(Before(f, S, m[i])) + 1
           G == {n \in 0 .. NPROC : At(n + 1)}
<1>0. /\ IsFiniteSet(S) /\ Cardinality(S) \in Nat /\ Cardinality(S) <= NPROC
      /\ \A z \in S : /\ Cardinality(Before(f, S, z)) \in Nat
                      /\ Cardinality(Before(f, S, z)) < Cardinality(S)
      /\ \A y, z \in S : Cardinality(Before(f, S, y)) = Cardinality(Before(f, S, z)) => y = z
  BY BeforeFacts
<1>1. m[1] = h /\ \A k \in 2 .. NPROC + 1 : m[k] = Follow(lnk, m[k - 1])
  BY MetSteps
<1> HIDE DEF m
<1>2. \A x, y \in S : f[x] \in Int /\ (f[x] = f[y] => x = y) /\ x # NULL
  BY ProcFacts DEF Ranks
<1>3. At(1)
  <2>1. CASE h = NULL
    <3>1. Cardinality(S) = 0
      BY <2>1, FS_EmptySet DEF Thread
    <3>2. QED BY <1>1, <2>1, <3>1
  <2>2. CASE h # NULL
    <3>1. h \in S /\ Before(f, S, h) = {}
      BY <1>2, <2>2 DEF Thread, Before
    <3>2. Cardinality(Before(f, S, h)) = 0
      BY <3>1, FS_EmptySet
    <3>3. QED BY <1>1, <2>2, <3>1, <3>2
  <2>3. QED BY <2>1, <2>2
<1>4. ASSUME NEW n \in 1 .. NPROC, At(n) PROVE At(n + 1)
  <2>1. m[n + 1] = Follow(lnk, m[n])
    BY <1>1, Places
  <2>2. CASE m[n] = NULL
    BY <1>0, <1>4, <2>1, <2>2 DEF Follow
  <2>3. CASE m[n] # NULL
    <3> DEFINE x == m[n]
               B == Before(f, S, x)
    <3>1. x \in S /\ n = Cardinality(B) + 1 /\ m[n + 1] = lnk[x]
      BY <1>4, <2>1, <2>3 DEF Follow
    <3>2. B \subseteq S /\ x \notin B /\ IsFiniteSet(B)
      <4>0. f[x] \in Int
        BY <1>2, <3>1
      <4>3. ~ (f[x] < f[x])
        BY <4>0
      <4>1. B \subseteq S /\ x \notin B
        BY <4>3 DEF Before
      <4> HIDE DEF B
      <4>2. QED BY <1>0, <4>1, FS_Subset
    <3>3. Cardinality(B \cup {x}) = Cardinality(B) + 1
      BY <3>2, FS_AddElement
    <3>4. CASE lnk[x] = NULL
      <4>1. \A z \in S : f[z] <= f[x]
        BY <3>1, <3>4 DEF Thread
      <4>3. \A z \in S : z # x => f[z] < f[x]
        BY <1>2, <3>1, <4>1
      <4>4. S = B \cup {x}
        BY <3>1, <3>2, <4>3 DEF Before
      <4>2. QED BY <1>0, <3>1, <3>3, <3>4, <4>4
    <3>5. CASE lnk[x] # NULL
      <4>1. /\ lnk[x] \in S /\ f[x] < f[lnk[x]]
            /\ \A z \in S : f[z] <= f[x] \/ f[lnk[x]] <= f[z]
        BY <3>1, <3>5 DEF Thread
      <4>2. \A z \in S : f[z] < f[lnk[x]] <=> f[z] < f[x] \/ z = x
        BY <1>2, <3>1, <4>1
      <4>3. Before(f, S, lnk[x]) = B \cup {x}
        BY <3>1, <4>2 DEF Before
      <4>4. QED BY <3>1, <3>3, <3>5, <4>1, <4>3
    <3>6. QED BY <3>4, <3>5
  <2>4. QED BY <2>2, <2>3
<1>5. 0 .. NPROC \subseteq G
  <2>1. 0 \in G
    BY <1>3, ProcFacts
  <2>2. \A k \in 1 .. NPROC : k - 1 \in G => k \in G
    <3>1. TAKE k \in 1 .. NPROC
    <3>2. (k - 1) + 1 = k /\ k \in 0 .. NPROC
      OBVIOUS
    <3>3. QED BY <1>4, <3>2
  <2> HIDE DEF G
  <2>3. QED BY <2>1, <2>2, AllReached, ProcFacts DEF Closed
<1>6. \A i \in 1 .. NPROC + 1 : At(i)
  <2>1. TAKE i \in 1 .. NPROC + 1
  <2>2. i - 1 \in 0 .. NPROC /\ (i - 1) + 1 = i
    BY ProcFacts
  <2>3. QED BY <1>5, <2>2
<1>7. m[NPROC + 1] = NULL
  <2>1. At(NPROC + 1)
    BY <1>6, Places
  <2>2. QED BY <1>0, <2>1, ProcFacts
<1>8. On(lnk, h) = S
  <2>1. On(lnk, h) = {m[i] : i \in 1 .. NPROC} \ {NULL}
    BY DEF On, m
  <2>2. ASSUME NEW i \in 1 .. NPROC, m[i] # NULL PROVE m[i] \in S
    BY <1>6, <2>2, Places
  <2>3. ASSUME NEW z \in S PROVE \E i \in 1 .. NPROC : m[i] = z
    <3>1. Cardinality(Before(f, S, z)) + 1 \in 1 .. NPROC
      BY <1>0, ProcFacts
    <3>2. PICK i \in 1 .. NPROC : i = Cardinality(Before(f, S, z)) + 1
      BY <3>1
    <3>3. m[i] # NULL
      BY <1>0, <1>6, <3>2, Places
    <3>4. m[i] \in S /\ Cardinality(Before(f, S, m[i])) = Cardinality(Before(f, S, z))
      BY <1>0, <1>6, <3>2, <3>3, Places
    <3>5. QED BY <1>0, <3>4
  <2>4. QED BY <1>2, <2>1, <2>2, <2>3
<1>9. QED BY <1>6, <1>7, <1>8 DEF m

-----------------------------------------------------------------------------
(* The queues of the record k are in order.  The processes off are on no   *)
(* queue: the one that runs, one that wakeup has just taken from its chain *)
(* or one that is stopped.                                                 *)
Queues == [slpque : [Bucket -> AllProc \cup {NULL}], runq : AllProc \cup {NULL},
           link : [AllProc -> AllProc \cup {NULL}],
           wchan : [AllProc -> AllChan \cup {NULL}],
           stat : [AllProc -> {"SRUN", "SSLEEP", "SSTOP"}],
           runout : BOOLEAN, runrun : BOOLEAN, onq : BOOLEAN, hung : BOOLEAN]

Asleep(k, b) == {p \in AllProc : k.wchan[p] # NULL /\ Hash[k.wchan[p]] = b}
Ready(k, off) == {p \in AllProc : k.stat[p] = "SRUN" /\ p \notin off}

Tidy(k, off, f) ==
  /\ k \in Queues /\ ~ k.onq /\ ~ k.hung /\ Ranks(f)
  /\ off \subseteq AllProc /\ \A p \in off : k.wchan[p] = NULL
  /\ \A p \in AllProc \ off : k.wchan[p] # NULL <=> k.stat[p] = "SSLEEP"
  /\ \A p \in Proc : k.wchan[p] # RunOut
  /\ \A b \in Bucket : Thread(f, k.link, k.slpque[b], Asleep(k, b))
  /\ Thread(f, k.link, k.runq, Ready(k, off))

LEMMA QueuesFacts ==
  ASSUME NEW k \in Queues
  PROVE  /\ k.slpque \in [Bucket -> AllProc \cup {NULL}] /\ k.runq \in AllProc \cup {NULL}
         /\ k.link \in [AllProc -> AllProc \cup {NULL}]
         /\ k.wchan \in [AllProc -> AllChan \cup {NULL}]
         /\ k.stat \in [AllProc -> {"SRUN", "SSLEEP", "SSTOP"}]
         /\ k.runout \in BOOLEAN /\ k.runrun \in BOOLEAN
         /\ k.onq \in BOOLEAN /\ k.hung \in BOOLEAN
BY DEF Queues

(* setrq and the assignments of setrun before it, of a process on no queue.*)
LEMMA EnqueueIs ==
  ASSUME NEW k \in Queues, NEW p \in AllProc, p \notin On(k.link, k.runq)
  PROVE  /\ Enqueue(k, p) \in Queues
         /\ Enqueue(k, p).slpque = k.slpque /\ Enqueue(k, p).runq = p
         /\ Enqueue(k, p).link = [k.link EXCEPT ![p] = k.runq]
         /\ Enqueue(k, p).wchan = k.wchan
         /\ Enqueue(k, p).stat = [k.stat EXCEPT ![p] = "SRUN"]
         /\ Enqueue(k, p).runout = k.runout /\ Enqueue(k, p).onq = k.onq
         /\ Enqueue(k, p).hung = k.hung
<1> DEFINE s == [k EXCEPT !.stat[p] = "SRUN"]
           r == SetRq(s, p)
<1>1. s \in Queues /\ s.slpque = k.slpque /\ s.runq = k.runq /\ s.link = k.link
      /\ s.wchan = k.wchan /\ s.stat = [k.stat EXCEPT ![p] = "SRUN"]
      /\ s.runout = k.runout /\ s.onq = k.onq /\ s.hung = k.hung
  BY DEF Queues
<1> HIDE DEF s
<1>2. r = [s EXCEPT !.link[p] = s.runq, !.runq = p]
  BY <1>1 DEF SetRq
<1>3. r \in Queues /\ r.slpque = s.slpque /\ r.runq = p
      /\ r.link = [s.link EXCEPT ![p] = s.runq] /\ r.wchan = s.wchan /\ r.stat = s.stat
      /\ r.runout = s.runout /\ r.onq = s.onq /\ r.hung = s.hung
  <2> DEFINE v == [s EXCEPT !.link[p] = s.runq]
  <2>1. s.runq \in AllProc \cup {NULL} /\ s.link \in [AllProc -> AllProc \cup {NULL}]
    BY <1>1, QueuesFacts
  <2>2. v \in Queues /\ v.slpque = s.slpque
        /\ v.link = [s.link EXCEPT ![p] = s.runq] /\ v.wchan = s.wchan /\ v.stat = s.stat
        /\ v.runout = s.runout /\ v.onq = s.onq /\ v.hung = s.hung
    BY <1>1, <2>1 DEF Queues
  <2>3. r = [v EXCEPT !.runq = p]
    BY <1>2
  <2> HIDE DEF v, r
  <2>4. r \in Queues /\ r.slpque = v.slpque /\ r.runq = p
        /\ r.link = v.link /\ r.wchan = v.wchan /\ r.stat = v.stat
        /\ r.runout = v.runout /\ r.onq = v.onq /\ r.hung = v.hung
    BY <2>2, <2>3 DEF Queues
  <2>5. QED BY <2>2, <2>4
<1>4. Enqueue(k, p) = [r EXCEPT !.runrun = @ \/ pri[p] < curpri]
  BY DEF Enqueue, s
<1> HIDE DEF r
<1> DEFINE e == [r EXCEPT !.runrun = @ \/ pri[p] < curpri]
<1>5. (r.runrun \/ pri[p] < curpri) \in BOOLEAN
  OBVIOUS
<1>6. e \in Queues /\ e.slpque = r.slpque /\ e.runq = r.runq /\ e.link = r.link
      /\ e.wchan = r.wchan /\ e.stat = r.stat
      /\ e.runout = r.runout /\ e.onq = r.onq /\ e.hung = r.hung
  BY <1>3, <1>5 DEF Queues
<1> HIDE DEF e
<1>7. Enqueue(k, p) = e
  BY <1>4 DEF e
<1>8. QED BY <1>1, <1>3, <1>6, <1>7

(* The lists have no process in common.                                    *)
LEMMA TidyFacts ==
  ASSUME NEW k, NEW off, NEW f, Tidy(k, off, f)
  PROVE  /\ On(k.link, k.runq) = Ready(k, off)
         /\ \A b \in Bucket : \A x \in Asleep(k, b) :
              /\ x \notin Ready(k, off) /\ x \notin off
              /\ \A c \in Bucket : x \in Asleep(k, c) => b = c
         /\ \A x \in AllProc : k.wchan[x] # NULL =>
              /\ k.wchan[x] \in AllChan /\ Hash[k.wchan[x]] \in Bucket
              /\ x \in Asleep(k, Hash[k.wchan[x]])
         /\ \A b \in Bucket : Asleep(k, b) \subseteq AllProc
         /\ Ready(k, off) \subseteq AllProc /\ off \subseteq AllProc
<1>1. On(k.link, k.runq) = Ready(k, off)
  <2>1. Ready(k, off) \subseteq AllProc
    BY DEF Ready
  <2>2. Thread(f, k.link, k.runq, Ready(k, off)) /\ Ranks(f)
    BY DEF Tidy
  <2>3. QED BY <2>1, <2>2, MetIs
<1>2. k.wchan \in [AllProc -> AllChan \cup {NULL}]
  BY DEF Tidy, Queues
<1>3. QED BY <1>1, <1>2, ProcFacts DEF Tidy, Asleep, Ready

(* setrun of p leaves r.                                                   *)
Enqueued(k, off, f, p, r) ==
  /\ r \in Queues /\ r.slpque = k.slpque
  /\ \A x \in AllProc : x # p => r.link[x] = k.link[x]
  /\ r.wchan = k.wchan /\ r.stat[p] = "SRUN"
  /\ \A x \in AllProc : x # p => r.stat[x] = k.stat[x]
  /\ r.runout = k.runout
  /\ \E g : Tidy(r, off \ {p}, g) /\ \A x \in AllProc : x # p => g[x] = f[x]

CanEnqueue(k, off, f, p) == Tidy(k, off, f) /\ p \in off

LEMMA EnqueueOK ==
  \A k, off, f, p : CanEnqueue(k, off, f, p) => Enqueued(k, off, f, p, Enqueue(k, p))
<1> SUFFICES ASSUME NEW k, NEW off, NEW f, NEW p, CanEnqueue(k, off, f, p)
             PROVE  Enqueued(k, off, f, p, Enqueue(k, p))
  OBVIOUS
<1>0. Tidy(k, off, f) /\ p \in off
  BY DEF CanEnqueue
<1> DEFINE S == Ready(k, off)
           r == Enqueue(k, p)
           o == off \ {p}
<1>1. k \in Queues /\ p \in AllProc /\ Ranks(f) /\ k.link \in [AllProc -> AllProc \cup {NULL}]
  BY <1>0 DEF Tidy, Queues
<1>2. p \notin S /\ S \subseteq AllProc
  BY <1>0 DEF Ready
<1>3. /\ r \in Queues /\ r.slpque = k.slpque /\ r.runq = p
      /\ r.link = [k.link EXCEPT ![p] = k.runq] /\ r.wchan = k.wchan
      /\ r.stat = [k.stat EXCEPT ![p] = "SRUN"] /\ r.runout = k.runout
      /\ r.onq = k.onq /\ r.hung = k.hung
  BY <1>0, <1>1, <1>2, EnqueueIs, TidyFacts
<1> HIDE DEF r, o
<1>4. PICK g : /\ Ranks(g)
               /\ \A x \in AllProc : x # p => g[x] = f[x] /\ g[p] < g[x]
  BY <1>1, NewRank
<1>5. Thread(g, r.link, r.runq, S \cup {p})
  <2>1. Thread(f, k.link, k.runq, S)
    BY <1>0 DEF Tidy
  <2> HIDE DEF S
  <2>2. QED BY <1>1, <1>2, <1>3, <1>4, <2>1, ThreadPush
<1>6. Ready(r, o) = S \cup {p}
  BY <1>0, <1>1, <1>3 DEF Ready, Queues, o
<1>7. \A x \in AllProc : x # p => r.link[x] = k.link[x]
  BY <1>1, <1>3
<1>8. ASSUME NEW b \in Bucket PROVE Thread(g, r.link, r.slpque[b], Asleep(r, b))
  <2>1. Thread(f, k.link, k.slpque[b], Asleep(k, b))
    BY <1>0 DEF Tidy
  <2>2. \A x \in Asleep(k, b) : x \in AllProc /\ x # p
    BY <1>0, TidyFacts
  <2>3. Asleep(r, b) = Asleep(k, b)
    BY <1>3 DEF Asleep
  <2>4. \A x \in Asleep(k, b) : g[x] = f[x] /\ r.link[x] = k.link[x]
    BY <1>4, <1>7, <2>2
  <2>5. Thread(g, r.link, k.slpque[b], Asleep(k, b))
    BY <2>1, <2>4, ThreadSame
  <2>6. QED BY <1>3, <2>3, <2>5
<1>9. \A x \in AllProc \ (o) : r.wchan[x] # NULL <=> r.stat[x] = "SSLEEP"
  BY <1>0, <1>1, <1>3 DEF Tidy, Queues, o
<1>10. Tidy(r, o, g)
  BY <1>3, <1>4, <1>5, <1>6, <1>8, <1>9, <1>0 DEF Tidy, o
<1>11. r.stat[p] = "SRUN" /\ \A x \in AllProc : x # p => r.stat[x] = k.stat[x]
  BY <1>1, <1>3 DEF Queues
<1>12. QED BY <1>3, <1>4, <1>7, <1>10, <1>11 DEF Enqueued, r, o

(* wakeup takes p, which follows q, from its chain.                        *)
Follows(k, c, q, p) ==
  IF q = NULL THEN k.slpque[Hash[c]] = p
              ELSE q \in Asleep(k, Hash[c]) /\ k.link[q] = p

Unlinked(k, off, f, c, q, p, u) ==
  /\ Tidy(u, off \cup {p}, f)
  /\ q = NULL => u.slpque[Hash[c]] = k.link[p] /\ u.link = k.link
  /\ q # NULL => u.slpque = k.slpque /\ u.link[q] = k.link[p]
  /\ \A b \in Bucket : b # Hash[c] => u.slpque[b] = k.slpque[b]
  /\ \A x \in AllProc : x # q => u.link[x] = k.link[x]
  /\ u.wchan[p] = NULL
  /\ \A x \in AllProc : x # p => u.wchan[x] = k.wchan[x]
  /\ u.stat = k.stat /\ u.runout = k.runout

CanUnlink(k, off, f, c, q, p) ==
  Tidy(k, off, f) /\ c \in AllChan /\ p \in AllProc /\ k.wchan[p] = c /\ Follows(k, c, q, p)

LEMMA UnlinkOK ==
  \A k, off, f, c, q, p : CanUnlink(k, off, f, c, q, p)
                             => Unlinked(k, off, f, c, q, p, Unlink(k, c, q, p))
<1> SUFFICES ASSUME NEW k, NEW off, NEW f, NEW c, NEW q, NEW p, CanUnlink(k, off, f, c, q, p)
             PROVE  Unlinked(k, off, f, c, q, p, Unlink(k, c, q, p))
  OBVIOUS
<1> USE DEF CanUnlink
<1> DEFINE B == Hash[c]
           u == Unlink(k, c, q, p)
           o == off \cup {p}
<1>1. /\ k \in Queues /\ Ranks(f) /\ B \in Bucket /\ p # NULL /\ c # NULL
      /\ k.link \in [AllProc -> AllProc \cup {NULL}]
  BY ProcFacts DEF Tidy, Queues
<1>2. p \in Asleep(k, B) /\ p \notin off /\ p \notin Ready(k, off)
  BY <1>1, TidyFacts
<1>3. q # NULL => q \in AllProc /\ q \in Asleep(k, B) /\ k.link[q] = p
  BY DEF Follows, Asleep
<1>4. /\ u \in Queues
      /\ u.slpque = IF q = NULL THEN [k.slpque EXCEPT ![B] = k.link[p]] ELSE k.slpque
      /\ u.link = IF q = NULL THEN k.link ELSE [k.link EXCEPT ![q] = k.link[p]]
      /\ u.wchan = [k.wchan EXCEPT ![p] = NULL] /\ u.stat = k.stat /\ u.runq = k.runq
      /\ u.runout = k.runout /\ u.onq = k.onq /\ u.hung = k.hung
  <2> DEFINE v == IF q = NULL THEN [k EXCEPT !.slpque[B] = k.link[p]]
                              ELSE [k EXCEPT !.link[q] = k.link[p]]
  <2>1. k.link[p] \in AllProc \cup {NULL}
    BY <1>1
  <2>2. /\ v \in Queues
        /\ v.slpque = IF q = NULL THEN [k.slpque EXCEPT ![B] = k.link[p]] ELSE k.slpque
        /\ v.link = IF q = NULL THEN k.link ELSE [k.link EXCEPT ![q] = k.link[p]]
        /\ v.wchan = k.wchan /\ v.stat = k.stat /\ v.runq = k.runq
        /\ v.runout = k.runout /\ v.onq = k.onq /\ v.hung = k.hung
    <3>1. CASE q = NULL
      BY <1>1, <2>1, <3>1 DEF Queues
    <3>2. CASE q # NULL
      BY <1>1, <1>3, <2>1, <3>2 DEF Queues
    <3>3. QED BY <3>1, <3>2
  <2>3. u = [v EXCEPT !.wchan[p] = NULL]
    BY DEF Unlink
  <2> HIDE DEF v, u
  <2>4. u \in Queues /\ u.slpque = v.slpque /\ u.link = v.link
        /\ u.wchan = [v.wchan EXCEPT ![p] = NULL] /\ u.stat = v.stat /\ u.runq = v.runq
        /\ u.runout = v.runout /\ u.onq = v.onq /\ u.hung = v.hung
    BY <2>2, <2>3 DEF Queues
  <2>5. QED BY <2>2, <2>4
<1> HIDE DEF u, o
<1>5. u.wchan[p] = NULL /\ \A x \in AllProc : x # p => u.wchan[x] = k.wchan[x]
  BY <1>1, <1>4 DEF Queues
<1>6. \A b \in Bucket : Asleep(u, b) = IF b = B THEN Asleep(k, b) \ {p} ELSE Asleep(k, b)
  BY <1>1, <1>5 DEF Asleep
<1>7. Thread(f, u.link, u.slpque[B], Asleep(u, B))
  <2>1. Thread(f, k.link, k.slpque[B], Asleep(k, B)) /\ Asleep(k, B) \subseteq AllProc
    BY <1>1, TidyFacts DEF Tidy
  <2>2. CASE q = NULL
    <3>1. k.slpque[B] = p /\ u.slpque[B] = k.link[p] /\ u.link = k.link
      BY <1>1, <1>4, <2>2 DEF Follows, Queues
    <3>2. Thread(f, k.link, k.link[p], Asleep(k, B) \ {p})
      BY <1>1, <2>1, <3>1, ThreadTail
    <3>3. QED BY <1>1, <1>6, <3>1, <3>2
  <2>3. CASE q # NULL
    <3>1. u.slpque = k.slpque /\ u.link = [k.link EXCEPT ![q] = k.link[k.link[q]]]
      BY <1>3, <1>4, <2>3
    <3>2. Thread(f, [k.link EXCEPT ![q] = k.link[k.link[q]]], k.slpque[B],
                 Asleep(k, B) \ {k.link[q]})
      BY <1>1, <1>3, <2>1, <2>3, ThreadCut
    <3>3. QED BY <1>1, <1>3, <1>6, <2>3, <3>1, <3>2
  <2>4. QED BY <2>2, <2>3
<1>8. \A x \in AllProc : x # q => u.link[x] = k.link[x]
  BY <1>1, <1>3, <1>4
<1>9. ASSUME NEW b \in Bucket, b # B PROVE Thread(f, u.link, u.slpque[b], Asleep(u, b))
  <2>1. Thread(f, k.link, k.slpque[b], Asleep(k, b))
    BY DEF Tidy
  <2>2. u.slpque[b] = k.slpque[b]
    BY <1>1, <1>4, <1>9 DEF Queues
  <2>3. \A x \in Asleep(k, b) : x \in AllProc /\ (q # NULL => x # q)
    BY <1>1, <1>3, <1>9, TidyFacts
  <2>4. \A x \in Asleep(k, b) : u.link[x] = k.link[x]
    BY <1>4, <1>8, <2>3
  <2>5. QED BY <1>6, <1>9, <2>1, <2>2, <2>4, ThreadSame
<1>10. Ready(u, o) = Ready(k, off)
  BY <1>2, <1>4 DEF Ready, o
<1>11. Thread(f, u.link, u.runq, Ready(u, o))
  <2>1. Thread(f, k.link, k.runq, Ready(k, off))
    BY DEF Tidy
  <2>2. \A x \in Ready(k, off) : x \in AllProc /\ (q # NULL => x # q)
    BY <1>1, <1>3, TidyFacts
  <2>3. \A x \in Ready(k, off) : u.link[x] = k.link[x]
    BY <1>4, <1>8, <2>2
  <2>4. Thread(f, u.link, k.runq, Ready(k, off))
    BY <2>1, <2>3, ThreadSame
  <2>5. QED BY <1>4, <1>10, <2>4
<1>12. Tidy(u, o, f)
  <2>1. \A x \in o : u.wchan[x] = NULL
    BY <1>5, TidyFacts DEF Tidy, o
  <2>2. \A x \in AllProc \ (o) : u.wchan[x] # NULL <=> u.stat[x] = "SSLEEP"
    BY <1>4, <1>5 DEF Tidy, o
  <2>3. \A x \in Proc : u.wchan[x] # RunOut
    BY <1>5, ProcFacts DEF Tidy
  <2>4. o \subseteq AllProc /\ ~ u.onq /\ ~ u.hung
    BY <1>4 DEF Tidy, o
  <2>5. QED BY <1>1, <1>4, <1>7, <1>9, <1>11, <2>1, <2>2, <2>3, <2>4 DEF Tidy
<1>13. q = NULL => u.slpque[B] = k.link[p] /\ u.link = k.link
  BY <1>1, <1>4 DEF Queues
<1>14. q # NULL => u.slpque = k.slpque /\ u.link[q] = k.link[p]
  BY <1>1, <1>3, <1>4
<1>15. \A b \in Bucket : b # B => u.slpque[b] = k.slpque[b]
  BY <1>1, <1>4 DEF Queues
<1>16. QED BY <1>4, <1>5, <1>8, <1>12, <1>13, <1>14, <1>15 DEF Unlinked, u, o

-----------------------------------------------------------------------------
(* The loop of wakeup: at depth 1 setrun may wake sched on the way, at     *)
(* depth 0, in that wakeup of sched, it may not.                           *)
TurnOf(depth, c, x) ==
  IF depth = 1 THEN Turn(x, c, MakeRun(Unlink(x.k, c, x.q, x.p), x.p))
               ELSE Turn(x, c, Enqueue(Unlink(x.k, c, x.q, x.p), x.p))

Looped(depth, k, c) ==
  LET l[n \in 0 .. MaxTurns] ==
        IF n = 0 THEN Start(k, c) ELSE TurnOf(depth, c, l[n - 1])
  IN  l[MaxTurns].k

LEMMA LoopsAre ==
  ASSUME NEW k, NEW c
  PROVE  Wakeup(k, c) = Looped(1, k, c) /\ WakeupSched(k) = Looped(0, k, RunOut)
<1>1. \A x : TurnOf(1, c, x) = Turn(x, c, MakeRun(Unlink(x.k, c, x.q, x.p), x.p))
  BY DEF TurnOf
<1>2. \A x : TurnOf(0, RunOut, x) =
               Turn(x, RunOut, Enqueue(Unlink(x.k, RunOut, x.q, x.p), x.p))
  BY DEF TurnOf
<1>3. Wakeup(k, c) = Looped(1, k, c)
  BY <1>1 DEF Wakeup, Looped
<1>4. WakeupSched(k) = Looped(0, k, RunOut)
  BY <1>2 DEF WakeupSched, Looped
<1>5. QED BY <1>3, <1>4

LEMMA TurnsFacts ==
  /\ MaxTurns \in Nat /\ NPROC < MaxTurns
  /\ \A n \in 1 .. MaxTurns : /\ n \in 0 .. MaxTurns /\ n - 1 \in 0 .. MaxTurns
                              /\ n # 0 /\ n - 1 # n /\ n \in Nat /\ n <= MaxTurns
<1>1. /\ (NPROC + 1) * (NPROC + 1) \in Nat
      /\ (NPROC + 1) * (NPROC + 1) = NPROC * NPROC + NPROC + NPROC + 1
      /\ NPROC * NPROC \in Nat
  BY ProcFacts
<1>2. MaxTurns \in Nat /\ NPROC < MaxTurns
  BY <1>1, ProcFacts DEF MaxTurns
<1>3. QED BY <1>2

(* A loop has a state after each turn.                                     *)
LEMMA LoopSteps ==
  ASSUME NEW depth \in {0, 1}, NEW k, NEW c
  PROVE  \E l : /\ l[0] = Start(k, c) /\ l[MaxTurns].k = Looped(depth, k, c)
                /\ \A n \in 1 .. MaxTurns : l[n] = TurnOf(depth, c, l[n - 1])
<1> DEFINE s == Start(k, c)
           T(x) == TurnOf(depth, c, x)
           Upto(n, f) == /\ f = [i \in 0 .. MaxTurns |-> f[i]] /\ f[0] = s
                         /\ \A i \in 1 .. MaxTurns : i <= n => f[i] = T(f[i - 1])
           G == {n \in 0 .. MaxTurns : \E f : Upto(n, f)}
           Rec(l) == l = [n \in 0 .. MaxTurns |-> IF n = 0 THEN s ELSE T(l[n - 1])]
<1>0. Looped(depth, k, c) = (CHOOSE l : Rec(l))[MaxTurns].k
  BY DEF Looped
<1> HIDE DEF s, T
<1>1. 0 \in G
  <2>1. Upto(0, [i \in 0 .. MaxTurns |-> s])
    BY TurnsFacts
  <2>2. QED BY <2>1, TurnsFacts
<1>2. ASSUME NEW n \in 1 .. MaxTurns, n - 1 \in G PROVE n \in G
  <2>1. PICK f : Upto(n - 1, f)
    BY <1>2
  <2> DEFINE g == [f EXCEPT ![n] = T(f[n - 1])]
  <2>2. g = [i \in 0 .. MaxTurns |-> IF i = n THEN T(f[n - 1]) ELSE f[i]]
    BY <2>1
  <2> HIDE DEF g
  <2>3. g = [i \in 0 .. MaxTurns |-> g[i]] /\ g[n] = T(f[n - 1])
        /\ \A i \in 0 .. MaxTurns : i # n => g[i] = f[i]
    BY <2>2, TurnsFacts
  <2>4. g[0] = s
    BY <2>1, <2>3, TurnsFacts
  <2>5. ASSUME NEW i \in 1 .. MaxTurns, i <= n PROVE g[i] = T(g[i - 1])
    <3>1. i - 1 # n /\ g[i - 1] = f[i - 1]
      BY <2>3, <2>5, TurnsFacts
    <3>2. CASE i = n
      BY <2>3, <3>1, <3>2
    <3>3. CASE i # n
      <4>1. i <= n - 1
        BY <2>5, <3>3, TurnsFacts
      <4>2. QED BY <2>1, <2>3, <3>1, <3>3, <4>1, TurnsFacts
    <3>4. QED BY <3>2, <3>3
  <2>6. Upto(n, g)
    BY <2>3, <2>4, <2>5
  <2> HIDE DEF Upto
  <2>7. \E y : Upto(n, y)
    BY <2>6
  <2>8. QED BY <2>7, TurnsFacts
<1>3. MaxTurns \in G
  <2> HIDE DEF G
  <2>1. Closed(MaxTurns, G)
    BY <1>1, <1>2, TurnsFacts DEF Closed
  <2>2. 0 .. MaxTurns \subseteq G /\ MaxTurns \in 0 .. MaxTurns
    BY <2>1, AllReached, TurnsFacts
  <2>3. QED BY <2>2
<1>4. PICK f : Upto(MaxTurns, f)
  BY <1>3
<1>5. Rec(f)
  <2>1. ASSUME NEW i \in 0 .. MaxTurns PROVE f[i] = IF i = 0 THEN s ELSE T(f[i - 1])
    <3>1. CASE i = 0
      BY <1>4, <3>1
    <3>2. CASE i # 0
      <4>1. i \in 1 .. MaxTurns
        BY <3>2, TurnsFacts
      <4>2. QED BY <1>4, <3>2, <4>1, TurnsFacts
    <3>3. QED BY <3>1, <3>2
  <2>2. QED BY <1>4, <2>1
<1>6. PICK l : Rec(l) /\ l[MaxTurns].k = Looped(depth, k, c)
  <2> HIDE DEF Rec
  <2>1. QED BY <1>0, <1>5
<1>7. l[0] = s /\ \A n \in 1 .. MaxTurns : l[n] = T(l[n - 1])
  BY <1>6, TurnsFacts
<1>8. QED BY <1>6, <1>7 DEF s, T

-----------------------------------------------------------------------------
(* What a wakeup on c does to the queues: it ends sleeps on c, and that of *)
(* sched on &runout;                                                       *)
Woke(k0, k, c) ==
  \A x \in AllProc :
    \/ k.wchan[x] = k0.wchan[x] /\ k.stat[x] = k0.stat[x]
    \/ k0.wchan[x] \in {c, RunOut} /\ k.wchan[x] = NULL /\ k.stat[x] = "SRUN"

(* if it clears runout, sched does not sleep on it;                        *)
Asks(k0, k) ==
  /\ k.runout => k0.runout
  /\ k0.runout /\ ~ k.runout => k.wchan[Sched] # RunOut

(* it leaves the other chains alone;                                       *)
Spared(k0, f0, k, f, c) ==
  \A b \in Bucket \ {Hash[c], Hash[RunOut]} :
    /\ k.slpque[b] = k0.slpque[b]
    /\ \A x \in Asleep(k0, b) : k.link[x] = k0.link[x] /\ f[x] = f0[x]

(* and unless it clears runout all that it wakes are in core.              *)
Told(k0, k) ==
  k.runout => \A x \in AllProc : k.wchan[x] # k0.wchan[x] => sload[x]

(* A loop on its way, which is at x and has made n turns.                  *)
Walk(x, c, off, k0, f0, f, n) ==
  LET C == Asleep(x.k, Hash[c])
  IN  /\ Tidy(x.k, off, f)
      /\ Woke(k0, x.k, c) /\ Asks(k0, x.k) /\ Spared(k0, f0, x.k, f, c)
      /\ x.p # NULL => /\ x.p \in C
                       /\ Cardinality({z \in C : f[x.p] <= f[z]}) + n <= NPROC
      /\ IF x.q = NULL THEN x.p = x.k.slpque[Hash[c]]
                       ELSE x.q \in C /\ x.k.link[x.q] = x.p
      /\ \A z \in C : x.p = NULL \/ f[z] < f[x.p] => x.k.wchan[z] # c
      /\ \A z \in x.seen : z \in C /\ (x.p # NULL => f[z] < f[x.p])

LEMMA WalkStart ==
  ASSUME NEW k, NEW off, NEW f, Tidy(k, off, f), NEW c \in AllChan
  PROVE  Walk(Start(k, c), c, off, k, f, f, 0)
<1> DEFINE x == Start(k, c)
           C == Asleep(k, Hash[c])
<1>1. x.k = k /\ x.p = k.slpque[Hash[c]] /\ x.q = NULL /\ x.seen = {}
  BY DEF Start
<1> HIDE DEF x
<1>2. Thread(f, k.link, x.p, C) /\ C \subseteq AllProc
  BY <1>1, ProcFacts, TidyFacts DEF Tidy
<1>3. \A z \in AllProc : f[z] \in Int
  BY DEF Tidy, Ranks
<1>4. x.p # NULL => /\ x.p \in C
                    /\ Cardinality({z \in C : f[x.p] <= f[z]}) + 0 <= NPROC
  <2>1. SUFFICES ASSUME x.p # NULL
                 PROVE  /\ x.p \in C
                        /\ Cardinality({z \in C : f[x.p] <= f[z]}) + 0 <= NPROC
    OBVIOUS
  <2> DEFINE A == {z \in C : f[x.p] <= f[z]}
  <2>2. x.p \in C
    BY <1>2, <2>1 DEF Thread
  <2>3. A \subseteq AllProc
    BY <1>2
  <2> HIDE DEF A
  <2>4. Cardinality(A) <= NPROC /\ Cardinality(A) \in Nat
    BY <2>3, ProcFacts, FS_Subset, FS_CardinalityType DEF NPROC
  <2>5. QED BY <2>2, <2>4 DEF A
<1>5. \A z \in C : ~ (x.p = NULL \/ f[z] < f[x.p])
  BY <1>2, <1>3 DEF Thread
<1>6. Woke(k, k, c) /\ Asks(k, k) /\ Spared(k, f, k, f, c)
  BY DEF Woke, Asks, Spared
<1>7. Walk(x, c, off, k, f, f, 0)
  BY <1>1, <1>4, <1>5, <1>6 DEF Walk
<1>8. QED BY <1>7 DEF x

(* The loop passes a process that sleeps on another channel.               *)
LEMMA WalkPass ==
  ASSUME NEW x, NEW c \in AllChan, NEW off, NEW k0, NEW f0, NEW f, NEW n \in Nat,
         Walk(x, c, off, k0, f0, f, n), x.p # NULL, x.k.wchan[x.p] # c,
         NEW y, y = [k |-> x.k, p |-> x.k.link[x.p], q |-> x.p, seen |-> x.seen \cup {x.p}]
  PROVE  Walk(y, c, off, k0, f0, f, n + 1)
<1> DEFINE C == Asleep(x.k, Hash[c])
           p == x.p
           s == x.k.link[x.p]
<1>1. y.k = x.k /\ y.p = s /\ y.q = p /\ y.seen = x.seen \cup {p}
  OBVIOUS
<1>2. Thread(f, x.k.link, x.k.slpque[Hash[c]], C) /\ C \subseteq AllProc /\ p \in C
  BY ProcFacts, TidyFacts DEF Tidy, Walk
<1>3. \A z \in C : f[z] \in Int /\ (f[z] = f[p] => z = p) /\ z # NULL
  BY <1>2, ProcFacts DEF Tidy, Ranks, Walk
<1>4. /\ s = NULL => \A z \in C : f[z] <= f[p]
      /\ s # NULL => /\ s \in C /\ f[p] < f[s]
                     /\ \A z \in C : f[z] <= f[p] \/ f[s] <= f[z]
  BY <1>2 DEF Thread
<1>5. \A z \in C : s = NULL \/ f[z] < f[s] => x.k.wchan[z] # c
  <2>1. SUFFICES ASSUME NEW z \in C, s = NULL \/ f[z] < f[s] PROVE x.k.wchan[z] # c
    OBVIOUS
  <2>2. f[z] <= f[p]
    BY <1>3, <1>4, <2>1
  <2>3. z = p \/ f[z] < f[p]
    BY <1>2, <1>3, <2>2
  <2>4. QED BY <2>3 DEF Walk
<1>6. ASSUME s # NULL PROVE Cardinality({z \in C : f[s] <= f[z]}) + (n + 1) <= NPROC
  <2> DEFINE A == {z \in C : f[s] <= f[z]}
             B == {z \in C : f[p] <= f[z]}
  <2>1. A \subseteq B /\ p \in B /\ p \notin A /\ B \subseteq AllProc
    BY <1>2, <1>3, <1>4, <1>6
  <2>2. Cardinality(B) + n <= NPROC
    BY DEF Walk
  <2> HIDE DEF A, B
  <2>3. IsFiniteSet(B) /\ IsFiniteSet(A) /\ A \cup {p} \subseteq B
    BY <2>1, ProcFacts, FS_Subset
  <2>4. Cardinality(A \cup {p}) = Cardinality(A) + 1 /\ IsFiniteSet(A \cup {p})
    BY <2>1, <2>3, FS_AddElement
  <2>5. Cardinality(A \cup {p}) <= Cardinality(B)
    BY <2>3, FS_Subset
  <2>6. Cardinality(A) \in Nat /\ Cardinality(B) \in Nat
    BY <2>3, FS_CardinalityType
  <2>7. Cardinality(A) + (n + 1) <= NPROC
    BY <2>2, <2>4, <2>5, <2>6, ProcFacts
  <2>8. QED BY <2>7 DEF A
<1>7. \A z \in y.seen : z \in C /\ (s # NULL => f[z] < f[s])
  <2>1. \A z \in x.seen : z \in C /\ f[z] < f[p]
    BY DEF Walk
  <2>2. \A z \in x.seen \cup {p} : z \in C /\ f[z] <= f[p]
    BY <1>2, <1>3, <2>1
  <2>3. QED BY <1>1, <1>2, <1>3, <1>4, <2>2
<1>8. p # NULL /\ x.k.link[p] = s
  OBVIOUS
<1>9. Tidy(x.k, off, f) /\ Woke(k0, x.k, c) /\ Asks(k0, x.k) /\ Spared(k0, f0, x.k, f, c)
  BY DEF Walk
<1> HIDE DEF p, s
<1>10. QED BY <1>1, <1>2, <1>4, <1>5, <1>6, <1>7, <1>8, <1>9 DEF Walk

(* The loop wakes a process; setrun does not wake sched.                   *)
LEMMA WalkWake ==
  ASSUME NEW x, NEW c \in AllChan, NEW off, NEW k0, NEW f0, NEW f, NEW n \in Nat,
         Walk(x, c, off, k0, f0, f, n), x.p # NULL, x.k.wchan[x.p] = c,
         NEW r, r = Enqueue(Unlink(x.k, c, x.q, x.p), x.p),
         NEW y, y = [k |-> r, p |-> x.k.link[x.p], q |-> x.q, seen |-> {}]
  PROVE  /\ r.runout = x.k.runout
         /\ r.wchan[x.p] = NULL /\ \A z \in AllProc : z # x.p => r.wchan[z] = x.k.wchan[z]
         /\ \E g : Walk(y, c, off, k0, f0, g, n + 1)
<1> DEFINE k == x.k
           p == x.p
           q == x.q
           s == x.k.link[x.p]
           B == Hash[c]
           C == Asleep(x.k, Hash[c])
           u == Unlink(x.k, c, x.q, x.p)
<1>1. y.k = r /\ y.p = s /\ y.q = q /\ y.seen = {}
  OBVIOUS
<1>2. /\ Thread(f, k.link, k.slpque[B], C) /\ C \subseteq AllProc /\ p \in C
      /\ p \in AllProc /\ p # NULL /\ k.wchan[p] = c /\ B \in Bucket /\ c # NULL
      /\ Tidy(k, off, f) /\ p \notin off
  BY ProcFacts, TidyFacts DEF Tidy, Walk
<1>3. \A z \in C : f[z] \in Int /\ (f[z] = f[p] => z = p) /\ z # NULL
  BY <1>2, ProcFacts DEF Tidy, Ranks
<1>4. Follows(k, c, q, p)
  BY DEF Walk, Follows
<1>6. r = Enqueue(u, p) /\ u = Unlink(k, c, q, p) /\ B = Hash[c] /\ p \in off \cup {p}
  OBVIOUS
<1> HIDE DEF k, p, q, s, B, C, u
<1>5. /\ Tidy(u, off \cup {p}, f)
      /\ q = NULL => u.slpque[B] = k.link[p] /\ u.link = k.link
      /\ q # NULL => u.slpque = k.slpque /\ u.link[q] = k.link[p]
      /\ \A b \in Bucket : b # B => u.slpque[b] = k.slpque[b]
      /\ \A z \in AllProc : z # q => u.link[z] = k.link[z]
      /\ u.wchan[p] = NULL /\ \A z \in AllProc : z # p => u.wchan[z] = k.wchan[z]
      /\ u.stat = k.stat /\ u.runout = k.runout
  <2>1. CanUnlink(k, off, f, c, q, p)
    BY <1>2, <1>4 DEF CanUnlink
  <2>2. Unlinked(k, off, f, c, q, p, u)
    BY <1>6, <2>1, UnlinkOK
  <2>3. QED BY <1>6, <2>2 DEF Unlinked
<1>7. /\ r \in Queues /\ r.slpque = u.slpque
      /\ \A z \in AllProc : z # p => r.link[z] = u.link[z]
      /\ r.wchan = u.wchan
      /\ r.stat[p] = "SRUN" /\ \A z \in AllProc : z # p => r.stat[z] = u.stat[z]
      /\ r.runout = u.runout
      /\ \E g : Tidy(r, off, g) /\ \A z \in AllProc : z # p => g[z] = f[z]
  <2>1. off = (off \cup {p}) \ {p}
    BY <1>2
  <2>2. CanEnqueue(u, off \cup {p}, f, p)
    BY <1>5 DEF CanEnqueue
  <2>3. Enqueued(u, off \cup {p}, f, p, r)
    BY <1>6, <2>2, EnqueueOK
  <2>4. QED BY <2>1, <2>3 DEF Enqueued
<1>8. PICK g : Tidy(r, off, g) /\ \A z \in AllProc : z # p => g[z] = f[z]
  BY <1>7
<1>9. /\ k \in Queues /\ k.slpque \in [Bucket -> AllProc \cup {NULL}]
      /\ k.link \in [AllProc -> AllProc \cup {NULL}]
      /\ k.wchan \in [AllProc -> AllChan \cup {NULL}]
      /\ k.stat \in [AllProc -> {"SRUN", "SSLEEP", "SSTOP"}]
  BY <1>2, QueuesFacts DEF Tidy
<1>10. /\ r.wchan[p] = NULL /\ r.stat[p] = "SRUN"
       /\ \A z \in AllProc : z # p => r.wchan[z] = k.wchan[z] /\ r.stat[z] = k.stat[z]
  BY <1>2, <1>5, <1>7, <1>9
<1>11. Asleep(r, B) = C \ {p}
  BY <1>2, <1>10 DEF Asleep, C, B, k
<1>12. /\ s = NULL => \A z \in C : f[z] <= f[p]
       /\ s # NULL => /\ s \in C /\ f[p] < f[s]
                      /\ \A z \in C : f[z] <= f[p] \/ f[s] <= f[z]
  BY <1>2 DEF Thread, s, k, p
<1>13. q # NULL => /\ q \in C /\ k.link[q] = p /\ q # p /\ q \in AllProc
  <2>1. SUFFICES ASSUME q # NULL PROVE q \in C /\ k.link[q] = p /\ q # p /\ q \in AllProc
    OBVIOUS
  <2>2. q \in C /\ k.link[q] = p
    BY <1>4, <2>1 DEF Follows, C, B, k
  <2>3. f[q] < f[p]
    BY <1>2, <2>2 DEF Thread
  <2>4. QED BY <1>2, <1>3, <2>2, <2>3
<1>14. \A z \in C \ {p} : g[z] = f[z] /\ r.wchan[z] = k.wchan[z] /\ z \in AllProc
  BY <1>2, <1>8, <1>10
<1>15. s # NULL => s \in C \ {p}
  BY <1>2, <1>3, <1>12
<1>16. s # NULL => Cardinality({z \in C \ {p} : g[s] <= g[z]}) + (n + 1) <= NPROC
  <2> SUFFICES ASSUME s # NULL
               PROVE  Cardinality({z \in C \ {p} : g[s] <= g[z]}) + (n + 1) <= NPROC
    OBVIOUS
  <2> DEFINE A == {z \in C \ {p} : g[s] <= g[z]}
             D == {z \in C : f[p] <= f[z]}
  <2>1. A \subseteq D /\ p \in D /\ p \notin A /\ D \subseteq AllProc
    <3>1. \A z \in A : z \in C /\ f[s] <= f[z]
      BY <1>14, <1>15
    <3>2. \A z \in A : f[p] <= f[z]
      BY <1>2, <1>3, <1>12, <3>1
    <3>3. QED BY <1>2, <1>3, <3>1, <3>2
  <2>2. Cardinality(D) + n <= NPROC
    BY <1>2 DEF Walk, C, p
  <2> HIDE DEF A, D
  <2>3. IsFiniteSet(D) /\ IsFiniteSet(A) /\ A \cup {p} \subseteq D
    BY <2>1, ProcFacts, FS_Subset
  <2>4. Cardinality(A \cup {p}) = Cardinality(A) + 1 /\ IsFiniteSet(A \cup {p})
    BY <2>1, <2>3, FS_AddElement
  <2>5. Cardinality(A \cup {p}) <= Cardinality(D)
    BY <2>3, FS_Subset
  <2>6. Cardinality(A) \in Nat /\ Cardinality(D) \in Nat
    BY <2>3, FS_CardinalityType
  <2>7. Cardinality(A) + (n + 1) <= NPROC
    BY <2>2, <2>4, <2>5, <2>6, ProcFacts
  <2>8. QED BY <2>7 DEF A
<1>17. IF q = NULL THEN s = r.slpque[B] ELSE q \in C \ {p} /\ r.link[q] = s
  <2>1. CASE q = NULL
    BY <1>2, <1>5, <1>7, <1>9, <2>1 DEF s, k, p
  <2>2. CASE q # NULL
    <3>1. u.link[q] = k.link[p] /\ r.link[q] = u.link[q]
      BY <1>5, <1>7, <1>9, <1>13, <2>2
    <3>2. QED BY <1>13, <2>2, <3>1 DEF s, k, p
  <2>3. QED BY <2>1, <2>2
<1>18. \A z \in C \ {p} : s = NULL \/ g[z] < g[s] => r.wchan[z] # c
  <2>1. SUFFICES ASSUME NEW z \in C \ {p}, s = NULL \/ g[z] < g[s] PROVE r.wchan[z] # c
    OBVIOUS
  <2>2. s = NULL \/ f[z] < f[s]
    BY <1>14, <1>15, <2>1
  <2>3. f[z] <= f[p]
    BY <1>2, <1>3, <1>12, <2>2
  <2>4. f[z] < f[p]
    BY <1>2, <1>3, <2>3
  <2>5. k.wchan[z] # c
    BY <2>4 DEF Walk, C, k, p
  <2>6. QED BY <1>14, <2>5
<1>19. Woke(k0, k, c) /\ Asks(k0, k) /\ Spared(k0, f0, k, f, c)
  BY DEF Walk, k
<1>20. Woke(k0, r, c)
  <2>1. SUFFICES ASSUME NEW z \in AllProc
                 PROVE  \/ r.wchan[z] = k0.wchan[z] /\ r.stat[z] = k0.stat[z]
                        \/ k0.wchan[z] \in {c, RunOut} /\ r.wchan[z] = NULL /\ r.stat[z] = "SRUN"
    BY DEF Woke
  <2>2. CASE z = p
    <3>1. k0.wchan[p] \in {c, RunOut}
      BY <1>2, <1>19 DEF Woke
    <3>2. QED BY <1>10, <2>2, <3>1
  <2>3. CASE z # p
    BY <1>10, <1>19, <2>3 DEF Woke
  <2>4. QED BY <2>2, <2>3
<1>21. Asks(k0, r)
  <2>1. r.runout = k.runout
    BY <1>5, <1>7
  <2>2. Sched \in AllProc /\ (k.wchan[Sched] # RunOut => r.wchan[Sched] # RunOut)
    BY <1>10, ProcFacts
  <2>3. QED BY <1>19, <2>1, <2>2 DEF Asks
<1>22. Spared(k0, f0, r, g, c)
  <2>1. SUFFICES ASSUME NEW b \in Bucket \ {Hash[c], Hash[RunOut]}
                 PROVE  /\ r.slpque[b] = k0.slpque[b]
                        /\ \A z \in Asleep(k0, b) : r.link[z] = k0.link[z] /\ g[z] = f0[z]
    BY DEF Spared
  <2>2. r.slpque[b] = k.slpque[b] /\ k.slpque[b] = k0.slpque[b]
    BY <1>5, <1>7, <1>9, <1>19, <2>1 DEF Spared, B
  <2>3. ASSUME NEW z \in Asleep(k0, b) PROVE r.link[z] = k0.link[z] /\ g[z] = f0[z]
    <3>1. k.link[z] = k0.link[z] /\ f[z] = f0[z]
      BY <1>19, <2>1 DEF Spared
    <3>2. z \in AllProc /\ k0.wchan[z] \notin {c, RunOut} /\ k0.wchan[z] # NULL
          /\ Hash[k0.wchan[z]] = b
      BY <2>1 DEF Asleep
    <3>3. k.wchan[z] = k0.wchan[z]
      BY <1>19, <3>2 DEF Woke
    <3>4. z \notin C
      BY <2>1, <3>2, <3>3 DEF Asleep, C, k
    <3>5. z # p /\ (q # NULL => z # q)
      BY <1>2, <1>13, <3>4
    <3>6. r.link[z] = u.link[z] /\ g[z] = f[z]
      BY <1>7, <1>8, <3>2, <3>5
    <3>7. u.link[z] = k.link[z]
      BY <1>5, <1>9, <3>2, <3>5
    <3>8. QED BY <3>1, <3>6, <3>7
  <2>4. QED BY <2>2, <2>3
<1>23. Walk(y, c, off, k0, f0, g, n + 1)
  BY <1>1, <1>8, <1>11, <1>15, <1>16, <1>17, <1>18, <1>20, <1>21, <1>22 DEF Walk, B
<1>24. QED BY <1>5, <1>7, <1>10, <1>23 DEF k, p

(* The wakeup of sched on the way leaves the chain alone.                  *)
LEMMA WalkNested ==
  ASSUME RunOutAlone, NEW y, NEW c \in AllChan, c # RunOut, NEW off, NEW k0, NEW f0, NEW g,
         NEW n \in Nat, Walk(y, c, off, k0, f0, g, n),
         NEW r, r = [y.k EXCEPT !.runout = FALSE],
         NEW k, NEW h, Tidy(k, off, h), Woke(r, k, RunOut), Asks(r, k),
         Spared(r, g, k, h, RunOut), \A z \in AllProc : k.wchan[z] # RunOut,
         NEW w, w = [k |-> k, p |-> y.p, q |-> y.q, seen |-> {}]
  PROVE  Walk(w, c, off, k0, f0, h, n) /\ ~ k.runout
<1> DEFINE B == Hash[c]
           C == Asleep(y.k, Hash[c])
<1>1. w.k = k /\ w.p = y.p /\ w.q = y.q /\ w.seen = {}
  OBVIOUS
<1>2. B \in Bucket \ {Hash[RunOut]} /\ RunOut \in AllChan /\ RunOut # NULL
  BY ProcFacts DEF RunOutAlone
<1>3. /\ r.slpque = y.k.slpque /\ r.link = y.k.link /\ r.wchan = y.k.wchan
      /\ r.stat = y.k.stat /\ ~ r.runout
  BY DEF Walk, Tidy, Queues
<1>4. /\ Tidy(y.k, off, g) /\ Woke(k0, y.k, c) /\ Asks(k0, y.k) /\ Spared(k0, f0, y.k, g, c)
  BY DEF Walk
<1>5. \A z \in AllProc : \/ k.wchan[z] = y.k.wchan[z] /\ k.stat[z] = y.k.stat[z]
                         \/ y.k.wchan[z] = RunOut /\ k.wchan[z] = NULL /\ k.stat[z] = "SRUN"
  BY <1>3 DEF Woke
<1>6. \A b \in Bucket \ {Hash[RunOut]} :
        /\ k.slpque[b] = y.k.slpque[b]
        /\ \A z \in Asleep(y.k, b) : k.link[z] = y.k.link[z] /\ h[z] = g[z]
  BY <1>3 DEF Spared, Asleep
<1>7. \A b \in Bucket \ {Hash[RunOut]} : Asleep(k, b) = Asleep(y.k, b)
  BY <1>2, <1>5 DEF Asleep
<1>8. ~ k.runout
  BY <1>3 DEF Asks
<1>9. \A z \in C : /\ h[z] = g[z] /\ k.link[z] = y.k.link[z] /\ k.wchan[z] = y.k.wchan[z]
                   /\ z \in AllProc
  <2>1. \A z \in C : y.k.wchan[z] # RunOut /\ z \in AllProc
    BY <1>2 DEF Asleep
  <2>2. QED BY <1>2, <1>5, <1>6, <2>1
<1> HIDE DEF C
<1>10. Asleep(k, B) = C /\ k.slpque[B] = y.k.slpque[B]
  BY <1>2, <1>6, <1>7 DEF C
<1>11. Woke(k0, k, c)
  BY <1>4, <1>5, <1>2 DEF Woke
<1>12. Asks(k0, k)
  BY <1>8, ProcFacts DEF Asks
<1>13. Spared(k0, f0, k, h, c)
  <2>1. SUFFICES ASSUME NEW b \in Bucket \ {Hash[c], Hash[RunOut]}
                 PROVE  /\ k.slpque[b] = k0.slpque[b]
                        /\ \A z \in Asleep(k0, b) : k.link[z] = k0.link[z] /\ h[z] = f0[z]
    BY DEF Spared
  <2>2. /\ y.k.slpque[b] = k0.slpque[b]
        /\ \A z \in Asleep(k0, b) : y.k.link[z] = k0.link[z] /\ g[z] = f0[z]
    BY <1>4, <2>1 DEF Spared
  <2>3. Asleep(k0, b) \subseteq Asleep(y.k, b)
    BY <1>4, <2>1 DEF Woke, Asleep
  <2>4. QED BY <1>6, <2>1, <2>2, <2>3
<1>14. y.p # NULL => y.p \in C
  BY DEF Walk, C
<1>15. {z \in C : h[y.p] <= h[z]} = {z \in C : g[y.p] <= g[z]} \/ y.p = NULL
  BY <1>9, <1>14
<1>16. y.p # NULL => Cardinality({z \in C : h[y.p] <= h[z]}) + n <= NPROC
  BY <1>15 DEF Walk, C
<1>17. IF y.q = NULL THEN y.p = k.slpque[B] ELSE y.q \in C /\ k.link[y.q] = y.p
  BY <1>9, <1>10 DEF Walk, C
<1>18. \A z \in C : y.p = NULL \/ h[z] < h[y.p] => k.wchan[z] # c
  <2>1. SUFFICES ASSUME NEW z \in C, y.p = NULL \/ h[z] < h[y.p] PROVE k.wchan[z] # c
    OBVIOUS
  <2>2. y.p = NULL \/ g[z] < g[y.p]
    BY <1>9, <1>14, <2>1
  <2>3. y.k.wchan[z] # c
    BY <2>2 DEF Walk, C
  <2>4. QED BY <1>9, <2>3
<1>19. Walk(w, c, off, k0, f0, h, n)
  BY <1>1, <1>10, <1>11, <1>12, <1>13, <1>14, <1>16, <1>17, <1>18 DEF Walk
<1>20. QED BY <1>8, <1>19

-----------------------------------------------------------------------------
(* The wakeup of a process that is in core, or when sched has not asked.   *)
LEMMA TurnEnd ==
  ASSUME NEW depth \in {0, 1}, NEW x, NEW c, NEW off, NEW k0, NEW f0, NEW f, NEW n \in Nat,
         Walk(x, c, off, k0, f0, f, n), x.p = NULL
  PROVE  TurnOf(depth, c, x) = x /\ Walk(x, c, off, k0, f0, f, n + 1)
<1>1. TurnOf(depth, c, x) = x
  BY DEF TurnOf, Turn
<1>2. QED BY <1>1 DEF Walk

LEMMA NotSeen ==
  ASSUME NEW x, NEW c, NEW off, NEW k0, NEW f0, NEW f, NEW n,
         Walk(x, c, off, k0, f0, f, n), x.p # NULL
  PROVE  x.p \notin x.seen /\ x.p \in AllProc
<1>1. x.p \in AllProc
  BY DEF Walk, Asleep
<1>2. f[x.p] \in Int
  BY <1>1 DEF Walk, Tidy, Ranks
<1>3. ~ (f[x.p] < f[x.p])
  BY <1>2
<1>4. QED BY <1>1, <1>3 DEF Walk

(* What a turn leaves.                                                     *)
LEMMA TurnIs ==
  ASSUME NEW depth \in {0, 1}, NEW x, NEW c, x.p # NULL, x.p \notin x.seen
  PROVE  TurnOf(depth, c, x) =
           IF x.k.wchan[x.p] # c
           THEN [k |-> x.k, p |-> x.k.link[x.p], q |-> x.p, seen |-> x.seen \cup {x.p}]
           ELSE [k |-> IF depth = 1 THEN MakeRun(Unlink(x.k, c, x.q, x.p), x.p)
                               ELSE Enqueue(Unlink(x.k, c, x.q, x.p), x.p),
                 p |-> x.k.link[x.p], q |-> x.q, seen |-> {}]
<1>1. CASE depth = 1
  BY <1>1 DEF TurnOf, Turn, Successor
<1>2. CASE depth # 1
  BY <1>2 DEF TurnOf, Turn, Successor
<1>3. QED BY <1>1, <1>2

(* A turn when there is no wakeup on the way.                              *)
LEMMA TurnShallow ==
  ASSUME NEW x, NEW c \in AllChan, NEW off, NEW k0, NEW f0, NEW f, NEW n \in Nat,
         Walk(x, c, off, k0, f0, f, n)
  PROVE  \E g : Walk(TurnOf(0, c, x), c, off, k0, f0, g, n + 1)
<1>1. CASE x.p = NULL
  <2>1. TurnOf(0, c, x) = x /\ Walk(x, c, off, k0, f0, f, n + 1)
    BY <1>1, TurnEnd
  <2>2. QED BY <2>1
<1>2. CASE x.p # NULL /\ x.k.wchan[x.p] # c
  <2>1. TurnOf(0, c, x) =
          [k |-> x.k, p |-> x.k.link[x.p], q |-> x.p, seen |-> x.seen \cup {x.p}]
    BY <1>2, TurnIs, NotSeen
  <2>2. Walk(TurnOf(0, c, x), c, off, k0, f0, f, n + 1)
    BY <1>2, <2>1, WalkPass
  <2>3. QED BY <2>2
<1>3. CASE x.p # NULL /\ x.k.wchan[x.p] = c
  <2>1. PICK r, y : /\ r = Enqueue(Unlink(x.k, c, x.q, x.p), x.p)
                    /\ y = [k |-> r, p |-> x.k.link[x.p], q |-> x.q, seen |-> {}]
    OBVIOUS
  <2>2. TurnOf(0, c, x) = y
    BY <1>3, <2>1, TurnIs, NotSeen
  <2>3. \E g : Walk(y, c, off, k0, f0, g, n + 1)
    BY <1>3, <2>1, WalkWake
  <2>4. QED BY <2>2, <2>3
<1>4. QED BY <1>1, <1>2, <1>3

(* What a loop leaves.                                                     *)
Walked(k0, off, f0, k, f, c) ==
  /\ Tidy(k, off, f) /\ Woke(k0, k, c) /\ Asks(k0, k) /\ Spared(k0, f0, k, f, c)
  /\ \A z \in AllProc : k.wchan[z] # c

LEMMA WalkEnd ==
  ASSUME NEW x, NEW c \in AllChan, NEW off, NEW k0, NEW f0, NEW f,
         Walk(x, c, off, k0, f0, f, MaxTurns)
  PROVE  Walked(k0, off, f0, x.k, f, c)
<1> DEFINE C == Asleep(x.k, Hash[c])
<1>1. ASSUME x.p # NULL PROVE FALSE
  <2> DEFINE A == {z \in C : f[x.p] <= f[z]}
  <2>1. Cardinality(A) + MaxTurns <= NPROC
    BY <1>1 DEF Walk
  <2>2. A \subseteq AllProc
    BY DEF Asleep
  <2> HIDE DEF A
  <2>3. Cardinality(A) \in Nat
    BY <2>2, ProcFacts, FS_Subset, FS_CardinalityType
  <2>4. QED BY <2>1, <2>3, TurnsFacts, ProcFacts
<1>2. \A z \in C : x.k.wchan[z] # c
  BY <1>1 DEF Walk
<1>3. \A z \in AllProc : x.k.wchan[z] # c
  BY <1>2, ProcFacts DEF Asleep
<1>4. QED BY <1>3 DEF Walk, Walked

LEMMA LoopShallow ==
  ASSUME NEW k, NEW off, NEW f, Tidy(k, off, f), NEW c \in AllChan
  PROVE  \E g : Walked(k, off, f, Looped(0, k, c), g, c)
<1>1. PICK l : /\ l[0] = Start(k, c) /\ l[MaxTurns].k = Looped(0, k, c)
               /\ \A n \in 1 .. MaxTurns : l[n] = TurnOf(0, c, l[n - 1])
  BY LoopSteps
<1> DEFINE G == {n \in 0 .. MaxTurns : \E g : Walk(l[n], c, off, k, f, g, n)}
<1>2. 0 \in G
  <2>1. Walk(l[0], c, off, k, f, f, 0)
    BY <1>1, WalkStart
  <2>2. QED BY <2>1, TurnsFacts
<1>3. ASSUME NEW n \in 1 .. MaxTurns, n - 1 \in G PROVE n \in G
  <2>1. PICK g : Walk(l[n - 1], c, off, k, f, g, n - 1)
    BY <1>3
  <2>2. n - 1 \in Nat /\ (n - 1) + 1 = n /\ n \in 0 .. MaxTurns
    BY TurnsFacts
  <2>3. \E h : Walk(TurnOf(0, c, l[n - 1]), c, off, k, f, h, (n - 1) + 1)
    BY <2>1, <2>2, TurnShallow
  <2>4. QED BY <1>1, <2>2, <2>3
<1>4. MaxTurns \in G
  <2> HIDE DEF G
  <2>1. Closed(MaxTurns, G)
    BY <1>2, <1>3, TurnsFacts DEF Closed
  <2>2. 0 .. MaxTurns \subseteq G /\ MaxTurns \in 0 .. MaxTurns
    BY <2>1, AllReached, TurnsFacts
  <2>3. QED BY <2>2
<1>5. PICK g : Walk(l[MaxTurns], c, off, k, f, g, MaxTurns)
  BY <1>4
<1>6. Walked(k, off, f, l[MaxTurns].k, g, c)
  BY <1>5, WalkEnd
<1>7. QED BY <1>1, <1>6

-----------------------------------------------------------------------------
(* setrun of a process on no queue, which may wake sched.                  *)
LEMMA MakeRunIs ==
  ASSUME NEW k, NEW p
  PROVE  MakeRun(k, p) = IF Enqueue(k, p).runout /\ ~ sload[p]
                         THEN Looped(0, [Enqueue(k, p) EXCEPT !.runout = FALSE], RunOut)
                         ELSE Enqueue(k, p)
<1>1. WakeupSched([Enqueue(k, p) EXCEPT !.runout = FALSE])
        = Looped(0, [Enqueue(k, p) EXCEPT !.runout = FALSE], RunOut)
  BY LoopsAre
<1>2. QED BY <1>1 DEF MakeRun

LEMMA TidyQuiet ==
  ASSUME NEW k, NEW off, NEW f, Tidy(k, off, f), NEW r, r = [k EXCEPT !.runout = FALSE]
  PROVE  /\ Tidy(r, off, f) /\ ~ r.runout /\ r.wchan = k.wchan /\ r.stat = k.stat
         /\ r.link = k.link /\ r.slpque = k.slpque
<1>1. /\ r \in Queues /\ ~ r.runout /\ r.wchan = k.wchan /\ r.stat = k.stat
      /\ r.link = k.link /\ r.slpque = k.slpque /\ r.runq = k.runq /\ r.onq = k.onq
      /\ r.hung = k.hung
  BY DEF Tidy, Queues
<1>2. (\A b : Asleep(r, b) = Asleep(k, b)) /\ Ready(r, off) = Ready(k, off)
  BY <1>1 DEF Asleep, Ready
<1>3. Tidy(r, off, f)
  BY <1>1, <1>2 DEF Tidy
<1>4. QED BY <1>1, <1>3

(* A turn of a wakeup.                                                     *)
LEMMA TurnDeep ==
  ASSUME RunOutAlone, sload[Sched],
         NEW x, NEW c \in AllChan, NEW off, NEW k0, NEW f0, NEW f, NEW n \in Nat,
         Walk(x, c, off, k0, f0, f, n), Told(k0, x.k)
  PROVE  /\ \E g : Walk(TurnOf(1, c, x), c, off, k0, f0, g, n + 1)
         /\ Told(k0, TurnOf(1, c, x).k)
<1>1. CASE x.p = NULL
  <2>1. TurnOf(1, c, x) = x /\ Walk(x, c, off, k0, f0, f, n + 1)
    BY <1>1, TurnEnd
  <2>2. QED BY <2>1
<1>2. CASE x.p # NULL /\ x.k.wchan[x.p] # c
  <2>1. TurnOf(1, c, x) =
          [k |-> x.k, p |-> x.k.link[x.p], q |-> x.p, seen |-> x.seen \cup {x.p}]
    BY <1>2, TurnIs, NotSeen
  <2>2. Walk(TurnOf(1, c, x), c, off, k0, f0, f, n + 1)
    BY <1>2, <2>1, WalkPass
  <2>3. TurnOf(1, c, x).k = x.k
    BY <2>1
  <2>4. QED BY <2>2, <2>3
<1>3. CASE x.p # NULL /\ x.k.wchan[x.p] = c
  <2> DEFINE u == Unlink(x.k, c, x.q, x.p)
             s == x.k.link[x.p]
  <2>1. TurnOf(1, c, x) = [k |-> MakeRun(u, x.p), p |-> s, q |-> x.q, seen |-> {}]
    BY <1>3, TurnIs, NotSeen
  <2>2. PICK r, y : r = Enqueue(u, x.p) /\ y = [k |-> r, p |-> s, q |-> x.q, seen |-> {}]
    OBVIOUS
  <2>3. /\ r.runout = x.k.runout
        /\ r.wchan[x.p] = NULL /\ \A z \in AllProc : z # x.p => r.wchan[z] = x.k.wchan[z]
        /\ \E g : Walk(y, c, off, k0, f0, g, n + 1)
    BY <1>3, <2>2, WalkWake
  <2>4. PICK g : Walk(y, c, off, k0, f0, g, n + 1)
    BY <2>3
  <2>5. x.p \in AllProc /\ x.p \notin x.seen
    BY <1>3, NotSeen
  <2>6. CASE ~ (r.runout /\ ~ sload[x.p])
    <3>1. MakeRun(u, x.p) = r
      BY <2>2, <2>6, MakeRunIs
    <3>2. TurnOf(1, c, x) = y /\ y.k = r
      BY <2>1, <2>2, <3>1
    <3>3. Told(k0, r)
      BY <2>3, <2>5, <2>6 DEF Told
    <3>4. QED BY <2>4, <3>2, <3>3
  <2>7. CASE r.runout /\ ~ sload[x.p]
    <3>1. c # RunOut
      <4>1. x.p # Sched
        BY <2>7
      <4>2. x.p \in Proc /\ x.k.wchan[x.p] # RunOut
        BY <2>5, <4>1 DEF AllProc, Walk, Tidy
      <4>3. QED BY <1>3, <4>2
    <3>2. PICK v : v = [r EXCEPT !.runout = FALSE]
      OBVIOUS
    <3>3. MakeRun(u, x.p) = Looped(0, v, RunOut)
      BY <2>2, <2>7, <3>2, MakeRunIs
    <3>4. Tidy(v, off, g) /\ y.k = r
      BY <2>2, <2>4, <3>2, TidyQuiet DEF Walk
    <3>5. PICK h : Walked(v, off, g, Looped(0, v, RunOut), h, RunOut)
      BY <3>4, LoopShallow, ProcFacts
    <3>6. PICK k, w : /\ k = Looped(0, v, RunOut)
                      /\ w = [k |-> k, p |-> s, q |-> x.q, seen |-> {}]
      OBVIOUS
    <3>7. /\ Tidy(k, off, h) /\ Woke(v, k, RunOut) /\ Asks(v, k) /\ Spared(v, g, k, h, RunOut)
          /\ \A z \in AllProc : k.wchan[z] # RunOut
      BY <3>5, <3>6 DEF Walked
    <3>8. y.p = s /\ y.q = x.q /\ n + 1 \in Nat /\ v = [y.k EXCEPT !.runout = FALSE]
          /\ w = [k |-> k, p |-> y.p, q |-> y.q, seen |-> {}]
      BY <2>2, <3>2, <3>4, <3>6
    <3>9. Walk(w, c, off, k0, f0, h, n + 1) /\ ~ k.runout
      BY <2>4, <3>1, <3>7, <3>8, WalkNested
    <3>10. TurnOf(1, c, x) = w /\ w.k = k
      BY <2>1, <3>3, <3>6
    <3>11. QED BY <3>9, <3>10 DEF Told
  <2>8. QED BY <2>6, <2>7
<1>4. QED BY <1>1, <1>2, <1>3

(* wakeup wakes all that sleep on c, and its loop ends.                    *)
LEMMA WakeupOK ==
  ASSUME RunOutAlone, sload[Sched],
         NEW k, NEW off, NEW f, Tidy(k, off, f), NEW c \in AllChan
  PROVE  /\ \E g : Walked(k, off, f, Wakeup(k, c), g, c)
         /\ Told(k, Wakeup(k, c))
<1>1. PICK l : /\ l[0] = Start(k, c) /\ l[MaxTurns].k = Looped(1, k, c)
               /\ \A n \in 1 .. MaxTurns : l[n] = TurnOf(1, c, l[n - 1])
  BY LoopSteps
<1> DEFINE G == {n \in 0 .. MaxTurns : /\ \E g : Walk(l[n], c, off, k, f, g, n)
                                       /\ Told(k, l[n].k)}
<1>2. 0 \in G
  <2>1. Walk(l[0], c, off, k, f, f, 0)
    BY <1>1, WalkStart
  <2>2. l[0].k = k
    BY <1>1 DEF Start
  <2>3. QED BY <2>1, <2>2, TurnsFacts DEF Told
<1>3. ASSUME NEW n \in 1 .. MaxTurns, n - 1 \in G PROVE n \in G
  <2>1. PICK g : Walk(l[n - 1], c, off, k, f, g, n - 1)
    BY <1>3
  <2>2. n - 1 \in Nat /\ (n - 1) + 1 = n /\ n \in 0 .. MaxTurns /\ Told(k, l[n - 1].k)
    BY <1>3, TurnsFacts
  <2>3. /\ \E h : Walk(TurnOf(1, c, l[n - 1]), c, off, k, f, h, (n - 1) + 1)
        /\ Told(k, TurnOf(1, c, l[n - 1]).k)
    BY <2>1, <2>2, TurnDeep
  <2>4. QED BY <1>1, <2>2, <2>3
<1>4. MaxTurns \in G
  <2> HIDE DEF G
  <2>1. Closed(MaxTurns, G)
    BY <1>2, <1>3, TurnsFacts DEF Closed
  <2>2. 0 .. MaxTurns \subseteq G /\ MaxTurns \in 0 .. MaxTurns
    BY <2>1, AllReached, TurnsFacts
  <2>3. QED BY <2>2
<1>5. PICK g : Walk(l[MaxTurns], c, off, k, f, g, MaxTurns)
  BY <1>4
<1>6. Walked(k, off, f, l[MaxTurns].k, g, c)
  BY <1>5, WalkEnd
<1>7. Wakeup(k, c) = l[MaxTurns].k
  BY <1>1, LoopsAre
<1>8. QED BY <1>4, <1>6, <1>7

-----------------------------------------------------------------------------
(* The operations on the queues.                                           *)
Ordered(k, off) == \E f : Tidy(k, off, f)

(* The end of a sleep on a channel is the end of all sleeps on it.         *)
AllUp(k, r) ==
  \A c \in AllChan :
    (\E p \in AllProc : k.wchan[p] = c /\ r.wchan[p] # c)
       => \A p \in AllProc : r.wchan[p] # c

(* Between k and r processes are made to run, and nothing else.            *)
Effect(k, r) ==
  /\ \A x \in AllProc : \/ r.wchan[x] = k.wchan[x] /\ r.stat[x] = k.stat[x]
                        \/ r.wchan[x] = NULL /\ r.stat[x] = "SRUN"
  /\ Asks(k, r)
  /\ r.runout => \A x \in AllProc : r.stat[x] # k.stat[x] => sload[x]
  /\ AllUp(k, r)

CanWake(k, off, c) == RunOutAlone /\ sload[Sched] /\ Ordered(k, off) /\ c \in AllChan

LEMMA WakeupEffect ==
  \A k, off, c : CanWake(k, off, c) =>
    /\ Ordered(Wakeup(k, c), off) /\ Effect(k, Wakeup(k, c))
    /\ \A x \in AllProc : Wakeup(k, c).wchan[x] # c
<1> SUFFICES ASSUME NEW k, NEW off, NEW c, CanWake(k, off, c)
             PROVE  /\ Ordered(Wakeup(k, c), off) /\ Effect(k, Wakeup(k, c))
                    /\ \A x \in AllProc : Wakeup(k, c).wchan[x] # c
  OBVIOUS
<1>1. PICK f : Tidy(k, off, f)
  BY DEF CanWake, Ordered
<1>2. PICK r : r = Wakeup(k, c)
  OBVIOUS
<1>3. (\E g : Walked(k, off, f, r, g, c)) /\ Told(k, r)
  BY <1>1, <1>2, WakeupOK DEF CanWake
<1>4. PICK g : Walked(k, off, f, r, g, c)
  BY <1>3
<1>5. /\ Tidy(r, off, g) /\ Woke(k, r, c) /\ Asks(k, r)
      /\ \A z \in AllProc : r.wchan[z] # c
  BY <1>4 DEF Walked
<1>6. \A x \in Proc : k.wchan[x] # RunOut /\ r.wchan[x] # RunOut
  BY <1>1, <1>5 DEF Tidy
<1>7. NULL \notin {c, RunOut} /\ NULL \notin AllChan
  BY ProcFacts DEF CanWake
<1>8. \A x \in AllProc : r.stat[x] # k.stat[x] => r.wchan[x] # k.wchan[x]
  BY <1>5, <1>7 DEF Woke
<1>9. r.runout => \A x \in AllProc : r.stat[x] # k.stat[x] => sload[x]
  BY <1>3, <1>8 DEF Told
<1>10. AllUp(k, r)
  <2>1. SUFFICES ASSUME NEW d \in AllChan, NEW p \in AllProc, k.wchan[p] = d, r.wchan[p] # d
                 PROVE  \A x \in AllProc : r.wchan[x] # d
    BY DEF AllUp
  <2>2. d = c \/ d = RunOut
    BY <1>5, <2>1 DEF Woke
  <2>3. CASE d = c
    BY <1>5, <2>3
  <2>4. CASE d = RunOut
    <3>1. p = Sched
      BY <1>6, <2>1, <2>4 DEF AllProc
    <3>2. QED BY <1>6, <2>1, <2>4, <3>1 DEF AllProc
  <2>5. QED BY <2>2, <2>3, <2>4
<1>11. Effect(k, r)
  BY <1>5, <1>9, <1>10 DEF Effect, Woke
<1>12. QED BY <1>2, <1>5, <1>11 DEF Ordered

CanRun(k, off, p) == RunOutAlone /\ sload[Sched] /\ Ordered(k, off) /\ p \in off

LEMMA MakeRunEffect ==
  \A k, off, p : CanRun(k, off, p) =>
    /\ Ordered(MakeRun(k, p), off \ {p}) /\ Effect(k, MakeRun(k, p))
    /\ MakeRun(k, p).stat[p] = "SRUN"
<1> SUFFICES ASSUME NEW k, NEW off, NEW p, CanRun(k, off, p)
             PROVE  /\ Ordered(MakeRun(k, p), off \ {p}) /\ Effect(k, MakeRun(k, p))
                    /\ MakeRun(k, p).stat[p] = "SRUN"
  OBVIOUS
<1>1. PICK f : Tidy(k, off, f)
  BY DEF CanRun, Ordered
<1>2. PICK r, m : r = Enqueue(k, p) /\ m = MakeRun(k, p)
  OBVIOUS
<1>3. CanEnqueue(k, off, f, p)
  BY <1>1 DEF CanRun, CanEnqueue
<1>4. Enqueued(k, off, f, p, r)
  BY <1>2, <1>3, EnqueueOK
<1>5. PICK g : Tidy(r, off \ {p}, g)
  BY <1>4 DEF Enqueued
<1>6. /\ r.wchan = k.wchan /\ r.stat[p] = "SRUN" /\ r.runout = k.runout
      /\ \A x \in AllProc : x # p => r.stat[x] = k.stat[x]
  BY <1>4 DEF Enqueued
<1>7. p \in AllProc /\ k.wchan[p] = NULL
  BY <1>1 DEF CanRun, Tidy
<1>8. \A x \in Proc : k.wchan[x] # RunOut
  BY <1>1 DEF Tidy
<1>9. CASE ~ (r.runout /\ ~ sload[p])
  <2>1. m = r
    BY <1>2, <1>9, MakeRunIs
  <2>2. Asks(k, r) /\ AllUp(k, r)
    BY <1>6 DEF Asks, AllUp
  <2>3. Effect(k, r)
    BY <1>6, <1>7, <1>9, <2>2 DEF Effect
  <2>4. QED BY <1>2, <1>5, <1>6, <2>1, <2>3 DEF Ordered
<1>10. CASE r.runout /\ ~ sload[p]
  <2>1. PICK v : v = [r EXCEPT !.runout = FALSE]
    OBVIOUS
  <2>2. m = Looped(0, v, RunOut)
    BY <1>2, <1>10, <2>1, MakeRunIs
  <2>3. Tidy(v, off \ {p}, g) /\ ~ v.runout /\ v.wchan = r.wchan /\ v.stat = r.stat
    BY <1>5, <2>1, TidyQuiet
  <2>4. PICK h : Walked(v, off \ {p}, g, m, h, RunOut)
    BY <2>2, <2>3, LoopShallow, ProcFacts
  <2>5. /\ Tidy(m, off \ {p}, h) /\ Woke(v, m, RunOut) /\ Asks(v, m)
        /\ \A z \in AllProc : m.wchan[z] # RunOut
    BY <2>4 DEF Walked
  <2>6. \A x \in AllProc : \/ m.wchan[x] = r.wchan[x] /\ m.stat[x] = r.stat[x]
                           \/ r.wchan[x] = RunOut /\ m.wchan[x] = NULL /\ m.stat[x] = "SRUN"
    BY <2>3, <2>5 DEF Woke
  <2>7. ~ m.runout /\ Asks(k, m)
    BY <2>3, <2>5, ProcFacts DEF Asks
  <2>8. AllUp(k, m)
    BY <1>6, <2>5, <2>6 DEF AllUp
  <2>9. m.stat[p] = "SRUN"
    BY <1>6, <1>7, <2>6
  <2>10. \A x \in AllProc : \/ m.wchan[x] = k.wchan[x] /\ m.stat[x] = k.stat[x]
                            \/ m.wchan[x] = NULL /\ m.stat[x] = "SRUN"
    BY <1>6, <1>7, <2>6, <2>9
  <2>11. Effect(k, m)
    BY <2>7, <2>8, <2>10 DEF Effect
  <2>12. QED BY <1>2, <2>5, <2>9, <2>11 DEF Ordered
<1>11. QED BY <1>9, <1>10

(* The sleep of a process on no queue.                                     *)
CanSleep(k, off, p, c) ==
  Ordered(k, off) /\ p \in off /\ c \in AllChan /\ (p \in Proc => c # RunOut)

Slept(k, off, p, c, s) ==
  /\ Ordered(s, off \ {p}) /\ s.wchan[p] = c /\ s.stat[p] = "SSLEEP"
  /\ \A x \in AllProc : x # p => s.wchan[x] = k.wchan[x] /\ s.stat[x] = k.stat[x]
  /\ s.runout = k.runout /\ AllUp(k, s)

LEMMA SleepsEffect ==
  \A k, off, p, c : CanSleep(k, off, p, c) => Slept(k, off, p, c, Sleeps(k, p, c))
<1> SUFFICES ASSUME NEW k, NEW off, NEW p, NEW c, CanSleep(k, off, p, c)
             PROVE  Slept(k, off, p, c, Sleeps(k, p, c))
  OBVIOUS
<1>1. PICK f : Tidy(k, off, f)
  BY DEF CanSleep, Ordered
<1> DEFINE s == Sleeps(k, p, c)
           B == Hash[c]
           o == off \ {p}
<1>2. /\ p \in AllProc /\ p \in off /\ k.wchan[p] = NULL /\ c # NULL /\ c \in AllChan
      /\ B \in Bucket /\ k \in Queues /\ Ranks(f) /\ (p \in Proc => c # RunOut)
  BY <1>1, ProcFacts DEF Tidy, CanSleep
<1>3. /\ k.slpque \in [Bucket -> AllProc \cup {NULL}]
      /\ k.link \in [AllProc -> AllProc \cup {NULL}]
      /\ k.wchan \in [AllProc -> AllChan \cup {NULL}]
      /\ k.stat \in [AllProc -> {"SRUN", "SSLEEP", "SSTOP"}]
  BY <1>2, QueuesFacts
<1>4. /\ s \in Queues /\ s.slpque = [k.slpque EXCEPT ![B] = p]
      /\ s.link = [k.link EXCEPT ![p] = k.slpque[B]]
      /\ s.wchan = [k.wchan EXCEPT ![p] = c] /\ s.stat = [k.stat EXCEPT ![p] = "SSLEEP"]
      /\ s.runq = k.runq /\ s.runout = k.runout /\ s.onq = k.onq /\ s.hung = k.hung
  <2> DEFINE v == [k EXCEPT !.stat[p] = "SSLEEP", !.wchan[p] = c]
             w == [v EXCEPT !.link[p] = k.slpque[B]]
  <2>1. /\ v \in Queues /\ v.slpque = k.slpque /\ v.link = k.link
        /\ v.wchan = [k.wchan EXCEPT ![p] = c] /\ v.stat = [k.stat EXCEPT ![p] = "SSLEEP"]
        /\ v.runq = k.runq /\ v.runout = k.runout /\ v.onq = k.onq /\ v.hung = k.hung
    BY <1>2, <1>3 DEF Queues
  <2>2. s = [w EXCEPT !.slpque[B] = p]
    BY DEF Sleeps
  <2> HIDE DEF v
  <2>3. k.slpque[B] \in AllProc \cup {NULL}
    BY <1>2, <1>3
  <2>4. /\ w \in Queues /\ w.slpque = v.slpque /\ w.link = [v.link EXCEPT ![p] = k.slpque[B]]
        /\ w.wchan = v.wchan /\ w.stat = v.stat
        /\ w.runq = v.runq /\ w.runout = v.runout /\ w.onq = v.onq /\ w.hung = v.hung
    BY <1>2, <2>1, <2>3 DEF Queues
  <2> HIDE DEF s, w
  <2>5. /\ s \in Queues /\ s.slpque = [w.slpque EXCEPT ![B] = p] /\ s.link = w.link
        /\ s.wchan = w.wchan /\ s.stat = w.stat
        /\ s.runq = w.runq /\ s.runout = w.runout /\ s.onq = w.onq /\ s.hung = w.hung
    BY <1>2, <2>2, <2>4 DEF Queues
  <2>6. QED BY <2>1, <2>4, <2>5
<1> HIDE DEF s, o
<1>5. /\ s.wchan[p] = c /\ s.stat[p] = "SSLEEP" /\ s.slpque[B] = p
      /\ \A x \in AllProc : x # p => /\ s.wchan[x] = k.wchan[x] /\ s.stat[x] = k.stat[x]
                                     /\ s.link[x] = k.link[x]
      /\ \A b \in Bucket : b # B => s.slpque[b] = k.slpque[b]
  BY <1>2, <1>3, <1>4
<1>6. PICK g : /\ Ranks(g)
               /\ \A x \in AllProc : x # p => g[x] = f[x] /\ g[p] < g[x]
  BY <1>2, NewRank
<1>7. \A b \in Bucket : Asleep(s, b) = IF b = B THEN Asleep(k, b) \cup {p} ELSE Asleep(k, b)
  BY <1>2, <1>5 DEF Asleep
<1>8. \A b \in Bucket : p \notin Asleep(k, b) /\ Asleep(k, b) \subseteq AllProc
  BY <1>2 DEF Asleep
<1>9. ASSUME NEW b \in Bucket PROVE Thread(g, s.link, s.slpque[b], Asleep(s, b))
  <2>1. Thread(f, k.link, k.slpque[b], Asleep(k, b))
    BY <1>1 DEF Tidy
  <2>2. CASE b = B
    <3>1. Thread(g, [k.link EXCEPT ![p] = k.slpque[B]], p, Asleep(k, B) \cup {p})
      BY <1>2, <1>3, <1>6, <1>8, <2>1, <2>2, ThreadPush
    <3>2. QED BY <1>2, <1>4, <1>5, <1>7, <2>2, <3>1
  <2>3. CASE b # B
    <3>1. \A x \in Asleep(k, b) : g[x] = f[x] /\ s.link[x] = k.link[x]
      BY <1>5, <1>6, <1>8
    <3>2. Thread(g, s.link, k.slpque[b], Asleep(k, b))
      BY <2>1, <3>1, ThreadSame
    <3>3. QED BY <1>5, <1>7, <2>3, <3>2
  <2>4. QED BY <2>2, <2>3
<1>10. Ready(s, o) = Ready(k, off)
  BY <1>2, <1>5 DEF Ready, o
<1>11. Thread(g, s.link, s.runq, Ready(s, o))
  <2>1. Thread(f, k.link, k.runq, Ready(k, off))
    BY <1>1 DEF Tidy
  <2>2. \A x \in Ready(k, off) : x \in AllProc /\ x # p
    BY <1>2 DEF Ready
  <2>3. \A x \in Ready(k, off) : g[x] = f[x] /\ s.link[x] = k.link[x]
    BY <1>5, <1>6, <2>2
  <2>4. Thread(g, s.link, k.runq, Ready(k, off))
    BY <2>1, <2>3, ThreadSame
  <2>5. QED BY <1>4, <1>10, <2>4
<1>12. Tidy(s, o, g)
  <2>1. o \subseteq AllProc /\ \A x \in o : s.wchan[x] = NULL
    BY <1>1, <1>5 DEF Tidy, o
  <2>2. \A x \in AllProc \ o : s.wchan[x] # NULL <=> s.stat[x] = "SSLEEP"
    BY <1>1, <1>2, <1>5 DEF Tidy, o
  <2>3. \A x \in Proc : s.wchan[x] # RunOut
    BY <1>1, <1>2, <1>5, ProcFacts DEF Tidy
  <2>4. ~ s.onq /\ ~ s.hung
    BY <1>1, <1>4 DEF Tidy
  <2>5. QED BY <1>4, <1>6, <1>9, <1>11, <2>1, <2>2, <2>3, <2>4 DEF Tidy
<1>13. AllUp(k, s)
  BY <1>2, <1>5, ProcFacts DEF AllUp
<1>14. Ordered(s, o)
  BY <1>12 DEF Ordered
<1>15. QED BY <1>4, <1>5, <1>13, <1>14 DEF s, o, Slept

-----------------------------------------------------------------------------
(* The queues as they are: only the process that runs, and is not about to *)
(* leave the processor, is on none.                                        *)
Off == IF cur # NULL /\ ~ leaving THEN {cur} ELSE {}

Order ==
  /\ Ordered(Q, Off)
  /\ cur = NULL => ~ leaving
  /\ cur # NULL /\ ~ leaving => stat[cur] = "SRUN"

(* Core is full of the images that are in it, of the one that sched writes *)
(* and of the one it reads; and sched has chosen a process to do so with.  *)
InCore == {p \in Proc : sload[p]}
Moving == IF pc[Sched] \in {"reading", "writing"} THEN 1 ELSE 0
SchedPC == {"scan", "swapin", "reading", "victim", "norun", "swapout", "writing"}

Images ==
  /\ sload[Sched] /\ pc[Sched] \in SchedPC
  /\ core + Cardinality(InCore) + Moving = Core
  /\ pc[Sched] \in {"swapin", "reading", "writing"} => chosen \in Proc /\ ~ sload[chosen]
  /\ pc[Sched] = "swapout" => chosen \in Proc /\ sload[chosen]

OtherTypes ==
  /\ pri \in [AllProc -> {PSWP, PRIBIO, PSLEP, PUSER}]
  /\ sload \in [AllProc -> BOOLEAN]
  /\ sig \in [Proc -> BOOLEAN]
  /\ runin \in BOOLEAN /\ leaving \in BOOLEAN
  /\ curpri \in {PSWP, PRIBIO, PSLEP, PUSER}
  /\ cur \in AllProc \cup {NULL}
  /\ pc \in [AllProc -> {"run", "slept", "trap", "stopped", "scan", "swapin",
                         "reading", "victim", "norun", "swapout", "writing"}]
  /\ chosen \in Proc \cup {NULL}
  /\ core \in Nat
  /\ swapio \in {"none", "started", "done"}

Inv == OtherTypes /\ Order /\ Images /\ SchedHasWork /\ NoSignalLost

(* What WakesAll says of a step.                                           *)
WakesStep ==
  \A c \in AllChan :
    (\E p \in AllProc : wchan[p] = c /\ wchan'[p] # c)
       => \A p \in AllProc : wchan'[p] # c

LEMMA QIs ==
  /\ Q.slpque = slpque /\ Q.runq = runq /\ Q.link = link /\ Q.wchan = wchan
  /\ Q.stat = stat /\ Q.runout = runout /\ Q.runrun = runrun /\ Q.onq = onq
  /\ Q.hung = hung
BY DEF Q

LEMMA QNext ==
  /\ Q'.slpque = slpque' /\ Q'.runq = runq' /\ Q'.link = link' /\ Q'.wchan = wchan'
  /\ Q'.stat = stat' /\ Q'.runout = runout' /\ Q'.runrun = runrun' /\ Q'.onq = onq'
  /\ Q'.hung = hung'
BY DEF Q

LEMMA BecomesIs ==
  \A k \in Queues : Becomes(k) => Q' = k
<1> SUFFICES ASSUME NEW k \in Queues, Becomes(k) PROVE Q' = k
  OBVIOUS
<1>1. k = [slpque |-> k.slpque, runq |-> k.runq, link |-> k.link, wchan |-> k.wchan,
           stat |-> k.stat, runout |-> k.runout, runrun |-> k.runrun, onq |-> k.onq,
           hung |-> k.hung]
  BY DEF Queues
<1>2. QED BY <1>1 DEF Becomes, Q

LEMMA QSame == UNCHANGED queues => Q' = Q
BY DEF queues, Q

LEMMA OrderedFacts ==
  \A k, off : Ordered(k, off) =>
    /\ k \in Queues /\ ~ k.onq /\ ~ k.hung /\ off \subseteq AllProc
    /\ \A p \in off : k.wchan[p] = NULL
    /\ \A p \in AllProc \ off : k.wchan[p] # NULL <=> k.stat[p] = "SSLEEP"
    /\ \A p \in Proc : k.wchan[p] # RunOut
BY DEF Ordered, Tidy

(* The flags are not in the queues.                                        *)
LEMMA OrderedFlags ==
  ASSUME NEW k, NEW off, Ordered(k, off), NEW r \in Queues,
         r.slpque = k.slpque, r.runq = k.runq, r.link = k.link, r.wchan = k.wchan,
         r.stat = k.stat, r.onq = k.onq, r.hung = k.hung
  PROVE  Ordered(r, off)
<1>1. PICK f : Tidy(k, off, f)
  BY DEF Ordered
<1>2. (\A b : Asleep(r, b) = Asleep(k, b)) /\ Ready(r, off) = Ready(k, off)
  BY DEF Asleep, Ready
<1>3. Tidy(r, off, f)
  BY <1>1, <1>2 DEF Tidy
<1>4. QED BY <1>3 DEF Ordered

LEMMA OrderedRunrun ==
  \A k, off, r : Ordered(k, off) /\ r = [k EXCEPT !.runrun = TRUE] =>
     Ordered(r, off) /\ r.wchan = k.wchan /\ r.stat = k.stat /\ r.runout = k.runout
<1> SUFFICES ASSUME NEW k, NEW off, NEW r, Ordered(k, off), r = [k EXCEPT !.runrun = TRUE]
             PROVE  /\ Ordered(r, off) /\ r.wchan = k.wchan /\ r.stat = k.stat
                    /\ r.runout = k.runout
  OBVIOUS
<1>0. k \in Queues
  BY OrderedFacts
<1>1. /\ r \in Queues /\ r.slpque = k.slpque /\ r.runq = k.runq /\ r.link = k.link
      /\ r.wchan = k.wchan /\ r.stat = k.stat /\ r.onq = k.onq /\ r.hung = k.hung
      /\ r.runout = k.runout
  BY <1>0 DEF Queues
<1>2. Ordered(r, off)
  BY <1>1, OrderedFlags
<1>3. QED BY <1>1, <1>2

LEMMA OrderedRunout ==
  \A k, off, b, r : Ordered(k, off) /\ b \in BOOLEAN /\ r = [k EXCEPT !.runout = b] =>
     Ordered(r, off) /\ r.wchan = k.wchan /\ r.stat = k.stat /\ r.runout = b
<1> SUFFICES ASSUME NEW k, NEW off, NEW b \in BOOLEAN, NEW r, Ordered(k, off),
                    r = [k EXCEPT !.runout = b]
             PROVE  /\ Ordered(r, off) /\ r.wchan = k.wchan /\ r.stat = k.stat
                    /\ r.runout = b
  OBVIOUS
<1>0. k \in Queues
  BY OrderedFacts
<1>1. /\ r \in Queues /\ r.slpque = k.slpque /\ r.runq = k.runq /\ r.link = k.link
      /\ r.wchan = k.wchan /\ r.stat = k.stat /\ r.onq = k.onq /\ r.hung = k.hung
      /\ r.runout = b
  BY <1>0 DEF Queues
<1>2. Ordered(r, off)
  BY <1>1, OrderedFlags
<1>3. QED BY <1>1, <1>2

(* A process that stops is on no queue, and can be counted as off or not.  *)
CanStop(k, off, p, r) == Ordered(k, off) /\ p \in off /\ r = [k EXCEPT !.stat[p] = "SSTOP"]

Halted(k, off, p, r) ==
  /\ Ordered(r, off \ {p}) /\ r.wchan = k.wchan /\ r.runout = k.runout
  /\ r.stat[p] = "SSTOP" /\ \A x \in AllProc : x # p => r.stat[x] = k.stat[x]

LEMMA OrderedStop ==
  \A k, off, p, r : CanStop(k, off, p, r) => Halted(k, off, p, r)
<1> SUFFICES ASSUME NEW k, NEW off, NEW p, NEW r, CanStop(k, off, p, r)
             PROVE  Halted(k, off, p, r)
  OBVIOUS
<1>0. Ordered(k, off) /\ p \in off /\ r = [k EXCEPT !.stat[p] = "SSTOP"]
  BY DEF CanStop
<1>1. PICK f : Tidy(k, off, f)
  BY <1>0 DEF Ordered
<1>2. p \in AllProc /\ k \in Queues /\ k.wchan[p] = NULL
  BY <1>0, <1>1 DEF Tidy
<1>3. /\ r \in Queues /\ r.slpque = k.slpque /\ r.runq = k.runq /\ r.link = k.link
      /\ r.wchan = k.wchan /\ r.stat = [k.stat EXCEPT ![p] = "SSTOP"] /\ r.onq = k.onq
      /\ r.hung = k.hung /\ r.runout = k.runout
  BY <1>0, <1>2 DEF Queues
<1>4. r.stat[p] = "SSTOP" /\ \A x \in AllProc : x # p => r.stat[x] = k.stat[x]
  BY <1>2, <1>3 DEF Queues
<1>5. (\A b : Asleep(r, b) = Asleep(k, b)) /\ Ready(r, off \ {p}) = Ready(k, off)
  BY <1>0, <1>2, <1>3, <1>4 DEF Asleep, Ready
<1>6. \A x \in AllProc \ (off \ {p}) : r.wchan[x] # NULL <=> r.stat[x] = "SSLEEP"
  BY <1>1, <1>2, <1>3, <1>4 DEF Tidy
<1>7. Tidy(r, off \ {p}, f)
  BY <1>0, <1>1, <1>3, <1>5, <1>6 DEF Tidy
<1>8. QED BY <1>3, <1>4, <1>7 DEF Ordered, Halted

LEMMA OrderedStopped ==
  ASSUME NEW k, NEW off, Ordered(k, off), NEW p \in AllProc \ off, k.stat[p] = "SSTOP"
  PROVE  Ordered(k, off \cup {p}) /\ (off \cup {p}) \ {p} = off
<1>1. PICK f : Tidy(k, off, f)
  BY DEF Ordered
<1>2. k.wchan[p] = NULL
  BY <1>1 DEF Tidy
<1>3. Ready(k, off \cup {p}) = Ready(k, off)
  BY DEF Ready
<1>4. Tidy(k, off \cup {p}, f)
  BY <1>1, <1>2, <1>3 DEF Tidy
<1>5. QED BY <1>4 DEF Ordered

(* setrq alone, of a process that can run.                                 *)
CanRequeue(k, off, p, r) ==
  Ordered(k, off) /\ p \in off /\ k.stat[p] = "SRUN" /\ r = SetRq(k, p)

Requeued(k, off, p, r) ==
  Ordered(r, off \ {p}) /\ r.wchan = k.wchan /\ r.stat = k.stat /\ r.runout = k.runout

LEMMA OrderedRequeue ==
  \A k, off, p, r : CanRequeue(k, off, p, r) => Requeued(k, off, p, r)
<1> SUFFICES ASSUME NEW k, NEW off, NEW p, NEW r, CanRequeue(k, off, p, r)
             PROVE  Requeued(k, off, p, r)
  OBVIOUS
<1>1. Ordered(k, off) /\ p \in off /\ k.stat[p] = "SRUN" /\ r = SetRq(k, p)
  BY DEF CanRequeue
<1>2. PICK f : Tidy(k, off, f)
  BY <1>1 DEF Ordered
<1>3. p \in AllProc /\ k \in Queues
  BY <1>1, <1>2 DEF Tidy
<1>4. p \notin On(k.link, k.runq)
  BY <1>1, <1>2, TidyFacts DEF Ready
<1>5. /\ k.link \in [AllProc -> AllProc \cup {NULL}] /\ k.runq \in AllProc \cup {NULL}
      /\ k.stat \in [AllProc -> {"SRUN", "SSLEEP", "SSTOP"}]
  BY <1>3, QueuesFacts
<1>6. PICK e : e = Enqueue(k, p)
  OBVIOUS
<1>7. /\ e \in Queues /\ e.slpque = k.slpque /\ e.runq = p
      /\ e.link = [k.link EXCEPT ![p] = k.runq] /\ e.wchan = k.wchan
      /\ e.stat = [k.stat EXCEPT ![p] = "SRUN"] /\ e.onq = k.onq /\ e.hung = k.hung
  BY <1>3, <1>4, <1>6, EnqueueIs
<1>8. CanEnqueue(k, off, f, p)
  BY <1>1, <1>2 DEF CanEnqueue
<1>9. Enqueued(k, off, f, p, e)
  BY <1>6, <1>8, EnqueueOK
<1>10. Ordered(e, off \ {p})
  BY <1>9 DEF Enqueued, Ordered
<1>11. /\ r \in Queues /\ r.slpque = k.slpque /\ r.runq = p
       /\ r.link = [k.link EXCEPT ![p] = k.runq] /\ r.wchan = k.wchan /\ r.stat = k.stat
       /\ r.onq = k.onq /\ r.hung = k.hung /\ r.runout = k.runout
  <2> DEFINE v == [k EXCEPT !.link[p] = k.runq]
  <2>1. v \in Queues /\ v.slpque = k.slpque
        /\ v.link = [k.link EXCEPT ![p] = k.runq] /\ v.wchan = k.wchan /\ v.stat = k.stat
        /\ v.runout = k.runout /\ v.onq = k.onq /\ v.hung = k.hung
    BY <1>3, <1>5 DEF Queues
  <2>2. r = [v EXCEPT !.runq = p]
    BY <1>1, <1>4 DEF SetRq
  <2> HIDE DEF v
  <2>3. r \in Queues /\ r.slpque = v.slpque /\ r.runq = p
        /\ r.link = v.link /\ r.wchan = v.wchan /\ r.stat = v.stat
        /\ r.runout = v.runout /\ r.onq = v.onq /\ r.hung = v.hung
    BY <1>3, <2>1, <2>2 DEF Queues
  <2>4. QED BY <2>1, <2>3
<1>12. e.stat = k.stat
  BY <1>1, <1>3, <1>5, <1>7
<1>13. Ordered(r, off \ {p})
  BY <1>7, <1>10, <1>11, <1>12, OrderedFlags
<1>14. QED BY <1>11, <1>13 DEF Requeued

(* swtch takes the process at place i from runq.                           *)
LEMMA OrderedTake ==
  ASSUME NEW k, Ordered(k, {}), NEW i \in 1 .. NPROC, NEW p, p = Met(k.link, k.runq)[i],
         p # NULL, NEW r,
         r = IF i = 1 THEN [k EXCEPT !.runq = k.link[p]]
                      ELSE [k EXCEPT !.link[Met(k.link, k.runq)[i - 1]] = k.link[p]]
  PROVE  Ordered(r, {p}) /\ k.stat[p] = "SRUN" /\ p \in AllProc
<1> DEFINE S == Ready(k, {})
           m == Met(k.link, k.runq)
           q == m[i - 1]
<1>1. PICK f : Tidy(k, {}, f)
  BY DEF Ordered
<1>2. Thread(f, k.link, k.runq, S) /\ Ranks(f) /\ k \in Queues /\ S \subseteq AllProc
  BY <1>1, TidyFacts DEF Tidy
<1>3. i \in 1 .. NPROC + 1 /\ (i # 1 => i \in 2 .. NPROC + 1 /\ i - 1 \in 1 .. NPROC + 1)
  BY Places
<1>4. \A j \in 1 .. NPROC + 1 : m[j] # NULL => m[j] \in S
  <2> HIDE DEF S, m
  <2>1. QED BY <1>2, MetIs DEF m
<1>5. m[1] = k.runq /\ (i # 1 => m[i] = Follow(k.link, q))
  BY <1>3, MetSteps
<1>6. /\ p \in S /\ p \in AllProc /\ k.stat[p] = "SRUN"
      /\ i # 1 => q \in S /\ q # NULL /\ k.link[q] = p
  <2>1. p \in S
    BY <1>3, <1>4
  <2>2. i # 1 => q # NULL /\ k.link[q] = p
    BY <1>5 DEF Follow
  <2>3. i # 1 => q \in S
    BY <1>3, <1>4, <2>2
  <2>4. QED BY <2>1, <2>2, <2>3 DEF Ready
<1>7. /\ k.link \in [AllProc -> AllProc \cup {NULL}] /\ k.runq \in AllProc \cup {NULL}
      /\ (i # 1 => q \in AllProc)
  BY <1>2, <1>6, QueuesFacts
<1> HIDE DEF S, m, q
<1>8. /\ r \in Queues /\ r.slpque = k.slpque /\ r.wchan = k.wchan /\ r.stat = k.stat
      /\ r.onq = k.onq /\ r.hung = k.hung
      /\ r.runq = IF i = 1 THEN k.link[p] ELSE k.runq
      /\ r.link = IF i = 1 THEN k.link ELSE [k.link EXCEPT ![q] = k.link[p]]
  <2>1. k.link[p] \in AllProc \cup {NULL}
    BY <1>6, <1>7
  <2>2. CASE i = 1
    BY <1>2, <2>1, <2>2 DEF Queues
  <2>3. CASE i # 1
    <3>1. r = [k EXCEPT !.link[q] = k.link[p]]
      BY <2>3 DEF q, m
    <3>2. QED BY <1>2, <1>7, <2>1, <2>3, <3>1 DEF Queues
  <2>4. QED BY <2>2, <2>3
<1>9. Thread(f, r.link, r.runq, S \ {p})
  <2>1. CASE i = 1
    <3>1. k.runq = p /\ p # NULL
      BY <1>5, <2>1 DEF m
    <3>2. QED BY <1>2, <1>8, <2>1, <3>1, ThreadTail
  <2>2. CASE i # 1
    <3>1. Thread(f, [k.link EXCEPT ![q] = k.link[k.link[q]]], k.runq, S \ {k.link[q]})
      BY <1>2, <1>6, <1>7, <2>2, ThreadCut
    <3>2. QED BY <1>6, <1>8, <2>2, <3>1
  <2>3. QED BY <2>1, <2>2
<1>10. Ready(r, {p}) = S \ {p}
  BY <1>8 DEF Ready, S
<1>11. ASSUME NEW b \in Bucket PROVE Thread(f, r.link, r.slpque[b], Asleep(r, b))
  <2>1. Thread(f, k.link, k.slpque[b], Asleep(k, b)) /\ Asleep(r, b) = Asleep(k, b)
    BY <1>1, <1>8 DEF Tidy, Asleep
  <2>2. \A x \in Asleep(k, b) : x \in AllProc /\ (i # 1 => x # q)
    BY <1>1, <1>6, TidyFacts DEF S
  <2>3. \A x \in Asleep(k, b) : f[x] = f[x] /\ r.link[x] = k.link[x]
    BY <1>7, <1>8, <2>2
  <2>4. Thread(f, r.link, k.slpque[b], Asleep(k, b))
    BY <2>1, <2>3, ThreadSame
  <2>5. QED BY <1>8, <2>1, <2>4
<1>12. k.wchan[p] = NULL
  BY <1>1, <1>6 DEF Tidy
<1>13. Tidy(r, {p}, f)
  <2>1. \A x \in {p} : r.wchan[x] = NULL
    BY <1>8, <1>12
  <2>2. \A x \in AllProc \ {p} : r.wchan[x] # NULL <=> r.stat[x] = "SSLEEP"
    BY <1>1, <1>8 DEF Tidy
  <2>3. {p} \subseteq AllProc /\ ~ r.onq /\ ~ r.hung /\ \A x \in Proc : r.wchan[x] # RunOut
    BY <1>1, <1>6, <1>8 DEF Tidy
  <2>4. Thread(f, r.link, r.runq, Ready(r, {p}))
    BY <1>9, <1>10
  <2>5. QED BY <1>2, <1>8, <1>11, <2>1, <2>2, <2>3, <2>4 DEF Tidy
<1>14. QED BY <1>6, <1>13 DEF Ordered

-----------------------------------------------------------------------------
(* What the steps have in common.                                          *)
LEMMA InvFacts ==
  ASSUME Inv
  PROVE  /\ Q \in Queues /\ Off \subseteq AllProc /\ (cur # NULL /\ ~ leaving => Off = {cur})
         /\ (leaving \/ cur = NULL => Off = {})
         /\ \A p \in Off : wchan[p] = NULL
         /\ wchan \in [AllProc -> AllChan \cup {NULL}]
         /\ stat \in [AllProc -> {"SRUN", "SSLEEP", "SSTOP"}]
         /\ runout \in BOOLEAN
<1>1. Ordered(Q, Off)
  BY DEF Inv, Order
<1>2. Q \in Queues /\ Off \subseteq AllProc /\ \A p \in Off : Q.wchan[p] = NULL
  BY <1>1, OrderedFacts
<1>3. /\ cur # NULL /\ ~ leaving => Off = {cur}
      /\ leaving \/ cur = NULL => Off = {}
  BY DEF Off
<1>4. /\ Q.wchan \in [AllProc -> AllChan \cup {NULL}] /\ Q.runout \in BOOLEAN
      /\ Q.stat \in [AllProc -> {"SRUN", "SSLEEP", "SSTOP"}]
  BY <1>2, QueuesFacts
<1>5. QED BY <1>2, <1>3, <1>4, QIs

LEMMA WakesIs ==
  AllUp(Q, Q') <=> WakesStep
BY QIs, QNext DEF AllUp, WakesStep

LEMMA EffectGives ==
  \A k : Inv /\ Effect(Q, k) =>
    /\ k.wchan[Sched] = RunOut =>
         k.runout /\ \A x \in Proc : k.stat[x] = "SRUN" => sload[x]
    /\ \A x \in AllProc : /\ stat[x] = "SRUN" => k.stat[x] = "SRUN"
                          /\ k.wchan[x] \in {wchan[x], NULL}
                          /\ k.stat[x] = "SSLEEP" => stat[x] = "SSLEEP"
<1> SUFFICES ASSUME NEW k, Inv, Effect(Q, k)
             PROVE  /\ k.wchan[Sched] = RunOut =>
                         k.runout /\ \A x \in Proc : k.stat[x] = "SRUN" => sload[x]
                    /\ \A x \in AllProc : /\ stat[x] = "SRUN" => k.stat[x] = "SRUN"
                                          /\ k.wchan[x] \in {wchan[x], NULL}
                                          /\ k.stat[x] = "SSLEEP" => stat[x] = "SSLEEP"
  OBVIOUS
<1>2. \A x \in AllProc : \/ k.wchan[x] = wchan[x] /\ k.stat[x] = stat[x]
                         \/ k.wchan[x] = NULL /\ k.stat[x] = "SRUN"
  BY QIs DEF Effect
<1>3. /\ runout /\ ~ k.runout => k.wchan[Sched] # RunOut
      /\ k.runout => \A x \in AllProc : k.stat[x] # stat[x] => sload[x]
  BY QIs DEF Effect, Asks
<1>4. RunOut # NULL /\ Sched \in AllProc /\ Proc \subseteq AllProc
  BY ProcFacts
<1>5. ASSUME k.wchan[Sched] = RunOut
      PROVE  k.runout /\ \A x \in Proc : k.stat[x] = "SRUN" => sload[x]
  <2>1. wchan[Sched] = RunOut /\ runout /\ Waiting = {}
    BY <1>2, <1>4, <1>5 DEF Inv, SchedHasWork
  <2>2. k.runout
    BY <1>3, <1>5, <2>1
  <2>3. ASSUME NEW x \in Proc, k.stat[x] = "SRUN", ~ sload[x] PROVE FALSE
    <3>1. k.stat[x] = stat[x]
      BY <1>3, <1>4, <2>2, <2>3
    <3>2. x \in Waiting
      BY <2>3, <3>1 DEF Waiting
    <3>3. QED BY <2>1, <3>2
  <2>4. QED BY <2>2, <2>3
<1>6. QED BY <1>2, <1>5

LEMMA EffectKeeps ==
  ASSUME Inv, Effect(Q, Q'), sload' = sload
  PROVE  /\ WakesStep
         /\ wchan'[Sched] = RunOut => runout' /\ Waiting' = {}
         /\ \A x \in AllProc : /\ stat[x] = "SRUN" => stat'[x] = "SRUN"
                               /\ wchan'[x] \in {wchan[x], NULL}
                               /\ stat'[x] = "SSLEEP" => stat[x] = "SSLEEP"
<1>1. WakesStep
  BY WakesIs DEF Effect
<1>2. PICK k : k = Q'
  OBVIOUS
<1>3. Effect(Q, k) /\ k.wchan = wchan' /\ k.stat = stat' /\ k.runout = runout'
  BY <1>2, QNext
<1>4. /\ k.wchan[Sched] = RunOut =>
           k.runout /\ \A x \in Proc : k.stat[x] = "SRUN" => sload[x]
      /\ \A x \in AllProc : /\ stat[x] = "SRUN" => k.stat[x] = "SRUN"
                            /\ k.wchan[x] \in {wchan[x], NULL}
                            /\ k.stat[x] = "SSLEEP" => stat[x] = "SSLEEP"
  BY <1>3, EffectGives
<1>5. QED BY <1>1, <1>3, <1>4 DEF Waiting

LEMMA ImagesSame ==
  ASSUME Images, UNCHANGED <<sload, core, chosen>>, pc'[Sched] = pc[Sched]
  PROVE  Images'
BY DEF Images, InCore, Moving

LEMMA OrderSame ==
  ASSUME Order, Q' = Q, UNCHANGED <<cur, leaving>>
  PROVE  Order'
BY QIs, QNext DEF Order, Off

LEMMA WakesSame ==
  ASSUME Q' = Q PROVE WakesStep
BY QIs, QNext DEF WakesStep

LEMMA QueueVars ==
  ASSUME Q' = Q
  PROVE  wchan' = wchan /\ stat' = stat /\ runout' = runout
BY QIs, QNext

(* The running process goes to sleep.                                      *)
LEMMA SleepKeeps ==
  ASSUME Inv, NEW p \in Proc, cur = p, ~ leaving, NEW c \in Chan, Becomes(Sleeps(Q, p, c)),
         leaving' = TRUE, cur' = cur, sload' = sload
  PROVE  /\ Order' /\ WakesStep
         /\ wchan'[Sched] = RunOut => runout' /\ Waiting' = {}
         /\ wchan'[Sched] = wchan[Sched]
         /\ \A x \in AllProc : x # p => stat'[x] = stat[x]
<1>1. /\ p \in AllProc /\ p # NULL /\ p # Sched /\ Off = {p} /\ c \in AllChan /\ c # RunOut
      /\ Ordered(Q, Off)
  BY ProcFacts, InvFacts DEF Inv, Order
<1>2. CanSleep(Q, Off, p, c)
  BY <1>1 DEF CanSleep
<1>3. PICK s : s = Sleeps(Q, p, c)
  OBVIOUS
<1>4. /\ Ordered(s, Off \ {p}) /\ s.stat[p] = "SSLEEP"
      /\ \A x \in AllProc : x # p => s.wchan[x] = Q.wchan[x] /\ s.stat[x] = Q.stat[x]
      /\ s.runout = Q.runout /\ AllUp(Q, s)
  <2>1. Slept(Q, Off, p, c, s)
    BY <1>2, <1>3, SleepsEffect
  <2>2. QED BY <2>1 DEF Slept
<1>5. Q' = s
  BY <1>3, <1>4, OrderedFacts, BecomesIs
<1>6. Off' = {} /\ Off \ {p} = {}
  BY <1>1 DEF Off
<1>7. Order'
  BY <1>1, <1>4, <1>5, <1>6 DEF Order
<1>8. /\ stat'[p] = "SSLEEP" /\ runout' = runout
      /\ \A x \in AllProc : x # p => wchan'[x] = wchan[x] /\ stat'[x] = stat[x]
  BY <1>4, <1>5, QIs, QNext
<1>9. WakesStep
  BY <1>4, <1>5, WakesIs
<1>10. wchan'[Sched] = wchan[Sched] /\ Waiting' \subseteq Waiting
  BY <1>1, <1>8, ProcFacts DEF Waiting
<1>11. wchan'[Sched] = RunOut => runout' /\ Waiting' = {}
  BY <1>8, <1>10 DEF Inv, SchedHasWork
<1>12. QED BY <1>7, <1>8, <1>9, <1>10, <1>11

LEMMA SleepHardOK ==
  ASSUME Inv, NEW p \in Proc, SleepHard(p)
  PROVE  Inv' /\ WakesStep
<1>1. PICK c \in Chan : Becomes(Sleeps(Q, p, c))
  BY DEF SleepHard
<1>2. /\ cur = p /\ ~ leaving /\ leaving' = TRUE /\ cur' = cur /\ sload' = sload
      /\ pri' = [pri EXCEPT ![p] = PRIBIO] /\ sig' = sig /\ runin' = runin
      /\ curpri' = curpri /\ pc' = pc /\ chosen' = chosen /\ core' = core /\ swapio' = swapio
  BY DEF SleepHard, Running, swapper
<1>3. /\ Order' /\ WakesStep
      /\ wchan'[Sched] = RunOut => runout' /\ Waiting' = {}
      /\ wchan'[Sched] = wchan[Sched]
      /\ \A x \in AllProc : x # p => stat'[x] = stat[x]
  BY <1>1, <1>2, SleepKeeps
<1>4. OtherTypes'
  BY <1>2 DEF Inv, OtherTypes
<1>5. Images'
  BY <1>2, ImagesSame DEF Inv
<1>6. SchedHasWork'
  BY <1>2, <1>3 DEF Inv, SchedHasWork
<1>7. NoSignalLost'
  <2>1. SUFFICES ASSUME NEW x \in Proc, stat'[x] = "SSLEEP", pri'[x] > PZERO PROVE ~ sig'[x]
    BY DEF NoSignalLost
  <2>2. x # p /\ pri'[x] = pri[x]
    BY <1>2, <2>1, ProcFacts DEF Inv, OtherTypes, PZERO, PRIBIO
  <2>3. QED BY <1>2, <1>3, <2>1, <2>2, ProcFacts DEF Inv, NoSignalLost
<1>8. QED BY <1>3, <1>4, <1>5, <1>6, <1>7 DEF Inv

LEMMA SleepSoftOK ==
  ASSUME Inv, NEW p \in Proc, SleepSoft(p)
  PROVE  Inv' /\ WakesStep
<1>1. /\ cur = p /\ ~ leaving /\ cur' = cur /\ sload' = sload
      /\ pri' = [pri EXCEPT ![p] = PSLEP] /\ sig' = sig /\ runin' = runin
      /\ curpri' = curpri /\ chosen' = chosen /\ core' = core /\ swapio' = swapio
      /\ p # Sched /\ p \in AllProc
  BY ProcFacts DEF SleepSoft, Running, swapper
<1>2. CASE sig[p]
  <2>1. pc' = [pc EXCEPT ![p] = "trap"] /\ Q' = Q /\ leaving' = leaving
    BY <1>2, QSame DEF SleepSoft
  <2>2. OtherTypes'
    BY <1>1, <2>1 DEF Inv, OtherTypes
  <2>3. Images'
    BY <1>1, <2>1, ImagesSame DEF Inv, OtherTypes
  <2>4. Order' /\ WakesStep /\ wchan' = wchan /\ stat' = stat /\ runout' = runout
    BY <1>1, <2>1, OrderSame, WakesSame, QueueVars DEF Inv
  <2>5. SchedHasWork'
    BY <1>1, <2>4 DEF Inv, SchedHasWork, Waiting
  <2>6. stat[p] = "SRUN"
    BY <1>1, ProcFacts DEF Inv, Order
  <2>7. NoSignalLost'
    BY <1>1, <2>4, <2>6 DEF Inv, NoSignalLost, OtherTypes, AllProc
  <2>8. QED BY <2>2, <2>3, <2>4, <2>5, <2>7 DEF Inv
<1>3. CASE ~ sig[p]
  <2>1. PICK c \in Chan : Becomes(Sleeps(Q, p, c))
    BY <1>3 DEF SleepSoft
  <2>2. pc' = [pc EXCEPT ![p] = "slept"] /\ leaving' = TRUE
    BY <1>3 DEF SleepSoft
  <2>3. /\ Order' /\ WakesStep
        /\ wchan'[Sched] = RunOut => runout' /\ Waiting' = {}
        /\ wchan'[Sched] = wchan[Sched]
        /\ \A x \in AllProc : x # p => stat'[x] = stat[x]
    BY <1>1, <2>1, <2>2, SleepKeeps
  <2>4. OtherTypes'
    BY <1>1, <2>2 DEF Inv, OtherTypes
  <2>5. Images'
    BY <1>1, <2>2, ImagesSame DEF Inv, OtherTypes
  <2>6. SchedHasWork'
    BY <1>1, <2>3 DEF Inv, SchedHasWork
  <2>7. NoSignalLost'
    BY <1>1, <1>3, <2>3 DEF Inv, NoSignalLost, OtherTypes, AllProc
  <2>8. QED BY <2>3, <2>4, <2>5, <2>6, <2>7 DEF Inv
<1>4. QED BY <1>2, <1>3

LEMMA SwtchOK ==
  ASSUME RunOutAlone, Inv, NEW p \in AllProc, Swtch(p)
  PROVE  Inv' /\ WakesStep
<1>1. /\ cur = p /\ leaving /\ cur' = NULL /\ leaving' = FALSE /\ pri' = pri /\ sload' = sload
      /\ sig' = sig /\ curpri' = curpri /\ pc' = pc /\ chosen' = chosen /\ core' = core
      /\ swapio' = swapio /\ Off = {} /\ Off' = {} /\ Ordered(Q, Off) /\ sload[Sched]
  BY InvFacts DEF Swtch, swapper, Off, Inv, Order, Images
<1>2. Images'
  BY <1>1, ImagesSame DEF Inv
<1>3. CASE ~ (runin /\ pc[p] = "slept")
  <2>1. Q' = Q /\ runin' = runin
    BY <1>3, QSame DEF Swtch
  <2>2. Order' /\ WakesStep /\ wchan' = wchan /\ stat' = stat /\ runout' = runout
    BY <1>1, <2>1, WakesSame, QueueVars DEF Order
  <2>3. SchedHasWork' /\ NoSignalLost'
    BY <1>1, <2>1, <2>2 DEF Inv, SchedHasWork, Waiting, NoSignalLost
  <2>4. OtherTypes'
    BY <1>1, <2>1 DEF Inv, OtherTypes
  <2>5. QED BY <1>2, <2>2, <2>3, <2>4 DEF Inv
<1>4. CASE runin /\ pc[p] = "slept"
  <2>1. Becomes(Wakeup(Q, RunIn)) /\ runin' = FALSE
    BY <1>4 DEF Swtch
  <2>2. CanWake(Q, Off, RunIn)
    BY <1>1, ProcFacts DEF CanWake
  <2>3. PICK r : r = Wakeup(Q, RunIn)
    OBVIOUS
  <2>4. Ordered(r, Off) /\ Effect(Q, r) /\ \A x \in AllProc : r.wchan[x] # RunIn
    BY <2>2, <2>3, WakeupEffect
  <2>5. Q' = r
    BY <2>1, <2>3, <2>4, OrderedFacts, BecomesIs
  <2>6. Order'
    BY <1>1, <2>4, <2>5 DEF Order
  <2>7. Effect(Q, Q')
    BY <2>4, <2>5
  <2>8. /\ WakesStep
        /\ wchan'[Sched] = RunOut => runout' /\ Waiting' = {}
        /\ \A x \in AllProc : stat'[x] = "SSLEEP" => stat[x] = "SSLEEP"
    BY <1>1, <2>7, EffectKeeps
  <2>9. wchan'[Sched] # RunIn
    BY <2>4, <2>5, QNext, ProcFacts
  <2>10. SchedHasWork'
    BY <2>8, <2>9 DEF SchedHasWork
  <2>11. NoSignalLost'
    BY <1>1, <2>8, ProcFacts DEF Inv, NoSignalLost
  <2>12. OtherTypes'
    BY <1>1, <2>1 DEF Inv, OtherTypes
  <2>13. QED BY <1>2, <2>6, <2>8, <2>10, <2>11, <2>12 DEF Inv
<1>5. QED BY <1>3, <1>4

(* The steps that make processes run and leave the rest as it is.          *)
LEMMA EffectWork ==
  ASSUME Inv, Effect(Q, Q'), sload' = sload, runin' = runin
  PROVE  SchedHasWork'
<1>1. /\ wchan'[Sched] = RunOut => runout' /\ Waiting' = {}
      /\ wchan'[Sched] \in {wchan[Sched], NULL}
  BY EffectKeeps, ProcFacts
<1>2. QED BY <1>1, ProcFacts DEF Inv, SchedHasWork

LEMMA EffectSignals ==
  ASSUME Inv, Effect(Q, Q'), sload' = sload, sig' = sig, pri' = pri
  PROVE  NoSignalLost'
BY EffectKeeps, ProcFacts DEF Inv, NoSignalLost

LEMMA WakeKeeps ==
  ASSUME RunOutAlone, Inv, NEW c \in AllChan, Becomes(Wakeup(Q, c)), sload' = sload,
         UNCHANGED <<cur, leaving>>
  PROVE  /\ Order' /\ Effect(Q, Q') /\ WakesStep
         /\ \A x \in AllProc : wchan'[x] # c
<1>1. CanWake(Q, Off, c)
  BY DEF CanWake, Inv, Order, Images
<1>2. PICK r : r = Wakeup(Q, c)
  OBVIOUS
<1>3. Ordered(r, Off) /\ Effect(Q, r) /\ \A x \in AllProc : r.wchan[x] # c
  BY <1>1, <1>2, WakeupEffect
<1>4. Q' = r
  BY <1>2, <1>3, OrderedFacts, BecomesIs
<1>5. Off' = Off /\ Effect(Q, Q')
  BY <1>3, <1>4 DEF Off
<1>6. cur # NULL => cur \in AllProc
  BY DEF Inv, OtherTypes
<1>7. WakesStep /\ \A x \in AllProc : stat[x] = "SRUN" => stat'[x] = "SRUN"
  BY <1>5, EffectKeeps
<1>8. Order'
  BY <1>3, <1>4, <1>5, <1>6, <1>7 DEF Inv, Order
<1>9. QED BY <1>3, <1>4, <1>5, <1>7, <1>8, QNext

LEMMA WakeupChanOK ==
  ASSUME RunOutAlone, Inv, NEW c \in Chan, WakeupChan(c)
  PROVE  Inv' /\ WakesStep
<1>1. /\ Becomes(Wakeup(Q, c)) /\ c \in AllChan
      /\ UNCHANGED <<pri, sload, sig, runin, curpri, cur, leaving, pc, chosen, core, swapio>>
  BY ProcFacts DEF WakeupChan, control, swapper
<1>2. Order' /\ Effect(Q, Q') /\ WakesStep
  BY <1>1, WakeKeeps
<1>3. SchedHasWork' /\ NoSignalLost'
  BY <1>1, <1>2, EffectWork, EffectSignals
<1>4. OtherTypes' /\ Images'
  BY <1>1, ImagesSame DEF Inv, OtherTypes
<1>5. QED BY <1>2, <1>3, <1>4 DEF Inv

LEMMA SwapIntrOK ==
  ASSUME RunOutAlone, Inv, SwapIntr
  PROVE  Inv' /\ WakesStep
<1>1. /\ Becomes(Wakeup(Q, SwapBuf)) /\ SwapBuf \in AllChan /\ swapio' = "done"
      /\ UNCHANGED <<pri, sload, sig, runin, curpri, cur, leaving, pc, chosen, core>>
  BY ProcFacts DEF SwapIntr, control
<1>2. Order' /\ Effect(Q, Q') /\ WakesStep
  BY <1>1, WakeKeeps
<1>3. SchedHasWork' /\ NoSignalLost'
  BY <1>1, <1>2, EffectWork, EffectSignals
<1>4. OtherTypes' /\ Images'
  BY <1>1, ImagesSame DEF Inv, OtherTypes
<1>5. QED BY <1>2, <1>3, <1>4 DEF Inv

LEMMA PSignalOK ==
  ASSUME RunOutAlone, Inv, NEW p \in Proc, PSignal(p)
  PROVE  Inv' /\ WakesStep
<1>1. /\ UNCHANGED <<pri, sload, runin, curpri, cur, leaving, pc, chosen, core, swapio>>
      /\ sig' = [sig EXCEPT ![p] = TRUE] /\ p \in AllProc
  BY ProcFacts DEF PSignal, control, swapper
<1>2. OtherTypes' /\ Images'
  BY <1>1, ImagesSame DEF Inv, OtherTypes
<1>3. CASE stat[p] = "SSLEEP" /\ pri[p] > PZERO
  <2>1. Becomes(SetRun(Q, p))
    BY <1>3 DEF PSignal
  <2>2. p \notin Off
    BY <1>3 DEF Off, Inv, Order
  <2>3. wchan[p] # NULL /\ wchan[p] \in AllChan
    BY <1>1, <1>3, <2>2, InvFacts, OrderedFacts, QIs DEF Inv, Order
  <2>4. PICK c \in AllChan : c = wchan[p] /\ Becomes(Wakeup(Q, c))
    BY <2>1, <2>3, QIs DEF SetRun
  <2>5. Order' /\ Effect(Q, Q') /\ WakesStep /\ \A x \in AllProc : wchan'[x] # c
    BY <1>1, <2>4, WakeKeeps
  <2>6. SchedHasWork'
    BY <1>1, <2>5, EffectWork
  <2>7. stat'[p] = "SRUN"
    BY <1>1, <2>4, <2>5, QIs, QNext DEF Effect
  <2>8. \A x \in AllProc : stat'[x] = "SSLEEP" => stat[x] = "SSLEEP"
    BY <1>1, <2>5, EffectKeeps
  <2>9. NoSignalLost'
    BY <1>1, <2>7, <2>8, ProcFacts DEF Inv, NoSignalLost, OtherTypes
  <2>10. QED BY <1>2, <2>5, <2>6, <2>9 DEF Inv
<1>4. CASE ~ (stat[p] = "SSLEEP" /\ pri[p] > PZERO)
  <2>1. Q' = Q
    BY <1>4, QSame DEF PSignal
  <2>2. Order' /\ WakesStep /\ wchan' = wchan /\ stat' = stat /\ runout' = runout
    BY <1>1, <2>1, OrderSame, WakesSame, QueueVars DEF Inv
  <2>3. SchedHasWork'
    BY <1>1, <2>2 DEF Inv, SchedHasWork, Waiting
  <2>4. NoSignalLost'
    BY <1>1, <1>4, <2>2 DEF Inv, NoSignalLost, OtherTypes
  <2>5. QED BY <1>2, <2>2, <2>3, <2>4 DEF Inv
<1>5. QED BY <1>3, <1>4

(* The effect begins before a flag was set.                                *)
LEMMA EffectFrom ==
  ASSUME NEW k, NEW v, NEW r, v.wchan = k.wchan, v.stat = k.stat, v.runout = k.runout,
         Effect(v, r)
  PROVE  Effect(k, r)
BY DEF Effect, Asks, AllUp

LEMMA ClockOK ==
  ASSUME RunOutAlone, Inv, Clock
  PROVE  Inv' /\ WakesStep
<1>1. /\ UNCHANGED <<pri, sload, sig, curpri, cur, leaving, pc, chosen, core, swapio>>
      /\ runin' = FALSE
  BY DEF Clock, control, swapper
<1>2. OtherTypes' /\ Images'
  BY <1>1, ImagesSame DEF Inv, OtherTypes
<1>3. PICK v : v = [Q EXCEPT !.runrun = TRUE]
  OBVIOUS
<1>4. Ordered(Q, Off) /\ Off' = Off /\ sload[Sched]
  BY <1>1 DEF Inv, Order, Images, Off
<1>5. Ordered(v, Off) /\ v.wchan = Q.wchan /\ v.stat = Q.stat /\ v.runout = Q.runout
  BY <1>3, <1>4, OrderedRunrun
<1>6. PICK r : r = IF runin THEN Wakeup(v, RunIn) ELSE v
  OBVIOUS
<1>7. Ordered(r, Off) /\ Effect(Q, r) /\ r.wchan[Sched] # RunIn
  <2>1. CASE runin
    <3>1. CanWake(v, Off, RunIn) /\ r = Wakeup(v, RunIn)
      BY <1>4, <1>5, <1>6, <2>1, ProcFacts DEF CanWake
    <3>2. Ordered(r, Off) /\ Effect(v, r) /\ \A x \in AllProc : r.wchan[x] # RunIn
      BY <3>1, WakeupEffect
    <3>3. Effect(Q, r)
      BY <1>5, <3>2, EffectFrom
    <3>4. QED BY <3>2, <3>3, ProcFacts
  <2>2. CASE ~ runin
    <3>1. r = v /\ wchan[Sched] # RunIn
      BY <1>6, <2>2 DEF Inv, SchedHasWork
    <3>2. Effect(Q, r)
      BY <1>5, <3>1 DEF Effect, Asks, AllUp
    <3>3. QED BY <1>5, <3>1, <3>2, QIs
  <2>3. QED BY <2>1, <2>2
<1>8. Becomes(r)
  BY <1>3, <1>6 DEF Clock
<1>9. Q' = r
  BY <1>7, <1>8, OrderedFacts, BecomesIs
<1>10. Effect(Q, Q') /\ wchan'[Sched] # RunIn
  BY <1>7, <1>9, QNext
<1>11. /\ WakesStep
       /\ wchan'[Sched] = RunOut => runout' /\ Waiting' = {}
       /\ \A x \in AllProc : stat[x] = "SRUN" => stat'[x] = "SRUN"
  BY <1>1, <1>10, EffectKeeps
<1>12. NoSignalLost'
  BY <1>1, <1>10, EffectSignals
<1>13. SchedHasWork'
  BY <1>10, <1>11 DEF SchedHasWork
<1>14. cur # NULL => cur \in AllProc
  BY DEF Inv, OtherTypes
<1>15. Order'
  BY <1>1, <1>4, <1>7, <1>9, <1>11, <1>14 DEF Inv, Order
<1>16. QED BY <1>2, <1>11, <1>12, <1>13, <1>15 DEF Inv

LEMMA ContinueOK ==
  ASSUME RunOutAlone, Inv, NEW p \in Proc, NEW q \in Proc \ {p}, Continue(p, q)
  PROVE  Inv' /\ WakesStep
<1>1. /\ UNCHANGED <<pri, sload, sig, runin, curpri, cur, leaving, pc, chosen, core, swapio>>
      /\ cur = p /\ ~ leaving /\ stat[q] = "SSTOP" /\ Becomes(SetRun(Q, q))
      /\ q \in AllProc
  BY ProcFacts DEF Continue, control, swapper, Running
<1>2. OtherTypes' /\ Images'
  BY <1>1, ImagesSame DEF Inv, OtherTypes
<1>3. Ordered(Q, Off) /\ Off' = Off /\ sload[Sched] /\ q \in AllProc \ Off /\ Q.stat[q] = "SSTOP"
  BY <1>1, QIs DEF Inv, Order, Images, Off
<1>4. Ordered(Q, Off \cup {q}) /\ (Off \cup {q}) \ {q} = Off
  BY <1>3, OrderedStopped
<1>5. CanRun(Q, Off \cup {q}, q) /\ Q.wchan[q] = NULL
  BY <1>3, <1>4, OrderedFacts DEF CanRun
<1>6. PICK r : r = MakeRun(Q, q)
  OBVIOUS
<1>7. Ordered(r, Off) /\ Effect(Q, r)
  BY <1>4, <1>5, <1>6, MakeRunEffect
<1>8. Becomes(r)
  BY <1>1, <1>5, <1>6 DEF SetRun
<1>9. Q' = r
  BY <1>7, <1>8, OrderedFacts, BecomesIs
<1>10. Effect(Q, Q')
  BY <1>7, <1>9
<1>11. SchedHasWork' /\ NoSignalLost' /\ WakesStep
       /\ \A x \in AllProc : stat[x] = "SRUN" => stat'[x] = "SRUN"
  BY <1>1, <1>10, EffectWork, EffectSignals, EffectKeeps
<1>12. Order'
  BY <1>1, <1>3, <1>7, <1>9, <1>11, ProcFacts DEF Inv, Order
<1>13. QED BY <1>2, <1>11, <1>12 DEF Inv

LEMMA TrapOK ==
  ASSUME Inv, NEW p \in Proc, Trap(p)
  PROVE  Inv' /\ WakesStep
<1>1. /\ UNCHANGED <<sload, runin, cur, chosen, core, swapio>>
      /\ cur = p /\ ~ leaving /\ sig' = [sig EXCEPT ![p] = FALSE]
      /\ pri' = [pri EXCEPT ![p] = PUSER] /\ curpri' = PUSER
      /\ pc' = [pc EXCEPT ![p] = "run"] /\ p \in AllProc /\ p # Sched /\ p # NULL
  BY ProcFacts DEF Trap, swapper, Running
<1>2. leaving' = (runrun \/ PUSER < curpri)
  BY DEF Trap
<1>3. OtherTypes' /\ Images'
  BY <1>1, <1>2, ImagesSame DEF Inv, OtherTypes
<1>4. Ordered(Q, Off) /\ Off = {p} /\ sload[Sched] /\ stat[p] = "SRUN"
  BY <1>1 DEF Inv, Order, Images, Off
<1>6. CASE ~ (runrun \/ PUSER < curpri)
  <2>1. UNCHANGED queues
    BY <1>6 DEF Trap
  <2>2. Q' = Q
    BY <2>1, QSame
  <2>3. leaving' = leaving
    <3>1. leaving' = FALSE
      BY <1>2, <1>6
    <3>2. leaving = FALSE
      BY <1>1 DEF Inv, OtherTypes
    <3>3. QED BY <3>1, <3>2
  <2>4. Order' /\ WakesStep /\ wchan' = wchan /\ stat' = stat /\ runout' = runout
    BY <1>1, <2>2, <2>3, OrderSame, WakesSame, QueueVars DEF Inv
  <2>5. SchedHasWork' /\ NoSignalLost'
    BY <1>1, <2>4 DEF Inv, SchedHasWork, Waiting, NoSignalLost, OtherTypes, AllProc
  <2>6. QED BY <1>3, <2>4, <2>5 DEF Inv
<1>7. CASE runrun \/ PUSER < curpri
  <2>1. PICK v : v = [Q EXCEPT !.runrun = TRUE]
    OBVIOUS
  <2>2. Ordered(v, Off) /\ v.wchan = Q.wchan /\ v.stat = Q.stat /\ v.runout = Q.runout
    BY <1>4, <2>1, OrderedRunrun
  <2>3. PICK r : r = SetRq(v, p)
    OBVIOUS
  <2>4. CanRequeue(v, Off, p, r)
    BY <1>4, <2>2, <2>3, QIs DEF CanRequeue
  <2>5. Ordered(r, Off \ {p}) /\ r.wchan = v.wchan /\ r.stat = v.stat /\ r.runout = v.runout
    BY <2>4, OrderedRequeue DEF Requeued
  <2>6. Becomes(SetRq([Q EXCEPT !.runrun = TRUE], p))
    BY <1>7 DEF Trap
  <2>7. Becomes(r)
    BY <2>1, <2>3, <2>6
  <2>8. Q' = r
    BY <2>5, <2>7, OrderedFacts, BecomesIs
  <2>9. wchan' = wchan /\ stat' = stat /\ runout' = runout
    BY <2>2, <2>5, <2>8, QIs, QNext
  <2>10. leaving'
    BY <1>2, <1>7
  <2>11. Off' = Off \ {p}
    BY <1>4, <2>10 DEF Off
  <2>12. Order'
    BY <1>1, <2>5, <2>8, <2>10, <2>11 DEF Order
  <2>13. WakesStep
    BY <2>9 DEF WakesStep
  <2>14. SchedHasWork' /\ NoSignalLost'
    BY <1>1, <2>9 DEF Inv, SchedHasWork, Waiting, NoSignalLost, OtherTypes, AllProc
  <2>15. QED BY <1>3, <2>12, <2>13, <2>14 DEF Inv
<1>8. QED BY <1>6, <1>7

LEMMA StopOK ==
  ASSUME RunOutAlone, Inv, NEW p \in Proc, Stop(p)
  PROVE  Inv' /\ WakesStep
<1>1. /\ UNCHANGED <<pri, sload, sig, runin, curpri, cur, chosen, core, swapio>>
      /\ cur = p /\ ~ leaving /\ leaving' = TRUE /\ pc' = [pc EXCEPT ![p] = "stopped"]
      /\ p \in AllProc /\ p # Sched /\ p # NULL
  BY ProcFacts DEF Stop, swapper, Running
<1>2. OtherTypes' /\ Images'
  BY <1>1, ImagesSame DEF Inv, OtherTypes
<1>3. Ordered(Q, Off) /\ Off = {p} /\ sload[Sched] /\ Off' = Off \ {p}
  BY <1>1 DEF Inv, Order, Images, Off
<1>4. PICK c \in Chan : Becomes([Wakeup(Q, c) EXCEPT !.stat[p] = "SSTOP"])
  BY DEF Stop
<1>5. CanWake(Q, Off, c)
  BY <1>3, ProcFacts DEF CanWake
<1>6. PICK k, r : k = Wakeup(Q, c) /\ r = [k EXCEPT !.stat[p] = "SSTOP"]
  OBVIOUS
<1>7. Ordered(k, Off) /\ Effect(Q, k)
  BY <1>5, <1>6, WakeupEffect
<1>8. CanStop(k, Off, p, r)
  BY <1>3, <1>6, <1>7 DEF CanStop
<1>9. /\ Ordered(r, Off \ {p}) /\ r.wchan = k.wchan /\ r.runout = k.runout
      /\ r.stat[p] = "SSTOP" /\ \A x \in AllProc : x # p => r.stat[x] = k.stat[x]
  BY <1>8, OrderedStop DEF Halted
<1>10. Q' = r
  BY <1>4, <1>6, <1>9, OrderedFacts, BecomesIs
<1>11. WakesStep
  <2>1. AllUp(Q, r)
    BY <1>7, <1>9 DEF Effect, AllUp
  <2>2. QED BY <1>10, <2>1, WakesIs
<1>12. /\ k.wchan[Sched] = RunOut =>
            k.runout /\ \A x \in Proc : k.stat[x] = "SRUN" => sload[x]
       /\ \A x \in AllProc : /\ k.wchan[x] \in {wchan[x], NULL}
                             /\ k.stat[x] = "SSLEEP" => stat[x] = "SSLEEP"
  BY <1>7, EffectGives
<1>13. /\ wchan' = k.wchan /\ runout' = k.runout /\ stat'[p] = "SSTOP"
       /\ \A x \in AllProc : x # p => stat'[x] = k.stat[x]
  BY <1>9, <1>10, QNext
<1>14. SchedHasWork'
  <2>1. wchan'[Sched] = RunOut => runout' /\ Waiting' = {}
    BY <1>1, <1>12, <1>13, ProcFacts DEF Waiting
  <2>2. wchan'[Sched] = RunIn => runin'
    BY <1>1, <1>12, <1>13, ProcFacts DEF Inv, SchedHasWork
  <2>3. QED BY <2>1, <2>2 DEF SchedHasWork
<1>15. NoSignalLost'
  BY <1>1, <1>12, <1>13, ProcFacts DEF Inv, NoSignalLost
<1>16. Order'
  BY <1>1, <1>3, <1>9, <1>10 DEF Order
<1>17. QED BY <1>2, <1>11, <1>14, <1>15, <1>16 DEF Inv

(* swtch gives the processor to a process of runq.                         *)
LEMMA DispatchOK ==
  ASSUME Inv, Dispatch
  PROVE  Inv' /\ WakesStep
<1> DEFINE m == Met(link, runq)
<1>1. PICK i \in Eligible :
         /\ cur = NULL /\ cur' = m[i] /\ curpri' = pri[m[i]] /\ runrun' = FALSE
         /\ IF i = 1 THEN runq' = link[m[i]] /\ UNCHANGED link
                     ELSE link' = [link EXCEPT ![m[i - 1]] = link[m[i]]] /\ UNCHANGED runq
         /\ pc' = [pc EXCEPT ![m[i]] =
              IF @ = "slept" THEN (IF sig[m[i]] THEN "trap" ELSE "run") ELSE @]
         /\ UNCHANGED <<slpque, wchan, stat, runout, onq, hung, pri, sload, sig,
                       runin, leaving, swapper>>
  BY Zenon DEF Dispatch
<1>2. PICK p : p = m[i]
  OBVIOUS
<1>3. i \in 1 .. NPROC /\ p # NULL /\ p = Met(Q.link, Q.runq)[i]
  BY <1>2, QIs DEF Eligible
<1>4. /\ Ordered(Q, Off) /\ Off = {} /\ ~ leaving /\ Q \in Queues
  BY <1>1, InvFacts DEF Inv, Order
<1>5. PICK r : r = IF i = 1 THEN [Q EXCEPT !.runq = Q.link[p]]
                   ELSE [Q EXCEPT !.link[Met(Q.link, Q.runq)[i - 1]] = Q.link[p]]
  OBVIOUS
<1>6. Ordered(r, {p}) /\ Q.stat[p] = "SRUN" /\ p \in AllProc
  BY <1>3, <1>4, <1>5, OrderedTake
<1>7. r \in Queues
  BY <1>6, OrderedFacts
<1>8. /\ r.slpque = slpque /\ r.wchan = wchan /\ r.stat = stat /\ r.runout = runout
      /\ r.onq = onq /\ r.hung = hung
      /\ r.runq = IF i = 1 THEN link[p] ELSE runq
      /\ r.link = IF i = 1 THEN link ELSE [link EXCEPT ![m[i - 1]] = link[p]]
  <2>1. CASE i = 1
    <3>1. r = [Q EXCEPT !.runq = link[p]]
      BY <1>5, <2>1, QIs
    <3>2. QED BY <2>1, <3>1 DEF Q
  <2>2. CASE i # 1
    <3>1. r = [Q EXCEPT !.link[m[i - 1]] = link[p]]
      BY <1>5, <2>2, QIs
    <3>2. QED BY <2>2, <3>1 DEF Q
  <2>3. QED BY <2>1, <2>2
<1> HIDE DEF m
<1>9. /\ Q'.slpque = r.slpque /\ Q'.runq = r.runq /\ Q'.link = r.link /\ Q'.wchan = r.wchan
      /\ Q'.stat = r.stat /\ Q'.onq = r.onq /\ Q'.hung = r.hung /\ Q'.runout = r.runout
      /\ Q'.runrun = FALSE
  BY <1>1, <1>2, <1>8, QNext
<1>10. PICK v : v = Q'
  OBVIOUS
<1>11. v \in Queues
  <2>1. v = [slpque |-> v.slpque, runq |-> v.runq, link |-> v.link, wchan |-> v.wchan,
             stat |-> v.stat, runout |-> v.runout, runrun |-> v.runrun, onq |-> v.onq,
             hung |-> v.hung]
    BY <1>10 DEF Q
  <2>2. v = [r EXCEPT !.runrun = FALSE]
    BY <1>7, <1>9, <1>10, <2>1 DEF Queues
  <2>3. QED BY <1>7, <2>2 DEF Queues
<1>12. Ordered(v, {p})
  BY <1>6, <1>9, <1>10, <1>11, OrderedFlags
<1>13. /\ Off' = {p} /\ stat' = stat /\ wchan' = wchan /\ runout' = runout /\ stat[p] = "SRUN"
       /\ cur' = p /\ leaving' = leaving
  BY <1>1, <1>2, <1>3, <1>4, <1>6, QIs DEF Off
<1>14. Order'
  BY <1>3, <1>4, <1>10, <1>12, <1>13 DEF Order
<1>15. WakesStep
  BY <1>13 DEF WakesStep
<1>16. SchedHasWork' /\ NoSignalLost'
  BY <1>1, <1>13 DEF Inv, SchedHasWork, Waiting, NoSignalLost
<1>17. OtherTypes'
  <2>1. pc' \in [AllProc -> {"run", "slept", "trap", "stopped", "scan", "swapin",
                             "reading", "victim", "norun", "swapout", "writing"}]
    BY <1>1, <1>2, <1>6 DEF Inv, OtherTypes
  <2>2. curpri' \in {PSWP, PRIBIO, PSLEP, PUSER}
    BY <1>1, <1>2, <1>6 DEF Inv, OtherTypes
  <2>3. cur' \in AllProc \cup {NULL}
    BY <1>6, <1>13
  <2>4. QED BY <1>1, <2>1, <2>2, <2>3 DEF Inv, OtherTypes, swapper
<1>18. Images'
  <2>1. pc[Sched] # "slept"
    BY DEF Inv, Images, SchedPC
  <2>2. pc'[Sched] = pc[Sched]
    BY <1>1, <1>2, <2>1, ProcFacts DEF Inv, OtherTypes
  <2>3. QED BY <1>1, <2>2, ImagesSame DEF Inv, swapper
<1>19. QED BY <1>14, <1>15, <1>16, <1>17, <1>18 DEF Inv

-----------------------------------------------------------------------------
(* sched.  It has the processor and gives it up in a sleep.                *)
LEMMA SchedDozes ==
  ASSUME Inv, cur = Sched, ~ leaving, cur' = cur, leaving' = TRUE,
         NEW c \in {RunOut, RunIn, SwapBuf}, NEW v, Ordered(v, Off),
         v.wchan = Q.wchan, v.stat = Q.stat, Becomes(Sleeps(v, Sched, c))
  PROVE  /\ Order' /\ WakesStep /\ wchan'[Sched] = c /\ stat'[Sched] = "SSLEEP"
         /\ \A x \in Proc : stat'[x] = stat[x]
         /\ runout' = v.runout
<1>1. /\ Sched \in AllProc /\ Sched # NULL /\ Sched \notin Proc /\ Off = {Sched}
      /\ c \in AllChan
  BY ProcFacts, InvFacts
<1>2. CanSleep(v, Off, Sched, c)
  BY <1>1 DEF CanSleep
<1>3. PICK s : s = Sleeps(v, Sched, c)
  OBVIOUS
<1>4. /\ Ordered(s, Off \ {Sched}) /\ s.wchan[Sched] = c /\ s.stat[Sched] = "SSLEEP"
      /\ \A x \in AllProc : x # Sched => s.wchan[x] = v.wchan[x] /\ s.stat[x] = v.stat[x]
      /\ s.runout = v.runout /\ AllUp(v, s)
  <2>1. Slept(v, Off, Sched, c, s)
    BY <1>2, <1>3, SleepsEffect
  <2>2. QED BY <2>1 DEF Slept
<1>5. Q' = s
  BY <1>3, <1>4, OrderedFacts, BecomesIs
<1>6. Off' = {} /\ Off \ {Sched} = {}
  BY <1>1 DEF Off
<1>7. Order'
  BY <1>1, <1>4, <1>5, <1>6 DEF Order
<1>8. AllUp(Q, s)
  BY <1>4 DEF AllUp
<1>9. WakesStep
  BY <1>5, <1>8, WakesIs
<1>10. QED BY <1>1, <1>4, <1>5, <1>7, <1>9, QIs, QNext, ProcFacts

LEMMA SchedFacts ==
  /\ RunOut # RunIn /\ RunIn # SwapBuf /\ SwapBuf # RunOut /\ NULL \notin AllChan
  /\ {RunOut, RunIn, SwapBuf} \subseteq AllChan
  /\ Sched \in AllProc /\ Sched \notin Proc /\ Proc \subseteq AllProc
  /\ Core \in Nat
BY ChanAssumption, SizeAssumption DEF AllChan, AllProc

LEMMA SchedSleepsKeeps ==
  ASSUME Inv, cur = Sched, ~ leaving, NEW c \in {RunOut, RunIn, SwapBuf},
         NEW flag \in {"none", "runout", "runin"}, NEW next \in SchedPC,
         SchedSleeps(c, flag, next)
  PROVE  /\ Order' /\ WakesStep /\ wchan'[Sched] = c
         /\ \A x \in Proc : stat'[x] = stat[x]
         /\ (flag = "runout" => runout') /\ (flag = "runin" => runin')
         /\ NoSignalLost' /\ sload' = sload /\ cur' = cur /\ leaving' = TRUE
         /\ pri' \in [AllProc -> {PSWP, PRIBIO, PSLEP, PUSER}]
         /\ sig' = sig /\ runin' \in BOOLEAN /\ curpri' = curpri
         /\ pc' = [pc EXCEPT ![Sched] = next] /\ pc'[Sched] = next
         /\ pc' \in [AllProc -> {"run", "slept", "trap", "stopped", "scan", "swapin",
                                 "reading", "victim", "norun", "swapout", "writing"}]
<1>1. PICK b : b = (runout \/ flag = "runout")
  OBVIOUS
<1>2. b \in BOOLEAN
  BY <1>1
<1>3. PICK v : v = [Q EXCEPT !.runout = b]
  OBVIOUS
<1>4. /\ Becomes(Sleeps([Q EXCEPT !.runout = @ \/ flag = "runout"], Sched, c))
      /\ leaving' = TRUE /\ cur' = cur
  BY DEF SchedSleeps
<1>5. [Q EXCEPT !.runout = @ \/ flag = "runout"] = v
  BY <1>1, <1>3 DEF Q
<1>6. Becomes(Sleeps(v, Sched, c))
  BY <1>4, <1>5
<1>7. Ordered(Q, Off)
  BY DEF Inv, Order
<1>8. Ordered(v, Off) /\ v.wchan = Q.wchan /\ v.stat = Q.stat /\ v.runout = b
  BY <1>2, <1>3, <1>7, OrderedRunout
<1>9. /\ Order' /\ WakesStep /\ wchan'[Sched] = c
      /\ \A x \in Proc : stat'[x] = stat[x]
      /\ runout' = b
  BY <1>4, <1>6, <1>8, SchedDozes
<1>10. flag = "runout" => runout'
  BY <1>1, <1>9
<1>11. /\ pri' = [pri EXCEPT ![Sched] = PSWP] /\ sload' = sload /\ sig' = sig
       /\ pc' = [pc EXCEPT ![Sched] = next] /\ curpri' = curpri
  BY DEF SchedSleeps
<1>12. runin' = (runin \/ flag = "runin")
  BY DEF SchedSleeps
<1>13. runin' \in BOOLEAN /\ (flag = "runin" => runin')
  BY <1>12
<1>14. NoSignalLost'
  BY <1>9, <1>11, SchedFacts DEF Inv, NoSignalLost, OtherTypes
<1>15. /\ pri' \in [AllProc -> {PSWP, PRIBIO, PSLEP, PUSER}]
       /\ pc'[Sched] = next
       /\ pc' \in [AllProc -> {"run", "slept", "trap", "stopped", "scan", "swapin",
                               "reading", "victim", "norun", "swapout", "writing"}]
  BY <1>11, SchedFacts DEF Inv, OtherTypes, SchedPC
<1>16. QED BY <1>4, <1>9, <1>10, <1>11, <1>13, <1>14, <1>15

(* A step of sched that does not sleep and moves no image.                 *)
LEMMA SchedGoesOn ==
  ASSUME Inv, UNCHANGED <<queues, pri, sig, runin, curpri, cur, leaving>>,
         sload' = sload
  PROVE  Order' /\ WakesStep /\ SchedHasWork' /\ NoSignalLost' /\ stat' = stat
<1>1. Q' = Q
  BY QSame
<1>2. Order' /\ WakesStep /\ wchan' = wchan /\ stat' = stat /\ runout' = runout
  BY <1>1, OrderSame, WakesSame, QueueVars DEF Inv
<1>3. SchedHasWork' /\ NoSignalLost'
  BY <1>2 DEF Inv, SchedHasWork, Waiting, NoSignalLost
<1>4. QED BY <1>2, <1>3

LEMMA SchedScanOK ==
  ASSUME Inv, SchedScan
  PROVE  Inv' /\ WakesStep
<1>1. cur = Sched /\ ~ leaving /\ pc[Sched] = "scan"
  BY DEF SchedScan, Running
<1>2. CASE Waiting = {} /\ SchedSleeps(RunOut, "runout", "scan") /\ UNCHANGED swapper
  <2>1. /\ Order' /\ WakesStep /\ wchan'[Sched] = RunOut
        /\ \A x \in Proc : stat'[x] = stat[x]
        /\ runout'
        /\ NoSignalLost' /\ sload' = sload /\ cur' = cur /\ leaving' = TRUE
        /\ pri' \in [AllProc -> {PSWP, PRIBIO, PSLEP, PUSER}]
        /\ sig' = sig /\ runin' \in BOOLEAN /\ curpri' = curpri
        /\ pc'[Sched] = "scan"
        /\ pc' \in [AllProc -> {"run", "slept", "trap", "stopped", "scan", "swapin",
                                "reading", "victim", "norun", "swapout", "writing"}]
    BY <1>1, <1>2, SchedSleepsKeeps DEF SchedPC
  <2>2. OtherTypes'
    BY <1>2, <2>1 DEF Inv, OtherTypes, swapper
  <2>3. Images'
    BY <1>1, <1>2, <2>1, ImagesSame DEF Inv, swapper
  <2>4. SchedHasWork'
    BY <1>2, <2>1, SchedFacts DEF SchedHasWork, Waiting
  <2>5. QED BY <2>1, <2>2, <2>3, <2>4 DEF Inv
<1>3. CASE /\ \E p \in Waiting : chosen' = p
           /\ pc' = [pc EXCEPT ![Sched] = "swapin"]
           /\ UNCHANGED <<queues, pri, sload, sig, runin, curpri, cur, leaving, core, swapio>>
  <2>1. Order' /\ WakesStep /\ SchedHasWork' /\ NoSignalLost'
    BY <1>3, SchedGoesOn
  <2>2. pc'[Sched] = "swapin" /\ chosen' \in Proc /\ ~ sload'[chosen'] /\ sload' = sload
    BY <1>3, SchedFacts DEF Waiting, Inv, OtherTypes
  <2>3. OtherTypes'
    BY <1>3, <2>2 DEF Inv, OtherTypes
  <2>4. Images'
    BY <1>1, <1>3, <2>2 DEF Inv, Images, Moving, InCore, SchedPC
  <2>5. QED BY <2>1, <2>3, <2>4 DEF Inv
<1>4. QED BY <1>2, <1>3 DEF SchedScan

LEMMA SchedVictimOK ==
  ASSUME Inv, SchedVictim
  PROVE  Inv' /\ WakesStep
<1>1. /\ cur = Sched /\ ~ leaving /\ pc[Sched] = "victim"
      /\ UNCHANGED <<queues, pri, sload, sig, runin, curpri, cur, leaving, core, swapio>>
  BY DEF SchedVictim, Running
<1>2. Order' /\ WakesStep /\ SchedHasWork' /\ NoSignalLost'
  BY <1>1, SchedGoesOn
<1>3. \/ chosen' \in Proc /\ sload[chosen'] /\ pc' = [pc EXCEPT ![Sched] = "swapout"]
      \/ chosen' = NULL /\ pc' = [pc EXCEPT ![Sched] = "norun"]
  BY DEF SchedVictim
<1>4. OtherTypes'
  BY <1>1, <1>3 DEF Inv, OtherTypes
<1>5. \/ pc'[Sched] = "swapout" /\ chosen' \in Proc /\ sload'[chosen']
      \/ pc'[Sched] = "norun"
  BY <1>1, <1>3, SchedFacts DEF Inv, OtherTypes
<1>6. Images'
  BY <1>1, <1>5 DEF Inv, Images, Moving, InCore, SchedPC
<1>7. QED BY <1>2, <1>4, <1>6 DEF Inv

LEMMA SchedNoRunOK ==
  ASSUME Inv, SchedNoRun
  PROVE  Inv' /\ WakesStep
<1>1. /\ cur = Sched /\ ~ leaving /\ pc[Sched] = "norun"
      /\ SchedSleeps(RunIn, "runin", "scan") /\ UNCHANGED swapper
  BY DEF SchedNoRun, Running
<1>2. /\ Order' /\ WakesStep /\ wchan'[Sched] = RunIn /\ runin'
      /\ NoSignalLost' /\ sload' = sload /\ cur' = cur /\ leaving' = TRUE
      /\ pri' \in [AllProc -> {PSWP, PRIBIO, PSLEP, PUSER}]
      /\ sig' = sig /\ runin' \in BOOLEAN /\ curpri' = curpri
      /\ pc'[Sched] = "scan"
      /\ pc' \in [AllProc -> {"run", "slept", "trap", "stopped", "scan", "swapin",
                              "reading", "victim", "norun", "swapout", "writing"}]
  BY <1>1, SchedSleepsKeeps DEF SchedPC
<1>3. OtherTypes'
  BY <1>1, <1>2 DEF Inv, OtherTypes, swapper
<1>4. Images'
  BY <1>1, <1>2 DEF Inv, Images, Moving, InCore, SchedPC, swapper
<1>5. SchedHasWork'
  BY <1>2, SchedFacts DEF SchedHasWork
<1>6. QED BY <1>2, <1>3, <1>4, <1>5 DEF Inv

(* The images in core, one more or one less.                               *)
LEMMA InCoreFacts ==
  /\ IsFiniteSet(InCore) /\ Cardinality(InCore) \in Nat
  /\ \A x \in Proc \ InCore :
       IsFiniteSet(InCore) => Cardinality(InCore \cup {x}) = Cardinality(InCore) + 1
  /\ \A x \in InCore : Cardinality(InCore \ {x}) = Cardinality(InCore) - 1
<1>1. IsFiniteSet(Proc) /\ InCore \subseteq Proc
  BY SizeAssumption DEF InCore
<1> HIDE DEF InCore
<1>2. IsFiniteSet(InCore) /\ Cardinality(InCore) \in Nat
  BY <1>1, FS_Subset, FS_CardinalityType
<1>3. QED BY <1>1, <1>2, FS_AddElement, FS_RemoveElement

LEMMA SchedSwapinOK ==
  ASSUME Inv, SchedSwapin
  PROVE  Inv' /\ WakesStep
<1>1. /\ cur = Sched /\ ~ leaving /\ pc[Sched] = "swapin" /\ chosen' = chosen
      /\ core \in Nat /\ chosen \in Proc /\ ~ sload[chosen]
  BY DEF SchedSwapin, Running, Inv, Images, OtherTypes
<1>2. CASE core > 0 /\ core' = core - 1 /\ swapio' = "started"
           /\ SchedSleeps(SwapBuf, "none", "reading")
  <2>1. /\ Order' /\ WakesStep /\ wchan'[Sched] = SwapBuf
        /\ NoSignalLost' /\ sload' = sload /\ cur' = cur /\ leaving' = TRUE
        /\ pri' \in [AllProc -> {PSWP, PRIBIO, PSLEP, PUSER}]
        /\ sig' = sig /\ runin' \in BOOLEAN /\ curpri' = curpri
        /\ pc'[Sched] = "reading"
        /\ pc' \in [AllProc -> {"run", "slept", "trap", "stopped", "scan", "swapin",
                                "reading", "victim", "norun", "swapout", "writing"}]
    BY <1>1, <1>2, SchedSleepsKeeps DEF SchedPC
  <2>2. OtherTypes'
    BY <1>1, <1>2, <2>1 DEF Inv, OtherTypes
  <2>3. InCore' = InCore /\ Moving = 0 /\ Moving' = 1
    BY <1>1, <2>1 DEF InCore, Moving
  <2>4. core + Cardinality(InCore) + 0 = Core
    BY <2>3 DEF Inv, Images
  <2>5. core' + Cardinality(InCore') + Moving' = Core
    BY <1>1, <1>2, <2>3, <2>4, InCoreFacts
  <2>6. Images'
    BY <1>1, <2>1, <2>5 DEF Inv, Images, SchedPC
  <2>7. SchedHasWork'
    BY <2>1, SchedFacts DEF SchedHasWork
  <2>8. QED BY <2>1, <2>2, <2>6, <2>7 DEF Inv
<1>3. CASE core = 0 /\ pc' = [pc EXCEPT ![Sched] = "victim"]
           /\ UNCHANGED <<queues, pri, sload, sig, runin, curpri, cur, leaving, core, swapio>>
  <2>1. Order' /\ WakesStep /\ SchedHasWork' /\ NoSignalLost'
    BY <1>3, SchedGoesOn
  <2>2. pc'[Sched] = "victim" /\ sload' = sload
    BY <1>3, SchedFacts DEF Inv, OtherTypes
  <2>3. OtherTypes'
    BY <1>1, <1>3, <2>2 DEF Inv, OtherTypes
  <2>4. Images'
    BY <1>1, <1>3, <2>2 DEF Inv, Images, Moving, InCore, SchedPC
  <2>5. QED BY <2>1, <2>3, <2>4 DEF Inv
<1>4. QED BY <1>2, <1>3 DEF SchedSwapin

LEMMA SchedSwappedInOK ==
  ASSUME Inv, SchedSwappedIn
  PROVE  Inv' /\ WakesStep
<1>1. /\ cur = Sched /\ ~ leaving /\ pc[Sched] = "reading" /\ chosen' = NULL
      /\ core \in Nat /\ chosen \in Proc /\ ~ sload[chosen] /\ swapio' = "none"
      /\ sload' = [sload EXCEPT ![chosen] = TRUE]
      /\ pc' = [pc EXCEPT ![Sched] = "scan"]
      /\ UNCHANGED <<queues, pri, sig, runin, curpri, cur, leaving, core>>
  BY DEF SchedSwappedIn, Running, Inv, Images, OtherTypes
<1>2. Q' = Q
  BY <1>1, QSame
<1>3. Order' /\ WakesStep /\ wchan' = wchan /\ stat' = stat /\ runout' = runout
  BY <1>1, <1>2, OrderSame, WakesSame, QueueVars DEF Inv
<1>4. /\ sload' \in [AllProc -> BOOLEAN] /\ sload'[Sched] /\ pc'[Sched] = "scan"
      /\ InCore' = InCore \cup {chosen} /\ chosen \notin InCore
  BY <1>1, SchedFacts DEF Inv, OtherTypes, Images, InCore
<1>5. Waiting' \subseteq Waiting
  BY <1>1, <1>3, SchedFacts DEF Inv, OtherTypes, Waiting
<1>6. SchedHasWork' /\ NoSignalLost'
  BY <1>1, <1>3, <1>5 DEF Inv, SchedHasWork, NoSignalLost
<1>7. OtherTypes'
  BY <1>1, <1>4 DEF Inv, OtherTypes
<1>8. core' + Cardinality(InCore') + Moving' = Core
  <2>1. core + Cardinality(InCore) + 1 = Core
    BY <1>1 DEF Inv, Images, Moving
  <2>2. Moving' = 0
    BY <1>4 DEF Moving
  <2>3. Cardinality(InCore') = Cardinality(InCore) + 1
    BY <1>1, <1>4, InCoreFacts
  <2>4. QED BY <1>1, <2>1, <2>2, <2>3, InCoreFacts
<1>9. Images'
  BY <1>1, <1>4, <1>8 DEF Inv, Images, SchedPC
<1>10. QED BY <1>3, <1>6, <1>7, <1>9 DEF Inv

LEMMA SchedSwapoutOK ==
  ASSUME Inv, SchedSwapout
  PROVE  Inv' /\ WakesStep
<1>1. /\ cur = Sched /\ ~ leaving /\ pc[Sched] = "swapout" /\ chosen' = chosen
      /\ core \in Nat /\ chosen \in Proc /\ sload[chosen] /\ swapio' = "started"
      /\ sload' = [sload EXCEPT ![chosen] = FALSE]
      /\ Becomes(Sleeps(Q, Sched, SwapBuf))
      /\ pri' = [pri EXCEPT ![Sched] = PSWP] /\ leaving' = TRUE
      /\ pc' = [pc EXCEPT ![Sched] = "writing"]
      /\ UNCHANGED <<sig, runin, curpri, cur, chosen, core>>
      /\ Ordered(Q, Off)
  BY DEF SchedSwapout, Running, Inv, Images, OtherTypes, Order
<1>2. /\ Order' /\ WakesStep /\ wchan'[Sched] = SwapBuf
      /\ \A x \in Proc : stat'[x] = stat[x]
  BY <1>1, SchedDozes
<1>3. /\ sload' \in [AllProc -> BOOLEAN] /\ sload'[Sched] /\ pc'[Sched] = "writing"
      /\ InCore' = InCore \ {chosen} /\ chosen \in InCore /\ ~ sload'[chosen]
  BY <1>1, SchedFacts DEF Inv, OtherTypes, Images, InCore
<1>4. SchedHasWork'
  BY <1>2, SchedFacts DEF SchedHasWork
<1>5. NoSignalLost'
  BY <1>1, <1>2, SchedFacts DEF Inv, NoSignalLost, OtherTypes
<1>6. OtherTypes'
  BY <1>1, <1>3 DEF Inv, OtherTypes
<1>7. core' + Cardinality(InCore') + Moving' = Core
  <2>1. core + Cardinality(InCore) + 0 = Core
    BY <1>1 DEF Inv, Images, Moving
  <2>2. Moving' = 1
    BY <1>3 DEF Moving
  <2>3. Cardinality(InCore') = Cardinality(InCore) - 1
    BY <1>3, InCoreFacts
  <2>4. QED BY <1>1, <2>1, <2>2, <2>3, InCoreFacts
<1>8. Images'
  BY <1>1, <1>3, <1>7 DEF Inv, Images, SchedPC
<1>9. QED BY <1>2, <1>4, <1>5, <1>6, <1>8 DEF Inv

(* One effect after the other.                                             *)
Risen(k, r) ==
  /\ \A x \in AllProc : \/ r.wchan[x] = k.wchan[x] /\ r.stat[x] = k.stat[x]
                        \/ r.wchan[x] = NULL /\ r.stat[x] = "SRUN"
  /\ AllUp(k, r)

LEMMA RisenTwice ==
  \A k, v, w, r : Risen(k, v) /\ v.wchan = w.wchan /\ v.stat = w.stat /\ Risen(w, r)
                     => Risen(k, r)
<1> SUFFICES ASSUME NEW k, NEW v, NEW w, NEW r, Risen(k, v), v.wchan = w.wchan,
                    v.stat = w.stat, Risen(w, r)
             PROVE  Risen(k, r)
  OBVIOUS
<1>1. \A x \in AllProc : \/ r.wchan[x] = k.wchan[x] /\ r.stat[x] = k.stat[x]
                         \/ r.wchan[x] = NULL /\ r.stat[x] = "SRUN"
  BY DEF Risen
<1>2. ASSUME NEW c \in AllChan, NEW p \in AllProc, k.wchan[p] = c, r.wchan[p] # c,
             NEW x \in AllProc
      PROVE  r.wchan[x] # c
  <2>1. c # NULL
    BY SchedFacts
  <2>2. CASE v.wchan[p] # c
    <3>1. v.wchan[x] # c
      BY <1>2, <2>2 DEF Risen, AllUp
    <3>2. QED BY <2>1, <3>1 DEF Risen
  <2>3. CASE v.wchan[p] = c
    BY <1>2, <2>3 DEF Risen, AllUp
  <2>4. QED BY <2>2, <2>3
<1>3. QED BY <1>1, <1>2 DEF Risen, AllUp

LEMMA SchedSwappedOutOK ==
  ASSUME RunOutAlone, Inv, SchedSwappedOut
  PROVE  Inv' /\ WakesStep
<1>1. /\ cur = Sched /\ ~ leaving /\ pc[Sched] = "writing" /\ chosen' = NULL
      /\ core \in Nat /\ chosen \in Proc /\ ~ sload[chosen] /\ swapio' = "none"
      /\ core' = core + 1 /\ sload' = [sload EXCEPT ![chosen] = FALSE]
      /\ sload \in [AllProc -> BOOLEAN] /\ runin' = FALSE
      /\ pc' = [pc EXCEPT ![Sched] = "scan"]
      /\ UNCHANGED <<pri, sig, curpri, cur, leaving>>
  BY DEF SchedSwappedOut, Running, Inv, Images, OtherTypes
<1>2. PICK k : k = IF runin THEN Wakeup(Q, RunIn) ELSE Q
  OBVIOUS
<1>3. PICK v : v = [k EXCEPT !.runout = FALSE]
  OBVIOUS
<1>4. PICK r : r = IF k.runout THEN Wakeup(v, RunOut) ELSE k
  OBVIOUS
<1>5. Becomes(r)
  BY <1>2, <1>3, <1>4 DEF SchedSwappedOut
<1>6. /\ Ordered(Q, Off) /\ Off = {Sched} /\ Off' = Off /\ stat[Sched] = "SRUN"
      /\ sload[Sched] /\ Sched # NULL
  BY <1>1, ProcFacts DEF Inv, Order, Images, Off
<1>7. Ordered(k, Off) /\ Risen(Q, k)
  <2>1. CASE runin
    <3>1. CanWake(Q, Off, RunIn) /\ k = Wakeup(Q, RunIn)
      BY <1>2, <1>6, <2>1, SchedFacts DEF CanWake
    <3>2. QED BY <3>1, WakeupEffect DEF Effect, Risen
  <2>2. CASE ~ runin
    <3>1. k = Q
      BY <1>2, <2>2
    <3>2. Risen(Q, k)
      BY <3>1 DEF Risen, AllUp
    <3>3. QED BY <1>6, <3>1, <3>2
  <2>3. QED BY <2>1, <2>2
<1>8. Ordered(v, Off) /\ v.wchan = k.wchan /\ v.stat = k.stat
  <2>1. PICK b \in BOOLEAN : b = FALSE
    OBVIOUS
  <2>2. v = [k EXCEPT !.runout = b]
    BY <1>3, <2>1
  <2>3. QED BY <1>7, <2>2, OrderedRunout
<1>9. Ordered(r, Off) /\ Risen(v, r)
  <2>1. CASE k.runout
    <3>1. CanWake(v, Off, RunOut) /\ r = Wakeup(v, RunOut)
      BY <1>4, <1>6, <1>8, <2>1, SchedFacts DEF CanWake
    <3>2. QED BY <3>1, WakeupEffect DEF Effect, Risen
  <2>2. CASE ~ k.runout
    <3>1. r = k
      BY <1>4, <2>2
    <3>2. Risen(v, r)
      BY <1>8, <3>1 DEF Risen, AllUp
    <3>3. QED BY <1>7, <3>1, <3>2
  <2>3. QED BY <2>1, <2>2
<1>10. Risen(Q, r)
  BY <1>7, <1>8, <1>9, RisenTwice
<1>11. Q' = r
  BY <1>5, <1>9, OrderedFacts, BecomesIs
<1>12. WakesStep
  BY <1>10, <1>11, WakesIs DEF Risen
<1>13. \A x \in AllProc : \/ wchan'[x] = wchan[x] /\ stat'[x] = stat[x]
                          \/ wchan'[x] = NULL /\ stat'[x] = "SRUN"
  BY <1>10, <1>11, QIs, QNext DEF Risen
<1>14. wchan'[Sched] = NULL
  BY <1>6, <1>9, <1>11, OrderedFacts, QNext
<1>15. SchedHasWork'
  BY <1>14, SchedFacts DEF SchedHasWork
<1>16. NoSignalLost'
  BY <1>1, <1>13, SchedFacts DEF Inv, NoSignalLost
<1>17. Order'
  BY <1>1, <1>6, <1>9, <1>11, <1>13, SchedFacts DEF Order
<1>18. sload' = sload /\ pc'[Sched] = "scan"
  BY <1>1, SchedFacts DEF Inv, OtherTypes
<1>19. OtherTypes'
  <2>1. core' \in Nat
    BY <1>1
  <2>2. /\ pc' \in [AllProc -> {"run", "slept", "trap", "stopped", "scan", "swapin",
                                "reading", "victim", "norun", "swapout", "writing"}]
        /\ chosen' \in Proc \cup {NULL} /\ runin' \in BOOLEAN
        /\ swapio' \in {"none", "started", "done"}
    BY <1>1 DEF Inv, OtherTypes
  <2>3. QED BY <1>1, <1>18, <2>1, <2>2 DEF Inv, OtherTypes
<1>20. Images'
  <2>1. core + Cardinality(InCore) + 1 = Core
    BY <1>1 DEF Inv, Images, Moving
  <2>2. Moving' = 0 /\ InCore' = InCore
    BY <1>18 DEF Moving, InCore
  <2>3. core' + Cardinality(InCore') + Moving' = Core
    BY <1>1, <2>1, <2>2, InCoreFacts
  <2>4. QED BY <1>6, <1>18, <2>3 DEF Images, SchedPC
<1>21. QED BY <1>12, <1>15, <1>16, <1>17, <1>19, <1>20 DEF Inv

(* Every step keeps the invariant, and wakes all or none.                  *)
LEMMA StepOK ==
  ASSUME RunOutAlone, Inv, [Next]_vars
  PROVE  Inv' /\ WakesStep
<1>1. CASE \E p \in Proc : \/ SleepHard(p) \/ SleepSoft(p) \/ Trap(p) \/ Stop(p) \/ PSignal(p)
                           \/ \E q \in Proc \ {p} : Continue(p, q)
  BY <1>1, SleepHardOK, SleepSoftOK, TrapOK, StopOK, PSignalOK, ContinueOK
<1>2. CASE \E p \in AllProc : Swtch(p)
  BY <1>2, SwtchOK
<1>3. CASE \E c \in Chan : WakeupChan(c)
  BY <1>3, WakeupChanOK
<1>4. CASE Clock \/ SwapIntr \/ Dispatch
  BY <1>4, ClockOK, SwapIntrOK, DispatchOK
<1>5. CASE SchedNext
  BY <1>5, SchedScanOK, SchedSwapinOK, SchedSwappedInOK, SchedVictimOK, SchedNoRunOK,
     SchedSwapoutOK, SchedSwappedOutOK DEF SchedNext
<1>6. CASE UNCHANGED vars
  <2>1. /\ UNCHANGED queues
        /\ UNCHANGED <<pri, sload, sig, runin, curpri, cur, leaving, pc, chosen, core, swapio>>
    BY <1>6 DEF vars, control, swapper
  <2>2. Order' /\ WakesStep /\ SchedHasWork' /\ NoSignalLost'
    BY <2>1, SchedGoesOn
  <2>3. OtherTypes' /\ Images'
    BY <2>1, ImagesSame DEF Inv, OtherTypes
  <2>4. QED BY <2>2, <2>3 DEF Inv
<1>7. QED BY <1>1, <1>2, <1>3, <1>4, <1>5, <1>6 DEF Next

-----------------------------------------------------------------------------
(* The initial states: the processes are on runq in the order of s, and    *)
(* have their places in s for ranks.                                       *)
LEMMA Lined ==
  ASSUME NEW s \in SetToSeqs(Proc)
  PROVE  /\ Cardinality(Proc) \in Nat \ {0} /\ Len(s) = Cardinality(Proc)
         /\ s \in [1 .. Cardinality(Proc) -> Proc]
         /\ \A i, j \in 1 .. Cardinality(Proc) : s[i] = s[j] => i = j
         /\ \A p \in Proc : \E i \in 1 .. Cardinality(Proc) : s[i] = p
<1> DEFINE N == Cardinality(Proc)
           D == 1 .. N
<1>1. IsFiniteSet(Proc) /\ N \in Nat /\ N # 0
  BY SizeAssumption, FS_CardinalityType, FS_EmptySet
<1>2. s \in [D -> Proc] /\ \A i, j \in D : i # j => s[i] # s[j]
  BY DEF SetToSeqs
<1>3. Cardinality(D) = N
  BY <1>1, FS_Interval
<1> HIDE DEF N
<1>4. s \in Injection(D, Proc)
  BY <1>2 DEF Injection, IsInjective
<1>5. s \in Surjection(D, Proc)
  BY <1>1, <1>3, <1>4, FS_Injection DEF N
<1>6. \A p \in Proc : \E i \in D : s[i] = p
  BY <1>5 DEF Surjection
<1>7. Len(s) = N
  BY <1>1, <1>2
<1>8. QED BY <1>1, <1>2, <1>6, <1>7 DEF N

LEMMA InitOrder ==
  ASSUME Init
  PROVE  Order
<1> DEFINE N == Cardinality(Proc)
           D == 1 .. N
<1>1. PICK s \in SetToSeqs(Proc) :
        /\ slpque = [b \in Bucket |-> NULL]
        /\ runq = s[1]
        /\ link = [p \in AllProc |->
              IF \E i \in 2 .. Len(s) : s[i - 1] = p
              THEN s[CHOOSE i \in 2 .. Len(s) : s[i - 1] = p] ELSE NULL]
        /\ wchan = [p \in AllProc |-> NULL]
        /\ stat = [p \in AllProc |-> "SRUN"]
        /\ runout = FALSE /\ runrun = FALSE /\ onq = FALSE
        /\ hung = FALSE /\ cur = Sched /\ leaving = FALSE
  BY DEF Init
<1>2. /\ N \in Nat \ {0} /\ Len(s) = N /\ s \in [D -> Proc]
      /\ \A i, j \in D : s[i] = s[j] => i = j
      /\ \A p \in Proc : \E i \in D : s[i] = p
  BY Lined
<1> HIDE DEF N
<1>3. \A j \in D : link[s[j]] = IF j = N THEN NULL ELSE s[j + 1]
  <2>1. SUFFICES ASSUME NEW j \in D PROVE link[s[j]] = IF j = N THEN NULL ELSE s[j + 1]
    OBVIOUS
  <2>2. s[j] \in AllProc /\ s[j] \in Proc
    BY <1>2, <2>1, SchedFacts
  <2>3. \A i \in 2 .. N : i - 1 \in D /\ (s[i - 1] = s[j] <=> i = j + 1)
    <3>1. \A i \in 2 .. N : i - 1 \in D
      BY <1>2
    <3>2. ASSUME NEW i \in 2 .. N, s[i - 1] = s[j] PROVE i = j + 1
      <4>1. i - 1 = j
        BY <1>2, <2>1, <3>1, <3>2
      <4>2. QED BY <1>2, <2>1, <4>1
    <3>3. ASSUME NEW i \in 2 .. N, i = j + 1 PROVE s[i - 1] = s[j]
      <4>1. i - 1 = j
        BY <1>2, <2>1, <3>3
      <4>2. QED BY <4>1
    <3>4. QED BY <3>1, <3>2, <3>3
  <2>4. link[s[j]] = IF \E i \in 2 .. N : s[i - 1] = s[j]
                     THEN s[CHOOSE i \in 2 .. N : s[i - 1] = s[j]] ELSE NULL
    BY <1>1, <1>2, <2>2
  <2>5. CASE j = N
    <3>1. ~ \E i \in 2 .. N : s[i - 1] = s[j]
      BY <1>2, <2>3, <2>5
    <3>2. QED BY <2>4, <2>5, <3>1
  <2>6. CASE j # N
    <3>1. j + 1 \in 2 .. N
      BY <1>2, <2>1, <2>6
    <3>2. \E i \in 2 .. N : s[i - 1] = s[j]
      BY <2>3, <3>1
    <3>3. PICK n : n = CHOOSE i \in 2 .. N : s[i - 1] = s[j]
      OBVIOUS
    <3>4. n \in 2 .. N /\ s[n - 1] = s[j]
      BY <3>2, <3>3
    <3>5. n = j + 1
      BY <2>3, <3>4
    <3>6. QED BY <2>4, <2>6, <3>2, <3>3, <3>5
  <2>7. QED BY <2>5, <2>6
<1> DEFINE f == [p \in AllProc |-> IF p = Sched THEN 0 ELSE CHOOSE i \in D : s[i] = p]
<1>4. \A p \in Proc : f[p] \in D /\ s[f[p]] = p
  <2>1. SUFFICES ASSUME NEW p \in Proc PROVE f[p] \in D /\ s[f[p]] = p
    OBVIOUS
  <2>2. f[p] = CHOOSE i \in D : s[i] = p
    BY SchedFacts
  <2> HIDE DEF f
  <2>3. \E i \in D : s[i] = p
    BY <1>2
  <2>4. QED BY <2>2, <2>3
<1>5. f[Sched] = 0 /\ DOMAIN f = AllProc /\ f = [p \in AllProc |-> f[p]]
  BY SchedFacts
<1> HIDE DEF f
<1>6. \A p \in AllProc : p \in Proc \/ p = Sched
  BY DEF AllProc
<1>7. Ranks(f)
  <2>1. f \in [AllProc -> Int]
    BY <1>2, <1>4, <1>5, <1>6
  <2>2. \A x, y \in AllProc : f[x] = f[y] => x = y
    <3>1. \A x \in Proc : f[x] # 0
      BY <1>2, <1>4
    <3>2. QED BY <1>4, <1>5, <1>6, <3>1
  <2>3. \A x \in AllProc : f[x] \in Int /\ 0 <= f[x]
    <3>1. \A x \in Proc : f[x] \in Int /\ 0 <= f[x]
      BY <1>2, <1>4
    <3>2. QED BY <1>5, <1>6, <3>1
  <2>4. PICK lo \in Int : lo = 0 - 1
    OBVIOUS
  <2>5. \A x \in AllProc : lo < f[x]
    BY <2>3, <2>4
  <2>6. QED BY <2>1, <2>2, <2>5 DEF Ranks
<1>8. Thread(f, link, runq, Proc)
  <2>1. 1 \in D /\ runq = s[1] /\ s[1] \in Proc /\ s[1] # NULL
    BY <1>1, <1>2, ProcFacts
  <2>2. \A j \in D : f[s[j]] = j
    BY <1>2, <1>4
  <2>3. \A z \in Proc : 1 <= f[z] /\ f[z] <= N /\ f[z] \in Int
    BY <1>2, <1>4
  <2>4. ASSUME NEW x \in Proc, link[x] = NULL PROVE \A z \in Proc : f[z] <= f[x]
    <3>1. f[x] \in D /\ s[f[x]] = x
      BY <1>4
    <3>2. f[x] = N
      <4>1. SUFFICES ASSUME f[x] # N PROVE FALSE
        OBVIOUS
      <4>2. f[x] + 1 \in D /\ s[f[x] + 1] = NULL
        BY <1>2, <1>3, <2>4, <3>1, <4>1
      <4>3. QED BY <1>2, <4>2, ProcFacts
    <3>3. QED BY <2>3, <3>2
  <2>5. ASSUME NEW x \in Proc, link[x] # NULL
        PROVE  /\ link[x] \in Proc /\ f[x] < f[link[x]]
               /\ \A z \in Proc : f[z] <= f[x] \/ f[link[x]] <= f[z]
    <3>1. f[x] \in D /\ s[f[x]] = x
      BY <1>4
    <3>2. f[x] # N /\ link[x] = s[f[x] + 1]
      BY <1>3, <2>5, <3>1
    <3>3. f[x] + 1 \in D
      BY <1>2, <3>1, <3>2
    <3>4. link[x] \in Proc /\ f[link[x]] = f[x] + 1
      BY <1>2, <2>2, <3>2, <3>3
    <3>5. QED BY <2>3, <3>4
  <2>6. \A z \in Proc : f[runq] <= f[z]
    BY <2>1, <2>2, <2>3
  <2>7. QED BY <2>1, <2>4, <2>5, <2>6 DEF Thread
<1>9. /\ Q.slpque = slpque /\ Q.runq = runq /\ Q.link = link /\ Q.wchan = wchan
      /\ Q.stat = stat /\ Q.onq = onq /\ Q.hung = hung
  BY QIs
<1>10. Q \in Queues
  <2>1. link \in [AllProc -> AllProc \cup {NULL}]
    <3>1. \A x \in Proc : link[x] \in Proc \cup {NULL}
      BY <1>8 DEF Thread
    <3>2. \A i \in 2 .. N : s[i - 1] # Sched
      <4>1. \A i \in 2 .. N : i - 1 \in D
        BY <1>2
      <4>2. QED BY <1>2, <4>1, SchedFacts
    <3>3. link[Sched] = NULL
      BY <1>1, <1>2, <3>2, SchedFacts
    <3>4. DOMAIN link = AllProc /\ link = [x \in AllProc |-> link[x]]
      BY <1>1
    <3>5. \A x \in AllProc : link[x] \in AllProc \cup {NULL}
      BY <1>6, <3>1, <3>3, SchedFacts
    <3>6. QED BY <3>4, <3>5
  <2>2. runq \in AllProc \cup {NULL}
    BY <1>1, <1>2, SchedFacts
  <2>3. /\ slpque \in [Bucket -> AllProc \cup {NULL}]
        /\ wchan \in [AllProc -> AllChan \cup {NULL}]
        /\ stat \in [AllProc -> {"SRUN", "SSLEEP", "SSTOP"}]
        /\ runout \in BOOLEAN /\ runrun \in BOOLEAN /\ onq \in BOOLEAN /\ hung \in BOOLEAN
    BY <1>1
  <2>4. QED BY <2>1, <2>2, <2>3 DEF Q, Queues
<1>11. Off = {Sched} /\ Ready(Q, Off) = Proc /\ \A b \in Bucket : Asleep(Q, b) = {}
  <2>1. Off = {Sched}
    BY <1>1, ProcFacts DEF Off
  <2>2. \A x \in AllProc : Q.stat[x] = "SRUN" /\ Q.wchan[x] = NULL
    BY <1>1, <1>9
  <2>3. QED BY <2>1, <2>2, SchedFacts, <1>6 DEF Ready, Asleep
<1>12. Tidy(Q, Off, f)
  <2>1. \A b \in Bucket : Thread(f, Q.link, Q.slpque[b], Asleep(Q, b))
    BY <1>1, <1>9, <1>11 DEF Thread
  <2>2. Thread(f, Q.link, Q.runq, Ready(Q, Off))
    BY <1>8, <1>9, <1>11
  <2>3. \A x \in AllProc : Q.wchan[x] = NULL /\ Q.stat[x] # "SSLEEP"
    BY <1>1, <1>9
  <2>4. Off \subseteq AllProc /\ \A x \in Proc : Q.wchan[x] # RunOut
    BY <1>11, <2>3, SchedFacts
  <2>5. ~ Q.onq /\ ~ Q.hung
    BY <1>1, <1>9
  <2>6. QED BY <1>7, <1>10, <2>1, <2>2, <2>3, <2>4, <2>5 DEF Tidy
<1>13. cur # NULL /\ stat[cur] = "SRUN"
  BY <1>1, ProcFacts
<1>14. QED BY <1>12, <1>13 DEF Order, Ordered

LEMMA InitImages ==
  ASSUME Init
  PROVE  core \in Nat /\ Images
<1> DEFINE N == Cardinality(Proc)
<1>1. PICK s \in SetToSeqs(Proc) :
        /\ sload = [p \in AllProc |->
              p = Sched \/ \E i \in 1 .. Core : i \in DOMAIN s /\ s[i] = p]
        /\ pc = [p \in AllProc |-> IF p = Sched THEN "scan" ELSE "run"]
        /\ core = IF Core > Len(s) THEN Core - Len(s) ELSE 0
  BY DEF Init
<1>2. /\ N \in Nat \ {0} /\ Len(s) = N /\ s \in [1 .. N -> Proc]
      /\ \A i, j \in 1 .. N : s[i] = s[j] => i = j
  BY Lined
<1> HIDE DEF N
<1>3. Core \in Nat
  BY SchedFacts
<1>4. PICK M : M = IF Core > N THEN N ELSE Core
  OBVIOUS
<1>5. M \in Nat /\ core \in Nat /\ core + M = Core
      /\ (\A i \in 1 .. Core : i \in 1 .. N => i \in 1 .. M)
      /\ (\A i \in 1 .. M : i \in 1 .. Core /\ i \in 1 .. N)
  BY <1>1, <1>2, <1>3, <1>4
<1>6. \A p \in Proc : sload[p] <=> \E i \in 1 .. M : s[i] = p
  <2>1. DOMAIN s = 1 .. N
    BY <1>2
  <2>2. ASSUME NEW p \in Proc
        PROVE  sload[p] <=> \E i \in 1 .. Core : i \in 1 .. N /\ s[i] = p
    <3>1. p \in AllProc /\ p # Sched
      BY SchedFacts
    <3>2. sload[p] = (p = Sched \/ \E i \in 1 .. Core : i \in DOMAIN s /\ s[i] = p)
      BY <1>1, <3>1
    <3>3. QED BY <2>1, <3>1, <3>2
  <2>3. QED BY <1>5, <2>2
<1>7. Cardinality(InCore) = M
  <2> DEFINE h == [i \in 1 .. M |-> s[i]]
  <2>1. h \in [1 .. M -> InCore]
    BY <1>2, <1>5, <1>6 DEF InCore
  <2>2. \A i, j \in 1 .. M : h[i] = h[j] => i = j
    BY <1>2, <1>5
  <2>3. \A p \in InCore : \E i \in 1 .. M : h[i] = p
    BY <1>6 DEF InCore
  <2> HIDE DEF h
  <2>4. h \in Bijection(1 .. M, InCore)
    BY <2>1, <2>2, <2>3 DEF Bijection, Injection, Surjection, IsInjective
  <2>5. ExistsBijection(1 .. M, InCore)
    BY <2>4 DEF ExistsBijection
  <2>6. IsFiniteSet(1 .. M) /\ Cardinality(1 .. M) = M
    BY <1>5, FS_Interval
  <2>7. QED BY <2>5, <2>6, FS_Bijection
<1>8. sload[Sched] /\ pc[Sched] = "scan"
  BY <1>1, SchedFacts
<1>9. core + Cardinality(InCore) + Moving = Core
  BY <1>5, <1>7, <1>8 DEF Moving
<1>10. QED BY <1>5, <1>8, <1>9 DEF Images, SchedPC

LEMMA InitInv == Init => Inv
<1> SUFFICES ASSUME Init PROVE Inv
  OBVIOUS
<1>1. Order /\ Images /\ core \in Nat
  BY InitOrder, InitImages
<1>2. /\ wchan = [p \in AllProc |-> NULL] /\ stat = [p \in AllProc |-> "SRUN"]
      /\ pri = [p \in AllProc |-> IF p = Sched THEN PSWP ELSE PUSER]
      /\ sig = [p \in Proc |-> FALSE] /\ runin = FALSE /\ curpri = PSWP /\ cur = Sched
      /\ leaving = FALSE /\ pc = [p \in AllProc |-> IF p = Sched THEN "scan" ELSE "run"]
      /\ chosen = NULL /\ swapio = "none"
  BY DEF Init
<1>3. sload \in [AllProc -> BOOLEAN]
  <2>1. PICK s : sload = [p \in AllProc |->
                   p = Sched \/ \E i \in 1 .. Core : i \in DOMAIN s /\ s[i] = p]
    BY DEF Init
  <2>2. \A p \in AllProc :
          (p = Sched \/ \E i \in 1 .. Core : i \in DOMAIN s /\ s[i] = p) \in BOOLEAN
    OBVIOUS
  <2>3. QED BY <2>1, <2>2
<1>4. OtherTypes
  BY <1>1, <1>2, <1>3, SchedFacts DEF OtherTypes
<1>5. SchedHasWork /\ NoSignalLost
  BY <1>2, SchedFacts DEF SchedHasWork, NoSignalLost
<1>6. QED BY <1>1, <1>4, <1>5 DEF Inv

-----------------------------------------------------------------------------
(* The invariant says what the properties say.                             *)
LEMMA InvTypes == Inv => TypeOK
<1> SUFFICES ASSUME Inv PROVE TypeOK
  OBVIOUS
<1>1. Q \in Queues /\ Ordered(Q, Off)
  BY InvFacts DEF Inv, Order
<1>2. /\ Q.slpque \in [Bucket -> AllProc \cup {NULL}] /\ Q.runq \in AllProc \cup {NULL}
      /\ Q.link \in [AllProc -> AllProc \cup {NULL}]
      /\ Q.wchan \in [AllProc -> AllChan \cup {NULL}]
      /\ Q.stat \in [AllProc -> {"SRUN", "SSLEEP", "SSTOP"}]
      /\ Q.runout \in BOOLEAN /\ Q.runrun \in BOOLEAN
      /\ Q.onq \in BOOLEAN /\ Q.hung \in BOOLEAN
  BY <1>1, QueuesFacts
<1>3. core \in 0 .. Core
  <2>1. core \in Nat /\ core + Cardinality(InCore) + Moving = Core /\ Moving \in {0, 1}
    BY DEF Inv, OtherTypes, Images, Moving
  <2>2. QED BY <2>1, InCoreFacts, SchedFacts
<1>4. {runout, runin, runrun, onq, hung, leaving} \subseteq BOOLEAN
  BY <1>2, QIs DEF Inv, OtherTypes
<1>5. QED BY <1>2, <1>3, <1>4, QIs DEF Inv, OtherTypes, TypeOK

LEMMA InvQueues == Inv => QueuesOK
<1> SUFFICES ASSUME Inv PROVE QueuesOK
  OBVIOUS
<1>1. PICK f : Tidy(Q, Off, f)
  BY DEF Inv, Order, Ordered
<1>2. \A p \in AllProc : p \in Off <=> p = cur /\ ~ leaving
  BY ProcFacts DEF Off
<1>3. \A p \in AllProc : wchan[p] # NULL <=> stat[p] = "SSLEEP"
  <2>1. \A p \in AllProc \ Off : wchan[p] # NULL <=> stat[p] = "SSLEEP"
    BY <1>1, QIs DEF Tidy
  <2>2. \A p \in AllProc : p \in Off => wchan[p] = NULL /\ stat[p] = "SRUN"
    BY <1>1, <1>2, QIs, ProcFacts DEF Tidy, Inv, Order
  <2>3. QED BY <2>1, <2>2
<1>4. ASSUME NEW b \in Bucket
      PROVE  /\ OnChain(b) = {p \in AllProc : wchan[p] # NULL /\ Hash[wchan[p]] = b}
             /\ Ends(slpque[b])
  <2>1. Thread(f, link, slpque[b], Asleep(Q, b)) /\ Ranks(f)
    BY <1>1, QIs DEF Tidy
  <2>2. Asleep(Q, b) \subseteq AllProc
    BY DEF Asleep
  <2>3. On(link, slpque[b]) = Asleep(Q, b) /\ Met(link, slpque[b])[NPROC + 1] = NULL
    BY <2>1, <2>2, MetIs
  <2>4. QED BY <2>3, QIs DEF OnChain, Ends, Asleep
<1>5. OnRunq = Ready(Q, Off) /\ Ends(runq)
  <2>1. Thread(f, link, runq, Ready(Q, Off)) /\ Ranks(f)
    BY <1>1, QIs DEF Tidy
  <2>2. Ready(Q, Off) \subseteq AllProc
    BY DEF Ready
  <2>3. On(link, runq) = Ready(Q, Off) /\ Met(link, runq)[NPROC + 1] = NULL
    BY <2>1, <2>2, MetIs
  <2>4. QED BY <2>3 DEF OnRunq, Ends
<1>6. \A p \in AllProc : p \in OnRunq <=> stat[p] = "SRUN" /\ (p # cur \/ leaving)
  BY <1>2, <1>5, QIs DEF Ready
<1>7. OnRunq \subseteq AllProc
  BY <1>5 DEF Ready
<1>8. ~ onq
  BY <1>1, QIs DEF Tidy
<1>9. QED BY <1>3, <1>4, <1>5, <1>6, <1>7, <1>8, InvTypes DEF QueuesOK, EntersRunQueue

LEMMA Invariance ==
  ASSUME RunOutAlone
  PROVE  Spec => []Inv
<1>1. Inv /\ [Next]_vars => Inv'
  BY StepOK
<1>2. QED BY <1>1, InitInv, PTL DEF Spec

(* Every chain of slpque holds exactly the processes that sleep on a       *)
(* channel of its hash value, runq exactly those that wait for the         *)
(* processor, and each list ends: sleep, wakeup, setrq and swtch never mix *)
(* the lists that the one p_link threads, though wakeup calls setrun,      *)
(* which calls wakeup again, in the middle of its walk.                    *)
THEOREM QueuesInOrder ==
  ASSUME RunOutAlone
  PROVE  Spec => []QueuesOK
BY Invariance, InvQueues, PTL

(* sched never sleeps on &runout while a process that could run is out of  *)
(* core, and when it sleeps on &runout or &runin the flag is set that      *)
(* makes setrun, clock and swtch wake it.                                  *)
THEOREM SchedIsTold ==
  ASSUME RunOutAlone
  PROVE  Spec => []SchedHasWork
<1>1. Inv => SchedHasWork
  BY DEF Inv
<1>2. QED BY <1>1, Invariance, PTL

(* No process sleeps at a priority above PZERO with a signal pending:      *)
(* issig before the sleep and setrun in psignal leave no gap.              *)
THEOREM SignalsReach ==
  ASSUME RunOutAlone
  PROVE  Spec => []NoSignalLost
<1>1. Inv => NoSignalLost
  BY DEF Inv
<1>2. QED BY <1>1, Invariance, PTL

(* A step that ends the sleep of one process on a channel ends the sleep   *)
(* of every process on it.                                                 *)
THEOREM WakeupIsComplete ==
  ASSUME RunOutAlone
  PROVE  Spec => WakesAll
<1>1. Inv /\ [Next]_vars => [WakesStep]_vars
  BY StepOK
<1>2. [WakesStep]_vars <=>
        [\A c \in AllChan :
           (\E p \in AllProc : wchan[p] = c /\ wchan'[p] # c)
              => \A p \in AllProc : wchan'[p] # c]_vars
  BY DEF WakesStep
<1>3. QED BY <1>1, <1>2, Invariance, PTL DEF Spec, WakesAll

(* The walk of wakeup along a chain always comes to its end: the processor *)
(* never stays at spl6 in the loop, whatever setrun does to the links on   *)
(* the way.                                                                *)
THEOREM WakeupEnds ==
  ASSUME RunOutAlone
  PROVE  Spec => []~ hung
<1>1. Inv => ~ hung
  <2>1. SUFFICES ASSUME Inv PROVE ~ hung
    OBVIOUS
  <2>2. PICK f : Tidy(Q, Off, f)
    BY <2>1 DEF Inv, Order, Ordered
  <2>3. QED BY <2>2, QIs DEF Tidy
<1>2. QED BY <1>1, Invariance, PTL
=============================================================================
